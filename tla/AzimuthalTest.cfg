\* Up to three rings at two places, two workers.
SPECIFICATION MCSpec
CONSTANTS
    None = None
    Workers = {w1, w2}
    Places = {1, 2}
    Contrasts = {1, 2, 3, 5}
    Findings <- MCFindings
    Scales = {1, 2}
    MaxCand = 3
    ThldLikelihood = 2
    ThldAzimu = 2
INVARIANTS
    FilterReadsTestedRings
    OutputIsDeterministic
    StrongerRingKept
PROPERTIES
    Returns
