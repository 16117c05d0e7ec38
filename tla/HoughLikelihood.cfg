\* Three work-items, room for two records: the third hot pixel overruns.
\* No symmetry: two of the properties are temporal.
SPECIFICATION FairSpec
CONSTANTS
    Pixels = {p1, p2, p3}
    MaxCand = 2
    MaxImages = 2
INVARIANTS
    PublishedExact
    OverrunVisible
PROPERTIES
    EveryImagePublished
    ImplementsCandidateList
