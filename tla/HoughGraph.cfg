\* Every small configuration of the radii; up to three images in every graph,
\* with queues of one buffer or two.
SPECIFICATION MCSpec
CONSTANTS
    Parameters <- SmallParameters
    Graphs = {"azimu", "candidate"}
    Places = {0, 3}
    Shifts <- MCShifts
    Bits = 5
    MaxPatterns = 13
    Large = 65536
    Wirings = {"azimu", "azimu2", "candidate", "likelihood", "hough", "contrast"}
    Numbers = {1, 2, 3}
    Patterns = 3
    StackSize = 2
    Capacities = {1, 2}
INVARIANTS
    RadiiExact
    StackIsFilled
    LineIsTheRing
    DimensionsAccepted
    ImagesNeverMix
PROPERTIES
    ImagesWritten
