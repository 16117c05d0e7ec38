\* Up to three rings in the plane are merged; up to four results are collected.
SPECIFICATION MCSpec
CONSTANTS
    Coords = {0, 2, 3}
    Radii = {1, 4}
    Threshold = 3
    MaxRings = 3
    Unit <- ThreeRings
    Images = {0, 1, 2, 4}
    Counts = {0, 2, 3, 4}
    RingCounts = {1, 2, 3}
    MaxCount = 3
    FirstRoom = 3
    MaxResults = 4
INVARIANTS
    EachRingOnce
    ResidualOnlyByMoving
    ListsComplete
    CopyInsideBlock
    TableLargeEnough
PROPERTIES
    MergeTerminates
