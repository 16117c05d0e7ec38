\* Every task through two setups, with the values of init.
SPECIFICATION ObjectSpec
CONSTANTS
    Large = 65536
    Width = 18
    MaxSets = 0
    MaxRuns = 2
INVARIANTS
    ReleasesSucceed
