\* Every list of up to three candidates of twelve, in every order.
SPECIFICATION FairSpec
CONSTANTS
    Positions <- MCPositions
    Contrasts = {1, 2, 3}
    MaxCand = 3
    RingStart = 5
    RingStep = 2
    Scale = 2
INVARIANTS
    SurvivorsApart
    StrictPeaksSurvive
    StrongestSurvives
PROPERTIES
    Terminates
