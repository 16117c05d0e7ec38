SPECIFICATION Spec
CONSTANTS
    GroupX = 2
    GroupY = 2
    Shift = 1
    Half = 2
    Groups = 2
INVARIANTS
    WindowExact
