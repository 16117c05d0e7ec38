\* The task's description read as a property of the code.
SPECIFICATION Spec
CONSTANTS
    Coords = {0, 9, 10}
    Radii = {1, 9, 11}
    Threshold = 10
    MaxRings = 3
    Unit <- ThreeRings
INVARIANTS
    UniqueList
