\* The default data set of the script.
SPECIFICATION Spec
CONSTANTS
    Parameters <- SampleC
    Graphs = {"azimu", "candidate"}
    Places = {0, 3}
    Shifts = {0}
    Bits = 5
    MaxPatterns = 13
INVARIANTS
    RadiusIsPattern
