\* Images of seven by four pixels in which three pairs of numbers meet.
SPECIFICATION Spec
CONSTANTS
    Units = {"blobs"}
    PlaneSize = 2
    MaxPlanes = 2
    MaxDepth = 7
    MinArea = 4
    MaxArea = 9
    MaxSkew = 1
    Levels = 7
    Rounds = 10
    ImageWidth = 24
    ImageHeight = 20
    HistLen = 9
    FitSize = 5
    Stacks <- MCStacks
    ClusterImages <- MCClusterImages
    MaximaImages <- MCMaximaImages
    OldBuffer <- MCOldBuffer
    Histograms <- MCHistograms
    RingInputs <- MCRingInputs
    Profiles <- MCProfiles
    BlobImages <- ThreePairs
INVARIANT
    DuplicatesJoined
