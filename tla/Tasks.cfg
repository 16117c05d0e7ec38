\* Every task; two values set, before or between two setups.  The sizes of the
\* computations are scaled down: a fill of 8 pixels, rectangles of 4 to 9,
\* histograms of 9 bins.
SPECIFICATION MCSpec
CONSTANTS
    Units = {"combine", "label", "maxima", "blobs", "background", "rings", "peaks"}
    PlaneSize = 2
    MaxPlanes = 5
    MaxDepth = 7
    MinArea = 4
    MaxArea = 9
    MaxSkew = 1
    Levels = 7
    Rounds = 10
    ImageWidth = 24
    ImageHeight = 20
    HistLen = 9
    FitSize = 5
    Stacks <- MCStacks
    ClusterImages <- MCClusterImages
    MaximaImages <- MCMaximaImages
    OldBuffer <- MCOldBuffer
    Histograms <- MCHistograms
    RingInputs <- MCRingInputs
    Profiles <- MCProfiles
    BlobImages <- AllBlobs
    Large = 65536
    Width = 18
    MaxSets = 2
    MaxRuns = 2
INVARIANTS
    CombineExact
    LabelsSound
    MaximaOfThisImage
    BlobsLabelled
    BackgroundDefined
    RingsExact
    PeaksFound
    PropertiesIndependent
    ReferencesSound
    OneKernelPerRun
