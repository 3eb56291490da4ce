CONSTANTS
    c1 = c1
    c2 = c2
    None = None
    LastTime = 2
    Offsets <- MCOffsets
    Ranks <- MCRanks
    Cameras <- MCCameras
    Filters <- MCFilters
    QueryLimit = 2
    ResultLimit = 1
    MaxStored = 3
SPECIFICATION Spec
PROPERTY
    EndTimeIncluded
