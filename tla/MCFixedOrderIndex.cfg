SPECIFICATION FairSpec
CONSTANTS
    Ids <- MCIds
    Values = {1, 2}
    MaxLive = 3
    Capacity = 8
    Homes <- MCHomes
INVARIANTS
    TypeOK
    ProbeChain
    SizeCounts
    FindAgrees
PROPERTIES
    MapSpec
    EraseReturns
