SPECIFICATION MergeSpec
CONSTANTS
    ReplayCapacity = 3
    MaxSequence = 5
INVARIANTS
    RecoveryTypeOK
    BookIsVenuePrefix
    LiveIsComplete
    BufferIsComplete
PROPERTIES
    
    MergesAtOnce
