SPECIFICATION FairSpec
CONSTANTS
    QueueCapacity = 2
    MaxInbound = 3
    Others = {other}
    OtherFrames = 1
    NoFile = NoFile
INVARIANTS
    TypeOK
    RecordedInOrder
    PublishedOnlyIfAllReceived
    SuccessIsPublished
    PublishedComplete
PROPERTY
    SessionEnds
