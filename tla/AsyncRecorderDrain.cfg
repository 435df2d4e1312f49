SPECIFICATION Spec
CONSTANTS
    QueueCapacity = 2
    MaxInbound = 3
    Others = {}
    OtherFrames = 0
    NoFile = NoFile
INVARIANT
    NoFrameLostOnClose
