SPECIFICATION Spec
CONSTANTS
    Writers = {w1, w2}
    MaxFrames = 2
    NoFile = NoFile
PROPERTY
    CompletedNotReplaced
