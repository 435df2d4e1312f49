SPECIFICATION FeedSpec
CONSTANTS
    Prices = {9, 10, 15}
    Quantities = {0, 1, 10}
    MaxLevels = 2
    MaxUpdateId = 3
    SnapshotVectors <- MCSnapshotVectors
    Deltas <- MCDeltas
    None = None
    NonDigit = NonDigit
    MaxWord = 15
    FractionDigits = 1
    Frames <- MCFrames
    MinimumPrice = 9
    PriceCount = 2
INVARIANTS
    TypeOK
    BookIsLadder
    LevelsSorted
    AgreeWhileValid
