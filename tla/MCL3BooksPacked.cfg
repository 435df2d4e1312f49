SPECIFICATION Spec
CONSTANTS
    MaxQuantity = 2
    MinimumPrice = 10
    PriceCount = 4
    WordBits = 2
    AskBit = 8
    SmallestTable = 2
    Hash <- MCHash
    Events <- MCEvents
    MaximumLives = {1, 2}
CONSTRAINT InLadders
PROPERTY
    PackedRejectsBeforeMutation
