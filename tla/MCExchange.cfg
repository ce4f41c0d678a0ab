SPECIFICATION ExchangeSpec
CONSTANTS
    LcSpace = 16
    BlockLen = 5
    TagLen = 3
    Pins <- PinSet
    Puks <- PukSet
    MaxTries = 2
    Records <- RecordSet
    MaxRecord = 7
    Pieces = {0, 2}
    MaxCalls = 2
INVARIANTS
    ExecutedAsBuilt
    TellsCardsAnswer
PROPERTIES
    CallReturns
CHECK_DEADLOCK FALSE
