SPECIFICATION FairSpec
CONSTANTS
    DataLength = 5
    BlockSize = 2
    IndexSpace = 3
    MaxSessions = 2
    MaxChain = 6
INVARIANTS
    LoadedCompletely
    VerifiedIsPrefix
    OpenedInStep
PROPERTIES
    NeverPartlyPresent
    CallReturns
