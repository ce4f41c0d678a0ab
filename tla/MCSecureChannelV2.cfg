SPECIFICATION FairSpec
CONSTANTS
    c1 = c1
    c2 = c2
    i1 = i1
    i2 = i2
    None = None
    Commands = {c1, c2}
    Idents = {i1, i2}
    Trusted = {i1}
    NonceSpace = 2
    MaxHandshakes = 2
INVARIANTS
    NonceNeverReused
    AnswersOwnCommand
    OnlyLastInDoubt
    LockStep
    AuthenticatedPeer
PROPERTIES
    ReopensFresh
    ImplementsSecureSession
    CallReturns
