SPECIFICATION Spec
CONSTANTS
    c1 = c1
    c2 = c2
    None = None
    Authenticate = Authenticate
    Commands = {c1, c2}
    MaxHandshakes = 2
    MaxExchanges = 3
INVARIANTS
    LockStep
    OnlyLastInDoubt
    NoPlaintextAfterOpened
PROPERTIES
    ImplementsSecureSession
