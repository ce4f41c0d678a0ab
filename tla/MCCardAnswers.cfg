SPECIFICATION ParsingSpec
CONSTANTS
    Base = 32
    Tags = {4, 5}
    TLV_BOOL = 1
    TLV_INT = 2
    Documents <- AllDocuments
    Foreign <- Buffers
    Order = 1021
    KeyLen = 2
    Tag <- Tagged
    Keys = {1, 40, 1020}
    Nonces = {5, 300, 1000}
    Digests = {3, 700}
INVARIANTS
    TypeOK
    InStep
    SignaturesRecover
    CertificatesVerify
    AnswersReadBack
PROPERTIES
    ReadsWhatWasWritten
