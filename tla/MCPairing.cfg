SPECIFICATION Spec
CONSTANTS
    PairingMaxClientCount = 3
    MaxPairings = 2
INVARIANTS
    PairingBacked
    OthersToldWhileOpen
    SlotLostOnlyWithAnswer
