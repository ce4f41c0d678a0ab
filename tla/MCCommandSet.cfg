SPECIFICATION Spec
CONSTANTS
    v1Card = v1Card
    v2Card = v2Card
    v2Forged = v2Forged
    bareCard = bareCard
    None = None
    Cards = {v1Card, v2Card, v2Forged, bareCard}
    Kind <- KindOf
    Trusted = {v2Card}
    Records = {2, 3, 5}
    ChunkWords = 2
    P2Space = 3
INVARIANTS
    SelectMatches
    OpenWithItsCard
    InitReachesItsCard
    NDEFOnOneCard
PROPERTIES
    FailedSelectKeepsChannel
