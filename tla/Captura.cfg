SPECIFICATION FairSpec
CONSTANTS
    MaxMicrofones = 1
    MaxInscricoes = 2
INVARIANTS
    UmaEntrega
    FonteCalada
    SemRestos
PROPERTY
    StopEncerra
CHECK_DEADLOCK FALSE
