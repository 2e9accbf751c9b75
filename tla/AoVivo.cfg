SPECIFICATION FairSpec
CONSTANTS
    MinChunk = 1
    MaxBuffer = 2
    ContextS = 2
    Tolerancia = 1
    Chaves = {"a", ""}
    Duracoes = {2, 3}
    MaxPalavras = 2
    MaxAudio = 5
    MaxFila = 2
    MaxTurnos = 2
INVARIANTS
    AudioDoSeuTurno
    SemRepeticao
    PendenteNoBuffer
PROPERTY
    NadaFicaPreso
CHECK_DEADLOCK FALSE
