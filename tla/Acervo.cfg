SPECIFICATION Spec
CONSTANTS
    Threads = {"processor", "ui"}
    MaxSessoes = 2
    MaxLote = 2
    MaxChamadas = 3
INVARIANTS
    SemOrfaos
    CadaUmComSeuId
PROPERTY CumpreAMemoria
