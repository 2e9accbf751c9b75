SPECIFICATION FairSpec
CONSTANTS
    MaxQueue = 2
    MaxTurnos = 4
    MaxThreads = 3
INVARIANTS
    UmaThread
    DrenoCompleto
PROPERTIES
    CumpreAFila
    TodoTurnoSai
    PrimeiroStopRetorna
CHECK_DEADLOCK FALSE
