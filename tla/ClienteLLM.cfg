SPECIFICATION ClienteFairSpec
CONSTANTS
    MaxTentativas = 3
    EsperaMaxima = 12
    RetryAfter <- MCRetryAfter
    MaxLinhas = 4
INVARIANT SoInsisteNoMinuto
PROPERTIES
    CumpreContrato
    SempreResponde
CHECK_DEADLOCK FALSE
