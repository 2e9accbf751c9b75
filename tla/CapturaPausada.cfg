SPECIFICATION Spec
CONSTANTS
    MaxMicrofones = 1
    MaxInscricoes = 2
PROPERTY EscutaPausada
CHECK_DEADLOCK FALSE
