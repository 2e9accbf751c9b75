SPECIFICATION Spec
CONSTANTS
    BlockSeconds = 2
    MaxTempo = 3
    MaxTurnos = 4
INVARIANTS
    TudoNosBlocos
    LinhaDoTempo
    RelogioFiel
