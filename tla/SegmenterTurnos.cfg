SPECIFICATION Spec
CONSTANTS
    WindowMs = 2
    WindowBytes = 2
    PreRollMs = 4
    EndSilenceMs = 6
    MinSpeechMs = 3
    MaxUtteranceMs = 12
    MargemMs = 3
    Blocos = {1, 2, 5}
    MaxJanelas = 9
INVARIANTS
    SemBuracos
    InicioExato
    TurnosDisjuntos
    AparaSoSilencio
