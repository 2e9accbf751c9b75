SPECIFICATION SpecSemUsuario
CONSTANTS
    ContextTurns = 2
    Cooldown = 1
    TamMarcador = 2
    UserContexts = {"vaga"}
    MaxTurnos = 3
    MaxTrocas = 2
    MaxPedacos = 2
    MaxBrancos = 0
    MaxTempo = 2
INVARIANTS
    MarcadorNaoPisca
    ContextoSoDoPassado
    CotaLimitada
