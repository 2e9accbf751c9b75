SPECIFICATION WSpec
CONSTANTS
    ContextTurns = 1
    Cooldown = 0
    TamMarcador = 1
    UserContexts = {"vaga"}
    MaxTurnos = 1
    MaxTrocas = 2
    MaxPedacos = 1
    MaxBrancos = 0
    MaxTempo = 0
INVARIANTS
    CaixaDaVigente
    ObsoletaNaoVolta
    OrdemDasChamadas
PROPERTY
    NaoRessuscita
