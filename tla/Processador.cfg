SPECIFICATION FairSpecOutrasCurtas
CONSTANTS
    Sessoes = {aula}
    MaxBlocos = 2
    MaxExecucoes = 2
    MaxQuedas = 1
INVARIANTS
    TranscricaoASalvo
    DoneCompleto
    CancelaLogo
    AvisoVerdadeiro
PROPERTY
    ExecucaoAvisa
