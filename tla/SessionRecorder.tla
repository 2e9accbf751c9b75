-------------------------- MODULE SessionRecorder --------------------------
(***************************************************************************)
(* modes/session/recorder.py: turns of a recording in, blocks of about     *)
(* block_seconds out, on a timeline of the session that leaves pauses out. *)
(* Every operation holds one lock from its first read to its last write.   *)
(*                                                                         *)
(* Audio is the number of the turn it came with; times are in seconds.  A  *)
(* turn may come with any times: the capture's own clock never stops, and  *)
(* two sources would each have their own.  A definition marked (variant)   *)
(* is the next one with a mistake in it; no action uses it.                *)
(***************************************************************************)
EXTENDS Integers, Sequences

CONSTANTS
    BlockSeconds,   \* block_seconds
    MaxTempo,       \* bound: the capture clock
    MaxTurnos       \* bound: turns received

ASSUME RecorderAssumption ==
    /\ BlockSeconds \in Nat \ {0}    \* __init__ raises otherwise
    /\ MaxTempo \in Nat
    /\ MaxTurnos \in Nat

VARIABLES
    session,            \* _session is not None
    paused,             \* _paused
    recalibrar,         \* _recalibrar: TRUE whenever _raw_offset is None
    raw_offset,         \* _raw_offset
    last_session_end,   \* _last_session_end
    bloco,              \* the block in progress: _bloco_*
    blocks,             \* _blocks
    recebidos,          \* history: turns received so far
    aceitos,            \* history: the turns of the session that were kept
    devolvidos,         \* history: the blocks of the session stop has returned
    retomou,            \* history: nothing was kept since the last start or resume
    emOrdem,            \* history: every turn began after the one before it
    ultimo_fim          \* history: where the last turn received ended

linha     == <<recalibrar, raw_offset, last_session_end>>
chegada   == <<recebidos, emOrdem, ultimo_fim>>
vars      == <<session, paused, linha, bloco, blocks, aceitos, devolvidos,
               retomou, chegada>>

\* _reset_bloco_atual; _bloco_contagem is the length of pcm.
BlocoVazio == [pcm |-> <<>>, inicio |-> 0, fim |-> 0, duracao |-> 0]

Init ==
    /\ session = FALSE /\ paused = FALSE
    /\ recalibrar = TRUE /\ raw_offset = 0 /\ last_session_end = 0
    /\ bloco = BlocoVazio /\ blocks = <<>>
    /\ recebidos = 0 /\ emOrdem = TRUE /\ ultimo_fim = 0
    /\ aceitos = <<>> /\ devolvidos = <<>> /\ retomou = TRUE

\* start: whatever an earlier recording left behind is dropped.
Start ==
    /\ session' = TRUE /\ paused' = FALSE
    /\ recalibrar' = TRUE /\ raw_offset' = 0 /\ last_session_end' = 0
    /\ bloco' = BlocoVazio /\ blocks' = <<>>
    /\ aceitos' = <<>> /\ devolvidos' = <<>> /\ retomou' = TRUE
    /\ UNCHANGED chegada

Pause ==
    /\ paused' = TRUE
    /\ UNCHANGED <<session, linha, bloco, blocks, aceitos, devolvidos, retomou,
                   chegada>>

\* (variant) the gap of the pause stays in.
SemRecalibrar == recalibrar
Recalibrar    == TRUE

Resume ==
    /\ paused' = FALSE
    /\ recalibrar' = Recalibrar
    /\ retomou' = TRUE
    /\ UNCHANGED <<session, raw_offset, last_session_end, bloco, blocks, aceitos,
                   devolvidos, chegada>>

\* _fechar_bloco on block b: nothing to close if it holds no audio.
FecharBloco(b, lista) ==
    IF b.pcm = <<>> THEN lista
    ELSE Append(lista, [pcm |-> b.pcm, started_at |-> b.inicio, ended_at |-> b.fim])

\* The clamps of add: the timeline never runs backwards.
\* (variant) they are missing.
Solto(inicio, fim)   == [inicio |-> inicio, fim |-> fim]
Travado(inicio, fim) ==
    LET i == IF inicio > last_session_end THEN inicio ELSE last_session_end
    IN  [inicio |-> i, fim |-> IF fim > i THEN fim ELSE i]

Cheio(duracao) == duracao >= BlockSeconds

\* add, once the turn is known to have audio, a session and no pause.
Guardar(n, a, b) ==
    LET offset == IF recalibrar THEN a - last_session_end ELSE raw_offset
        t      == Travado(a - offset, b - offset)
        novo   == [pcm     |-> Append(bloco.pcm, n),
                   inicio  |-> IF bloco.pcm = <<>> THEN t.inicio ELSE bloco.inicio,
                   fim     |-> t.fim,
                   duracao |-> bloco.duracao + (t.fim - t.inicio)]
    IN  /\ raw_offset' = offset
        /\ recalibrar' = FALSE
        /\ last_session_end' = t.fim
        /\ aceitos' = Append(aceitos, [turno |-> n, raw |-> [inicio |-> a, fim |-> b],
                                       sessao |-> t, ancora |-> retomou])
        /\ retomou' = FALSE
        /\ \/ /\ Cheio(novo.duracao)
              /\ blocks' = FecharBloco(novo, blocks)
              /\ bloco' = BlocoVazio
           \/ /\ ~Cheio(novo.duracao)
              /\ bloco' = novo
              /\ UNCHANGED blocks
        /\ UNCHANGED <<session, paused, devolvidos>>

Add(a, b) ==
    /\ recebidos < MaxTurnos
    /\ recebidos' = recebidos + 1
    /\ emOrdem' = (emOrdem /\ a >= ultimo_fim)
    /\ ultimo_fim' = b
    /\ \/ session /\ ~paused /\ Guardar(recebidos', a, b)
       \/ /\ ~session \/ paused
          /\ UNCHANGED <<session, paused, linha, bloco, blocks, aceitos, devolvidos,
                          retomou>>

\* stop hands over the blocks.  The session stays: a turn that comes later
\* opens a block again.
\* (variant) the block in progress is forgotten.
SoFechados == blocks
ComOAberto == FecharBloco(bloco, blocks)

Stop ==
    /\ devolvidos' = devolvidos \o ComOAberto
    /\ blocks' = <<>>
    /\ bloco' = BlocoVazio
    /\ UNCHANGED <<session, paused, linha, aceitos, retomou, chegada>>

Next ==
    \/ Start \/ Pause \/ Resume \/ Stop
    \/ \E a, b \in 0..MaxTempo : a < b /\ Add(a, b)

Spec == Init /\ [][Next]_vars

-----------------------------------------------------------------------------
\* Every block of the session, the one in progress last.
TodosOsBlocos == devolvidos \o FecharBloco(bloco, blocks)

\* No turn is split, lost, repeated or moved: the blocks hold exactly the turns
\* that were kept, each once and in the order they came (turns are numbered as they
\* come), whatever pauses and stops there were.
TudoNosBlocos ==
    LET B == TodosOsBlocos
        Turnos(i) == {B[i].pcm[k] : k \in 1..Len(B[i].pcm)}
    IN  /\ UNION {Turnos(i) : i \in 1..Len(B)}
              = {aceitos[k].turno : k \in 1..Len(aceitos)}
        /\ \A i, j \in 1..Len(B) : i < j =>
               \A m \in Turnos(i), n \in Turnos(j) : m < n
        /\ \A i \in 1..Len(B) : \A k, l \in 1..Len(B[i].pcm) :
               k < l => B[i].pcm[k] < B[i].pcm[l]

\* "um turno fora de ordem nao pode corromper a linha do tempo": whatever times
\* the turns come with, blocks follow each other without overlap, and two blocks
\* of one hand-over never begin together, so list_segments keeps their order.
LinhaDoTempo ==
    LET B == TodosOsBlocos
    IN  /\ \A i \in 1..Len(B) : B[i].started_at <= B[i].ended_at
        /\ \A i, j \in 1..Len(B) : i < j => B[i].ended_at <= B[j].started_at
        /\ \A i, j \in 1..Len(blocks) :
               i < j => blocks[i].started_at < blocks[j].started_at

\* "O hiato da pausa nao entra na linha do tempo", and nothing else is left out:
\* as long as the turns come in order, a turn lasts in the session what it lasted
\* in the capture, silence between two turns of one stretch is kept exactly, and
\* the first turn after a pause follows the last one before it at once.
RelogioFiel ==
    emOrdem =>
      \A k \in 1..Len(aceitos) :
        LET t == aceitos[k]
            anterior == aceitos[k - 1]
        IN  /\ t.sessao.fim - t.sessao.inicio = t.raw.fim - t.raw.inicio
            /\ k > 1 => t.sessao.inicio - anterior.sessao.fim =
                          IF t.ancora THEN 0 ELSE t.raw.inicio - anterior.raw.fim
=============================================================================
