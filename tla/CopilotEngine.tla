--------------------------- MODULE CopilotEngine ---------------------------
(***************************************************************************)
(* The live-mode engine of modes/copilot/engine.py.                        *)
(*                                                                         *)
(* Two threads call into the engine: the transcription worker (ingest) and *)
(* the Tk thread (answer_last_turn, cancel, set_auto_answer, ...).  Every  *)
(* answer is generated by a daemon thread of its own, which reads          *)
(* _geracao_atual under the lock but calls back into the window after the  *)
(* lock is released.  Steps are split exactly where another thread can get *)
(* in between: at each lock, at each read of shared state, at each         *)
(* callback.                                                               *)
(*                                                                         *)
(* Data.  A turn is its position in the conversation and its two facts the *)
(* engine looks at (is it a question, is the user speaking).  The text of  *)
(* an answer is what the [IGNORAR] filter tells apart: the blanks it opens *)
(* with, how much of the marker follows them, and whether other text does. *)
(*                                                                         *)
(* A definition marked (variant) is the next one with a mistake in it.  No *)
(* action uses it: it is there to show which property would catch it.      *)
(***************************************************************************)
EXTENDS Integers, Sequences, FiniteSets

CONSTANTS
    ContextTurns,   \* EngineConfig.context_turns, the deque's maxlen
    Cooldown,       \* EngineConfig.cooldown_s, in ticks
    TamMarcador,    \* len(MARCADOR_IGNORAR)
    UserContexts,   \* values of EngineConfig.user_context
    MaxTurnos,      \* bound: turns of a conversation
    MaxTrocas,      \* bound: exchanges created
    MaxPedacos,     \* bound: chunks of one stream
    MaxBrancos,     \* bound: blanks an answer opens with
    MaxTempo        \* bound: clock

ASSUME EngineAssumption ==
    /\ ContextTurns \in Nat \ {0}
    /\ Cooldown \in Nat
    /\ TamMarcador \in Nat \ {0}
    /\ UserContexts # {}
    /\ {MaxTurnos, MaxTrocas, MaxPedacos, MaxBrancos, MaxTempo} \subseteq Nat

VARIABLES
    historico,        \* _historico: the turns kept as context
    ultimo_turno,     \* _ultimo_turno: 0 is ""
    auto_answer,      \* config.auto_answer
    user_context,     \* config.user_context
    ultima_resposta,  \* _ultima_resposta
    ids,              \* next value of the itertools.count
    geracao_atual,    \* _geracao_atual
    chamador,         \* where each calling thread is inside the engine
    estado,           \* where each generation thread is inside _gerar
    troca,            \* the Exchange objects
    agora,            \* time.monotonic()
    turnos,           \* the turns heard so far, as on_turn got them
    chamadas          \* the answer callbacks made so far, oldest first

config  == <<auto_answer, user_context>>
fala    == <<historico, ultimo_turno, turnos>>
relogio == <<ultima_resposta, agora>>
vars    == <<fala, config, relogio, ids, geracao_atual, chamador, estado,
             troca, chamadas>>

WORKER == "TranscriptionWorker"
UI     == "MainThread"
Chamadores == {WORKER, UI}
Ids    == 1..MaxTrocas

-----------------------------------------------------------------------------
(* The text of an answer and the [IGNORAR] filter.                         *)

Textos == [brancos: 0..MaxBrancos, marca: 0..TamMarcador, resto: BOOLEAN]
SemTexto == [brancos |-> 0, marca |-> 0, resto |-> FALSE]

\* What parcial may be once one more non-empty chunk has been joined to it.
Continuacoes(p) ==
    IF p.resto THEN {p}
    ELSE {q \in Textos \ {p} : /\ q.brancos >= p.brancos
                               /\ q.marca >= p.marca
                               /\ p.marca > 0 => q.brancos = p.brancos}

\* Held back: shorter than the marker, and could still become the marker.
\* (variant) off by one.
SeguraCurta(p) == ~p.resto /\ p.brancos + p.marca < TamMarcador - 1
Segura(p) == ~p.resto /\ p.brancos + p.marca < TamMarcador

\* parcial.strip().startswith(MARCADOR_IGNORAR)
EhMarcador(p) == p.marca = TamMarcador

\* not answer.strip()
EmBranco(p) == ~p.resto /\ p.marca = 0

-----------------------------------------------------------------------------
Turnos    == [pergunta: BOOLEAN, voce: BOOLEAN]
Livre     == [fase |-> "livre", pergunta |-> 0, auto |-> FALSE, id |-> 0]
SemTroca  == [pergunta |-> 0, auto |-> FALSE, parcial |-> SemTexto,
              answer |-> SemTexto, error |-> FALSE, ignored |-> FALSE,
              pedacos |-> 0, anteriores |-> <<>>, usuario |-> "", visto |-> 0]

Init ==
    /\ historico = <<>>
    /\ ultimo_turno = 0
    /\ auto_answer = TRUE
    /\ user_context \in UserContexts
    /\ ultima_resposta = 0
    /\ ids = 1
    /\ geracao_atual = 0
    /\ chamador = [c \in Chamadores |-> Livre]
    /\ estado = [g \in Ids |-> "nenhum"]
    /\ troca = [g \in Ids |-> SemTroca]
    /\ agora \in 0..MaxTempo    \* monotonic() counts from boot
    /\ turnos = <<>>
    /\ chamadas = <<>>

\* deque(maxlen=context_turns).append
Acrescenta(h, t) ==
    LET longo == Append(h, t)
    IN  IF Len(longo) > ContextTurns THEN Tail(longo) ELSE longo

-----------------------------------------------------------------------------
(* The calling threads.                                                    *)

\* ingest, up to on_turn.  A blank text returns before any change.  Only one
\* thread ingests, and no reader looks at two of these variables together.
Ingest(t) ==
    /\ chamador[WORKER].fase = "livre"
    /\ Len(turnos) < MaxTurnos
    /\ turnos' = Append(turnos, t)
    /\ historico' = Acrescenta(historico, Len(turnos'))
    /\ ultimo_turno' = Len(turnos')
    /\ chamador' = [chamador EXCEPT ![WORKER] =
                      [fase |-> "decidir", pergunta |-> Len(turnos'),
                       auto |-> TRUE, id |-> 0]]
    /\ UNCHANGED <<config, relogio, ids, geracao_atual, estado, troca, chamadas>>

\* _pode_responder_agora, without the write of _ultima_resposta.
\* (variant) no cooldown.
PodeSemEspera == auto_answer
PodeResponderAgora ==
    /\ auto_answer
    /\ Cooldown <= 0 \/ agora - ultima_resposta >= Cooldown

\* Bound: an id is left for every thread that is about to take one.
TemVaga == ids + Cardinality({c \in Chamadores : chamador[c].fase = "criar"})
             <= MaxTrocas

\* The condition at the end of ingest: the user's own questions are not answered.
Decidir ==
    LET c == chamador[WORKER]
        responde == /\ turnos[c.pergunta].pergunta
                    /\ ~turnos[c.pergunta].voce
                    /\ PodeResponderAgora
    IN  /\ c.fase = "decidir"
        /\ responde => TemVaga
        /\ chamador' = [chamador EXCEPT ![WORKER] =
                          IF responde THEN [c EXCEPT !.fase = "criar"] ELSE Livre]
        /\ ultima_resposta' = IF responde /\ Cooldown > 0 THEN agora
                                                          ELSE ultima_resposta
        /\ UNCHANGED <<fala, config, agora, ids, geracao_atual, estado, troca, chamadas>>

\* answer_last_turn reads _ultimo_turno and goes on to _responder.
AnswerLastTurn ==
    /\ chamador[UI].fase = "livre"
    /\ ultimo_turno # 0
    /\ TemVaga
    /\ chamador' = [chamador EXCEPT ![UI] =
                      [fase |-> "criar", pergunta |-> ultimo_turno,
                       auto |-> FALSE, id |-> 0]]
    /\ UNCHANGED <<fala, config, relogio, ids, geracao_atual, estado, troca, chamadas>>

\* itertools.count
\* (variant) the counter does not advance.
ProximoIdPreso == ids
ProximoId == ids + 1

\* _responder: the Exchange takes its id before the lock is held.
Criar(c) ==
    /\ chamador[c].fase = "criar"
    /\ ids <= MaxTrocas
    /\ troca' = [troca EXCEPT ![ids] = [@ EXCEPT !.pergunta = chamador[c].pergunta,
                                                 !.auto = chamador[c].auto]]
    /\ chamador' = [chamador EXCEPT ![c] = [@ EXCEPT !.fase = "publicar", !.id = ids]]
    /\ ids' = ProximoId
    /\ UNCHANGED <<fala, config, relogio, geracao_atual, estado, chamadas>>

\* _responder: the lock, then Thread.start.
Publicar(c) ==
    /\ chamador[c].fase = "publicar"
    /\ geracao_atual' = chamador[c].id
    /\ estado' = [estado EXCEPT ![chamador[c].id] = "iniciar"]
    /\ chamador' = [chamador EXCEPT ![c] = Livre]
    /\ UNCHANGED <<fala, config, relogio, ids, troca, chamadas>>

\* cancel, from the listening switch and from encerrar.
Cancel ==
    /\ chamador[UI].fase = "livre"
    /\ geracao_atual' = 0
    /\ UNCHANGED <<fala, config, relogio, ids, chamador, estado, troca, chamadas>>

SetAutoAnswer(ligado) ==
    /\ chamador[UI].fase = "livre"
    /\ auto_answer' = ligado
    /\ UNCHANGED <<fala, user_context, relogio, ids, geracao_atual, chamador,
                   estado, troca, chamadas>>

UpdateUserContext(texto) ==
    /\ chamador[UI].fase = "livre"
    /\ user_context' = texto
    /\ UNCHANGED <<fala, auto_answer, relogio, ids, geracao_atual, chamador,
                   estado, troca, chamadas>>

Tick ==
    /\ agora < MaxTempo
    /\ agora' = agora + 1
    /\ UNCHANGED <<fala, config, ultima_resposta, ids, geracao_atual, chamador,
                   estado, troca, chamadas>>

-----------------------------------------------------------------------------
(* The generation thread of exchange g: _gerar.                            *)

motor == <<fala, config, relogio, ids, geracao_atual, chamador>>

\* _vigente: one read of _geracao_atual under the lock.
\* (variant) not checked.
VigenteSempre(g) == TRUE
Vigente(g) == geracao_atual = g

\* _chamar: a callback of exchange g, with what the Exchange holds then.  The
\* log also keeps whether g was the live exchange at the time of the call.
Chama(tipo, g) ==
    chamadas' = Append(chamadas,
                       [tipo |-> tipo, troca |-> g, texto |-> troca[g].answer,
                        vigente |-> geracao_atual = g])

Passa(g, de, para) == estado[g] = de /\ estado' = [estado EXCEPT ![g] = para]

Iniciar(g) ==
    /\ Passa(g, "iniciar", "montar")
    /\ Chama("start", g)
    /\ UNCHANGED <<motor, troca>>

\* The prompt is put together here, in this thread: what _historico holds now.
\* (variant) the newest turn is left in.
HistoricoInteiro == historico
Anteriores == SubSeq(historico, 1, Len(historico) - 1)

MontarMensagens(g) ==
    /\ Passa(g, "montar", "lendo")
    /\ troca' = [troca EXCEPT ![g] = [@ EXCEPT !.anteriores = Anteriores,
                                               !.usuario = user_context,
                                               !.visto = Len(turnos)]]
    /\ UNCHANGED <<motor, chamadas>>

\* A chunk arrives, and is handled up to the callback it leads to.
Pedaco(g) ==
    /\ estado[g] = "lendo"
    /\ troca[g].pedacos < MaxPedacos
    /\ \/ /\ ~Vigente(g)
          /\ estado' = [estado EXCEPT ![g] = "fim"]
          /\ UNCHANGED troca
       \/ /\ Vigente(g)
          /\ \E p \in Continuacoes(troca[g].parcial) :
               LET lida == [troca[g] EXCEPT !.parcial = p, !.pedacos = @ + 1]
               IN  \/ /\ Segura(p)
                      /\ troca' = [troca EXCEPT ![g] = lida]
                      /\ UNCHANGED estado
                   \/ /\ ~Segura(p)
                      /\ EhMarcador(p)
                      /\ troca' = [troca EXCEPT ![g] = [lida EXCEPT !.ignored = TRUE]]
                      /\ estado' = [estado EXCEPT ![g] = "concluir"]
                   \/ /\ ~Segura(p)
                      /\ ~EhMarcador(p)
                      /\ troca' = [troca EXCEPT ![g] = [lida EXCEPT !.answer = p]]
                      /\ estado' = [estado EXCEPT ![g] = "emitir"]
    /\ UNCHANGED <<motor, chamadas>>

Emitir(g) ==
    /\ Passa(g, "emitir", "lendo")
    /\ Chama("chunk", g)
    /\ UNCHANGED <<motor, troca>>

\* The stream ends.  The empty-answer error is not guarded by _vigente.
FimDoStream(g) ==
    /\ Passa(g, "lendo", "final")
    /\ IF EmBranco(troca[g].answer) /\ ~troca[g].ignored
         THEN /\ troca' = [troca EXCEPT ![g].error = TRUE]
              /\ Chama("error", g)
         ELSE UNCHANGED <<troca, chamadas>>
    /\ UNCHANGED motor

\* stream_reply raises, before the first chunk or between two.
Falha(g) ==
    /\ Passa(g, "lendo", IF Vigente(g) THEN "avisar" ELSE "final")
    /\ UNCHANGED <<motor, troca, chamadas>>

Avisar(g) ==
    /\ Passa(g, "avisar", "final")
    /\ troca' = [troca EXCEPT ![g].error = TRUE]
    /\ Chama("error", g)
    /\ UNCHANGED motor

\* The last _vigente of _gerar.
\* (variant) returns without a word.
FinalMudo(g) == Passa(g, "final", "fim") /\ UNCHANGED <<motor, troca, chamadas>>
Final(g) ==
    /\ Passa(g, "final", IF Vigente(g) THEN "concluir" ELSE "fim")
    /\ UNCHANGED <<motor, troca, chamadas>>

\* (variant) the return after the marker is missing.
NaoSaiu == "final"
Saiu == "fim"

\* on_answer_done: after the last check, or right after the marker was seen.
Concluir(g) ==
    /\ Passa(g, "concluir", Saiu)
    /\ Chama("done", g)
    /\ UNCHANGED <<motor, troca>>

Gerar(g) ==
    \/ Iniciar(g) \/ MontarMensagens(g) \/ Pedaco(g) \/ Emitir(g)
    \/ FimDoStream(g) \/ Falha(g) \/ Avisar(g) \/ Final(g) \/ Concluir(g)

-----------------------------------------------------------------------------
DoChamador ==
    \/ \E t \in Turnos : Ingest(t)
    \/ Decidir
    \/ AnswerLastTurn
    \/ \E c \in Chamadores : Criar(c) \/ Publicar(c)
    \/ Cancel
    \/ \E b \in BOOLEAN : SetAutoAnswer(b)
    \/ \E u \in UserContexts : UpdateUserContext(u)

Next == DoChamador \/ Tick \/ \E g \in Ids : Gerar(g)

Spec == Init /\ [][Next]_vars

\* A thread that is running goes on, a call that entered the engine returns
\* from it, and a provider's stream ends or fails (httpx has a read timeout).
\* What the user or the speaker does is not fair.
Justica ==
    /\ \A g \in Ids : WF_vars(Gerar(g))
    /\ WF_vars(Decidir)
    /\ \A c \in Chamadores : WF_vars(Criar(c) \/ Publicar(c))

FairSpec == Spec /\ Justica
-----------------------------------------------------------------------------
(* Correctness.                                                            *)

Fases   == {"livre", "decidir", "criar", "publicar"}
Estados == {"nenhum", "iniciar", "montar", "lendo", "emitir", "avisar",
            "final", "concluir", "fim"}
Tipos   == {"start", "chunk", "error", "done"}
Chamada == [tipo: Tipos, troca: Ids, texto: Textos, vigente: BOOLEAN]
Numeros == 1..MaxTurnos

Exchange == [pergunta: 0..MaxTurnos, auto: BOOLEAN, parcial: Textos,
             answer: Textos, error: BOOLEAN, ignored: BOOLEAN, pedacos: Nat,
             anteriores: Seq(Numeros), usuario: UserContexts \cup {""},
             visto: 0..MaxTurnos]

TypeOK ==
    /\ historico \in Seq(Numeros) /\ Len(historico) <= ContextTurns
    /\ turnos \in Seq(Turnos) /\ Len(turnos) <= MaxTurnos
    /\ ultimo_turno \in 0..MaxTurnos
    /\ auto_answer \in BOOLEAN
    /\ user_context \in UserContexts
    /\ ultima_resposta \in 0..MaxTempo /\ agora \in 0..MaxTempo
    /\ ids \in 1..(MaxTrocas + 1)
    /\ geracao_atual \in Ids \cup {0}
    /\ chamador \in [Chamadores -> [fase: Fases, pergunta: 0..MaxTurnos,
                                   auto: BOOLEAN, id: 0..MaxTrocas]]
    /\ estado \in [Ids -> Estados]
    /\ troca \in [Ids -> Exchange]
    /\ chamadas \in Seq(Chamada)

\* Supersede, as far as the code goes.  The check of _vigente and the callback
\* it guards are two steps, so an abandoned exchange may still make one call
\* that is already stale.  After it, it never paints text nor concludes again:
\* all that can follow is the unguarded error of an answer left blank.
ObsoletaNaoVolta ==
    \A i, j \in 1..Len(chamadas) :
        (/\ i < j
         /\ chamadas[i].troca = chamadas[j].troca
         /\ ~chamadas[i].vigente
         /\ chamadas[i].tipo # "start")
        => chamadas[j].tipo = "error"

\* What the window relies on, for every path through _gerar (marker, error,
\* empty stream, supersede): an exchange starts once and before anything else,
\* reports at most one error, and concludes last.
OrdemDasChamadas ==
    \A i, j \in 1..Len(chamadas) :
        (i < j /\ chamadas[i].troca = chamadas[j].troca)
        => /\ chamadas[j].tipo # "start"
           /\ chamadas[i].tipo # "done"
           /\ chamadas[i].tipo = "error" => chamadas[j].tipo = "done"

\* An exchange that left the live slot, by a newer one or by cancel, never gets
\* it back, so a check that failed stays failed for the rest of the thread.
NaoRessuscita ==
    [][\A g \in Ids : (estado[g] # "nenhum" /\ geracao_atual # g)
                      => geracao_atual' # g]_vars

\* The marker is not shown before it is recognised, as long as the model opens
\* the answer with it: an exchange swallowed with no leading blank painted
\* nothing at all.
MarcadorNaoPisca ==
    \A i \in 1..Len(chamadas) :
        LET t == troca[chamadas[i].troca]
        IN  t.ignored /\ t.parcial.brancos = 0 => chamadas[i].tipo # "chunk"

\* auto_answer and cooldown_s exist to save quota: automatic answers, counting
\* the one being created, never outrun one per cooldown since boot.
CotaLimitada ==
    LET criadas == {g \in Ids : troca[g].auto}
        aCriar  == IF chamador[WORKER].fase = "criar" THEN {0} ELSE {}
    IN  Cooldown * Cardinality(criadas \cup aCriar) <= agora

\* A prompt's context holds only turns that precede the newest one heard when
\* it was put together; so the question is in its own context only if someone
\* spoke after it.
ContextoSoDoPassado ==
    \A g \in Ids : \A i \in 1..Len(troca[g].anteriores) :
        /\ troca[g].anteriores[i] < troca[g].visto
        /\ troca[g].anteriores[i] = troca[g].pergunta
             => troca[g].visto > troca[g].pergunta

\* The exchange that is live is always concluded to the window, whatever the
\* stream does, unless it loses the live slot first: the answer box is not
\* left waiting by an error, an empty answer or the marker.
VigenteConclui ==
    \A g \in Ids :
        (geracao_atual = g)
        ~> \/ geracao_atual # g
           \/ \E i \in 1..Len(chamadas) :
                 chamadas[i].tipo = "done" /\ chamadas[i].troca = g

=============================================================================
