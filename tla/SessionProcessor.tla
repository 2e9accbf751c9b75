-------------------------- MODULE SessionProcessor --------------------------
(***************************************************************************)
(* modes/session/processor.py: what becomes of a finished recording.       *)
(* Each process_async call runs process() in a thread of its own; all of   *)
(* them share the processor, and with it one _cancel_event.  The           *)
(* repository and the transcriber and LLM are calls that may raise; the    *)
(* repository commits each call on its own.  Every call has a Session      *)
(* object of its own, as get_session and create_session return them.       *)
(*                                                                         *)
(* Data.  A segment is the run and the block it came from, and whether its *)
(* text is blank.  split_into_parts may cut anywhere between two segments. *)
(* Of what the LLM answers only this is kept: is the summary blank, and    *)
(* are there tasks.  A definition marked (variant) is the next one with a  *)
(* mistake in it; no action uses it.                                       *)
(***************************************************************************)
EXTENDS Integers, Sequences, FiniteSets

CONSTANTS
    Sessoes,        \* the sessions recorded
    MaxBlocos,      \* bound: blocks of a session
    MaxExecucoes,   \* bound: calls of process_async
    MaxQuedas       \* bound: crashes of the program

ASSUME ProcessorAssumption ==
    /\ {MaxBlocos, MaxExecucoes, MaxQuedas} \subseteq Nat
    /\ Sessoes # {}

VARIABLES
    cancel_event,   \* _cancel_event
    execucao,       \* the threads of process_async
    banco,          \* what the repository holds of each session
    quedas          \* crashes so far

vars == <<cancel_event, execucao, banco, quedas>>

Execucoes == 1..MaxExecucoes

NaoCriada == [fase |-> "nenhuma", sessao |-> CHOOSE s \in Sessoes : TRUE,
              total |-> 0,              \* len(blocks)
              textos |-> <<>>,          \* segmentos_gravados until cut up: has text?
              partes |-> <<>>,          \* parts still to map: has text?
              mapeadas |-> 0,           \* len(resultados_mapeados)
              resumos |-> 0,            \* those with a summary, until reduced
              tarefas |-> FALSE,        \* any task in them
              transcritos |-> 0,        \* history: transcribe_pcm calls that returned
              ligadas |-> 0,            \* history: calls that returned with the event set
              banco_falhou |-> FALSE,   \* history: a repository call raised
              gravou |-> "nada",        \* history: the last status it stored
              aviso |-> "nenhum"]       \* history: the callback it made

Init ==
    /\ cancel_event = FALSE
    /\ execucao = [r \in Execucoes |-> NaoCriada]
    /\ banco = [s \in Sessoes |-> [status |-> "recording", segmentos |-> <<>>,
                                   artefatos |-> {}, todos |-> {}]]
    /\ quedas = 0

-----------------------------------------------------------------------------
Fase(r, f) == execucao[r].fase = f
Vai(r, campos) == execucao' = [execucao EXCEPT ![r] = campos]
Para(r, f) == Vai(r, [execucao[r] EXCEPT !.fase = f])

\* The repository raises: the handlers of process turn it into a failure, or
\* it leaves process altogether and _run reports it.
BancoFalha(r, f) ==
    /\ Vai(r, [execucao[r] EXCEPT !.fase = f, !.banco_falhou = TRUE])
    /\ UNCHANGED <<cancel_event, banco, quedas>>

\* update_session
Armazenar(r, status, f) ==
    /\ banco' = [banco EXCEPT ![execucao[r].sessao].status = status]
    /\ Vai(r, [execucao[r] EXCEPT !.fase = f, !.gravou = status])
    /\ UNCHANGED <<cancel_event, quedas>>

\* A call to the transcriber or to the LLM returns: with the event set or not.
Retorno(r) == [execucao[r] EXCEPT !.ligadas = IF cancel_event THEN @ + 1 ELSE 0]

\* process_async
ProcessAsync(r, s, n) ==
    /\ Fase(r, "nenhuma")
    /\ \A q \in 1..(r - 1) : ~Fase(q, "nenhuma")
    /\ Vai(r, [NaoCriada EXCEPT !.fase = "limpar", !.sessao = s, !.total = n])
    /\ UNCHANGED <<cancel_event, banco, quedas>>

Cancel ==
    /\ cancel_event' = TRUE
    /\ UNCHANGED <<execucao, banco, quedas>>

\* _cancel_event.clear: for every run of this processor.
Limpar(r) ==
    /\ Fase(r, "limpar")
    /\ cancel_event' = FALSE
    /\ execucao' = [q \in Execucoes |->
           IF q = r THEN [execucao[q] EXCEPT !.fase = "marcar", !.ligadas = 0]
                    ELSE [execucao[q] EXCEPT !.ligadas = 0]]
    /\ UNCHANGED <<banco, quedas>>

Marcar(r) ==
    /\ Fase(r, "marcar")
    /\ Armazenar(r, "processing", "bloco") \/ BancoFalha(r, "erro")

\* Cancelado is turned into a failure.
\* (variant) the loop is left with break.
CanceladoSai == "concluir"
AoCancelar   == "falhar"

\* Every partition of the segments into consecutive parts, as whether each part
\* has text.
Partes(textos) ==
    LET n == Len(textos)
        cortes == {p \in [1..n -> 1..n] :
                     p[1] = 1 /\ \A i \in 2..n : p[i] - p[i - 1] \in {0, 1}}
    IN  {[k \in 1..p[n] |-> \E i \in 1..n : p[i] = k /\ textos[i]] : p \in cortes}

\* _transcrever_blocos: the head of its loop, and what follows the loop.
Bloco(r) ==
    LET e == execucao[r]
    IN  /\ Fase(r, "bloco")
        /\ \/ /\ e.transcritos < e.total
              /\ IF cancel_event THEN Para(r, AoCancelar)
                                 ELSE Para(r, "transcrever")
           \/ /\ e.transcritos = e.total
              /\ e.textos = <<>>
              /\ Para(r, "concluir")
           \/ /\ e.transcritos = e.total
              /\ e.textos # <<>>
              /\ \E p \in Partes(e.textos) :
                   Vai(r, [e EXCEPT !.fase = "parte", !.partes = p, !.textos = <<>>])
        /\ UNCHANGED <<cancel_event, banco, quedas>>

Transcrever(r) ==
    /\ Fase(r, "transcrever")
    /\ \/ Vai(r, [Retorno(r) EXCEPT !.fase = "gravar", !.transcritos = @ + 1])
       \/ Para(r, "falhar")
    /\ UNCHANGED <<cancel_event, banco, quedas>>

\* What add_segments is given after each block.
\* (variant) all of it, after the last one.
SalvosNoFim(r) ==
    LET e == execucao[r]
    IN  IF e.transcritos < e.total THEN <<>>
        ELSE [i \in 1..e.total |-> [execucao |-> r, bloco |-> i]]
Salvos(r) == <<[execucao |-> r, bloco |-> execucao[r].transcritos]>>

Gravar(r) ==
    /\ Fase(r, "gravar")
    /\ \/ /\ banco' = [banco EXCEPT ![execucao[r].sessao].segmentos = @ \o Salvos(r)]
          /\ \E texto \in BOOLEAN :
               Vai(r, [execucao[r] EXCEPT !.fase = "bloco",
                                          !.textos = Append(@, texto)])
          /\ UNCHANGED <<cancel_event, quedas>>
       \/ BancoFalha(r, "falhar")

\* _gerar_artefatos: the head of its loop; a part without text is skipped.
Parte(r) ==
    LET e == execucao[r]
    IN  /\ Fase(r, "parte")
        /\ \/ /\ e.partes # <<>>
              /\ cancel_event
              /\ Para(r, AoCancelar)
           \/ /\ e.partes # <<>>
              /\ ~cancel_event
              /\ IF Head(e.partes)
                   THEN Vai(r, [e EXCEPT !.fase = "mapear", !.partes = Tail(@)])
                   ELSE Vai(r, [e EXCEPT !.partes = Tail(@)])
           \/ /\ e.partes = <<>>
              /\ Para(r, IF e.mapeadas = 0 THEN "concluir" ELSE "reduzir")
        /\ UNCHANGED <<cancel_event, banco, quedas>>

Mapear(r) ==
    /\ Fase(r, "mapear")
    /\ \/ \E resumo, tarefa \in BOOLEAN :
            Vai(r, [Retorno(r) EXCEPT
                      !.fase = "parte", !.mapeadas = @ + 1,
                      !.resumos = IF resumo THEN @ + 1 ELSE @,
                      !.tarefas = @ \/ tarefa])
       \/ Para(r, "falhar")
    /\ UNCHANGED <<cancel_event, banco, quedas>>

\* The check of _reduzir_resumos.
\* (variant) it is missing.
SemChecar  == FALSE
Checar     == cancel_event

\* _reduzir_resumos: one summary needs no second call.
Reduzir(r) ==
    /\ Fase(r, "reduzir")
    /\ \/ /\ execucao[r].resumos <= 1
          /\ Vai(r, [execucao[r] EXCEPT !.fase = "artefatos", !.resumos = 0])
       \/ /\ execucao[r].resumos > 1
          /\ Checar
          /\ Para(r, AoCancelar)
       \/ /\ execucao[r].resumos > 1
          /\ ~Checar
          /\ Vai(r, [execucao[r] EXCEPT !.fase = "resumir", !.resumos = 0])
    /\ UNCHANGED <<cancel_event, banco, quedas>>

Resumir(r) ==
    /\ Fase(r, "resumir")
    /\ Vai(r, [Retorno(r) EXCEPT !.fase = "artefatos"]) \/ Para(r, "falhar")
    /\ UNCHANGED <<cancel_event, banco, quedas>>

Artefatos(r) ==
    /\ Fase(r, "artefatos")
    /\ \/ /\ banco' = [banco EXCEPT ![execucao[r].sessao].artefatos = @ \cup {r}]
          /\ Para(r, "todos")
          /\ UNCHANGED <<cancel_event, quedas>>
       \/ BancoFalha(r, "falhar")

\* add_todos of an empty list does not reach the database.
Todos(r) ==
    /\ Fase(r, "todos")
    /\ \/ /\ banco' = [banco EXCEPT ![execucao[r].sessao].todos =
                          IF execucao[r].tarefas THEN @ \cup {r} ELSE @]
          /\ Para(r, "concluir")
          /\ UNCHANGED <<cancel_event, quedas>>
       \/ execucao[r].tarefas /\ BancoFalha(r, "falhar")

\* The last update_session of process.
Concluir(r) ==
    /\ Fase(r, "concluir")
    /\ Armazenar(r, "done", "pronta") \/ BancoFalha(r, "erro")

\* _falhar
Falhar(r) ==
    /\ Fase(r, "falhar")
    /\ Armazenar(r, "failed", "falhou") \/ BancoFalha(r, "erro")

\* _run calls on_error for what process raised, too.
\* (variants) only for FAILED; on_done whenever process returned.
AvisoSemExcecao(fase) == CASE fase = "pronta" -> "done"
                           [] fase = "falhou" -> "error"
                           [] fase = "erro"   -> "nenhum"
AvisoOtimista(fase) == IF fase = "erro" THEN "error" ELSE "done"
Aviso(fase) == IF fase = "pronta" THEN "done" ELSE "error"

Avisar(r) ==
    /\ execucao[r].fase \in {"pronta", "falhou", "erro"}
    /\ Vai(r, [execucao[r] EXCEPT !.fase = "fim", !.aviso = Aviso(execucao[r].fase)])
    /\ UNCHANGED <<cancel_event, banco, quedas>>

Executar(r) ==
    \/ Limpar(r) \/ Marcar(r) \/ Bloco(r) \/ Transcrever(r) \/ Gravar(r)
    \/ Parte(r) \/ Mapear(r) \/ Reduzir(r) \/ Resumir(r) \/ Artefatos(r)
    \/ Todos(r) \/ Concluir(r) \/ Falhar(r) \/ Avisar(r)

\* The program ends: the daemon threads go with it, the database stays.
Cair ==
    /\ quedas < MaxQuedas
    /\ quedas' = quedas + 1
    /\ cancel_event' = FALSE
    /\ execucao' = [r \in Execucoes |->
           IF execucao[r].fase \in {"nenhuma", "fim"} THEN execucao[r]
           ELSE [execucao[r] EXCEPT !.fase = "morta"]]
    /\ UNCHANGED banco

Next ==
    \/ \E r \in Execucoes :
         \/ \E s \in Sessoes, n \in 0..MaxBlocos : ProcessAsync(r, s, n)
         \/ Executar(r)
    \/ Cancel
    \/ Cair

Spec == Init /\ [][Next]_vars

\* A thread of process_async goes on: the transcriber and the LLM return or
\* raise, and so does the database (its busy timeout).
FairSpec == Spec /\ \A r \in Execucoes : WF_vars(Executar(r))

-----------------------------------------------------------------------------
\* Type invariant of the state above.
Fases == {"nenhuma", "limpar", "marcar", "bloco", "transcrever", "gravar", "parte",
          "mapear", "reduzir", "resumir", "artefatos", "todos", "concluir", "falhar",
          "pronta", "falhou", "erro", "fim", "morta"}

Registros ==
    [fase: Fases, sessao: Sessoes, total: 0..MaxBlocos,
     textos: Seq(BOOLEAN), partes: Seq(BOOLEAN),
     mapeadas: Nat, resumos: Nat, tarefas: BOOLEAN,
     transcritos: Nat, ligadas: Nat, banco_falhou: BOOLEAN,
     gravou: {"nada", "processing", "done", "failed"},
     aviso: {"nenhum", "done", "error"}]

Linhas ==
    [status: {"recording", "processing", "done", "failed"},
     segmentos: Seq([execucao: Execucoes, bloco: Nat]),
     artefatos: SUBSET Execucoes, todos: SUBSET Execucoes]

TypeOK ==
    /\ cancel_event \in BOOLEAN
    /\ execucao \in [Execucoes -> Registros]
    /\ banco \in [Sessoes -> Linhas]
    /\ quedas \in 0..MaxQuedas

\* What run r has in the database: where its segments are, and the blocks they
\* came from.
Segmentos(r) == banco[execucao[r].sessao].segmentos
Meus(r)      == {k \in DOMAIN Segmentos(r) : Segmentos(r)[k].execucao = r}
Guardados(r) == {Segmentos(r)[k].bloco : k \in Meus(r)}

\* "Nada ja transcrito se perde": the database holds what a run has transcribed,
\* each block once and in order, through failures of the LLM, cancelling, another
\* run at work and crashes; only the block being stored, or refused by the
\* database, may be missing.
TranscricaoASalvo ==
    \A r \in Execucoes :
        LET e == execucao[r]
        IN  /\ \A j, k \in Meus(r) :
                   j < k => Segmentos(r)[j].bloco < Segmentos(r)[k].bloco
            /\ \/ Guardados(r) = 1..e.transcritos
               \/ /\ Guardados(r) = 1..(e.transcritos - 1)
                  /\ e.fase \in {"gravar", "morta"} \/ e.banco_falhou

\* A run stores DONE only when all of its work is in the database: every block,
\* and the artifacts and tasks of what the LLM made of them.
DoneCompleto ==
    \A r \in Execucoes :
        LET e == execucao[r]
        IN  e.gravou = "done" =>
              /\ Guardados(r) = 1..e.total
              /\ e.mapeadas > 0 => r \in banco[e.sessao].artefatos
              /\ e.tarefas => r \in banco[e.sessao].todos

\* cancel() stops a run "entre blocos" and "entre partes": once the event is
\* set, the call to the transcriber or LLM that was going on is the last one to
\* return, until a new run clears the event for all of them.
CancelaLogo == \A r \in Execucoes : execucao[r].ligadas <= 1

\* The callback tells what happened: on_done if and only if the run stored DONE,
\* and unless the database refused or another run took the session up, the
\* session is left with the status reported, never in PROCESSING.
AvisoVerdadeiro ==
    \A r \in Execucoes :
        LET e == execucao[r]
            so == \A q \in Execucoes \ {r} :
                    Fase(q, "nenhuma") \/ execucao[q].sessao # e.sessao
        IN  e.fase = "fim" =>
              /\ e.aviso = "done" <=> e.gravou = "done"
              /\ so /\ ~e.banco_falhou =>
                   banco[e.sessao].status = IF e.aviso = "done" THEN "done" ELSE "failed"

\* Every run ends with one of its two callbacks, whatever is raised on the way,
\* unless the program ends first.
ExecucaoAvisa ==
    \A r \in Execucoes :
        ~Fase(r, "nenhuma")
        ~> (execucao[r].aviso \in {"done", "error"} \/ Fase(r, "morta"))

=============================================================================
