------------------------ MODULE TranscriptionWorker ------------------------
(***************************************************************************)
(* asr/worker.py: capture threads submit turns to a bounded queue, one     *)
(* thread transcribes them and hands them on, a controlling thread starts  *)
(* and stops it.  queue.Queue is modelled by what the code uses of it: the *)
(* items, maxsize and the count of unfinished tasks behind join().         *)
(*                                                                         *)
(* A turn is its position in the order of submission.  A definition marked *)
(* (variant) is the next one with a mistake in it; no action uses it.      *)
(***************************************************************************)
EXTENDS Integers, Sequences, FiniteSets

CONSTANTS
    MaxQueue,    \* max_queue
    MaxTurnos,   \* bound: turns submitted
    MaxThreads   \* bound: threads started

ASSUME WorkerAssumption ==
    /\ MaxQueue \in Nat \ {0}
    /\ MaxTurnos \in Nat
    /\ MaxThreads \in Nat

VARIABLES
    fila,         \* _fila
    inacabadas,   \* _fila.unfinished_tasks
    thread,       \* _thread: 0 is None
    consumidor,   \* where each thread ever started is in _loop
    controle,     \* where the controlling thread is in stop
    enviadas,     \* turns submitted
    descartadas,  \* turns dropped: _descartadas counts them
    entregues,    \* on_transcribed calls, in order
    falhas,       \* turns whose transcription raised
    criadas,      \* threads started
    expirou,      \* history: some join(timeout) gave up on a live thread
    noStop        \* history: the turns submitted when the last stop was called

turnoVars == <<enviadas, descartadas, entregues, falhas>>
vars == <<fila, inacabadas, thread, consumidor, controle, turnoVars,
          criadas, expirou, noStop>>

Threads == 1..MaxThreads
Turnos  == 1..MaxTurnos
None    == 0
Parado  == [fase |-> "nenhuma", item |-> None]
Livre   == [fase |-> "livre", drain |-> FALSE]

Viva(t)  == consumidor[t].fase \in {"lendo", "transcrevendo"}
NaFila   == {fila[i] : i \in 1..Len(fila)} \ {None}
NaMao    == {consumidor[t].item : t \in {u \in Threads : Viva(u)}} \ {None}
Entregues == {entregues[i] : i \in 1..Len(entregues)}

Init ==
    /\ fila = <<>>
    /\ inacabadas = 0
    /\ thread = 0
    /\ consumidor = [t \in Threads |-> Parado]
    /\ controle = Livre
    /\ enviadas = 0
    /\ descartadas = {}
    /\ entregues = <<>>
    /\ falhas = {}
    /\ criadas = 0
    /\ expirou = FALSE
    /\ noStop = 0

-----------------------------------------------------------------------------
(* The capture threads.                                                    *)

\* (variant) off by one.
CabeMenos == Len(fila) + 1 < MaxQueue
Cabe == Len(fila) < MaxQueue

\* _descartadas += 1
Descartar(n) == descartadas \cup {n}

\* put_nowait, or queue.Full.
Submit ==
    /\ enviadas < MaxTurnos
    /\ enviadas' = enviadas + 1
    /\ \/ /\ Cabe
          /\ fila' = Append(fila, enviadas')
          /\ inacabadas' = inacabadas + 1
          /\ UNCHANGED descartadas
       \/ /\ ~Cabe
          /\ descartadas' = Descartar(enviadas')
          /\ UNCHANGED <<fila, inacabadas>>
    /\ UNCHANGED <<thread, consumidor, controle, entregues, falhas, criadas,
                   expirou, noStop>>

-----------------------------------------------------------------------------
(* The consumer: _loop.                                                    *)

\* get: a turn, or the None that ends the loop without a task_done.
Get(t) ==
    /\ consumidor[t].fase = "lendo"
    /\ fila # <<>>
    /\ fila' = Tail(fila)
    /\ consumidor' = [consumidor EXCEPT ![t] =
                        IF Head(fila) = None
                          THEN [fase |-> "fim", item |-> None]
                          ELSE [fase |-> "transcrevendo", item |-> Head(fila)]]
    /\ UNCHANGED <<inacabadas, thread, controle, turnoVars, criadas, expirou,
                   noStop>>

Lendo == [fase |-> "lendo", item |-> None]

\* task_done, in the finally.
TaskDone == inacabadas - 1

\* The loop survives an exception.
\* (variant) no try.
MorreAoFalhar == [fase |-> "fim", item |-> None]
DepoisDeFalhar == Lendo

\* transcribe and on_transcribed, either of which may raise; then task_done.
Transcrever(t) ==
    /\ consumidor[t].fase = "transcrevendo"
    /\ \/ /\ entregues' = Append(entregues, consumidor[t].item)
          /\ consumidor' = [consumidor EXCEPT ![t] = Lendo]
          /\ UNCHANGED falhas
       \/ /\ falhas' = falhas \cup {consumidor[t].item}
          /\ consumidor' = [consumidor EXCEPT ![t] = DepoisDeFalhar]
          /\ UNCHANGED entregues
    /\ inacabadas' = TaskDone
    /\ UNCHANGED <<fila, thread, controle, enviadas, descartadas, criadas,
                   expirou, noStop>>

-----------------------------------------------------------------------------
(* The controlling thread.                                                 *)

\* start is a no-op while the thread is alive.
\* (variant) always starts one.
SemGuarda == TRUE
SemThreadViva == thread # 0 => ~Viva(thread)

Start ==
    /\ controle.fase = "livre"
    /\ SemThreadViva
    /\ criadas < MaxThreads
    /\ criadas' = criadas + 1
    /\ thread' = criadas'
    /\ consumidor' = [consumidor EXCEPT ![criadas'] = Lendo]
    /\ UNCHANGED <<fila, inacabadas, controle, turnoVars, expirou, noStop>>

Stop(drain) ==
    /\ controle.fase = "livre"
    /\ thread # 0
    /\ controle' = [fase |-> IF drain THEN "drenar" ELSE "encerrar", drain |-> drain]
    /\ noStop' = enviadas
    /\ UNCHANGED <<fila, inacabadas, thread, consumidor, turnoVars, criadas, expirou>>

\* _fila.join()
\* (variant) empty() in place of join().
FilaVazia == fila = <<>>
Terminadas == inacabadas = 0

Join ==
    /\ controle.fase = "drenar"
    /\ Terminadas
    /\ controle' = [controle EXCEPT !.fase = "encerrar"]
    /\ UNCHANGED <<fila, inacabadas, thread, consumidor, turnoVars, criadas,
                   expirou, noStop>>

\* put(None): blocks while the queue is full.
PutNone ==
    /\ controle.fase = "encerrar"
    /\ Cabe
    /\ fila' = Append(fila, None)
    /\ inacabadas' = inacabadas + 1
    /\ controle' = [controle EXCEPT !.fase = "esperar"]
    /\ UNCHANGED <<thread, consumidor, turnoVars, criadas, expirou, noStop>>

\* _thread.join(timeout): the thread has ended, or the time is up.
ThreadJoin ==
    /\ controle.fase = "esperar"
    /\ expirou' = (expirou \/ Viva(thread))
    /\ thread' = 0
    /\ controle' = Livre
    /\ UNCHANGED <<fila, inacabadas, consumidor, turnoVars, criadas, noStop>>

Next ==
    \/ Submit
    \/ \E t \in Threads : Get(t) \/ Transcrever(t)
    \/ Start
    \/ \E drain \in BOOLEAN : Stop(drain)
    \/ Join \/ PutNone \/ ThreadJoin

Spec == Init /\ [][Next]_vars

\* A consumer that has something to do does it, and a stop that can go on does.
FairSpec ==
    /\ Spec
    /\ \A t \in Threads : WF_vars(Get(t)) /\ WF_vars(Transcrever(t))
    /\ WF_vars(Join) /\ WF_vars(PutNone) /\ WF_vars(ThreadJoin)

-----------------------------------------------------------------------------
Crescente(s) == \A i, j \in 1..Len(s) : i < j => s[i] < s[j]

TypeOK ==
    /\ fila \in Seq(Turnos \cup {None}) /\ Len(fila) <= MaxQueue
    /\ inacabadas \in Nat
    /\ thread \in Threads \cup {0}
    /\ consumidor \in [Threads ->
           [fase: {"nenhuma", "lendo", "transcrevendo", "fim"},
            item: Turnos \cup {None}]]
    /\ controle \in [fase: {"livre", "drenar", "encerrar", "esperar"}, drain: BOOLEAN]
    /\ enviadas \in 0..MaxTurnos
    /\ descartadas \subseteq Turnos
    /\ entregues \in Seq(Turnos)
    /\ falhas \subseteq Turnos
    /\ criadas \in 0..MaxThreads
    /\ expirou \in BOOLEAN
    /\ noStop \in 0..MaxTurnos

\* "Uma thread, uma fila": two consumers only after a join gave up on the first.
UmaThread ==
    ~expirou => \A t, u \in Threads : Viva(t) /\ Viva(u) => t = u

\* "A ordem dos turnos e preservada": turns come out in the order they were
\* submitted, across restarts, dropped turns and failures, as long as no stop
\* gave up on a live thread.
OrdemPreservada == ~expirou => Crescente(entregues)

\* No turn is lost or handled twice: each one submitted is in exactly one of
\* the five places it can be, whatever the order of starts, stops and failures.
NadaSePerde ==
    LET lugares == <<descartadas, NaFila, NaMao, Entregues, falhas>>
    IN  /\ UNION {lugares[i] : i \in 1..5} = 1..enviadas
        /\ \A i, j \in 1..5 : i # j => lugares[i] \cap lugares[j] = {}

\* stop(drain=True) loses nothing: once it is past join, every turn
\* submitted before the call has been handed on, has failed, or had been dropped.
DrenoCompleto ==
    (controle.drain /\ controle.fase \in {"encerrar", "esperar"})
    => 1..noStop \subseteq Entregues \cup falhas \cup descartadas

\* join() is a sound test: whatever was started, stopped or failed before, no
\* unfinished task means an empty queue and idle hands.
NadaPendenteSemTarefa == inacabadas = 0 => NaFila = {} /\ NaMao = {}

\* What the worker promises, with its queue, its threads and its count hidden: a
\* turn is pending while it is queued or in hand, and a None in the queue is a
\* request to stop.
Fila == INSTANCE FilaDeTurnos WITH
            Capacidade <- MaxQueue,
            pendentes  <- NaFila \cup NaMao,
            parando    <- \E i \in 1..Len(fila) : fila[i] = None,
            desistiu   <- expirou

\* The module docstring: "Uma thread, uma fila", the order of the turns is
\* preserved and a slow transcriber never blocks the capture.  Through full
\* queues, failures, stops and restarts a turn is refused only when there is no
\* room, and the turns taken in come out oldest first, each exactly once, unless
\* a stop gave up on a live thread.
CumpreAFila == Fila!Spec

\* The worker keeps up: a queued turn leaves the queue, whatever raises, unless
\* somebody stops the worker.
TodoTurnoSai ==
    \A n \in Turnos :
        (n \in NaFila /\ thread # 0)
        ~> (n \notin NaFila \/ thread = 0 \/ controle.fase # "livre")

\* copilot_app starts the worker once: the first stop returns, with or without
\* drain, however full the queue is and whatever raises meanwhile.
PrimeiroStopRetorna ==
    (criadas = 1 /\ controle.fase # "livre") ~> controle.fase = "livre"
=============================================================================
