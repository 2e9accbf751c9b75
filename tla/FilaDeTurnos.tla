---------------------------- MODULE FilaDeTurnos ----------------------------
(***************************************************************************)
(* What asr/worker.py promises to those who hand turns to it, without its  *)
(* queue, its threads or its count: a turn is taken in or, when there is   *)
(* no room, refused; the turns taken in come out one at a time, oldest     *)
(* first, each of them once, as a text or as a failure.                    *)
(*                                                                         *)
(* A turn is its position in the order of submission.                      *)
(***************************************************************************)
EXTENDS Integers, Sequences, FiniteSets

CONSTANTS
    Capacidade,  \* turns there is always room for
    MaxTurnos    \* bound: turns submitted

VARIABLES
    enviadas,    \* turns submitted
    pendentes,   \* taken in, and not out yet
    entregues,   \* handed on, in order
    falhas,      \* given up: the transcription or the callback raised
    descartadas, \* refused
    parando,     \* a request to stop takes up room, too
    desistiu     \* a stop has given up waiting: order is no longer promised

vars == <<enviadas, pendentes, entregues, falhas, descartadas, parando, desistiu>>

Init ==
    /\ enviadas = 0
    /\ pendentes = {}
    /\ entregues = <<>>
    /\ falhas = {}
    /\ descartadas = {}
    /\ parando = FALSE
    /\ desistiu = FALSE

Aceitar ==
    /\ enviadas < MaxTurnos
    /\ enviadas' = enviadas + 1
    /\ pendentes' = pendentes \cup {enviadas'}
    /\ UNCHANGED <<entregues, falhas, descartadas, parando, desistiu>>

Recusar ==
    /\ enviadas < MaxTurnos
    /\ parando \/ Cardinality(pendentes) >= Capacidade
    /\ enviadas' = enviadas + 1
    /\ descartadas' = descartadas \cup {enviadas'}
    /\ UNCHANGED <<pendentes, entregues, falhas, parando, desistiu>>

MaisAntigo(n) == \A m \in pendentes : n <= m

Sair(n) ==
    /\ n \in pendentes
    /\ desistiu \/ MaisAntigo(n)
    /\ pendentes' = pendentes \ {n}
    /\ \/ entregues' = Append(entregues, n) /\ UNCHANGED falhas
       \/ falhas' = falhas \cup {n} /\ UNCHANGED entregues
    /\ UNCHANGED <<enviadas, descartadas, parando, desistiu>>

\* Stops come and go, and may give up.
Parar ==
    /\ parando' \in BOOLEAN
    /\ desistiu' \in {desistiu, TRUE}
    /\ UNCHANGED <<enviadas, pendentes, entregues, falhas, descartadas>>

Next ==
    \/ Aceitar
    \/ Recusar
    \/ \E n \in pendentes : Sair(n)
    \/ Parar

Spec == Init /\ [][Next]_vars
=============================================================================
