------------------------- MODULE InMemoryRepository -------------------------
(***************************************************************************)
(* storage/memory_repo.py: the repository as dictionaries behind one lock, *)
(* so every call is one step.  It is also what storage/base.py asks of any *)
(* repository, and what SQLiteRepository is compared with.                 *)
(*                                                                         *)
(* add_todos is add_artifacts on another table, so `artifacts` stands for  *)
(* both.  A row is its id and its session; the other columns, the copies   *)
(* that are handed out and the queries that only read are left out.        *)
(***************************************************************************)
EXTENDS Integers

CONSTANTS
    MaxSessoes,    \* bound: sessions created
    MaxLote        \* bound: rows of one call

Tabelas == {"segments", "artifacts"}

VARIABLES
    sessoes,     \* the keys of _sessions
    criadas,     \* _session_ids
    linhas,      \* what _segments, _artifacts and _todos hold
    contador     \* _segment_ids, _artifact_ids, _todo_ids

vars == <<sessoes, criadas, linhas, contador>>

Init ==
    /\ sessoes = {}
    /\ criadas = 0
    /\ linhas = {}
    /\ contador = [b \in Tabelas |-> 0]

CreateSession ==
    /\ criadas < MaxSessoes
    /\ criadas' = criadas + 1
    /\ sessoes' = sessoes \cup {criadas'}
    /\ UNCHANGED <<linhas, contador>>

\* The cascade is done by hand.  (update_session and set_todo_done change columns.)
DeleteSession(s) ==
    /\ s \in sessoes
    /\ sessoes' = sessoes \ {s}
    /\ linhas' = {r \in linhas : r.sessao # s}
    /\ UNCHANGED <<criadas, contador>>

\* The next n ids, whether there is such a session or not.
Add(b, s, n) ==
    /\ linhas' = linhas \cup {[tabela |-> b, sessao |-> s, id |-> contador[b] + i] : i \in 1..n}
    /\ contador' = [contador EXCEPT ![b] = @ + n]
    /\ UNCHANGED <<sessoes, criadas>>

Next ==
    \/ CreateSession
    \/ \E s \in sessoes : DeleteSession(s)
    \/ \E b \in Tabelas, s \in 1..MaxSessoes, n \in 1..MaxLote : Add(b, s, n)

Spec == Init /\ [][Next]_vars
=============================================================================
