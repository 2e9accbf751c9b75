-------------------------- MODULE SQLiteRepository --------------------------
(***************************************************************************)
(* storage/sqlite_repo.py in file mode: every thread has a connection of   *)
(* its own, a write transaction holds the one write lock of the file from  *)
(* its first write to its commit, and no call rolls back what it raised    *)
(* out of.                                                                 *)
(*                                                                         *)
(* add_todos is add_artifacts on another table, so `artifacts` stands for  *)
(* both.  A row is its id and its session: the columns are left out, and   *)
(* so are the queries that only read.  SQLite (locks, foreign keys,        *)
(* AUTOINCREMENT) is modelled by what the code uses of it.                 *)
(* A definition marked (variant) is the next one with a mistake in it; no  *)
(* action uses it.                                                         *)
(***************************************************************************)
EXTENDS Integers, Sequences, FiniteSets, FiniteSetsExt, SequencesExt

CONSTANTS
    Threads,       \* the threads that call the repository
    MaxSessoes,    \* bound: sessions created
    MaxLote,       \* bound: rows of one call
    MaxChamadas    \* bound: calls that add rows

Tabelas == {"segments", "artifacts"}
Nenhuma == "nenhuma"

ASSUME RepositoryAssumption ==
    /\ {MaxSessoes, MaxLote, MaxChamadas} \subseteq Nat
    /\ Nenhuma \notin Threads

VARIABLES
    sessoes,     \* the ids in table sessions
    criadas,     \* its AUTOINCREMENT
    linhas,      \* the rows of the other tables, as committed
    contador,    \* their AUTOINCREMENTs
    trava,       \* the connection that holds the write lock
    pendentes,   \* the rows of each connection's open transaction
    chamada,     \* the add_* call each thread is in
    feitas       \* add_* calls so far

vars == <<sessoes, criadas, linhas, contador, trava, pendentes, chamada, feitas>>

Fora == [fase |-> "fora", tabela |-> "segments", sessao |-> 0, n |-> 0,
         marco |-> 0,          \* the MAX(id) read before the insert
         proprios |-> <<>>,    \* history: the ids its rows were given
         ids |-> <<>>]         \* the ids it returns

Init ==
    /\ sessoes = {}
    /\ criadas = 0
    /\ linhas = {}
    /\ contador = [b \in Tabelas |-> 0]
    /\ trava = Nenhuma
    /\ pendentes = [t \in Threads |-> {}]
    /\ chamada = [t \in Threads |-> Fora]
    /\ feitas = 0

-----------------------------------------------------------------------------
Fase(t, f) == chamada[t].fase = f

\* A write waits for the lock up to the busy timeout, then raises.
PodeEscrever(t) == trava \in {Nenhuma, t}

\* What t sees of the tables, and the last id its transaction has given out.
Visiveis(t) == linhas \cup pendentes[t]
\* (variant) no AUTOINCREMENT.
SemAutoincrement(t, b) == Max({0} \cup {r.id : r \in {q \in Visiveis(t) : q.tabela = b}})
Ultimo(t, b) == contador[b] + Cardinality({r \in pendentes[t] : r.tabela = b})

\* commit: what the connection has pending becomes visible, too.
Confirmar(t, novas) ==
    /\ linhas' = novas
    /\ contador' = [b \in Tabelas |-> Ultimo(t, b)]
    /\ pendentes' = [pendentes EXCEPT ![t] = {}]
    /\ trava' = Nenhuma

\* A statement raises because another connection holds the lock: nothing changes
\* but the call it was part of.
Ocupado(t) ==
    /\ Fase(t, "inserir")
    /\ ~PodeEscrever(t)
    /\ chamada' = [chamada EXCEPT ![t] = Fora]
    /\ UNCHANGED <<sessoes, criadas, linhas, contador, trava, pendentes, feitas>>

CreateSession(t) ==
    /\ Fase(t, "fora") /\ PodeEscrever(t)
    /\ criadas < MaxSessoes
    /\ criadas' = criadas + 1
    /\ sessoes' = sessoes \cup {criadas'}
    /\ Confirmar(t, Visiveis(t))
    /\ UNCHANGED <<chamada, feitas>>

\* update_session and set_todo_done change columns only, but they commit.
UpdateSession(t) ==
    /\ Fase(t, "fora") /\ PodeEscrever(t)
    /\ Confirmar(t, Visiveis(t))
    /\ UNCHANGED <<sessoes, criadas, chamada, feitas>>

\* PRAGMA foreign_keys = ON, once for each connection: ON DELETE CASCADE.
\* (variant) only the connection that made the schema has it.
SemPragma(rows, s) == rows
Cascata(rows, s)   == {r \in rows : r.sessao # s}

DeleteSession(t, s) ==
    /\ Fase(t, "fora") /\ PodeEscrever(t)
    /\ s \in sessoes
    /\ sessoes' = sessoes \ {s}
    /\ Confirmar(t, Cascata(Visiveis(t), s))
    /\ UNCHANGED <<criadas, chamada, feitas>>

\* add_segments, add_artifacts, add_todos: an empty list returns at once.
Adicionar(t, b, s, n) ==
    /\ Fase(t, "fora")
    /\ feitas < MaxChamadas
    /\ feitas' = feitas + 1
    /\ chamada' = [chamada EXCEPT ![t] =
                     [Fora EXCEPT !.fase = "inserir", !.tabela = b, !.sessao = s, !.n = n]]
    /\ UNCHANGED <<sessoes, criadas, linhas, contador, trava, pendentes>>

\* The n rows an executemany puts into the open transaction of t.
Inseridas(t, n) ==
    LET c == chamada[t]
    IN  {[tabela |-> c.tabela, sessao |-> c.sessao, id |-> Ultimo(t, c.tabela) + i] :
           i \in 1..n}

\* The executemany, with the lock from here on.  For segments BEGIN IMMEDIATE
\* has taken it before marco is read; for artifacts the first INSERT does.
Inserir(t) ==
    LET c == chamada[t]
        ids == {r.id : r \in {q \in Visiveis(t) : q.tabela = c.tabela}}
    IN  /\ Fase(t, "inserir") /\ PodeEscrever(t)
        /\ c.sessao \in sessoes
        /\ trava' = t
        /\ pendentes' = [pendentes EXCEPT ![t] = @ \cup Inseridas(t, c.n)]
        /\ chamada' = [chamada EXCEPT ![t] =
             [c EXCEPT !.fase = "inserida", !.marco = IF ids = {} THEN 0 ELSE Max(ids),
                       !.proprios = [i \in 1..c.n |-> Ultimo(t, c.tabela) + i]]]
        /\ UNCHANGED <<sessoes, criadas, linhas, contador, feitas>>

\* A row cannot be stored: the session is gone, or its text does not encode.
\* The call raises and the transaction stays open with the k rows before it, and
\* with the lock, unless it was a first artifact that never reached SQLite.
InserirFalha(t) ==
    LET c == chamada[t]
    IN  /\ Fase(t, "inserir") /\ PodeEscrever(t)
        /\ \E k \in IF c.sessao \in sessoes THEN 0..(c.n - 1) ELSE {0} :
             /\ pendentes' = [pendentes EXCEPT ![t] = @ \cup Inseridas(t, k)]
             /\ trava' = IF c.tabela = "artifacts" /\ c.sessao \in sessoes /\ k = 0
                           THEN trava ELSE t
        /\ chamada' = [chamada EXCEPT ![t] = Fora]
        /\ UNCHANGED <<sessoes, criadas, linhas, contador, feitas>>

\* Every id of the session above marco, or the last n of them: read by t.
Ids(t) == {r.id : r \in {q \in Visiveis(t) : /\ q.tabela = chamada[t].tabela
                                              /\ q.sessao = chamada[t].sessao}}
\* ORDER BY id: the i-th of them has i - 1 below it.
Ordenados(S) ==
    [i \in 1..Cardinality(S) |-> CHOOSE x \in S : Cardinality({y \in S : y < x}) = i - 1]
Acima(t)   == Ordenados({i \in Ids(t) : i > chamada[t].marco})
Ultimos(t) == LET q == Ordenados(Ids(t))
              IN  IF Len(q) > chamada[t].n
                    THEN SubSeq(q, Len(q) - chamada[t].n + 1, Len(q)) ELSE q

\* Is the reread part of the transaction?
\* (variant) it never is.
ReleFora(b)   == FALSE
ReleDentro(b) == b = "segments"

\* add_segments: reread by marco, then commit.
RelerECommitar(t) ==
    /\ Fase(t, "inserida") /\ ReleDentro(chamada[t].tabela)
    /\ chamada' = [chamada EXCEPT ![t] = [@ EXCEPT !.fase = "pronta", !.ids = Acima(t)]]
    /\ Confirmar(t, Visiveis(t))
    /\ UNCHANGED <<sessoes, criadas, feitas>>

\* add_artifacts and add_todos: commit ...
Commitar(t) ==
    /\ Fase(t, "inserida") /\ ~ReleDentro(chamada[t].tabela)
    /\ chamada' = [chamada EXCEPT ![t].fase = "reler"]
    /\ Confirmar(t, Visiveis(t))
    /\ UNCHANGED <<sessoes, criadas, feitas>>

\* ... then reread the last n of the session.
Reler(t) ==
    /\ Fase(t, "reler")
    /\ chamada' = [chamada EXCEPT ![t] = [@ EXCEPT !.fase = "pronta", !.ids = Ultimos(t)]]
    /\ UNCHANGED <<sessoes, criadas, linhas, contador, trava, pendentes, feitas>>

\* The caller has its rows.
Devolver(t) ==
    /\ Fase(t, "pronta")
    /\ chamada' = [chamada EXCEPT ![t] = Fora]
    /\ UNCHANGED <<sessoes, criadas, linhas, contador, trava, pendentes, feitas>>

\* close, or the end of the thread: SQLite rolls an open transaction back.
Close(t) ==
    /\ Fase(t, "fora")
    /\ pendentes' = [pendentes EXCEPT ![t] = {}]
    /\ trava' = IF trava = t THEN Nenhuma ELSE trava
    /\ UNCHANGED <<sessoes, criadas, linhas, contador, chamada, feitas>>

Next ==
    \E t \in Threads :
        \/ CreateSession(t) \/ UpdateSession(t)
        \/ \E s \in 1..MaxSessoes : DeleteSession(t, s)
        \/ \E b \in Tabelas, s \in 1..MaxSessoes, n \in 1..MaxLote : Adicionar(t, b, s, n)
        \/ Ocupado(t) \/ Inserir(t) \/ InserirFalha(t)
        \/ RelerECommitar(t) \/ Commitar(t) \/ Reler(t) \/ Devolver(t)
        \/ Close(t)

Spec == Init /\ [][Next]_vars

-----------------------------------------------------------------------------
\* delete_session "remove a sessao e tudo que pende dela": no row is left of a
\* session that is gone, whichever thread deleted it, while others were adding
\* to it, and with half a batch waiting in an open transaction.
SemOrfaos == \A r \in linhas : r.sessao \in sessoes

\* Every row that is handed back has its own id, whatever the other threads add to
\* the same session and whatever an earlier call of this thread left in its
\* transaction.  For segments always; for artifacts and tasks, which are read back
\* after the commit, unless in between the session went, or a newer row came into it.
CadaUmComSeuId ==
    \A t \in Threads :
        Fase(t, "pronta") =>
            \/ chamada[t].ids = chamada[t].proprios
            \/ /\ chamada[t].tabela = "artifacts"
               /\ \/ chamada[t].ids = <<>>
                  \/ Last(chamada[t].ids) > Last(chamada[t].proprios)

Memoria == INSTANCE InMemoryRepository

\* The rows of a thread's open transaction that its call has not put there: an
\* earlier one raised and left them.
Sobras(t) ==
    {r \in pendentes[t] : ~(/\ Fase(t, "inserida")
                            /\ r.tabela = chamada[t].tabela
                            /\ \E i \in DOMAIN chamada[t].proprios :
                                   r.id = chamada[t].proprios[i])}
ComSobras == \E t \in Threads : Sobras(t) # {} /\ pendentes'[t] = {}

\* Connections, locks and transactions are not to be seen from outside: every step
\* leaves the tables as one call of the repository in memory would, whole
\* batches, ids that are never given twice, a session and its rows gone at once.
\* Only leftovers of a call that raised come in with whatever commits next.
CumpreAMemoria == Memoria!Init /\ [][Memoria!Next \/ ComSobras]_(Memoria!vars)
=============================================================================
