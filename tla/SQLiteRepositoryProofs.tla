----------------------- MODULE SQLiteRepositoryProofs -----------------------
(***************************************************************************)
(* Proofs about storage/sqlite_repo.py, for every number of threads, of    *)
(* sessions and of rows in a batch.                                        *)
(***************************************************************************)
EXTENDS SQLiteRepository, FiniteSetTheorems, SequenceTheorems, WellFoundedInduction, TLAPS

Campos == {"fase", "tabela", "sessao", "n", "marco", "proprios", "ids"}

\* A call in progress is about a table, a session and a number of rows.
ChamadaOK(c) ==
    /\ DOMAIN c = Campos
    /\ c.tabela \in Tabelas
    /\ c.fase \in {"inserir", "inserida"} => /\ c.sessao \in 1..MaxSessoes
                                             /\ c.n \in 1..MaxLote

Registros ==
    /\ DOMAIN chamada = Threads
    /\ \A t \in Threads : ChamadaOK(chamada[t])

\* A thread with rows in an open transaction, or between insert and commit, holds
\* the write lock: no other one can write.
ComATrava ==
    /\ DOMAIN pendentes = Threads
    /\ \A t \in Threads : pendentes[t] # {} => trava = t
    /\ \A t \in Threads : Fase(t, "inserida") => trava = t

\* SemOrfaos also for the rows that are not committed yet.
PendentesDeAlguem ==
    \A t \in Threads : \A r \in pendentes[t] : r.sessao \in sessoes

OrfaosInv == Registros /\ ComATrava /\ PendentesDeAlguem /\ SemOrfaos

-----------------------------------------------------------------------------
(* What the actions do to the calls.                                       *)

\* t goes on with call c; the other calls stay as they are.
LEMMA UmaChamada ==
    ASSUME Registros, NEW t \in Threads, NEW c, ChamadaOK(c),
           chamada' = [chamada EXCEPT ![t] = c]
    PROVE  /\ Registros'
           /\ chamada'[t] = c
           /\ \A u \in Threads : u # t => chamada'[u] = chamada[u]
BY DEF Registros

LEMMA ForaOK == ChamadaOK(Fora) /\ Fora.fase = "fora"
BY DEF ChamadaOK, Fora, Campos, Tabelas

\* The calls after a step of t, which leaves it between insert and commit only if it
\* is Inserir.
Seguem(t) ==
    /\ Registros'
    /\ chamada'[t].fase # "inserida"
    /\ \A u \in Threads : u # t => chamada'[u] = chamada[u]

LEMMA ChamadaIgual ==
    ASSUME Registros, NEW t \in Threads, chamada' = chamada, ~Fase(t, "inserida")
    PROVE  Seguem(t)
BY DEF Registros, Seguem, Fase

LEMMA VaiParaFora ==
    ASSUME Registros, NEW t \in Threads, chamada' = [chamada EXCEPT ![t] = Fora]
    PROVE  Seguem(t)
BY UmaChamada, ForaOK DEF Seguem

LEMMA AdicionarSegue ==
    ASSUME Registros, NEW t \in Threads, NEW b \in Tabelas, NEW s \in 1..MaxSessoes,
           NEW n \in 1..MaxLote, Adicionar(t, b, s, n)
    PROVE  Seguem(t)
<1> DEFINE c == [Fora EXCEPT !.fase = "inserir", !.tabela = b, !.sessao = s, !.n = n]
<1>1. ChamadaOK(c) /\ c.fase = "inserir"
  BY DEF ChamadaOK, Fora, Campos
<1>2. chamada' = [chamada EXCEPT ![t] = c]
  BY DEF Adicionar
<1>3. QED
  BY <1>1, <1>2, UmaChamada DEF Seguem

LEMMA RelerECommitarSegue ==
    ASSUME Registros, NEW t \in Threads, RelerECommitar(t)
    PROVE  Seguem(t)
<1> DEFINE c == [chamada[t] EXCEPT !.fase = "pronta", !.ids = Acima(t)]
<1>1. ChamadaOK(c) /\ c.fase = "pronta"
  BY DEF ChamadaOK, Registros, Campos
<1>2. chamada' = [chamada EXCEPT ![t] = c]
  BY DEF RelerECommitar, Registros, ChamadaOK, Campos
<1>3. QED
  BY <1>1, <1>2, UmaChamada DEF Seguem

LEMMA CommitarSegue ==
    ASSUME Registros, NEW t \in Threads, Commitar(t)
    PROVE  Seguem(t)
<1> DEFINE c == [chamada[t] EXCEPT !.fase = "reler"]
<1>1. ChamadaOK(c) /\ c.fase = "reler"
  BY DEF ChamadaOK, Registros, Campos
<1>2. chamada' = [chamada EXCEPT ![t] = c]
  BY DEF Commitar, Registros
<1>3. QED
  BY <1>1, <1>2, UmaChamada DEF Seguem

LEMMA RelerSegue ==
    ASSUME Registros, NEW t \in Threads, Reler(t)
    PROVE  Seguem(t)
<1> DEFINE c == [chamada[t] EXCEPT !.fase = "pronta", !.ids = Ultimos(t)]
<1>1. ChamadaOK(c) /\ c.fase = "pronta"
  BY DEF ChamadaOK, Registros, Campos
<1>2. chamada' = [chamada EXCEPT ![t] = c]
  BY DEF Reler, Registros, ChamadaOK, Campos
<1>3. QED
  BY <1>1, <1>2, UmaChamada DEF Seguem

\* Inserir, with the numbers its rows get.
LEMMA InserirSegue ==
    ASSUME Registros, NEW t \in Threads, Inserir(t)
    PROVE  /\ Registros'
           /\ \A u \in Threads : u # t => chamada'[u] = chamada[u]
           /\ chamada'[t].fase = "inserida"
           /\ chamada'[t].tabela = chamada[t].tabela
           /\ chamada'[t].sessao = chamada[t].sessao
           /\ chamada'[t].n = chamada[t].n
           /\ chamada'[t].proprios = [i \in 1..chamada[t].n |-> Ultimo(t, chamada[t].tabela) + i]
<1>1. PICK m : chamada' = [chamada EXCEPT ![t] =
                 [chamada[t] EXCEPT !.fase = "inserida", !.marco = m,
                    !.proprios = [i \in 1..chamada[t].n |-> Ultimo(t, chamada[t].tabela) + i]]]
  BY DEF Inserir
<1> DEFINE c == [chamada[t] EXCEPT !.fase = "inserida", !.marco = m,
                   !.proprios = [i \in 1..chamada[t].n |-> Ultimo(t, chamada[t].tabela) + i]]
<1>2. ChamadaOK(chamada[t]) /\ chamada[t].fase = "inserir"
  BY DEF Registros, Inserir, Fase
<1>3. /\ ChamadaOK(c)
      /\ c.fase = "inserida"
      /\ c.tabela = chamada[t].tabela
      /\ c.sessao = chamada[t].sessao
      /\ c.n = chamada[t].n
      /\ c.proprios = [i \in 1..chamada[t].n |-> Ultimo(t, chamada[t].tabela) + i]
  BY <1>2 DEF ChamadaOK, Campos
<1>4. QED
  BY <1>1, <1>3, UmaChamada

-----------------------------------------------------------------------------
(* No orphans.                                                             *)

\* Nobody else has rows pending, or is between insert and commit, when t may write.
LEMMA QuemEscreveEstaSo ==
    ASSUME ComATrava, NEW t \in Threads, PodeEscrever(t), NEW u \in Threads, u # t
    PROVE  pendentes[u] = {} /\ ~Fase(u, "inserida")
BY RepositoryAssumption DEF ComATrava, PodeEscrever

\* t commits.
LEMMA CommitPreserva ==
    ASSUME OrfaosInv, NEW t \in Threads, PodeEscrever(t), Seguem(t),
           NEW novas, Confirmar(t, novas),
           \A r \in novas : r.sessao \in sessoes'
    PROVE  OrfaosInv'
<1>1. \A u \in Threads : pendentes'[u] = {}
  BY QuemEscreveEstaSo DEF Confirmar, OrfaosInv, ComATrava
<1>2. \A u \in Threads : chamada'[u].fase # "inserida"
  BY QuemEscreveEstaSo DEF Seguem, OrfaosInv, Fase
<1>3. ComATrava'
  BY <1>1, <1>2 DEF Confirmar, OrfaosInv, ComATrava, Fase
<1>4. PendentesDeAlguem'
  BY <1>1 DEF PendentesDeAlguem
<1>5. SemOrfaos'
  BY DEF Confirmar, SemOrfaos
<1>6. QED
  BY <1>3, <1>4, <1>5 DEF OrfaosInv, Seguem

LEMMA VisiveisDeAlguem ==
    ASSUME OrfaosInv, NEW t \in Threads
    PROVE  \A r \in Visiveis(t) : r.sessao \in sessoes
BY DEF OrfaosInv, PendentesDeAlguem, SemOrfaos, Visiveis

\* Rows go into the transaction of t for a session that is there.
LEMMA InserirPreserva ==
    ASSUME OrfaosInv, NEW t \in Threads, PodeEscrever(t), NEW n \in Nat,
           pendentes' = [pendentes EXCEPT ![t] = @ \cup Inseridas(t, n)],
           n > 0 => trava' = t /\ chamada[t].sessao \in sessoes,
           trava' \in {trava, t},
           sessoes' = sessoes, linhas' = linhas,
           Registros',
           \A u \in Threads : u # t => chamada'[u] = chamada[u],
           chamada'[t].fase = "inserida" => trava' = t
    PROVE  OrfaosInv'
<1>1. \A r \in Inseridas(t, n) : n > 0 /\ r.sessao = chamada[t].sessao
  BY DEF Inseridas
<1>2. /\ pendentes'[t] = pendentes[t] \cup Inseridas(t, n)
      /\ DOMAIN pendentes' = Threads
  BY DEF OrfaosInv, ComATrava
<1>3. \A u \in Threads : u # t => pendentes'[u] = {} /\ chamada'[u].fase # "inserida"
  BY QuemEscreveEstaSo DEF OrfaosInv, ComATrava, Fase
<1>4. ComATrava'
  BY <1>1, <1>2, <1>3 DEF OrfaosInv, ComATrava, Fase
<1>5. PendentesDeAlguem'
  BY <1>1, <1>2, <1>3 DEF OrfaosInv, PendentesDeAlguem
<1>6. QED
  BY <1>4, <1>5 DEF OrfaosInv, SemOrfaos

\* A step that leaves tables, transactions and lock alone.
LEMMA ForaPreserva ==
    ASSUME OrfaosInv, NEW t \in Threads, Seguem(t),
           UNCHANGED <<sessoes, linhas, trava, pendentes>>
    PROVE  OrfaosInv'
BY DEF OrfaosInv, Seguem, ComATrava, PendentesDeAlguem, SemOrfaos, Fase

LEMMA OrfaosInit == Init => OrfaosInv
BY ForaOK DEF Init, OrfaosInv, Registros, ComATrava, PendentesDeAlguem, SemOrfaos, Fase

LEMMA OrfaosPasso == OrfaosInv /\ [Next]_vars => OrfaosInv'
<1> SUFFICES ASSUME OrfaosInv, [Next]_vars
             PROVE  OrfaosInv'
  OBVIOUS
<1>a. Registros /\ ComATrava
  BY DEF OrfaosInv
<1>1. CASE UNCHANGED vars
  BY <1>1 DEF vars, OrfaosInv, Registros, ComATrava, PendentesDeAlguem, SemOrfaos, Fase
<1>2. ASSUME NEW t \in Threads, CreateSession(t)
      PROVE  OrfaosInv'
  <2>1. Seguem(t)
    BY <1>2, <1>a, ChamadaIgual DEF CreateSession, Fase
  <2>2. \A r \in Visiveis(t) : r.sessao \in sessoes'
    BY <1>2, VisiveisDeAlguem DEF CreateSession
  <2>3. QED
    BY <1>2, <2>1, <2>2, CommitPreserva DEF CreateSession
<1>3. ASSUME NEW t \in Threads, UpdateSession(t)
      PROVE  OrfaosInv'
  <2>1. Seguem(t)
    BY <1>3, <1>a, ChamadaIgual DEF UpdateSession, Fase
  <2>2. \A r \in Visiveis(t) : r.sessao \in sessoes'
    BY <1>3, VisiveisDeAlguem DEF UpdateSession
  <2>3. QED
    BY <1>3, <2>1, <2>2, CommitPreserva DEF UpdateSession
<1>4. ASSUME NEW t \in Threads, NEW s \in 1..MaxSessoes, DeleteSession(t, s)
      PROVE  OrfaosInv'
  <2>1. Seguem(t)
    BY <1>4, <1>a, ChamadaIgual DEF DeleteSession, Fase
  <2>2. \A r \in Cascata(Visiveis(t), s) : r.sessao \in sessoes'
    BY <1>4, VisiveisDeAlguem DEF DeleteSession, Cascata
  <2>3. QED
    BY <1>4, <2>1, <2>2, CommitPreserva DEF DeleteSession
<1>5. ASSUME NEW t \in Threads, RelerECommitar(t) \/ Commitar(t)
      PROVE  OrfaosInv'
  <2>1. Seguem(t)
    BY <1>5, <1>a, RelerECommitarSegue, CommitarSegue
  <2>2. PodeEscrever(t)
    BY <1>5, <1>a DEF RelerECommitar, Commitar, ComATrava, PodeEscrever
  <2>3. \A r \in Visiveis(t) : r.sessao \in sessoes'
    BY <1>5, VisiveisDeAlguem DEF RelerECommitar, Commitar
  <2>4. QED
    BY <1>5, <2>1, <2>2, <2>3, CommitPreserva DEF RelerECommitar, Commitar
<1>6. ASSUME NEW t \in Threads, Inserir(t)
      PROVE  OrfaosInv'
  <2>1. chamada[t].n \in Nat
    BY <1>6, <1>a DEF Inserir, Fase, Registros, ChamadaOK
  <2>2. QED
    BY <1>6, <1>a, <2>1, InserirPreserva, InserirSegue DEF Inserir
<1>7. ASSUME NEW t \in Threads, InserirFalha(t)
      PROVE  OrfaosInv'
  <2>1. Seguem(t)
    BY <1>7, <1>a, VaiParaFora DEF InserirFalha
  <2>2. /\ chamada[t].n \in Nat
        /\ PodeEscrever(t)
        /\ sessoes' = sessoes
        /\ linhas' = linhas
    BY <1>7, <1>a DEF InserirFalha, Fase, Registros, ChamadaOK
  <2>3. PICK k \in IF chamada[t].sessao \in sessoes THEN 0..(chamada[t].n - 1) ELSE {0} :
          /\ pendentes' = [pendentes EXCEPT ![t] = @ \cup Inseridas(t, k)]
          /\ trava' = IF chamada[t].tabela = "artifacts" /\ chamada[t].sessao \in sessoes
                          /\ k = 0
                        THEN trava ELSE t
    BY <1>7 DEF InserirFalha
  <2>4. k \in Nat /\ (k > 0 => chamada[t].sessao \in sessoes)
    BY <2>2
  <2>5. trava' \in {trava, t} /\ (k > 0 => trava' = t)
    BY <2>3, <2>4
  <2>6. QED
    BY <2>1, <2>2, <2>3, <2>4, <2>5, InserirPreserva DEF Seguem
<1>8. ASSUME NEW t \in Threads, Close(t)
      PROVE  OrfaosInv'
  <2>1. Seguem(t)
    BY <1>8, <1>a, ChamadaIgual DEF Close, Fase
  <2>2. ComATrava'
    BY <1>8, <1>a, <2>1 DEF Close, ComATrava, Seguem, Fase
  <2>3. PendentesDeAlguem'
    BY <1>8, <1>a DEF Close, OrfaosInv, PendentesDeAlguem, ComATrava
  <2>4. QED
    BY <1>8, <2>1, <2>2, <2>3 DEF Close, OrfaosInv, SemOrfaos, Seguem
<1>9. ASSUME NEW t \in Threads,
             \/ \E b \in Tabelas, s \in 1..MaxSessoes, n \in 1..MaxLote : Adicionar(t, b, s, n)
             \/ Ocupado(t) \/ Reler(t) \/ Devolver(t)
      PROVE  OrfaosInv'
  <2>1. Seguem(t)
    BY <1>9, <1>a, AdicionarSegue, RelerSegue, VaiParaFora DEF Ocupado, Devolver
  <2>2. UNCHANGED <<sessoes, linhas, trava, pendentes>>
    BY <1>9 DEF Adicionar, Ocupado, Reler, Devolver
  <2>3. QED
    BY <2>1, <2>2, ForaPreserva
<1>10. QED
  BY <1>1, <1>2, <1>3, <1>4, <1>5, <1>6, <1>7, <1>8, <1>9 DEF Next

\* However calls interleave and whatever a failed batch leaves behind, no row is
\* left of a session that was deleted.
THEOREM NoOrphans == Spec => []SemOrfaos
<1>1. OrfaosInv => SemOrfaos
  BY DEF OrfaosInv
<1>2. QED
  BY <1>1, OrfaosInit, OrfaosPasso, PTL DEF Spec

-----------------------------------------------------------------------------
(* The repository in memory.                                               *)

Lote(b, s, base, n) == {[tabela |-> b, sessao |-> s, id |-> base + i] : i \in 1..n}

\* The ids pending in one table go up to the last one given out.
Numeradas ==
    \A t \in Threads :
        /\ IsFiniteSet(pendentes[t])
        /\ \A r \in pendentes[t] : /\ r.tabela \in Tabelas
                                   /\ r.id \in Nat
                                   /\ r.id <= Ultimo(t, r.tabela)

\* Between insert and commit: the ids of the call are consecutive, and when
\* nothing else is pending they are the next ones, and the rows are its own.
LotesInteiros ==
    \A t \in Threads : Fase(t, "inserida") =>
        \E base \in Nat :
            /\ chamada[t].proprios = [i \in 1..chamada[t].n |-> base + i]
            /\ Sobras(t) = {} =>
                 /\ base = contador[chamada[t].tabela]
                 /\ pendentes[t] = Lote(chamada[t].tabela, chamada[t].sessao,
                                        base, chamada[t].n)

MemoriaInv ==
    /\ OrfaosInv
    /\ contador \in [Tabelas -> Nat]
    /\ Numeradas
    /\ LotesInteiros

LEMMA TamanhoDoLote ==
    ASSUME NEW b, NEW s, NEW base \in Nat, NEW n \in Nat
    PROVE  /\ IsFiniteSet(Lote(b, s, base, n))
           /\ Cardinality(Lote(b, s, base, n)) = n
<1> DEFINE f == [i \in 1..n |-> [tabela |-> b, sessao |-> s, id |-> base + i]]
<1>1. f \in Surjection(1..n, Lote(b, s, base, n))
  BY DEF Surjection, Lote
<1>2. f \in Injection(1..n, Lote(b, s, base, n))
  <2>1. \A i, j \in 1..n : f[i] = f[j] => i = j
    <3>1. \A i \in 1..n : f[i].id = base + i
      OBVIOUS
    <3>2. QED
      BY <3>1
  <2>2. QED
    BY <1>1, <2>1 DEF Injection, IsInjective, Surjection
<1>3. IsFiniteSet(1..n) /\ Cardinality(1..n) = n
  BY FS_Interval
<1>4. QED
  BY <1>1, <1>2, <1>3, FS_Surjection

\* What t has pending in table b.
PendentesEm(t, b) == {r \in pendentes[t] : r.tabela = b}

LEMMA UltimoConta ==
    ASSUME contador \in [Tabelas -> Nat], NEW t \in Threads, NEW b \in Tabelas,
           IsFiniteSet(pendentes[t])
    PROVE  /\ IsFiniteSet(PendentesEm(t, b))
           /\ Cardinality(PendentesEm(t, b)) \in Nat
           /\ Ultimo(t, b) = contador[b] + Cardinality(PendentesEm(t, b))
           /\ Ultimo(t, b) \in Nat
           /\ contador[b] <= Ultimo(t, b)
<1>1. IsFiniteSet(PendentesEm(t, b)) /\ Cardinality(PendentesEm(t, b)) \in Nat
  BY FS_Subset, FS_CardinalityType DEF PendentesEm
<1>2. Ultimo(t, b) = contador[b] + Cardinality(PendentesEm(t, b))
  BY DEF Ultimo, PendentesEm
<1>3. QED
  BY <1>1, <1>2

LEMMA InserirNumera ==
    ASSUME MemoriaInv, NEW t \in Threads, PodeEscrever(t), NEW n \in Nat,
           NEW b \in Tabelas, chamada[t].tabela = b,
           pendentes' = [pendentes EXCEPT ![t] = @ \cup Inseridas(t, n)],
           contador' = contador
    PROVE  Numeradas'
<1> DEFINE novas == Inseridas(t, n)
<1>1. /\ IsFiniteSet(pendentes[t])
      /\ DOMAIN pendentes = Threads
      /\ contador \in [Tabelas -> Nat]
  BY DEF MemoriaInv, Numeradas, OrfaosInv, ComATrava
<1>2. Ultimo(t, b) \in Nat
  BY <1>1, UltimoConta
<1>3. /\ novas = Lote(b, chamada[t].sessao, Ultimo(t, b), n)
      /\ IsFiniteSet(novas)
      /\ Cardinality(novas) = n
  <2>1. novas = Lote(b, chamada[t].sessao, Ultimo(t, b), n)
    BY Zenon DEF Inseridas, Lote
  <2>2. QED
    BY <1>2, <2>1, TamanhoDoLote
<1>4. \A r \in novas : r.tabela = b /\ r.id \in Nat
                       /\ Ultimo(t, b) < r.id /\ r.id <= Ultimo(t, b) + n
  BY <1>2 DEF Inseridas
<1>5. /\ pendentes'[t] = pendentes[t] \cup novas
      /\ IsFiniteSet(pendentes'[t])
  BY <1>1, <1>3, FS_Union
<1>6. PendentesEm(t, b)' = PendentesEm(t, b) \cup novas
  BY <1>4, <1>5 DEF PendentesEm
<1>7. PendentesEm(t, b) \cap novas = {}
  BY <1>2, <1>4 DEF PendentesEm, MemoriaInv, Numeradas
<1>8. Ultimo(t, b)' = Ultimo(t, b) + n
  <2>1. Cardinality(PendentesEm(t, b)') = Cardinality(PendentesEm(t, b)) + n
    <3>1. Cardinality({}) = 0
      BY FS_EmptySet
    <3>2. IsFiniteSet(PendentesEm(t, b)) /\ Cardinality(PendentesEm(t, b)) \in Nat
      BY <1>1, UltimoConta
    <3>3. Cardinality(PendentesEm(t, b) \cup novas)
             = Cardinality(PendentesEm(t, b)) + Cardinality(novas)
                 - Cardinality(PendentesEm(t, b) \cap novas)
      BY <1>3, <3>2, FS_Union
    <3>4. Cardinality(PendentesEm(t, b) \cap novas) = 0 /\ Cardinality(novas) = n
      BY <1>3, <1>7, <3>1
    <3>5. Cardinality(PendentesEm(t, b) \cup novas) = Cardinality(PendentesEm(t, b)) + n
      BY ONLY <3>2, <3>3, <3>4, n \in Nat
    <3>6. QED
      BY Zenon, <1>6, <3>5
  <2>2. Ultimo(t, b)' = contador[b] + Cardinality(PendentesEm(t, b)')
    BY DEF Ultimo, PendentesEm
  <2>3. contador[b] \in Nat /\ Cardinality(PendentesEm(t, b)) \in Nat
        /\ Ultimo(t, b) = contador[b] + Cardinality(PendentesEm(t, b))
    BY <1>1, UltimoConta
  <2>4. QED
    BY <2>1, <2>2, <2>3
<1>9. \A a \in Tabelas : a # b => Ultimo(t, a)' = Ultimo(t, a)
  <2>1. ASSUME NEW a \in Tabelas, a # b
        PROVE  Ultimo(t, a)' = Ultimo(t, a)
    <3>1. {r \in pendentes'[t] : r.tabela = a} = {r \in pendentes[t] : r.tabela = a}
      BY <2>1, <1>4, <1>5
    <3>2. QED
      BY <3>1 DEF Ultimo
  <2>2. QED
    BY <2>1
<1>10. \A r \in pendentes'[t] : /\ r.tabela \in Tabelas
                                /\ r.id \in Nat
                                /\ r.id <= Ultimo(t, r.tabela)'
  <2>1. ASSUME NEW r \in pendentes[t]
        PROVE  r.tabela \in Tabelas /\ r.id \in Nat /\ r.id <= Ultimo(t, r.tabela)'
    <3>1. r.tabela \in Tabelas /\ r.id \in Nat /\ r.id <= Ultimo(t, r.tabela)
      BY <2>1 DEF MemoriaInv, Numeradas
    <3>2. CASE r.tabela = b
      BY <3>1, <3>2, <1>2, <1>8
    <3>3. CASE r.tabela # b
      BY <3>1, <3>3, <1>9
    <3>4. QED
      BY <3>2, <3>3
  <2>2. ASSUME NEW r \in novas
        PROVE  r.tabela \in Tabelas /\ r.id \in Nat /\ r.id <= Ultimo(t, r.tabela)'
    BY <2>2, <1>4, <1>8
  <2>3. QED
    BY <1>5, <2>1, <2>2
<1>11. \A u \in Threads : u # t => pendentes'[u] = {}
  BY <1>1, QuemEscreveEstaSo DEF MemoriaInv, OrfaosInv
<1>12. \A u \in Threads : u # t => IsFiniteSet(pendentes'[u])
  BY <1>11, FS_EmptySet
<1>13. QED
  BY <1>5, <1>10, <1>11, <1>12 DEF Numeradas

\* t leaves the rows of the others, the counters and the lock order as they are.
LEMMA OutrosSeguem ==
    ASSUME MemoriaInv, OrfaosInv', NEW t \in Threads, contador' = contador,
           \A u \in Threads : u # t => /\ pendentes'[u] = pendentes[u]
                                      /\ chamada'[u] = chamada[u],
           pendentes'[t] = pendentes[t] \/ pendentes'[t] = {},
           chamada'[t].fase # "inserida"
    PROVE  MemoriaInv'
<1>1. ASSUME NEW u \in Threads, pendentes'[u] = pendentes[u]
      PROVE  /\ IsFiniteSet(pendentes'[u])
             /\ \A r \in pendentes'[u] : /\ r.tabela \in Tabelas
                                          /\ r.id \in Nat
                                          /\ r.id <= Ultimo(u, r.tabela)'
  BY <1>1 DEF MemoriaInv, Numeradas, Ultimo
<1>2. Numeradas'
  BY <1>1, FS_EmptySet DEF Numeradas
<1>3. ASSUME NEW u \in Threads, Fase(u, "inserida")'
      PROVE  u # t /\ Fase(u, "inserida") /\ Sobras(u)' = Sobras(u)
  <2>1. u # t /\ chamada'[u] = chamada[u] /\ pendentes'[u] = pendentes[u]
    BY <1>3 DEF Fase
  <2>2. Sobras(u)' = Sobras(u)
    BY Zenon, <2>1 DEF Sobras, Fase
  <2>3. QED
    BY <1>3, <2>1, <2>2 DEF Fase
<1>4. LotesInteiros'
  <2>1. ASSUME NEW u \in Threads, Fase(u, "inserida")'
        PROVE  \E base \in Nat :
                 /\ chamada'[u].proprios = [i \in 1..chamada'[u].n |-> base + i]
                 /\ Sobras(u)' = {} =>
                      /\ base = contador'[chamada'[u].tabela]
                      /\ pendentes'[u] = Lote(chamada'[u].tabela, chamada'[u].sessao,
                                              base, chamada'[u].n)
    <3>1. /\ Fase(u, "inserida") /\ Sobras(u)' = Sobras(u)
          /\ chamada'[u] = chamada[u] /\ pendentes'[u] = pendentes[u]
      BY <1>3, <2>1
    <3>2. \E base \in Nat :
            /\ chamada[u].proprios = [i \in 1..chamada[u].n |-> base + i]
            /\ Sobras(u) = {} =>
                 /\ base = contador[chamada[u].tabela]
                 /\ pendentes[u] = Lote(chamada[u].tabela, chamada[u].sessao,
                                        base, chamada[u].n)
      BY Zenon, <3>1 DEF MemoriaInv, LotesInteiros
    <3>3. QED
      BY Zenon, <3>1, <3>2
  <2>2. QED
    BY Zenon, <2>1 DEF LotesInteiros
<1>5. QED
  BY <1>2, <1>4 DEF MemoriaInv

LEMMA CommitSegue ==
    ASSUME MemoriaInv, OrfaosInv', NEW t \in Threads, PodeEscrever(t),
           NEW novas, Confirmar(t, novas),
           Seguem(t)
    PROVE  MemoriaInv'
<1>1. \A u \in Threads : u # t => pendentes[u] = {} /\ ~Fase(u, "inserida")
  BY QuemEscreveEstaSo DEF MemoriaInv, OrfaosInv
<1>2. \A u \in Threads : pendentes'[u] = {}
  BY <1>1 DEF Confirmar, MemoriaInv, OrfaosInv, ComATrava
<1>3. \A u \in Threads : ~Fase(u, "inserida")'
  BY <1>1 DEF Seguem, Fase
<1>4. contador' \in [Tabelas -> Nat]
  <2>1. \A b \in Tabelas : Ultimo(t, b) \in Nat
    BY UltimoConta DEF MemoriaInv, Numeradas
  <2>2. QED
    BY <2>1 DEF Confirmar
<1>5. Numeradas'
  BY <1>2, FS_EmptySet DEF Numeradas
<1>6. LotesInteiros'
  BY <1>3 DEF LotesInteiros
<1>7. QED
  BY <1>4, <1>5, <1>6 DEF MemoriaInv

LEMMA InserirLote ==
    ASSUME MemoriaInv, NEW t \in Threads, Inserir(t)
    PROVE  LotesInteiros'
<1>1. PICK b \in Tabelas : chamada[t].tabela = b
  BY DEF Inserir, Fase, MemoriaInv, OrfaosInv, Registros, ChamadaOK
<1>2. PICK n \in Nat : chamada[t].n = n
  BY DEF Inserir, Fase, MemoriaInv, OrfaosInv, Registros, ChamadaOK
<1>3. PICK base \in Nat : Ultimo(t, b) = base
  BY UltimoConta DEF MemoriaInv, Numeradas
<1>4. /\ \A u \in Threads : u # t => ~Fase(u, "inserida")'
      /\ chamada'[t].tabela = b
      /\ chamada'[t].n = n
      /\ chamada'[t].sessao = chamada[t].sessao
      /\ chamada'[t].fase = "inserida"
      /\ chamada'[t].proprios = [i \in 1..n |-> base + i]
  <2>1. Registros /\ ComATrava /\ PodeEscrever(t)
    BY DEF MemoriaInv, OrfaosInv, Inserir
  <2>2. \A u \in Threads : u # t => chamada'[u] = chamada[u] /\ ~Fase(u, "inserida")
    BY <2>1, InserirSegue, QuemEscreveEstaSo
  <2>3. /\ chamada'[t].tabela = b
        /\ chamada'[t].n = n
        /\ chamada'[t].sessao = chamada[t].sessao
        /\ chamada'[t].fase = "inserida"
    BY <1>1, <1>2, <2>1, InserirSegue
  <2>4. chamada'[t].proprios = [i \in 1..chamada[t].n |-> Ultimo(t, chamada[t].tabela) + i]
    BY <2>1, InserirSegue
  <2>5. chamada'[t].proprios = [i \in 1..n |-> base + i]
    BY Zenon, <1>1, <1>2, <1>3, <2>4
  <2>6. QED
    BY <2>2, <2>3, <2>5 DEF Fase
<1>5. pendentes'[t] = pendentes[t] \cup Lote(b, chamada[t].sessao, base, n)
  <2>1. Inseridas(t, n) = Lote(b, chamada[t].sessao, base, n)
    BY Zenon, <1>1, <1>3 DEF Inseridas, Lote
  <2>2. pendentes'[t] = pendentes[t] \cup Inseridas(t, n)
    BY <1>2 DEF Inserir, MemoriaInv, OrfaosInv, ComATrava
  <2>3. QED
    BY <2>1, <2>2
<1>6. ASSUME NEW r \in pendentes[t]
      PROVE  r \in Sobras(t)'
  <2>1. r.tabela \in Tabelas /\ r.id \in Nat /\ r.id <= Ultimo(t, r.tabela)
    BY <1>6 DEF MemoriaInv, Numeradas
  <2>2. ~(r.tabela = b /\ \E i \in 1..n : r.id = base + i)
    BY <2>1, <1>3
  <2>3. ~(r.tabela = b /\ \E i \in DOMAIN chamada'[t].proprios : r.id = chamada'[t].proprios[i])
    BY <2>2, <1>4
  <2>4. QED
    BY <2>3, <1>4, <1>5, <1>6 DEF Sobras
<1>7. ASSUME Sobras(t)' = {}
      PROVE  /\ base = contador'[b]
             /\ pendentes'[t] = Lote(b, chamada[t].sessao, base, n)
  <2>1. pendentes[t] = {}
    BY <1>6, <1>7
  <2>2. Ultimo(t, b) = contador[b] + 0
    BY <2>1, FS_EmptySet DEF Ultimo
  <2>3. contador[b] \in Nat /\ contador' = contador
    BY DEF MemoriaInv, Inserir
  <2>4. QED
    BY <2>1, <2>2, <2>3, <1>3, <1>5
<1>8. QED
  BY <1>4, <1>7 DEF LotesInteiros

LEMMA MemoriaInit == Init => MemoriaInv
<1> SUFFICES ASSUME Init
             PROVE  MemoriaInv
  OBVIOUS
<1>1. contador \in [Tabelas -> Nat]
  BY DEF Init
<1>2. Numeradas
  BY FS_EmptySet DEF Init, Numeradas
<1>3. LotesInteiros
  BY ForaOK DEF Init, LotesInteiros, Fase
<1>4. QED
  BY <1>1, <1>2, <1>3, OrfaosInit DEF MemoriaInv

LEMMA MemoriaPasso == MemoriaInv /\ [Next]_vars => MemoriaInv'
<1> SUFFICES ASSUME MemoriaInv, [Next]_vars
             PROVE  MemoriaInv'
  OBVIOUS
<1>a. OrfaosInv /\ OrfaosInv' /\ Registros /\ ComATrava
  BY OrfaosPasso DEF MemoriaInv, OrfaosInv
<1>1. CASE UNCHANGED vars
  <2>1. Numeradas'
    BY <1>1 DEF vars, MemoriaInv, Numeradas, Ultimo
  <2>2. \A t \in Threads : Sobras(t)' = Sobras(t)
    BY Zenon, <1>1 DEF vars, Sobras, Fase
  <2>3. LotesInteiros'
    BY <1>1, <2>2 DEF vars, MemoriaInv, LotesInteiros, Fase
  <2>4. QED
    BY <1>1, <1>a, <2>1, <2>3 DEF vars, MemoriaInv
<1>2. ASSUME NEW t \in Threads,
             \/ CreateSession(t) \/ UpdateSession(t)
             \/ \E s \in 1..MaxSessoes : DeleteSession(t, s)
      PROVE  MemoriaInv'
  <2>1. /\ PodeEscrever(t) /\ Fase(t, "fora")
        /\ chamada' = chamada
        /\ \E novas : Confirmar(t, novas)
    BY <1>2 DEF CreateSession, UpdateSession, DeleteSession
  <2>2. Seguem(t)
    BY <2>1, <1>a, ChamadaIgual DEF Fase
  <2>3. QED
    BY <2>1, <2>2, <1>a, CommitSegue
<1>3. ASSUME NEW t \in Threads, RelerECommitar(t) \/ Commitar(t)
      PROVE  MemoriaInv'
  <2>1. Seguem(t)
    BY <1>3, <1>a, RelerECommitarSegue, CommitarSegue
  <2>2. PodeEscrever(t) /\ \E novas : Confirmar(t, novas)
    BY <1>3, <1>a DEF RelerECommitar, Commitar, ComATrava, PodeEscrever
  <2>3. QED
    BY <2>1, <2>2, <1>a, CommitSegue
<1>4. ASSUME NEW t \in Threads, Inserir(t)
      PROVE  MemoriaInv'
  <2>1. chamada[t].n \in Nat /\ chamada[t].tabela \in Tabelas
    BY <1>4, <1>a DEF Inserir, Fase, Registros, ChamadaOK
  <2>2. Numeradas'
    BY <1>4, <2>1, InserirNumera DEF Inserir
  <2>3. QED
    BY <1>4, <1>a, <2>2, InserirLote DEF MemoriaInv, Inserir
<1>5. ASSUME NEW t \in Threads, InserirFalha(t)
      PROVE  MemoriaInv'
  <2>1. Seguem(t)
    BY <1>5, <1>a, VaiParaFora DEF InserirFalha
  <2>2. /\ chamada[t].n \in Nat /\ chamada[t].tabela \in Tabelas
        /\ PodeEscrever(t)
        /\ contador' = contador
    BY <1>5, <1>a DEF InserirFalha, Fase, Registros, ChamadaOK
  <2>3. PICK k \in IF chamada[t].sessao \in sessoes THEN 0..(chamada[t].n - 1) ELSE {0} :
          pendentes' = [pendentes EXCEPT ![t] = @ \cup Inseridas(t, k)]
    BY <1>5 DEF InserirFalha
  <2>4. k \in Nat
    BY <2>2
  <2>5. Numeradas'
    BY <2>2, <2>3, <2>4, InserirNumera
  <2>6. \A u \in Threads : ~Fase(u, "inserida")'
    BY <2>1, <2>2, <1>a, QuemEscreveEstaSo DEF Seguem, Fase
  <2>7. LotesInteiros'
    BY <2>6 DEF LotesInteiros
  <2>8. QED
    BY <2>2, <2>5, <2>7, <1>a DEF MemoriaInv
<1>6. ASSUME NEW t \in Threads, Close(t)
      PROVE  MemoriaInv'
  <2>1. /\ contador' = contador
        /\ chamada' = chamada
        /\ chamada'[t].fase # "inserida"
        /\ pendentes'[t] = {}
        /\ \A u \in Threads : u # t => pendentes'[u] = pendentes[u]
    BY <1>6, <1>a DEF Close, Fase, ComATrava
  <2>2. QED
    BY <2>1, <1>a, OutrosSeguem
<1>7. ASSUME NEW t \in Threads,
             \/ \E b \in Tabelas, s \in 1..MaxSessoes, n \in 1..MaxLote : Adicionar(t, b, s, n)
             \/ Ocupado(t) \/ Reler(t) \/ Devolver(t)
      PROVE  MemoriaInv'
  <2>1. Seguem(t)
    BY <1>7, <1>a, AdicionarSegue, RelerSegue, VaiParaFora DEF Ocupado, Devolver
  <2>2. UNCHANGED <<contador, pendentes>>
    BY <1>7 DEF Adicionar, Ocupado, Reler, Devolver
  <2>3. QED
    BY <2>1, <2>2, <1>a, OutrosSeguem DEF Seguem
<1>8. QED
  BY <1>1, <1>2, <1>3, <1>4, <1>5, <1>6, <1>7 DEF Next

\* A commit with nothing but whole batches: the rows of the call, or none.
LEMMA CommitVazio ==
    ASSUME contador \in [Tabelas -> Nat], NEW t \in Threads, pendentes[t] = {},
           NEW novas, Confirmar(t, novas)
    PROVE  contador' = contador /\ Visiveis(t) = linhas
<1>1. \A b \in Tabelas : Ultimo(t, b) = contador[b]
  <2>1. ASSUME NEW b \in Tabelas
        PROVE  Ultimo(t, b) = contador[b]
    <3>1. {r \in pendentes[t] : r.tabela = b} = {}
      OBVIOUS
    <3>2. contador[b] \in Nat /\ Cardinality({}) = 0
      BY FS_EmptySet
    <3>3. QED
      BY <3>1, <3>2 DEF Ultimo
  <2>2. QED
    BY <2>1
<1>2. QED
  BY <1>1 DEF Confirmar, Visiveis

LEMMA CommitDoLote ==
    ASSUME contador \in [Tabelas -> Nat], NEW t \in Threads, NEW b \in Tabelas, NEW s,
           NEW n \in Nat, pendentes[t] = Lote(b, s, contador[b], n),
           Confirmar(t, Visiveis(t))
    PROVE  /\ linhas' = linhas \cup Lote(b, s, contador[b], n)
           /\ contador' = [contador EXCEPT ![b] = @ + n]
<1>1. contador[b] \in Nat
  OBVIOUS
<1>2. Ultimo(t, b) = contador[b] + n
  <2>1. {r \in pendentes[t] : r.tabela = b} = Lote(b, s, contador[b], n)
    BY DEF Lote
  <2>2. Cardinality(Lote(b, s, contador[b], n)) = n
    BY <1>1, TamanhoDoLote
  <2>3. QED
    BY <2>1, <2>2 DEF Ultimo
<1>3. \A a \in Tabelas : a # b => Ultimo(t, a) = contador[a]
  <2>1. ASSUME NEW a \in Tabelas, a # b
        PROVE  Ultimo(t, a) = contador[a]
    <3>1. {r \in pendentes[t] : r.tabela = a} = {}
      BY <2>1 DEF Lote
    <3>2. contador[a] \in Nat /\ Cardinality({}) = 0
      BY FS_EmptySet
    <3>3. Ultimo(t, a) = contador[a] + Cardinality({})
      BY Zenon, <3>1 DEF Ultimo
    <3>4. QED
      BY <3>2, <3>3
  <2>2. QED
    BY <2>1
<1>4. QED
  BY <1>2, <1>3 DEF Confirmar, Visiveis

\* A thread that is not between insert and commit has nothing pending but leftovers.
LEMMA SoSobras ==
    ASSUME NEW t \in Threads, ~Fase(t, "inserida")
    PROVE  Sobras(t) = pendentes[t]
BY DEF Sobras

LEMMA PassoNaMemoria ==
    MemoriaInv /\ [Next]_vars => [Memoria!Next \/ ComSobras]_(Memoria!vars)
<1> SUFFICES ASSUME MemoriaInv, [Next]_vars
             PROVE  Memoria!Next \/ ComSobras \/ UNCHANGED Memoria!vars
  BY Zenon
<1>a. /\ contador \in [Tabelas -> Nat]
      /\ DOMAIN pendentes = Threads
      /\ Registros
      /\ LotesInteiros
  BY DEF MemoriaInv, OrfaosInv, ComATrava
<1>b. ASSUME NEW t \in Threads, Sobras(t) # {}, NEW novas, Confirmar(t, novas)
      PROVE  ComSobras
  BY <1>a, <1>b DEF ComSobras, Confirmar
<1>1. CASE UNCHANGED <<sessoes, criadas, linhas, contador>>
  BY <1>1 DEF Memoria!vars
<1>2. ASSUME NEW t \in Threads, CreateSession(t) \/ UpdateSession(t)
      PROVE  Memoria!Next \/ ComSobras \/ UNCHANGED Memoria!vars
  <2>1. ~Fase(t, "inserida") /\ Confirmar(t, Visiveis(t))
    BY <1>2 DEF CreateSession, UpdateSession, Fase
  <2>2. CASE pendentes[t] # {}
    BY <2>1, <2>2, <1>b, SoSobras
  <2>3. CASE pendentes[t] = {}
    <3>1. contador' = contador /\ linhas' = linhas
      BY <2>1, <2>3, <1>a, CommitVazio DEF Confirmar
    <3>2. QED
      BY <1>2, <3>1 DEF CreateSession, UpdateSession, Memoria!vars, Memoria!Next,
                        Memoria!CreateSession
  <2>4. QED
    BY <2>2, <2>3
<1>3. ASSUME NEW t \in Threads, NEW s \in 1..MaxSessoes, DeleteSession(t, s)
      PROVE  Memoria!Next \/ ComSobras \/ UNCHANGED Memoria!vars
  <2>1. ~Fase(t, "inserida") /\ Confirmar(t, Cascata(Visiveis(t), s))
    BY <1>3 DEF DeleteSession, Fase
  <2>2. CASE pendentes[t] # {}
    BY <2>1, <2>2, <1>b, SoSobras
  <2>3. CASE pendentes[t] = {}
    <3>1. contador' = contador /\ Visiveis(t) = linhas
      BY <2>1, <2>3, <1>a, CommitVazio
    <3>2. linhas' = {r \in linhas : r.sessao # s}
      BY <2>1, <3>1 DEF Confirmar, Cascata
    <3>3. Memoria!DeleteSession(s)
      BY <1>3, <3>1, <3>2 DEF DeleteSession, Memoria!DeleteSession
    <3>4. QED
      BY <1>3, <3>3 DEF DeleteSession, Memoria!Next
  <2>4. QED
    BY <2>2, <2>3
<1>4. ASSUME NEW t \in Threads, RelerECommitar(t) \/ Commitar(t)
      PROVE  Memoria!Next \/ ComSobras \/ UNCHANGED Memoria!vars
  <2>1. Fase(t, "inserida") /\ Confirmar(t, Visiveis(t)) /\ UNCHANGED <<sessoes, criadas>>
    BY <1>4 DEF RelerECommitar, Commitar
  <2>2. CASE Sobras(t) # {}
    BY <2>1, <2>2, <1>b
  <2>3. CASE Sobras(t) = {}
    <3>1. PICK b \in Tabelas, s \in 1..MaxSessoes, n \in 1..MaxLote :
            chamada[t].tabela = b /\ chamada[t].sessao = s /\ chamada[t].n = n
      BY <2>1, <1>a DEF Fase, Registros, ChamadaOK
    <3>2. pendentes[t] = Lote(b, s, contador[b], n)
      BY <2>1, <2>3, <3>1, <1>a DEF LotesInteiros
    <3>3. /\ linhas' = linhas \cup Lote(b, s, contador[b], n)
          /\ contador' = [contador EXCEPT ![b] = @ + n]
      BY <2>1, <3>2, <1>a, CommitDoLote
    <3>4. Memoria!Add(b, s, n)
      BY <2>1, <3>3 DEF Memoria!Add, Lote
    <3>5. QED
      BY <3>4 DEF Memoria!Next, Memoria!Tabelas, Tabelas
  <2>4. QED
    BY <2>2, <2>3
<1>5. CASE Next
  BY <1>5, <1>1, <1>2, <1>3, <1>4
     DEF Next, Ocupado, Adicionar, Inserir, InserirFalha, Reler, Devolver, Close
<1>6. QED
  BY <1>1, <1>5 DEF vars

\* Whoever looks at the tables cannot tell the connections, locks and transactions
\* of sqlite_repo.py from the dictionaries of memory_repo.py, but for the rows that a
\* call which raised left behind.
THEOREM MemoryImplemented == Spec => CumpreAMemoria
<1>1. Init => Memoria!Init
  BY DEF Init, Memoria!Init, Memoria!Tabelas, Tabelas
<1>2. QED
  BY <1>1, MemoriaInit, MemoriaPasso, PassoNaMemoria, PTL DEF Spec, CumpreAMemoria

-----------------------------------------------------------------------------
(* ORDER BY id.                                                            *)

Abaixo(S, x) == {y \in S : y < x}

\* No two of a finite set of numbers have as many below them.
LEMMA PostoUnico ==
    ASSUME NEW S \in SUBSET Int, IsFiniteSet(S), NEW x \in S, NEW z \in S,
           Cardinality(Abaixo(S, x)) = Cardinality(Abaixo(S, z))
    PROVE  x = z
<1>1. ASSUME NEW a \in S, NEW b \in S, a < b
      PROVE  Cardinality(Abaixo(S, a)) # Cardinality(Abaixo(S, b))
  <2>1. Abaixo(S, a) \subseteq Abaixo(S, b) /\ a \in Abaixo(S, b) /\ a \notin Abaixo(S, a)
    <3>1. \A y \in S : y < a => y < b
      BY <1>1
    <3>2. ~(a < a)
      OBVIOUS
    <3> QED
      BY <1>1, <3>1, <3>2 DEF Abaixo
  <2>2. IsFiniteSet(Abaixo(S, b))
    BY FS_Subset DEF Abaixo
  <2> QED
    BY <2>1, <2>2, FS_Subset
<1>2. x < z \/ z < x \/ x = z
  OBVIOUS
<1> QED
  BY <1>1, <1>2

\* The place of each is one more than the number of those below it.
LEMMA Posto ==
    ASSUME NEW S \in SUBSET Int, IsFiniteSet(S), NEW x \in S, NEW i \in 1..Cardinality(S),
           Cardinality(Abaixo(S, x)) = i - 1
    PROVE  Ordenados(S)[i] = x
<1>1. Ordenados(S)[i] = CHOOSE z \in S : Cardinality(Abaixo(S, z)) = i - 1
  BY DEF Ordenados, Abaixo
<1>2. \A z \in S : Cardinality(Abaixo(S, z)) = i - 1 => z = x
  BY PostoUnico
<1> QED
  BY <1>1, <1>2

\* A run of n ids with none above it is what the last n places hold, in order.
LEMMA UltimosPostos ==
    ASSUME NEW S \in SUBSET Int, IsFiniteSet(S), NEW base \in Int, NEW n \in Nat,
           (base + 1)..(base + n) \subseteq S,
           \A y \in S : y <= base + n
    PROVE  /\ Cardinality(S) \in Nat /\ n <= Cardinality(S)
           /\ \A k \in 1..n : Ordenados(S)[Cardinality(S) - n + k] = base + k
<1>0. Cardinality(S) \in Nat
  BY FS_CardinalityType
<1>1. n <= Cardinality(S)
  <2>1. Cardinality((base + 1)..(base + n)) = n
    BY FS_Interval
  <2> QED
    BY <2>1, FS_Subset
<1>2. ASSUME NEW k \in 1..n
      PROVE  Ordenados(S)[Cardinality(S) - n + k] = base + k
  <2> DEFINE x == base + k
             T == x..(base + n)
             i == Cardinality(S) - n + k
  <2>1. x \in S /\ T \subseteq S /\ x \in Int
    OBVIOUS
  <2>2. Cardinality(T) = n - k + 1
    BY FS_Interval
  <2>3. Abaixo(S, x) = S \ T
    <3>1. \A y \in S : y < x <=> y \notin T
      BY <2>1
    <3> HIDE DEF x, T
    <3> QED
      BY <3>1 DEF Abaixo
  <2>4. S \cap T = T
    BY <2>1
  <2>5. Cardinality(S \ T) = Cardinality(S) - Cardinality(T)
    BY <2>4, FS_Difference
  <2>6. Cardinality(Abaixo(S, x)) = i - 1 /\ i \in 1..Cardinality(S)
    <3>1. Cardinality(Abaixo(S, x)) = Cardinality(S) - (n - k + 1)
      BY <2>2, <2>3, <2>5
    <3> HIDE DEF x
    <3> QED
      BY <1>0, <1>1, <3>1
  <2> HIDE DEF x, i
  <2>7. Ordenados(S)[i] = x
    BY <2>1, <2>6, Posto
  <2> QED
    BY <2>7 DEF x, i
<1> QED
  BY <1>0, <1>1, <1>2

LEMMA OrdenadosTipo ==
    ASSUME NEW S, IsFiniteSet(S)
    PROVE  /\ \E R : Ordenados(S) \in Seq(R)
           /\ Len(Ordenados(S)) = Cardinality(S)
           /\ Ordenados(S) = [i \in 1..Cardinality(S) |-> Ordenados(S)[i]]
<1> DEFINE N == Cardinality(S)
           q == Ordenados(S)
           R == {q[i] : i \in 1..N}
<1>1. N \in Nat
  BY FS_CardinalityType
<1>2. q = [i \in 1..N |-> q[i]]
  <2> DEFINE x(i) == CHOOSE z \in S : Cardinality({y \in S : y < z}) = i - 1
  <2>1. q = [i \in 1..N |-> x(i)]
    BY Zenon DEF Ordenados
  <2> HIDE DEF q, x, N
  <2> QED
    BY <2>1, Zenon
<1> HIDE DEF N, q
<1>3. \A i \in 1..N : q[i] \in R
  OBVIOUS
<1>4. q \in [1..N -> R]
  BY <1>2
<1>5. q \in Seq(R) /\ Len(q) = N
  BY <1>1, <1>4
<1> QED
  BY <1>2, <1>5 DEF N, q

LEMMA OrdenadosDoIntervalo ==
    ASSUME NEW base \in Nat, NEW n \in Nat
    PROVE  Ordenados((base + 1)..(base + n)) = [i \in 1..n |-> base + i]
<1> DEFINE S == (base + 1)..(base + n)
           q == Ordenados(S)
<1>1. /\ S \in SUBSET Int /\ (base + 1)..(base + n) \subseteq S
      /\ IsFiniteSet(S) /\ Cardinality(S) = n /\ \A y \in S : y <= base + n
  BY FS_Interval
<1> HIDE DEF S
<1>2. \A k \in 1..n : Ordenados(S)[Cardinality(S) - n + k] = base + k
  <2>1. base \in Int
    OBVIOUS
  <2> QED
    BY <1>1, <2>1, UltimosPostos
<1>3. ASSUME NEW k \in 1..n PROVE q[k] = base + k
  <2>1. Cardinality(S) - n + k = k
    BY <1>1
  <2> QED
    BY <1>2, <2>1
<1>4. q = [i \in 1..n |-> q[i]]
  BY <1>1, OrdenadosTipo
<1> HIDE DEF q
<1> QED
  BY <1>3, <1>4 DEF q, S

\* A set of numbers that does not go beyond k has a largest one.
LEMMA MaxExiste ==
    ASSUME NEW k \in Nat, NEW S \in SUBSET (0..k), S # {}
    PROVE  Max(S) \in S /\ \A x \in S : x <= Max(S)
<1> DEFINE T == {k - x : x \in S}
           R == OpToRel(<, Nat)
<1>1. T \subseteq Nat /\ T # {}
  <2>1. \A x \in S : k - x \in Nat
    OBVIOUS
  <2> QED
    BY <2>1
<1>2. PICK m \in T : \A y \in T : <<y, m>> \notin R
  <2>1. IsWellFoundedOn(R, Nat)
    BY NatLessThanWellFounded
  <2> HIDE DEF R, T
  <2> QED
    BY <1>1, <2>1, WFMin
<1>3. \A y \in T : ~(y < m)
  BY <1>1, <1>2 DEF OpToRel
<1>4. PICK x \in S : m = k - x
  BY <1>2
<1>5. \A y \in S : y <= x
  <2> TAKE y \in S
  <2>1. k - y \in T
    OBVIOUS
  <2>2. ~(k - y < m)
    BY <1>3, <2>1
  <2> QED
    BY <1>4, <2>2
<1>6. \E y \in S : \A z \in S : y >= z
  BY <1>5
<1> QED
  BY <1>6 DEF Max

\* The last n ids of a session are those of a batch in it, or end in a newer one.
LEMMA UltimosN ==
    ASSUME NEW K \in Nat, NEW S \in SUBSET (0..K), NEW base \in Nat, NEW n \in Nat \ {0},
           (base + 1)..(base + n) \subseteq S
    PROVE  LET q == Ordenados(S)
               u == IF Len(q) > n THEN SubSeq(q, Len(q) - n + 1, Len(q)) ELSE q
           IN  u = [i \in 1..n |-> base + i] \/ Last(u) > base + n
<1> DEFINE q == Ordenados(S)
           N == Cardinality(S)
           u == IF Len(q) > n THEN SubSeq(q, Len(q) - n + 1, Len(q)) ELSE q
<1>1. S \in SUBSET Int /\ IsFiniteSet(S) /\ N \in Nat
  <2>1. IsFiniteSet(0..K)
    BY FS_Interval
  <2>2. IsFiniteSet(S)
    BY <2>1, FS_Subset
  <2> QED
    BY <2>2, FS_CardinalityType
<1>2. Len(q) = N /\ q = [i \in 1..N |-> q[i]] /\ \E R : q \in Seq(R)
  BY <1>1, OrdenadosTipo
<1>3. n <= N
  <2>1. Cardinality((base + 1)..(base + n)) = n
    BY FS_Interval
  <2> QED
    BY <1>1, <2>1, FS_Subset
<1>4. CASE \A y \in S : y <= base + n
  <2>1. \A k \in 1..n : Ordenados(S)[Cardinality(S) - n + k] = base + k
    BY <1>1, <1>4, UltimosPostos
  <2>2. \A k \in 1..n : q[N - n + k] = base + k
    BY <2>1
  <2> HIDE DEF q, N
  <2>3. u = [k \in 1..n |-> q[N - n + k]]
    <3>1. CASE N > n
      <4>1. u = SubSeq(q, N - n + 1, N)
        BY <1>2, <3>1
      <4>2. SubSeq(q, N - n + 1, N) = [i \in 1..(N - (N - n + 1) + 1) |-> q[(N - n + 1) + i - 1]]
        BY <1>1, <3>1
      <4>3. N - (N - n + 1) + 1 = n /\ \A i \in 1..n : (N - n + 1) + i - 1 = N - n + i
        BY <1>1
      <4> QED
        BY <4>1, <4>2, <4>3
    <3>2. CASE N = n
      <4>1. \A k \in 1..n : N - n + k = k
        BY <1>1, <3>2
      <4>2. u = q /\ q = [k \in 1..n |-> q[k]]
        BY <1>2, <3>2
      <4>3. [k \in 1..n |-> q[N - n + k]] = [k \in 1..n |-> q[k]]
        BY <4>1
      <4> HIDE DEF u
      <4> QED
        BY <4>2, <4>3
    <3> QED
      BY <1>1, <1>3, <3>1, <3>2
  <2> HIDE DEF u
  <2>4. u = [i \in 1..n |-> base + i]
    BY <2>2, <2>3
  <2> QED
    BY <2>4 DEF q, N, u
<1>5. CASE ~(\A y \in S : y <= base + n)
  <2> DEFINE m == Max(S)
  <2>1. m \in S /\ \A x \in S : x <= m
    BY <1>5, MaxExiste
  <2> HIDE DEF m
  <2>2. m \in Nat /\ m > base + n
    BY <1>5, <2>1
  <2>3. q[N] = m
    <3>1. m - 1 \in Int /\ ((m - 1) + 1)..((m - 1) + 1) \subseteq S /\ \A y \in S : y <= (m - 1) + 1
      BY <2>1, <2>2
    <3>2. \A k \in 1..1 : Ordenados(S)[Cardinality(S) - 1 + k] = (m - 1) + k
      BY <1>1, <3>1, UltimosPostos
    <3>3. Ordenados(S)[Cardinality(S) - 1 + 1] = (m - 1) + 1
      BY <3>2
    <3>4. Cardinality(S) - 1 + 1 = N /\ (m - 1) + 1 = m
      BY <1>1, <2>2
    <3> QED
      BY <3>3, <3>4
  <2> HIDE DEF q, N
  <2>4. Last(u) = q[N]
    <3>1. CASE N > n
      <4>1. u = SubSeq(q, N - n + 1, N) /\ 1 <= N - n + 1 /\ N - n + 1 <= N
        BY <1>1, <1>2, <3>1
      <4>2. PICK R : q \in Seq(R)
        BY <1>2
      <4>3. Len(u) = n /\ u[n] = q[N]
        <5>1. \A i \in (N - n + 1)..N : q[i] \in R
          BY <1>1, <1>2, <3>1, <4>2
        <5>2. /\ Len(SubSeq(q, N - n + 1, N)) = IF N - n + 1 <= N THEN N - (N - n + 1) + 1 ELSE 0
              /\ \A i \in 1..(N - (N - n + 1) + 1) :
                   SubSeq(q, N - n + 1, N)[i] = q[(N - n + 1) + i - 1]
          BY <1>1, <5>1, SubSeqProperties
        <5>3. N - (N - n + 1) + 1 = n /\ (N - n + 1) + n - 1 = N /\ n \in 1..n
          BY <1>1
        <5> QED
          BY <4>1, <5>2, <5>3
      <4> QED
        BY <4>3 DEF Last
    <3>2. CASE N = n
      BY <1>1, <1>2, <3>2 DEF Last
    <3> QED
      BY <1>1, <1>3, <3>1, <3>2
  <2>5. Last(u) > base + n
    BY <2>2, <2>3, <2>4
  <2> QED
    BY <2>5 DEF q, N
<1> QED
  BY <1>4, <1>5

-----------------------------------------------------------------------------
(* To each call the ids of its own rows.                                   *)

\* The rows that are committed are numbered up to the counter of their table; the
\* sessions too.
LinhasNumeradas ==
    /\ criadas \in Nat
    /\ sessoes \subseteq 1..criadas
    /\ \A r \in linhas : /\ r.tabela \in Tabelas
                         /\ r.id \in Nat
                         /\ r.id <= contador[r.tabela]

\* The call of t has put rows base + 1 to base + n into a session that existed.
Numerou(t, base, n) ==
    /\ chamada[t].n = n
    /\ chamada[t].proprios = [i \in 1..n |-> base + i]
    /\ chamada[t].sessao \in 1..criadas

LoteDe(t, base, n) == Lote(chamada[t].tabela, chamada[t].sessao, base, n)

\* Before the commit they wait in its transaction; above the mark that was read
\* there is nothing else of the session.
Inseriu(t, base, n) ==
    /\ Numerou(t, base, n)
    /\ LoteDe(t, base, n) \subseteq pendentes[t]
    /\ {i \in Ids(t) : i > chamada[t].marco} = (base + 1)..(base + n)

\* After it they are in the table for as long as the session is.
Gravou(t, base, n) ==
    /\ Numerou(t, base, n)
    /\ chamada[t].tabela = "artifacts"
    /\ chamada[t].sessao \in sessoes => LoteDe(t, base, n) \subseteq linhas

\* CadaUmComSeuId of one call.
DevolveOsSeus(t) ==
    Fase(t, "pronta") =>
        \/ chamada[t].ids = chamada[t].proprios
        \/ /\ chamada[t].tabela = "artifacts"
           /\ \/ chamada[t].ids = <<>>
              \/ Last(chamada[t].ids) > Last(chamada[t].proprios)

Vale(t) ==
    /\ Fase(t, "inserida") => \E base \in Nat, n \in Nat \ {0} : Inseriu(t, base, n)
    /\ Fase(t, "reler") => \E base \in Nat, n \in Nat \ {0} : Gravou(t, base, n)
    /\ DevolveOsSeus(t)

CadaUmInv == MemoriaInv /\ LinhasNumeradas /\ \A t \in Threads : Vale(t)

LEMMA CadaUmBasta ==
    ASSUME \A t \in Threads : Vale(t)
    PROVE  CadaUmComSeuId
BY DEF Vale, DevolveOsSeus, CadaUmComSeuId

\* What t sees is numbered up to the last id its transaction has given out.
LEMMA VisiveisNumeradas ==
    ASSUME MemoriaInv, LinhasNumeradas, NEW t \in Threads, NEW r \in Visiveis(t)
    PROVE  /\ r.tabela \in Tabelas
           /\ r.id \in Nat /\ Ultimo(t, r.tabela) \in Nat
           /\ r.id <= Ultimo(t, r.tabela)
<1>1. CASE r \in pendentes[t]
  <2>1. r.tabela \in Tabelas /\ r.id \in Nat /\ r.id <= Ultimo(t, r.tabela)
        /\ IsFiniteSet(pendentes[t])
    BY <1>1 DEF MemoriaInv, Numeradas
  <2> QED
    BY <2>1, UltimoConta DEF MemoriaInv
<1>2. CASE r \in linhas
  <2>1. r.tabela \in Tabelas /\ r.id \in Nat /\ r.id <= contador[r.tabela]
        /\ contador[r.tabela] \in Nat
    BY <1>2 DEF MemoriaInv, LinhasNumeradas
  <2>2. Ultimo(t, r.tabela) \in Nat /\ contador[r.tabela] <= Ultimo(t, r.tabela)
    BY <2>1, UltimoConta DEF MemoriaInv, Numeradas
  <2> QED
    BY <2>1, <2>2
<1> QED
  BY <1>1, <1>2 DEF Visiveis

LEMMA IdsNumerados ==
    ASSUME MemoriaInv, LinhasNumeradas, NEW t \in Threads, chamada[t].tabela \in Tabelas
    PROVE  /\ Ultimo(t, chamada[t].tabela) \in Nat
           /\ Ids(t) \in SUBSET (0..Ultimo(t, chamada[t].tabela))
<1>1. Ultimo(t, chamada[t].tabela) \in Nat
  BY UltimoConta DEF MemoriaInv, Numeradas
<1>2. \A r \in Visiveis(t) : r.tabela = chamada[t].tabela => r.id \in 0..Ultimo(t, chamada[t].tabela)
  BY VisiveisNumeradas
<1> QED
  BY <1>1, <1>2 DEF Ids

LEMMA CommitNumera ==
    ASSUME MemoriaInv, LinhasNumeradas, NEW t \in Threads, NEW novas \in SUBSET Visiveis(t),
           Confirmar(t, novas),
           criadas' \in Nat, sessoes' \subseteq 1..criadas'
    PROVE  LinhasNumeradas'
<1>1. \A r \in novas : r.tabela \in Tabelas /\ r.id \in Nat /\ r.id <= Ultimo(t, r.tabela)
  BY VisiveisNumeradas
<1>2. linhas' = novas /\ \A b \in Tabelas : contador'[b] = Ultimo(t, b)
  BY DEF Confirmar
<1> QED
  BY <1>1, <1>2 DEF LinhasNumeradas

\* What a step of t means to the others.
Efeitos(t) ==
    /\ criadas' \in {criadas, criadas + 1}
    /\ sessoes' \subseteq sessoes \cup {criadas + 1}
    /\ \A r \in linhas : r.sessao \in sessoes' => r \in linhas'
    /\ \A u \in Threads : u # t => chamada'[u] = chamada[u]
    /\ \A u \in Threads : u # t /\ Fase(u, "inserida") =>
          pendentes'[u] = pendentes[u] /\ linhas' = linhas

LEMMA OutraVale ==
    ASSUME CadaUmInv, NEW t \in Threads, Efeitos(t), NEW u \in Threads, u # t
    PROVE  Vale(u)'
<1>1. chamada'[u] = chamada[u] /\ criadas \in Nat /\ criadas' \in Nat /\ criadas <= criadas'
  BY DEF CadaUmInv, LinhasNumeradas, Efeitos
<1>2. \A f : Fase(u, f)' <=> Fase(u, f)
  BY <1>1 DEF Fase
<1>3. \A base, n : Numerou(u, base, n) => Numerou(u, base, n)'
  BY <1>1 DEF Numerou
<1>4. \A base, n : LoteDe(u, base, n)' = LoteDe(u, base, n)
  BY <1>1 DEF LoteDe, Lote
<1>5. ASSUME Fase(u, "inserida")'
      PROVE  \E base \in Nat, n \in Nat \ {0} : Inseriu(u, base, n)'
  <2>1. Fase(u, "inserida") /\ pendentes'[u] = pendentes[u] /\ linhas' = linhas
    BY <1>2, <1>5 DEF Efeitos
  <2>2. Ids(u)' = Ids(u)
    BY <1>1, <2>1 DEF Ids, Visiveis
  <2>3. PICK base \in Nat, n \in Nat \ {0} : Inseriu(u, base, n)
    BY <2>1 DEF CadaUmInv, Vale
  <2>4. Inseriu(u, base, n)'
    BY <1>1, <1>3, <1>4, <2>1, <2>2, <2>3 DEF Inseriu
  <2> QED
    BY <2>4
<1>6. ASSUME Fase(u, "reler")'
      PROVE  \E base \in Nat, n \in Nat \ {0} : Gravou(u, base, n)'
  <2>1. PICK base \in Nat, n \in Nat \ {0} : Gravou(u, base, n)
    BY <1>2, <1>6 DEF CadaUmInv, Vale
  <2>2. ASSUME chamada[u].sessao \in sessoes' PROVE LoteDe(u, base, n) \subseteq linhas'
    <3>1. chamada[u].sessao \in 1..criadas
      BY <2>1 DEF Gravou, Numerou
    <3>2. chamada[u].sessao \in sessoes
      BY <1>1, <2>2, <3>1 DEF Efeitos
    <3>3. LoteDe(u, base, n) \subseteq linhas
      BY <2>1, <3>2 DEF Gravou
    <3>4. \A r \in LoteDe(u, base, n) : r.sessao \in sessoes'
      BY <2>2 DEF LoteDe, Lote
    <3> QED
      BY <3>3, <3>4 DEF Efeitos
  <2>3. Gravou(u, base, n)'
    BY <1>1, <1>3, <1>4, <2>1, <2>2 DEF Gravou
  <2> QED
    BY <2>3
<1>7. DevolveOsSeus(u)'
  BY <1>1, <1>2 DEF CadaUmInv, Vale, DevolveOsSeus, Fase
<1> QED
  BY <1>5, <1>6, <1>7 DEF Vale

\* A step of t, once it is clear what becomes of its own call.
LEMMA PassoDeT ==
    ASSUME CadaUmInv, MemoriaInv', LinhasNumeradas', NEW t \in Threads, Efeitos(t), Vale(t)'
    PROVE  CadaUmInv'
<1>1. \A u \in Threads : Vale(u)'
  BY OutraVale
<1> QED
  BY <1>1 DEF CadaUmInv

LEMMA ForaVale ==
    ASSUME NEW t \in Threads, chamada'[t].fase \in {"fora", "inserir"}
    PROVE  Vale(t)'
BY DEF Vale, DevolveOsSeus, Fase

\* A step that leaves the tables alone, and the rows pending elsewhere.
LEMMA SoATransacao ==
    ASSUME CadaUmInv, NEW t \in Threads,
           UNCHANGED <<sessoes, criadas, linhas, contador>>,
           \A u \in Threads : u # t => /\ chamada'[u] = chamada[u]
                                      /\ pendentes'[u] = pendentes[u]
    PROVE  Efeitos(t) /\ LinhasNumeradas'
<1>1. Efeitos(t)
  BY DEF Efeitos
<1>2. LinhasNumeradas'
  BY DEF CadaUmInv, LinhasNumeradas
<1> QED
  BY <1>1, <1>2

LEMMA SoOCommit ==
    ASSUME CadaUmInv, NEW t \in Threads, PodeEscrever(t), NEW novas \in SUBSET Visiveis(t),
           Confirmar(t, novas),
           criadas' \in {criadas, criadas + 1},
           sessoes' \subseteq sessoes \cup {criadas + 1} /\ sessoes' \subseteq 1..criadas',
           \A r \in linhas : r.sessao \in sessoes' => r \in novas,
           \A u \in Threads : u # t => chamada'[u] = chamada[u]
    PROVE  Efeitos(t) /\ LinhasNumeradas'
<1>1. MemoriaInv /\ LinhasNumeradas /\ ComATrava /\ criadas \in Nat
  BY DEF CadaUmInv, MemoriaInv, OrfaosInv, LinhasNumeradas
<1>2. LinhasNumeradas'
  BY <1>1, CommitNumera
<1>3. \A u \in Threads : u # t => ~Fase(u, "inserida")
  BY <1>1, QuemEscreveEstaSo
<1> QED
  BY <1>2, <1>3 DEF Efeitos, Confirmar

\* Inserir reads the mark and gives the rows the numbers after the last one given.
LEMMA InserirInsere ==
    ASSUME CadaUmInv, NEW t \in Threads, Inserir(t),
           NEW b, NEW s, NEW n, NEW base,
           b = chamada[t].tabela, s = chamada[t].sessao, n = chamada[t].n, base = Ultimo(t, b)
    PROVE  /\ base \in Nat /\ n \in Nat \ {0}
           /\ chamada'[t].fase = "inserida"
           /\ Inseriu(t, base, n)'
<1>1. MemoriaInv /\ LinhasNumeradas /\ Registros /\ ComATrava
  BY DEF CadaUmInv, MemoriaInv, OrfaosInv
<1> DEFINE deB == {r.id : r \in {q \in Visiveis(t) : q.tabela = b}}
           marco == IF deB = {} THEN 0 ELSE Max(deB)
           proprios == [i \in 1..n |-> base + i]
           c == [chamada[t] EXCEPT !.fase = "inserida", !.marco = marco, !.proprios = proprios]
<1>2. ChamadaOK(chamada[t]) /\ b \in Tabelas /\ n \in Nat \ {0} /\ s \in sessoes
  BY <1>1 DEF Registros, Inserir, Fase, ChamadaOK
<1>3. chamada' = [chamada EXCEPT ![t] = c]
  BY DEF Inserir
<1>4. /\ chamada'[t].fase = "inserida" /\ chamada'[t].tabela = b /\ chamada'[t].sessao = s
      /\ chamada'[t].n = n /\ chamada'[t].proprios = proprios /\ chamada'[t].marco = marco
  <2>1. chamada'[t] = c
    BY <1>1, <1>3 DEF Registros
  <2> HIDE DEF marco, proprios
  <2>2. DOMAIN chamada[t] = Campos
    BY <1>2 DEF ChamadaOK
  <2>3. /\ c.fase = "inserida" /\ c.tabela = b /\ c.sessao = s
        /\ c.n = n /\ c.proprios = proprios /\ c.marco = marco
    BY <2>2 DEF Campos
  <2> HIDE DEF c
  <2> QED
    BY <2>1, <2>3
<1>5. /\ base \in Nat
      /\ \A r \in Visiveis(t) : r.tabela = b => r.id \in 0..base
  <2>1. base \in Nat
    BY <1>1, <1>2, UltimoConta DEF MemoriaInv, Numeradas
  <2> QED
    BY <1>1, <2>1, VisiveisNumeradas
<1>6. marco \in 0..base /\ \A x \in deB : x <= marco
  <2>1. deB \in SUBSET (0..base)
    BY <1>5
  <2>2. CASE deB = {}
    BY <1>5, <2>2
  <2>3. CASE deB # {}
    <3> HIDE DEF deB
    <3>1. Max(deB) \in deB /\ \A x \in deB : x <= Max(deB)
      BY <1>5, <2>1, <2>3, MaxExiste
    <3> QED
      BY <2>1, <2>3, <3>1
  <2> QED
    BY <2>2, <2>3
<1>7. linhas' = linhas /\ criadas' = criadas
      /\ pendentes'[t] = pendentes[t] \cup Lote(b, s, base, n)
  <2>1. pendentes'[t] = pendentes[t] \cup Inseridas(t, n)
    BY <1>1 DEF Inserir, ComATrava
  <2>2. Inseridas(t, n) = Lote(b, s, base, n)
    BY DEF Inseridas, Lote
  <2> QED
    BY <2>1, <2>2 DEF Inserir
<1> HIDE DEF marco, c, proprios
<1>8. Numerou(t, base, n)'
  <2>1. s \in 1..criadas
    BY <1>1, <1>2 DEF LinhasNumeradas
  <2> QED
    BY <1>4, <1>7, <2>1 DEF Numerou, proprios
<1>9. LoteDe(t, base, n)' = Lote(b, s, base, n)
  BY <1>4 DEF LoteDe, Lote
<1>10. Visiveis(t)' = Visiveis(t) \cup Lote(b, s, base, n)
  BY <1>7 DEF Visiveis
<1>11. Ids(t)' = {r.id : r \in {q \in Visiveis(t) : q.tabela = b /\ q.sessao = s}}
                   \cup ((base + 1)..(base + n))
  <2>1. {r.id : r \in Lote(b, s, base, n)} = (base + 1)..(base + n)
    <3>1. {r.id : r \in Lote(b, s, base, n)} = {base + i : i \in 1..n}
      <4>1. \A r \in Lote(b, s, base, n) : \E i \in 1..n : r.id = base + i
        BY DEF Lote
      <4>2. ASSUME NEW i \in 1..n PROVE \E r \in Lote(b, s, base, n) : r.id = base + i
        <5>1. [tabela |-> b, sessao |-> s, id |-> base + i] \in Lote(b, s, base, n)
          BY DEF Lote
        <5> QED
          BY <5>1
      <4> QED
        BY <4>1, <4>2
    <3>2. ASSUME NEW x \in (base + 1)..(base + n) PROVE x \in {base + i : i \in 1..n}
      <4>1. x - base \in 1..n /\ base + (x - base) = x
        BY <1>2, <1>5
      <4> QED
        BY <4>1
    <3>3. {base + i : i \in 1..n} \subseteq (base + 1)..(base + n)
      BY <1>2, <1>5
    <3> QED
      BY <3>1, <3>2, <3>3
  <2>2. \A r \in Lote(b, s, base, n) : r.tabela = b /\ r.sessao = s
    BY DEF Lote
  <2>3. Ids(t)' = {r.id : r \in {q \in Visiveis(t) \cup Lote(b, s, base, n) :
                                   q.tabela = b /\ q.sessao = s}}
    BY <1>4, <1>10 DEF Ids
  <2>4. {q \in Visiveis(t) \cup Lote(b, s, base, n) : q.tabela = b /\ q.sessao = s}
          = {q \in Visiveis(t) : q.tabela = b /\ q.sessao = s} \cup Lote(b, s, base, n)
    BY <2>2
  <2> QED
    BY <2>1, <2>3, <2>4
<1>12. \A r \in Visiveis(t) : r.tabela = b => r.id \in Nat /\ r.id <= marco
  BY <1>5, <1>6
<1>13. {i \in Ids(t)' : i > marco} = (base + 1)..(base + n)
  <2>1. \A i \in {r.id : r \in {q \in Visiveis(t) : q.tabela = b /\ q.sessao = s}} :
           i \in Nat /\ ~(i > marco)
    BY <1>6, <1>12
  <2>2. \A i \in (base + 1)..(base + n) : i > marco
    BY <1>2, <1>5, <1>6
  <2> QED
    BY <1>11, <2>1, <2>2
<1>14. Inseriu(t, base, n)'
  BY <1>4, <1>7, <1>8, <1>9, <1>13 DEF Inseriu
<1> QED
  BY <1>2, <1>4, <1>5, <1>14

LEMMA InserirVale ==
    ASSUME CadaUmInv, NEW t \in Threads, Inserir(t)
    PROVE  Vale(t)'
<1>1. PICK b, s, n : b = chamada[t].tabela /\ s = chamada[t].sessao /\ n = chamada[t].n
  OBVIOUS
<1>2. PICK base : base = Ultimo(t, b)
  OBVIOUS
<1>3. /\ base \in Nat /\ n \in Nat \ {0} /\ chamada'[t].fase = "inserida"
      /\ Inseriu(t, base, n)'
  BY <1>1, <1>2, InserirInsere
<1> QED
  BY <1>3 DEF Vale, DevolveOsSeus, Fase

LEMMA RelerECommitarVale ==
    ASSUME CadaUmInv, NEW t \in Threads, RelerECommitar(t)
    PROVE  Vale(t)'
<1>1. PICK base \in Nat, n \in Nat \ {0} : Inseriu(t, base, n)
  BY DEF CadaUmInv, Vale, RelerECommitar
<1>2. Acima(t) = chamada[t].proprios
  BY <1>1, OrdenadosDoIntervalo DEF Inseriu, Numerou, Acima
<1>3. /\ chamada'[t].fase = "pronta" /\ chamada'[t].ids = Acima(t)
      /\ chamada'[t].proprios = chamada[t].proprios
  BY DEF RelerECommitar, CadaUmInv, MemoriaInv, OrfaosInv, Registros, ChamadaOK, Campos
<1> QED
  BY <1>2, <1>3 DEF Vale, DevolveOsSeus, Fase

LEMMA CommitarVale ==
    ASSUME CadaUmInv, NEW t \in Threads, Commitar(t)
    PROVE  Vale(t)'
<1>1. PICK base \in Nat, n \in Nat \ {0} : Inseriu(t, base, n)
  BY DEF CadaUmInv, Vale, Commitar
<1>2. /\ chamada'[t].fase = "reler" /\ chamada'[t].tabela = chamada[t].tabela
      /\ chamada'[t].sessao = chamada[t].sessao /\ chamada'[t].n = chamada[t].n
      /\ chamada'[t].proprios = chamada[t].proprios
      /\ chamada[t].tabela \in Tabelas /\ ~ReleDentro(chamada[t].tabela)
      /\ criadas' = criadas /\ linhas' = linhas \cup pendentes[t]
  BY DEF Commitar, CadaUmInv, MemoriaInv, OrfaosInv, Registros, ChamadaOK, Campos, Confirmar, Visiveis
<1>3. Numerou(t, base, n)' /\ LoteDe(t, base, n)' = LoteDe(t, base, n)
  BY <1>1, <1>2 DEF Inseriu, Numerou, LoteDe, Lote
<1>4. chamada[t].tabela = "artifacts"
  BY <1>2 DEF Tabelas, ReleDentro
<1>5. Gravou(t, base, n)'
  BY <1>1, <1>2, <1>3, <1>4 DEF Gravou, Inseriu
<1> QED
  BY <1>2, <1>5 DEF Vale, DevolveOsSeus, Fase

LEMMA RelerVale ==
    ASSUME CadaUmInv, NEW t \in Threads, Reler(t)
    PROVE  Vale(t)'
<1>1. PICK base \in Nat, n \in Nat \ {0} : Gravou(t, base, n)
  BY DEF CadaUmInv, Vale, Reler
<1>2. /\ chamada'[t].fase = "pronta" /\ chamada'[t].ids = Ultimos(t)
      /\ chamada'[t].proprios = chamada[t].proprios
      /\ chamada'[t].tabela = chamada[t].tabela
  BY DEF Reler, CadaUmInv, MemoriaInv, OrfaosInv, Registros, ChamadaOK, Campos
<1>3. chamada[t].tabela = "artifacts" /\ chamada[t].n = n
      /\ chamada[t].proprios = [i \in 1..n |-> base + i]
  BY <1>1 DEF Gravou, Numerou
<1>4. CASE chamada[t].sessao \notin sessoes
  <2>1. Ids(t) = {}
    <3>1. \A r \in Visiveis(t) : r.sessao # chamada[t].sessao
      BY <1>4, VisiveisDeAlguem DEF CadaUmInv, MemoriaInv
    <3> QED
      BY <3>1 DEF Ids
  <2>2. Ordenados({}) = <<>>
    BY FS_EmptySet DEF Ordenados
  <2>3. Ultimos(t) = <<>>
    <3>1. Ordenados(Ids(t)) = <<>> /\ Len(Ordenados(Ids(t))) = 0
      BY <2>1, <2>2
    <3> QED
      BY <1>3, <3>1 DEF Ultimos
  <2> QED
    BY <1>2, <1>3, <2>3 DEF Vale, DevolveOsSeus, Fase
<1>5. CASE chamada[t].sessao \in sessoes
  <2>1. /\ Ultimo(t, chamada[t].tabela) \in Nat
        /\ Ids(t) \in SUBSET (0..Ultimo(t, chamada[t].tabela))
    BY <1>3, IdsNumerados DEF CadaUmInv, Tabelas
  <2>2. (base + 1)..(base + n) \subseteq Ids(t)
    <3> SUFFICES ASSUME NEW x \in (base + 1)..(base + n) PROVE x \in Ids(t)
      OBVIOUS
    <3> DEFINE r == [tabela |-> chamada[t].tabela, sessao |-> chamada[t].sessao,
                     id |-> base + (x - base)]
    <3>1. x - base \in 1..n /\ base + (x - base) = x
      BY <1>1
    <3>2. r \in LoteDe(t, base, n)
      BY <3>1 DEF LoteDe, Lote
    <3>3. r \in linhas
      BY <1>1, <1>5, <3>2 DEF Gravou
    <3>4. r.id = x /\ r.tabela = chamada[t].tabela /\ r.sessao = chamada[t].sessao
      BY <3>1
    <3> QED
      BY <3>3, <3>4 DEF Ids, Visiveis
  <2>3. Ultimos(t) = chamada[t].proprios \/ Last(Ultimos(t)) > base + n
    BY <1>1, <1>3, <2>1, <2>2, UltimosN DEF Ultimos
  <2>4. Last(chamada[t].proprios) = base + n
    BY <1>1, <1>3 DEF Last
  <2> QED
    BY <1>2, <1>3, <2>3, <2>4 DEF Vale, DevolveOsSeus, Fase
<1> QED
  BY <1>4, <1>5

LEMMA CadaUmInicio == Init => CadaUmInv
<1> SUFFICES ASSUME Init PROVE CadaUmInv
  OBVIOUS
<1>1. MemoriaInv
  BY MemoriaInit
<1>2. LinhasNumeradas
  BY DEF Init, LinhasNumeradas
<1>3. \A t \in Threads : Vale(t)
  BY ForaOK DEF Init, Vale, DevolveOsSeus, Fase
<1> QED
  BY <1>1, <1>2, <1>3 DEF CadaUmInv

LEMMA CadaUmPasso == CadaUmInv /\ [Next]_vars => CadaUmInv'
<1> SUFFICES ASSUME CadaUmInv, [Next]_vars PROVE CadaUmInv'
  OBVIOUS
<1>a. /\ MemoriaInv /\ LinhasNumeradas /\ Registros /\ ComATrava
      /\ criadas \in Nat /\ sessoes \subseteq 1..criadas
  BY DEF CadaUmInv, MemoriaInv, OrfaosInv, LinhasNumeradas
<1>b. MemoriaInv'
  BY <1>a, MemoriaPasso
<1>1. CASE UNCHANGED vars
  <2>1. LinhasNumeradas'
    BY <1>1, <1>a DEF vars, LinhasNumeradas
  <2>2. ASSUME NEW t \in Threads PROVE Vale(t)'
    <3>1. Ids(t)' = Ids(t)
      BY <1>1 DEF vars, Ids, Visiveis
    <3>2. \A base, n : Inseriu(t, base, n)' <=> Inseriu(t, base, n)
      BY <1>1, <3>1 DEF vars, Inseriu, Numerou, LoteDe, Lote
    <3>3. \A base, n : Gravou(t, base, n)' <=> Gravou(t, base, n)
      BY <1>1 DEF vars, Gravou, Numerou, LoteDe, Lote
    <3>4. Vale(t)
      BY DEF CadaUmInv
    <3>5. chamada' = chamada
      BY <1>1 DEF vars
    <3> QED
      BY <3>2, <3>3, <3>4, <3>5 DEF Vale, DevolveOsSeus, Fase
  <2> QED
    BY <1>b, <2>1, <2>2 DEF CadaUmInv
<1>2. ASSUME NEW t \in Threads, CreateSession(t) \/ UpdateSession(t)
      PROVE  CadaUmInv'
  <2>1. /\ Fase(t, "fora") /\ PodeEscrever(t) /\ chamada' = chamada
        /\ Confirmar(t, Visiveis(t))
        /\ criadas' \in {criadas, criadas + 1}
        /\ sessoes' \subseteq sessoes \cup {criadas + 1}
        /\ sessoes' \subseteq 1..criadas'
    <3>1. CASE CreateSession(t)
      <4>1. criadas' = criadas + 1 /\ sessoes' = sessoes \cup {criadas + 1}
        BY <3>1 DEF CreateSession
      <4>2. sessoes' \subseteq 1..criadas'
        BY <1>a, <4>1
      <4> QED
        BY <3>1, <4>1, <4>2 DEF CreateSession
    <3>2. CASE UpdateSession(t)
      BY <1>a, <3>2 DEF UpdateSession
    <3> QED
      BY <1>2, <3>1, <3>2
  <2>2. Efeitos(t) /\ LinhasNumeradas'
    <3>1. \A r \in linhas : r \in Visiveis(t)
      BY DEF Visiveis
    <3> QED
      BY <2>1, <3>1, SoOCommit
  <2>3. Vale(t)'
    BY <2>1, ForaVale DEF Fase
  <2> QED
    BY <1>b, <2>2, <2>3, PassoDeT
<1>3. ASSUME NEW t \in Threads, NEW s \in 1..MaxSessoes, DeleteSession(t, s)
      PROVE  CadaUmInv'
  <2>1. /\ Fase(t, "fora") /\ PodeEscrever(t) /\ chamada' = chamada
        /\ Confirmar(t, Cascata(Visiveis(t), s))
        /\ criadas' = criadas /\ sessoes' = sessoes \ {s}
    BY <1>3 DEF DeleteSession
  <2>2. Efeitos(t) /\ LinhasNumeradas'
    <3>1. Cascata(Visiveis(t), s) \in SUBSET Visiveis(t)
      BY DEF Cascata
    <3>2. \A r \in linhas : r.sessao \in sessoes' => r \in Cascata(Visiveis(t), s)
      BY <2>1 DEF Cascata, Visiveis
    <3> QED
      BY <1>a, <2>1, <3>1, <3>2, SoOCommit
  <2>3. Vale(t)'
    BY <2>1, ForaVale DEF Fase
  <2> QED
    BY <1>b, <2>2, <2>3, PassoDeT
<1>4. ASSUME NEW t \in Threads, RelerECommitar(t) \/ Commitar(t)
      PROVE  CadaUmInv'
  <2>1. /\ PodeEscrever(t) /\ Confirmar(t, Visiveis(t))
        /\ criadas' = criadas /\ sessoes' = sessoes
    BY <1>4, <1>a DEF RelerECommitar, Commitar, ComATrava, PodeEscrever
  <2>2. \A u \in Threads : u # t => chamada'[u] = chamada[u]
    BY <1>4, <1>a, RelerECommitarSegue, CommitarSegue DEF Seguem
  <2>3. Efeitos(t) /\ LinhasNumeradas'
    <3>1. \A r \in linhas : r \in Visiveis(t)
      BY DEF Visiveis
    <3> QED
      BY <1>a, <2>1, <2>2, <3>1, SoOCommit
  <2>4. Vale(t)'
    BY <1>4, RelerECommitarVale, CommitarVale
  <2> QED
    BY <1>b, <2>3, <2>4, PassoDeT
<1>5. ASSUME NEW t \in Threads, Inserir(t) \/ InserirFalha(t)
      PROVE  CadaUmInv'
  <2>1. UNCHANGED <<sessoes, criadas, linhas, contador>>
        /\ \A u \in Threads : u # t => pendentes'[u] = pendentes[u]
    BY <1>5, <1>a DEF Inserir, InserirFalha, ComATrava
  <2>2. \A u \in Threads : u # t => chamada'[u] = chamada[u]
    BY <1>5, <1>a, InserirSegue, VaiParaFora DEF InserirFalha, Seguem
  <2>3. Efeitos(t) /\ LinhasNumeradas'
    BY <2>1, <2>2, SoATransacao
  <2>4. Vale(t)'
    <3>1. CASE Inserir(t)
      BY <3>1, InserirVale
    <3>2. CASE InserirFalha(t)
      <4>1. chamada'[t] = Fora
        BY <1>a, <3>2 DEF InserirFalha, Registros
      <4> QED
        BY <4>1, ForaOK, ForaVale
    <3> QED
      BY <1>5, <3>1, <3>2
  <2> QED
    BY <1>b, <2>3, <2>4, PassoDeT
<1>6. ASSUME NEW t \in Threads,
             \/ \E b \in Tabelas, s \in 1..MaxSessoes, n \in 1..MaxLote : Adicionar(t, b, s, n)
             \/ Ocupado(t) \/ Devolver(t) \/ Close(t) \/ Reler(t)
      PROVE  CadaUmInv'
  <2>1. UNCHANGED <<sessoes, criadas, linhas, contador>>
        /\ \A u \in Threads : u # t => pendentes'[u] = pendentes[u]
    BY <1>6, <1>a DEF Adicionar, Ocupado, Devolver, Close, Reler, ComATrava
  <2>2. \A u \in Threads : u # t => chamada'[u] = chamada[u]
    BY <1>6, <1>a DEF Adicionar, Ocupado, Devolver, Close, Reler, Registros
  <2>3. Efeitos(t) /\ LinhasNumeradas'
    BY <2>1, <2>2, SoATransacao
  <2>4. Vale(t)'
    <3>1. CASE \E b \in Tabelas, s \in 1..MaxSessoes, n \in 1..MaxLote : Adicionar(t, b, s, n)
      <4>1. chamada'[t].fase = "inserir"
        BY <1>a, <3>1 DEF Adicionar, Registros, Fora
      <4> QED
        BY <4>1, ForaVale
    <3>2. CASE Ocupado(t) \/ Devolver(t)
      <4>1. chamada'[t] = Fora
        BY <1>a, <3>2 DEF Ocupado, Devolver, Registros
      <4> QED
        BY <4>1, ForaOK, ForaVale
    <3>3. CASE Close(t)
      <4>1. chamada'[t].fase = "fora"
        BY <3>3 DEF Close, Fase
      <4> QED
        BY <4>1, ForaVale
    <3>4. CASE Reler(t)
      BY <3>4, RelerVale
    <3> QED
      BY <1>6, <3>1, <3>2, <3>3, <3>4
  <2> QED
    BY <1>b, <2>3, <2>4, PassoDeT
<1> QED
  BY <1>1, <1>2, <1>3, <1>4, <1>5, <1>6 DEF Next

\* A call that adds rows gives back the ids of its own, in order: segments whatever the
\* other threads and an earlier failed call do; artifacts and tasks, which are read
\* back after the commit, unless the session went or a newer row came in between.
THEOREM OwnIds == Spec => []CadaUmComSeuId
<1>1. CadaUmInv => CadaUmComSeuId
  BY CadaUmBasta DEF CadaUmInv
<1> QED
  BY <1>1, CadaUmInicio, CadaUmPasso, PTL DEF Spec

=============================================================================
