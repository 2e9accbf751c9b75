--------------------- MODULE TranscriptionWorkerProofs ---------------------
(***************************************************************************)
(* Proofs about asr/worker.py, for every queue size, every number of turns *)
(* and every number of restarts.                                           *)
(***************************************************************************)
EXTENDS TranscriptionWorker, FiniteSetTheorems, SequenceTheorems, TLAPS

\* The threads with a turn in hand.
Ocupadas == {t \in Threads : consumidor[t].fase = "transcrevendo"}

\* What the count behind join() must be for join() to be sound: every queued
\* item and every turn in hand is an unfinished task (a consumed None too).
Contagem ==
    /\ inacabadas >= Len(fila) + Cardinality(Ocupadas)
    /\ \A t \in Threads : consumidor[t].fase # "transcrevendo"
                            => consumidor[t].item = None
    /\ \A t \in Threads : consumidor[t].fase = "transcrevendo"
                            => consumidor[t].item # None

\* The type invariant, and the count it needs to be inductive: task_done never
\* takes the count below zero.
TInv == TypeOK /\ Contagem

LEMMA OcupadasFinitas ==
    /\ IsFiniteSet(Threads)
    /\ IsFiniteSet(Ocupadas)
    /\ Cardinality(Ocupadas) \in Nat
<1>1. IsFiniteSet(Threads)
  BY FS_Interval, WorkerAssumption DEF Threads
<1>2. Ocupadas \subseteq Threads
  BY DEF Ocupadas
<1>3. QED
  BY <1>1, <1>2, FS_Subset, FS_CardinalityType

LEMMA TInvInit == Init => TInv
<1> SUFFICES ASSUME Init PROVE TInv
  OBVIOUS
<1>1. Ocupadas = {}
  BY DEF Init, Ocupadas, Parado
<1>2. Cardinality(Ocupadas) = 0
  BY <1>1, FS_EmptySet
<1>3. /\ fila \in Seq(Turnos \cup {None}) /\ Len(fila) = 0
      /\ entregues \in Seq(Turnos)
  BY DEF Init
<1>4. consumidor \in [Threads ->
           [fase: {"nenhuma", "lendo", "transcrevendo", "fim"},
            item: Turnos \cup {None}]]
  BY DEF Init, Parado
<1>5. noStop \in 0..MaxTurnos
  BY WorkerAssumption DEF Init
<1>6. controle \in [fase: {"livre", "drenar", "encerrar", "esperar"}, drain: BOOLEAN]
  BY DEF Init, Livre
<1>a. expirou \in BOOLEAN
  BY Zenon DEF Init
<1>b. /\ inacabadas \in Nat /\ enviadas \in 0..MaxTurnos /\ criadas \in 0..MaxThreads
      /\ thread \in Threads \cup {0}
      /\ descartadas \subseteq Turnos /\ falhas \subseteq Turnos
      /\ Len(fila) <= MaxQueue
  BY WorkerAssumption, <1>3 DEF Init
<1>7. TypeOK
  BY <1>3, <1>4, <1>5, <1>6, <1>a, <1>b, Zenon DEF TypeOK
<1>8. QED
  BY <1>2, <1>3, <1>7 DEF Init, TInv, Contagem, Parado

LEMMA TInvStep == TInv /\ [Next]_vars => TInv'
<1> SUFFICES ASSUME TInv, [Next]_vars PROVE TInv'
  OBVIOUS
<1> USE WorkerAssumption
<1>0. /\ IsFiniteSet(Ocupadas) /\ Cardinality(Ocupadas) \in Nat
      /\ IsFiniteSet(Ocupadas') /\ Cardinality(Ocupadas') \in Nat
  <2>1. IsFiniteSet(Threads) /\ Ocupadas' \subseteq Threads
    BY OcupadasFinitas DEF Ocupadas
  <2>2. QED
    BY <2>1, OcupadasFinitas, FS_Subset, FS_CardinalityType
<1>1. CASE Submit
  <2>1. Ocupadas' = Ocupadas
    BY <1>1 DEF Submit, Ocupadas
  <2>a. enviadas' \in Turnos /\ enviadas' \in 0..MaxTurnos
    BY <1>1 DEF TInv, TypeOK, Submit, Turnos
  <2>b. /\ fila' \in Seq(Turnos \cup {None}) /\ Len(fila') <= MaxQueue
        /\ inacabadas' \in Nat
        /\ descartadas' \subseteq Turnos
    <3>1. CASE Cabe
      <4>1. fila' = Append(fila, enviadas') /\ inacabadas' = inacabadas + 1
            /\ descartadas' = descartadas
        BY <1>1, <3>1 DEF Submit
      <4>2. fila \in Seq(Turnos \cup {None}) /\ Len(fila) < MaxQueue
            /\ Len(fila) \in Nat /\ inacabadas \in Nat /\ descartadas \subseteq Turnos
        BY <3>1 DEF TInv, TypeOK, Cabe
      <4>3. fila' \in Seq(Turnos \cup {None}) /\ Len(fila') = Len(fila) + 1
        BY <2>a, <4>1, <4>2
      <4>4. QED
        BY <4>1, <4>2, <4>3
    <3>2. CASE ~Cabe
      <4>1. descartadas' = descartadas \cup {enviadas'} /\ fila' = fila
            /\ inacabadas' = inacabadas
        BY <1>1, <3>2 DEF Submit, Descartar
      <4>2. QED
        BY <2>a, <4>1 DEF TInv, TypeOK
    <3>3. QED
      BY <3>1, <3>2
  <2>2. TypeOK'
    BY <1>1, <2>a, <2>b DEF TInv, TypeOK, Submit
  <2>3. Contagem'
    BY <1>0, <1>1, <2>1 DEF TInv, TypeOK, Contagem, Submit
  <2>4. QED
    BY <2>2, <2>3 DEF TInv
<1>2. ASSUME NEW t \in Threads, Get(t) PROVE TInv'
  <2>1. Len(fila) > 0 /\ Head(fila) \in Turnos \cup {None}
        /\ Tail(fila) \in Seq(Turnos \cup {None}) /\ Len(Tail(fila)) = Len(fila) - 1
    BY <1>2 DEF TInv, TypeOK, Get
  <2>2. TypeOK'
    BY <1>2, <2>1 DEF TInv, TypeOK, Get, turnoVars
  <2>3. CASE Head(fila) = None
    <3>1. Ocupadas' = Ocupadas
      BY <1>2, <2>3 DEF TInv, TypeOK, Get, Ocupadas
    <3>2. QED
      BY <1>0, <1>2, <2>1, <2>2, <2>3, <3>1 DEF TInv, TypeOK, Contagem, Get
  <2>4. CASE Head(fila) # None
    <3>1. Ocupadas' = Ocupadas \cup {t} /\ t \notin Ocupadas
      BY <1>2, <2>4 DEF TInv, TypeOK, Get, Ocupadas
    <3>2. Cardinality(Ocupadas') = Cardinality(Ocupadas) + 1
      BY <1>0, <3>1, FS_AddElement
    <3>3. QED
      BY <1>0, <1>2, <2>1, <2>2, <2>4, <3>2 DEF TInv, TypeOK, Contagem, Get
  <2>5. QED
    BY <2>3, <2>4
<1>3. ASSUME NEW t \in Threads, Transcrever(t) PROVE TInv'
  <2>1. Ocupadas' = Ocupadas \ {t} /\ t \in Ocupadas
    BY <1>3 DEF TInv, TypeOK, Transcrever, Ocupadas, Lendo, DepoisDeFalhar
  <2>2. Cardinality(Ocupadas') = Cardinality(Ocupadas) - 1
    BY <1>0, <2>1, FS_RemoveElement
  <2>3. inacabadas' >= Len(fila) + Cardinality(Ocupadas') /\ inacabadas' \in Nat
    BY <1>0, <1>3, <2>2 DEF TInv, TypeOK, Contagem, Transcrever, TaskDone
  <2>4. consumidor[t].item \in Turnos
    BY <1>3 DEF TInv, TypeOK, Contagem, Transcrever
  <2>5. entregues' \in Seq(Turnos) /\ falhas' \subseteq Turnos
    <3>1. entregues' = Append(entregues, consumidor[t].item) \/ entregues' = entregues
      BY <1>3 DEF Transcrever
    <3>2. falhas' = falhas \cup {consumidor[t].item} \/ falhas' = falhas
      BY <1>3 DEF Transcrever
    <3>3. entregues \in Seq(Turnos) /\ falhas \subseteq Turnos
      BY DEF TInv, TypeOK
    <3>4. Append(entregues, consumidor[t].item) \in Seq(Turnos)
      BY <2>4, <3>3
    <3>5. QED
      BY <2>4, <3>1, <3>2, <3>3, <3>4, Zenon
  <2>t. consumidor' \in [Threads ->
            [fase: {"nenhuma", "lendo", "transcrevendo", "fim"},
             item: Turnos \cup {None}]]
    <3>1. consumidor' = [consumidor EXCEPT ![t] = Lendo]
      BY <1>3 DEF Transcrever, DepoisDeFalhar
    <3>2. QED
      BY <3>1 DEF TInv, TypeOK, Lendo
  <2>u. /\ UNCHANGED <<fila, thread, controle, enviadas, descartadas, criadas,
                       expirou, noStop>>
    BY <1>3 DEF Transcrever
  <2>6. TypeOK'
    BY <2>3, <2>5, <2>t, <2>u DEF TInv, TypeOK
  <2>7. Contagem'
    <3>1. fila' = fila /\ consumidor' = [consumidor EXCEPT ![t] = Lendo]
      BY <1>3 DEF Transcrever, DepoisDeFalhar
    <3>2. \A u \in Threads :
             consumidor'[u] = IF u = t THEN Lendo ELSE consumidor[u]
      BY <3>1 DEF TInv, TypeOK
    <3>3. QED
      BY <2>3, <3>1, <3>2 DEF TInv, Contagem, Lendo
  <2>8. QED
    BY <2>6, <2>7 DEF TInv
<1>4. CASE Start
  <2>1. criadas' \in Threads
    BY <1>4 DEF TInv, TypeOK, Start, Threads
  <2>2. criadas' \notin Ocupadas => Ocupadas' = Ocupadas
    BY <1>4, <2>1 DEF TInv, TypeOK, Start, Ocupadas, Lendo
  <2>3. criadas' \in Ocupadas => Ocupadas' = Ocupadas \ {criadas'}
    BY <1>4, <2>1 DEF TInv, TypeOK, Start, Ocupadas, Lendo
  <2>4. Cardinality(Ocupadas') <= Cardinality(Ocupadas)
    BY <1>0, <2>2, <2>3, FS_RemoveElement
  <2>5. TypeOK'
    BY <1>4, <2>1 DEF TInv, TypeOK, Start, Lendo, turnoVars
  <2>6. Contagem'
    BY <1>0, <1>4, <2>1, <2>4 DEF TInv, TypeOK, Contagem, Start, Lendo
  <2>7. QED
    BY <2>5, <2>6 DEF TInv
<1>5. ASSUME NEW drain \in BOOLEAN, Stop(drain) PROVE TInv'
  <2>1. Ocupadas' = Ocupadas
    BY <1>5 DEF Stop, Ocupadas
  <2>2. TypeOK'
    BY <1>5 DEF TInv, TypeOK, Stop, turnoVars
  <2>3. QED
    BY <1>5, <2>1, <2>2 DEF TInv, Contagem, Stop
<1>6. CASE Join
  <2>1. Ocupadas' = Ocupadas
    BY <1>6 DEF Join, Ocupadas
  <2>2. TypeOK'
    BY <1>6 DEF TInv, TypeOK, Join, turnoVars
  <2>3. QED
    BY <1>6, <2>1, <2>2 DEF TInv, Contagem, Join
<1>7. CASE PutNone
  <2>1. Ocupadas' = Ocupadas
    BY <1>7 DEF PutNone, Ocupadas
  <2>a. fila' \in Seq(Turnos \cup {None}) /\ Len(fila') <= MaxQueue
        /\ inacabadas' \in Nat
    BY <1>7 DEF TInv, TypeOK, PutNone, Cabe
  <2>b. controle' \in [fase: {"livre", "drenar", "encerrar", "esperar"}, drain: BOOLEAN]
    <3>1. controle' = [controle EXCEPT !.fase = "esperar"]
      BY <1>7 DEF PutNone
    <3>2. QED
      BY <3>1 DEF TInv, TypeOK
  <2>c. noStop' \in 0..MaxTurnos
    BY <1>7 DEF PutNone, TInv, TypeOK
  <2>3. TypeOK'
    BY <1>7, <2>a, <2>b, <2>c DEF TInv, TypeOK, PutNone, turnoVars
  <2>4. Contagem'
    BY <1>0, <1>7, <2>1 DEF TInv, TypeOK, Contagem, PutNone
  <2>5. QED
    BY <2>3, <2>4 DEF TInv
<1>8. CASE ThreadJoin
  <2>1. Ocupadas' = Ocupadas
    BY <1>8 DEF ThreadJoin, Ocupadas
  <2>2. TypeOK'
    BY <1>8 DEF TInv, TypeOK, ThreadJoin, turnoVars, Livre, Viva
  <2>3. QED
    BY <1>8, <2>1, <2>2 DEF TInv, Contagem, ThreadJoin
<1>9. CASE UNCHANGED vars
  <2>1. Ocupadas' = Ocupadas
    BY <1>9 DEF vars, Ocupadas
  <2>2. QED
    BY <1>9, <2>1 DEF vars, turnoVars, TInv, TypeOK, Contagem
<1>10. QED
  BY <1>1, <1>2, <1>3, <1>4, <1>5, <1>6, <1>7, <1>8, <1>9 DEF Next

\* Type correctness, in particular that the count behind join() is a natural
\* number and that the queue never holds more than max_queue items.
THEOREM TypeCorrectness == Spec => []TypeOK
<1>1. TInv => TypeOK
  BY DEF TInv
<1>2. QED
  BY <1>1, TInvInit, TInvStep, PTL DEF Spec

\* join() is a sound test: no unfinished task means an empty queue and idle hands.
THEOREM JoinCorrectness == Spec => []NadaPendenteSemTarefa
<1>1. TInv => NadaPendenteSemTarefa
  <2> SUFFICES ASSUME TInv, inacabadas = 0
               PROVE  NaFila = {} /\ NaMao = {}
    BY DEF NadaPendenteSemTarefa
  <2>1. Len(fila) \in Nat
    BY DEF TInv, TypeOK
  <2>2. Len(fila) = 0 /\ Cardinality(Ocupadas) = 0
    BY <2>1, OcupadasFinitas DEF TInv, Contagem
  <2>3. NaFila = {}
    BY <2>2 DEF NaFila
  <2>4. Ocupadas = {}
    BY <2>2, OcupadasFinitas, FS_EmptySet
  <2>5. \A t \in Threads : consumidor[t].item = None
    BY <2>4 DEF TInv, Contagem, Ocupadas
  <2>6. QED
    BY <2>3, <2>5 DEF NaMao
<1>2. QED
  BY <1>1, TInvInit, TInvStep, PTL DEF Spec

-----------------------------------------------------------------------------
(* One consumer at a time.                                                 *)

\* While no join has given up, a live thread is the one in _thread.
SoAThread == ~expirou => \A t \in Threads : Viva(t) => t = thread

LEMMA SoAThreadInit == Init => SoAThread
  BY DEF Init, SoAThread, Viva, Parado

LEMMA SoAThreadStep == TInv /\ SoAThread /\ [Next]_vars => SoAThread'
<1> SUFFICES ASSUME TInv, SoAThread, [Next]_vars, ~expirou',
                    NEW u \in Threads, Viva(u)'
             PROVE  u = thread'
  BY DEF SoAThread
<1>1. CASE Submit \/ Join \/ PutNone \/ (\E drain \in BOOLEAN : Stop(drain))
           \/ UNCHANGED vars
  <2>1. UNCHANGED <<thread, consumidor, expirou>>
    BY <1>1 DEF Submit, Join, PutNone, Stop, vars
  <2>2. QED
    BY <2>1 DEF SoAThread, Viva
<1>2. ASSUME NEW t \in Threads, Get(t) \/ Transcrever(t) PROVE u = thread'
  <2>1. UNCHANGED <<thread, expirou>>
    BY <1>2 DEF Get, Transcrever
  <2>2. Viva(t)
    BY <1>2 DEF Get, Transcrever, Viva
  <2>3. u # t => consumidor'[u] = consumidor[u]
    BY <1>2 DEF Get, Transcrever, TInv, TypeOK
  <2>4. Viva(u)
    BY <2>2, <2>3 DEF Viva
  <2>5. QED
    BY <2>1, <2>4 DEF SoAThread
<1>3. CASE Start
  <2>1. thread' = criadas' /\ expirou' = expirou
        /\ consumidor' = [consumidor EXCEPT ![criadas'] = Lendo]
    BY <1>3 DEF Start
  <2>2. ~Viva(u)
    BY <1>3, <2>1 DEF Start, SemThreadViva, SoAThread, TInv, TypeOK, Threads
  <2>3. u # criadas' => consumidor'[u] = consumidor[u]
    BY <2>1 DEF TInv, TypeOK
  <2>4. QED
    BY <2>1, <2>2, <2>3 DEF Viva
<1>4. CASE ThreadJoin
  <2>1. consumidor' = consumidor /\ expirou' = (expirou \/ Viva(thread))
    BY <1>4 DEF ThreadJoin
  <2>2. Viva(u)
    BY <2>1 DEF Viva
  <2>3. ~expirou /\ ~Viva(thread)
    BY <2>1, Zenon
  <2>4. QED
    BY <2>2, <2>3 DEF SoAThread
<1>5. QED
  BY <1>1, <1>2, <1>3, <1>4 DEF Next

\* "Uma thread, uma fila".
THEOREM SingleConsumer == Spec => []UmaThread
<1>1. SoAThread => UmaThread
  BY DEF SoAThread, UmaThread
<1>2. Init => TInv /\ SoAThread
  BY TInvInit, SoAThreadInit
<1>3. TInv /\ SoAThread /\ [Next]_vars => (TInv /\ SoAThread)'
  BY TInvStep, SoAThreadStep
<1>4. QED
  BY <1>1, <1>2, <1>3, PTL DEF Spec

-----------------------------------------------------------------------------
(* The order of the turns.                                                 *)

\* Turns wait in the order of submission ...
FilaEmOrdem ==
    /\ \A i, j \in 1..Len(fila) :
          (i < j /\ fila[i] # None /\ fila[j] # None) => fila[i] < fila[j]
    /\ \A i \in 1..Len(fila) : fila[i] <= enviadas

\* ... the turns in hand came before them ...
MaosAntesDaFila ==
    \A t \in Ocupadas :
        /\ consumidor[t].item <= enviadas
        /\ \A i \in 1..Len(fila) : fila[i] # None => consumidor[t].item < fila[i]

\* ... and so did those handed on, which with one consumer also came before
\* the one in hand.
EntreguesAntesDaFila ==
    \A k \in 1..Len(entregues) :
        /\ entregues[k] <= enviadas
        /\ \A i \in 1..Len(fila) : fila[i] # None => entregues[k] < fila[i]
EntreguesAntesDasMaos ==
    ~expirou => \A t \in Ocupadas : \A k \in 1..Len(entregues) :
                    entregues[k] < consumidor[t].item

EmOrdem == /\ FilaEmOrdem /\ MaosAntesDaFila /\ EntreguesAntesDaFila
           /\ EntreguesAntesDasMaos /\ OrdemPreservada

LEMMA EmOrdemInit == Init => EmOrdem
<1> SUFFICES ASSUME Init PROVE EmOrdem
  OBVIOUS
<1>1. fila = <<>> /\ entregues = <<>> /\ Ocupadas = {}
  BY DEF Init, Ocupadas, Parado
<1>2. QED
  BY <1>1 DEF EmOrdem, FilaEmOrdem, MaosAntesDaFila, EntreguesAntesDaFila,
              EntreguesAntesDasMaos, OrdemPreservada, Crescente

LEMMA EmOrdemStep == TInv /\ SoAThread /\ EmOrdem /\ [Next]_vars => EmOrdem'
<1> SUFFICES ASSUME TInv, SoAThread, EmOrdem, [Next]_vars PROVE EmOrdem'
  OBVIOUS
<1> USE WorkerAssumption
<1>0. /\ fila \in Seq(Turnos \cup {None}) /\ entregues \in Seq(Turnos)
      /\ Len(fila) \in Nat /\ Len(entregues) \in Nat /\ enviadas \in Nat
      /\ \A i \in 1..Len(fila) : fila[i] \in Nat
      /\ \A k \in 1..Len(entregues) : entregues[k] \in Nat
      /\ \A t \in Threads : consumidor[t].item \in Nat
  BY DEF TInv, TypeOK, Turnos, None
<1>1. CASE Submit
  <2>1. /\ enviadas' = enviadas + 1
        /\ entregues' = entregues /\ consumidor' = consumidor /\ expirou' = expirou
        /\ Ocupadas' = Ocupadas
    BY <1>1 DEF Submit, Ocupadas
  <2>2. CASE fila' = fila
    <3>1. FilaEmOrdem'
      BY <1>0, <2>1, <2>2 DEF EmOrdem, FilaEmOrdem
    <3>2. MaosAntesDaFila'
      BY <1>0, <2>1, <2>2 DEF EmOrdem, MaosAntesDaFila, Ocupadas
    <3>3. EntreguesAntesDaFila'
      BY <1>0, <2>1, <2>2 DEF EmOrdem, EntreguesAntesDaFila
    <3>4. EntreguesAntesDasMaos' /\ OrdemPreservada'
      BY <2>1 DEF EmOrdem, EntreguesAntesDasMaos, OrdemPreservada, Crescente
    <3>5. QED
      BY <3>1, <3>2, <3>3, <3>4 DEF EmOrdem
  <2>3. CASE fila' = Append(fila, enviadas')
    <3>1. Len(fila') = Len(fila) + 1
          /\ \A i \in 1..Len(fila') :
                fila'[i] = IF i <= Len(fila) THEN fila[i] ELSE enviadas + 1
      BY <1>0, <2>1, <2>3
    <3>2. FilaEmOrdem'
      <4> SUFFICES ASSUME NEW i \in 1..Len(fila'), NEW j \in 1..Len(fila')
                   PROVE  /\ fila'[i] <= enviadas'
                          /\ (i < j /\ fila'[i] # None /\ fila'[j] # None)
                               => fila'[i] < fila'[j]
        BY DEF FilaEmOrdem
      <4>1. \/ i \in 1..Len(fila) /\ fila'[i] = fila[i]
            \/ i = Len(fila) + 1 /\ fila'[i] = enviadas + 1
        BY <1>0, <3>1
      <4>2. \/ j \in 1..Len(fila) /\ fila'[j] = fila[j]
            \/ j = Len(fila) + 1 /\ fila'[j] = enviadas + 1
        BY <1>0, <3>1
      <4>3. FilaEmOrdem
        BY DEF EmOrdem
      <4>4. enviadas' = enviadas + 1
        BY <2>1
      <4>5. QED
        BY <1>0, <4>1, <4>2, <4>3, <4>4 DEF FilaEmOrdem
    <3>3. MaosAntesDaFila'
      BY <1>0, <2>1, <3>1 DEF EmOrdem, MaosAntesDaFila, Ocupadas
    <3>4. EntreguesAntesDaFila'
      BY <1>0, <2>1, <3>1 DEF EmOrdem, EntreguesAntesDaFila
    <3>5. EntreguesAntesDasMaos' /\ OrdemPreservada'
      BY <2>1 DEF EmOrdem, EntreguesAntesDasMaos, OrdemPreservada, Crescente
    <3>6. QED
      BY <3>2, <3>3, <3>4, <3>5 DEF EmOrdem
  <2>4. QED
    BY <1>1, <2>2, <2>3 DEF Submit
<1>2. ASSUME NEW t \in Threads, Get(t) PROVE EmOrdem'
  <2>1. /\ fila # <<>> /\ fila' = Tail(fila)
        /\ enviadas' = enviadas /\ entregues' = entregues /\ expirou' = expirou
    BY <1>2 DEF Get, turnoVars
  <2>2. /\ Len(fila) > 0 /\ Len(fila') = Len(fila) - 1 /\ Head(fila) = fila[1]
        /\ \A i \in 1..Len(fila') : fila'[i] = fila[i + 1]
    BY <1>0, <2>1
  <2>3. \A u \in Ocupadas' : \/ u \in Ocupadas /\ consumidor'[u] = consumidor[u]
                             \/ consumidor'[u].item = fila[1] /\ fila[1] # None
    BY <1>2, <2>2 DEF Get, TInv, TypeOK, Ocupadas
  <2>4. FilaEmOrdem'
    BY <1>0, <2>1, <2>2 DEF EmOrdem, FilaEmOrdem
  <2>5. MaosAntesDaFila'
    BY <1>0, <2>1, <2>2, <2>3 DEF EmOrdem, FilaEmOrdem, MaosAntesDaFila
  <2>6. EntreguesAntesDaFila'
    BY <1>0, <2>1, <2>2 DEF EmOrdem, EntreguesAntesDaFila
  <2>7. EntreguesAntesDasMaos'
    BY <1>0, <2>1, <2>2, <2>3 DEF EmOrdem, EntreguesAntesDaFila, EntreguesAntesDasMaos
  <2>8. OrdemPreservada'
    BY <2>1 DEF EmOrdem, OrdemPreservada, Crescente
  <2>9. QED
    BY <2>4, <2>5, <2>6, <2>7, <2>8 DEF EmOrdem
<1>3. ASSUME NEW t \in Threads, Transcrever(t) PROVE EmOrdem'
  <2>1. /\ fila' = fila /\ enviadas' = enviadas /\ expirou' = expirou
        /\ entregues' = Append(entregues, consumidor[t].item) \/ entregues' = entregues
        /\ consumidor' = [consumidor EXCEPT ![t] = Lendo]
    BY <1>3 DEF Transcrever, DepoisDeFalhar
  <2>2. t \in Ocupadas /\ Viva(t)
    BY <1>3 DEF Transcrever, Ocupadas, Viva
  <2>3. \A u \in Ocupadas' : u # t /\ u \in Ocupadas /\ consumidor'[u] = consumidor[u]
    BY <2>1 DEF TInv, TypeOK, Ocupadas, Lendo
  <2>4. /\ Len(entregues') \in Nat
        /\ \A k \in 1..Len(entregues') :
              \/ k <= Len(entregues) /\ entregues'[k] = entregues[k]
              \/ k = Len(entregues') /\ k = Len(entregues) + 1
                 /\ entregues'[k] = consumidor[t].item
    BY <1>0, <2>1
  <2>5. FilaEmOrdem'
    BY <2>1 DEF EmOrdem, FilaEmOrdem
  <2>6. MaosAntesDaFila'
    BY <2>1, <2>3 DEF EmOrdem, MaosAntesDaFila
  <2>7. EntreguesAntesDaFila'
    BY <1>0, <2>1, <2>2, <2>4 DEF EmOrdem, MaosAntesDaFila, EntreguesAntesDaFila
  <2>8. EntreguesAntesDasMaos'
    <3>1. ~expirou => Ocupadas' = {}
      BY <2>2, <2>3 DEF SoAThread, Ocupadas, Viva
    <3>2. QED
      BY <2>1, <3>1 DEF EntreguesAntesDasMaos
  <2>9. OrdemPreservada'
    BY <1>0, <2>1, <2>2, <2>4 DEF EmOrdem, EntreguesAntesDasMaos, OrdemPreservada, Crescente
  <2>10. QED
    BY <2>5, <2>6, <2>7, <2>8, <2>9 DEF EmOrdem
<1>4. CASE Start
  <2>1. /\ fila' = fila /\ enviadas' = enviadas /\ expirou' = expirou
        /\ entregues' = entregues
        /\ consumidor' = [consumidor EXCEPT ![criadas'] = Lendo]
    BY <1>4 DEF Start, turnoVars
  <2>2. \A u \in Ocupadas' : u \in Ocupadas /\ consumidor'[u] = consumidor[u]
    BY <2>1 DEF TInv, TypeOK, Ocupadas, Lendo
  <2>3. QED
    BY <2>1, <2>2 DEF EmOrdem, FilaEmOrdem, MaosAntesDaFila, EntreguesAntesDaFila,
                      EntreguesAntesDasMaos, OrdemPreservada, Crescente
<1>5. CASE Join \/ (\E drain \in BOOLEAN : Stop(drain)) \/ UNCHANGED vars
  <2>1. UNCHANGED <<fila, enviadas, entregues, consumidor, expirou, Ocupadas>>
    BY <1>5 DEF Join, Stop, vars, turnoVars, Ocupadas
  <2>2. QED
    BY <2>1 DEF EmOrdem, FilaEmOrdem, MaosAntesDaFila, EntreguesAntesDaFila,
                EntreguesAntesDasMaos, OrdemPreservada, Crescente
<1>6. CASE PutNone
  <2>1. /\ fila' = Append(fila, None)
        /\ UNCHANGED <<enviadas, entregues, consumidor, expirou, Ocupadas>>
    BY <1>6 DEF PutNone, turnoVars, Ocupadas
  <2>2. Len(fila') = Len(fila) + 1
        /\ \A i \in 1..Len(fila') :
              fila'[i] = IF i <= Len(fila) THEN fila[i] ELSE None
    BY <1>0, <2>1
  <2>n. \A i \in 1..Len(fila') :
            /\ fila'[i] <= enviadas
            /\ fila'[i] # None => i \in 1..Len(fila) /\ fila'[i] = fila[i]
    BY <1>0, <2>2 DEF EmOrdem, FilaEmOrdem, None
  <2>3. FilaEmOrdem'
    BY <1>0, <2>1, <2>n DEF EmOrdem, FilaEmOrdem
  <2>4. MaosAntesDaFila'
    BY <2>1, <2>n DEF EmOrdem, MaosAntesDaFila
  <2>5. EntreguesAntesDaFila'
    BY <2>1, <2>n DEF EmOrdem, EntreguesAntesDaFila
  <2>6. EntreguesAntesDasMaos' /\ OrdemPreservada'
    BY <2>1 DEF EmOrdem, EntreguesAntesDasMaos, OrdemPreservada, Crescente
  <2>7. QED
    BY <2>3, <2>4, <2>5, <2>6 DEF EmOrdem
<1>7. CASE ThreadJoin
  <2>1. /\ UNCHANGED <<fila, enviadas, entregues, consumidor, Ocupadas>>
        /\ ~expirou' => ~expirou
    BY <1>7 DEF ThreadJoin, turnoVars, Ocupadas
  <2>2. QED
    BY <2>1 DEF EmOrdem, FilaEmOrdem, MaosAntesDaFila, EntreguesAntesDaFila,
                EntreguesAntesDasMaos, OrdemPreservada, Crescente
<1>8. QED
  BY <1>1, <1>2, <1>3, <1>4, <1>5, <1>6, <1>7 DEF Next

\* "A ordem dos turnos e preservada", unless a stop gave up on a live thread.
THEOREM OrderPreserved == Spec => []OrdemPreservada
<1>1. EmOrdem => OrdemPreservada
  BY DEF EmOrdem
<1>2. Init => TInv /\ SoAThread /\ EmOrdem
  BY TInvInit, SoAThreadInit, EmOrdemInit
<1>3. TInv /\ SoAThread /\ EmOrdem /\ [Next]_vars => (TInv /\ SoAThread /\ EmOrdem)'
  BY TInvStep, SoAThreadStep, EmOrdemStep
<1>4. QED
  BY <1>1, <1>2, <1>3, PTL DEF Spec

-----------------------------------------------------------------------------
(* No turn is lost.                                                        *)

\* Two threads never hold the same turn, and those not yet started hold none.
MaosDistintas ==
    /\ \A t, u \in Ocupadas : consumidor[t].item = consumidor[u].item => t = u
    /\ \A t \in Threads : Viva(t) => t <= criadas

\* NadaSePerde, place by place.
Disjuntos ==
    /\ descartadas \cap NaFila = {} /\ descartadas \cap NaMao = {}
    /\ descartadas \cap Entregues = {} /\ descartadas \cap falhas = {}
    /\ NaFila \cap NaMao = {} /\ NaFila \cap Entregues = {} /\ NaFila \cap falhas = {}
    /\ NaMao \cap Entregues = {} /\ NaMao \cap falhas = {}
    /\ Entregues \cap falhas = {}
Todos == descartadas \cup NaFila \cup NaMao \cup Entregues \cup falhas
Lugares == MaosDistintas /\ Disjuntos /\ Todos = 1..enviadas

\* The hands that matter are those of the threads transcribing.
LEMMA MaosOcupadas == TInv => NaMao = {consumidor[t].item : t \in Ocupadas}
<1> SUFFICES ASSUME TInv PROVE NaMao = {consumidor[t].item : t \in Ocupadas}
  OBVIOUS
<1>1. \A t \in Threads : t \in Ocupadas => Viva(t) /\ consumidor[t].item # None
  BY DEF TInv, Contagem, Ocupadas, Viva
<1>2. \A t \in Threads : t \notin Ocupadas => consumidor[t].item = None
  BY DEF TInv, Contagem, Ocupadas
<1>3. QED
  BY <1>1, <1>2 DEF NaMao, Ocupadas

LEMMA LugaresBastam == Lugares => NadaSePerde
<1> SUFFICES ASSUME Lugares PROVE NadaSePerde
  OBVIOUS
<1> DEFINE lugares == <<descartadas, NaFila, NaMao, Entregues, falhas>>
<1>1. /\ lugares[1] = descartadas /\ lugares[2] = NaFila /\ lugares[3] = NaMao
      /\ lugares[4] = Entregues /\ lugares[5] = falhas
  OBVIOUS
<1>2. 1..5 = {1, 2, 3, 4, 5}
  OBVIOUS
<1> HIDE DEF lugares
<1>3. UNION {lugares[i] : i \in 1..5} = Todos
  BY <1>1, <1>2, Zenon DEF Todos
<1>4. \A i, j \in {1, 2, 3, 4, 5} : i # j => lugares[i] \cap lugares[j] = {}
  BY <1>1 DEF Lugares, Disjuntos
<1>5. QED
  BY <1>2, <1>3, <1>4 DEF NadaSePerde, Lugares, lugares

LEMMA LugaresInit == Init => Lugares
<1> SUFFICES ASSUME Init PROVE Lugares
  OBVIOUS
<1>1. Ocupadas = {} /\ NaFila = {} /\ NaMao = {} /\ Entregues = {}
      /\ descartadas = {} /\ falhas = {} /\ enviadas = 0
      /\ \A t \in Threads : ~Viva(t)
  BY DEF Init, Ocupadas, Parado, NaFila, NaMao, Entregues, Viva
<1>2. QED
  BY <1>1 DEF Lugares, MaosDistintas, Disjuntos, Todos

\* What each action does to the five places.
LEMMA LugaresStep == TInv /\ EmOrdem /\ Lugares /\ [Next]_vars => Lugares'
<1> SUFFICES ASSUME TInv, EmOrdem, Lugares, [Next]_vars PROVE Lugares'
  OBVIOUS
<1> USE WorkerAssumption
<1>0. /\ fila \in Seq(Turnos \cup {None}) /\ entregues \in Seq(Turnos)
      /\ Len(fila) \in Nat /\ enviadas \in Nat /\ criadas \in Nat
      /\ \A i \in 1..Len(fila) : fila[i] \in Nat
  BY DEF TInv, TypeOK, Turnos, None
<1>a. NaMao = {consumidor[t].item : t \in Ocupadas}
      /\ NaMao' = {consumidor'[t].item : t \in Ocupadas'}
  <2>1. TInv'
    BY TInvStep
  <2>2. (NaMao = {consumidor[t].item : t \in Ocupadas})'
    BY <2>1, MaosOcupadas, PTL
  <2>3. QED
    BY <2>2, MaosOcupadas
<1>1. CASE Submit
  <2>1. UNCHANGED <<NaMao, Entregues, falhas, MaosDistintas>> /\ enviadas' = enviadas + 1
    BY <1>1 DEF Submit, NaMao, Entregues, MaosDistintas, Ocupadas, Viva
  <2>2. \/ NaFila' = NaFila \cup {enviadas'} /\ descartadas' = descartadas
        \/ NaFila' = NaFila /\ descartadas' = descartadas \cup {enviadas'}
    <3>1. CASE fila' = Append(fila, enviadas') /\ descartadas' = descartadas
      <4>1. Len(fila') = Len(fila) + 1
            /\ \A i \in 1..Len(fila') :
                  fila'[i] = IF i <= Len(fila) THEN fila[i] ELSE enviadas'
        BY <1>0, <2>1, <3>1
      <4>2. NaFila' \subseteq NaFila \cup {enviadas'}
        BY <1>0, <4>1 DEF NaFila
      <4>3. NaFila \subseteq NaFila'
        BY <1>0, <4>1 DEF NaFila
      <4>4. enviadas' \in NaFila'
        BY <1>0, <2>1, <4>1 DEF NaFila, None
      <4>5. QED
        BY <3>1, <4>2, <4>3, <4>4
    <3>2. CASE fila' = fila /\ descartadas' = Descartar(enviadas')
      BY <3>2 DEF NaFila, Descartar
    <3>3. QED
      BY <1>1, <3>1, <3>2 DEF Submit
  <2>3. enviadas' \notin Todos /\ 1..enviadas' = 1..enviadas \cup {enviadas'}
    BY <1>0, <2>1 DEF Lugares
  <2>4. QED
    BY <2>1, <2>2, <2>3 DEF Lugares, Disjuntos, Todos
<1>2. ASSUME NEW t \in Threads, Get(t) PROVE Lugares'
  <2>1. /\ fila # <<>> /\ fila' = Tail(fila) /\ t \notin Ocupadas
        /\ UNCHANGED <<descartadas, Entregues, falhas, enviadas, criadas>>
    BY <1>2 DEF Get, turnoVars, Entregues, Ocupadas
  <2>2. /\ Len(fila) > 0 /\ Len(fila') = Len(fila) - 1 /\ Head(fila) = fila[1]
        /\ \A i \in 1..Len(fila') : fila'[i] = fila[i + 1]
    BY <1>0, <2>1
  <2>3. \A u \in Threads : u # t => consumidor'[u] = consumidor[u]
    BY <1>2 DEF Get, TInv, TypeOK
  <2>4. CASE fila[1] = None
    <3>1. NaFila' = NaFila
      <4>1. ASSUME NEW i \in 1..Len(fila), fila[i] # None
            PROVE  fila[i] \in NaFila'
        <5>1. i - 1 \in 1..Len(fila') /\ fila'[i - 1] = fila[i]
          BY <1>0, <2>2, <2>4, <4>1
        <5>2. QED
          BY <4>1, <5>1 DEF NaFila
      <4>2. NaFila' \subseteq NaFila
        BY <1>0, <2>2 DEF NaFila
      <4>3. QED
        BY <4>1, <4>2 DEF NaFila
    <3>2. Ocupadas' = Ocupadas
      BY <1>2, <2>2, <2>4 DEF Get, TInv, TypeOK, Ocupadas
    <3>3. NaMao' = NaMao /\ MaosDistintas'
      <4>1. \A u \in Ocupadas : consumidor'[u] = consumidor[u]
        BY <2>1, <2>3 DEF Ocupadas
      <4>2. \A u \in Threads : Viva(u)' => Viva(u)
        BY <1>2, <2>3 DEF Get, Viva
      <4>3. QED
        BY <1>a, <2>1, <3>2, <4>1, <4>2 DEF Lugares, MaosDistintas
    <3>4. QED
      BY <2>1, <3>1, <3>3 DEF Lugares, Disjuntos, Todos
  <2>5. CASE fila[1] # None
    <3>1. NaFila' = NaFila \ {fila[1]} /\ fila[1] \in NaFila
      <4>1. \A i \in 2..Len(fila) : fila[i] # fila[1]
        BY <1>0, <2>2, <2>5 DEF EmOrdem, FilaEmOrdem
      <4>2. fila[1] \in NaFila
        BY <1>0, <2>2, <2>5 DEF NaFila
      <4>3. NaFila' \subseteq NaFila \ {fila[1]}
        BY <1>0, <2>2, <4>1 DEF NaFila
      <4>4. ASSUME NEW i \in 1..Len(fila), fila[i] # None, fila[i] # fila[1]
            PROVE  fila[i] \in NaFila'
        <5>1. i - 1 \in 1..Len(fila') /\ fila'[i - 1] = fila[i]
          BY <1>0, <2>2, <4>4
        <5>2. QED
          BY <4>4, <5>1 DEF NaFila
      <4>5. QED
        BY <4>2, <4>3, <4>4 DEF NaFila
    <3>2. Ocupadas' = Ocupadas \cup {t} /\ consumidor'[t].item = fila[1]
      BY <1>2, <2>2, <2>5 DEF Get, TInv, TypeOK, Ocupadas
    <3>3. NaMao' = NaMao \cup {fila[1]}
      BY <1>a, <2>1, <2>3, <3>2 DEF Ocupadas
    <3>4. fila[1] \notin NaMao
      BY <3>1 DEF Lugares, Disjuntos
    <3>5. \A u \in Threads : Viva(u)' => Viva(u)
      BY <1>2, <2>3 DEF Get, Viva
    <3>6. MaosDistintas'
      <4>1. \A u \in Ocupadas : u # t /\ consumidor'[u] = consumidor[u]
                                /\ consumidor[u].item # fila[1]
        BY <1>a, <2>1, <2>3, <3>4 DEF Ocupadas
      <4>2. QED
        BY <2>1, <3>2, <3>5, <4>1 DEF Lugares, MaosDistintas
    <3>7. QED
      BY <2>1, <3>1, <3>3, <3>6 DEF Lugares, Disjuntos, Todos
  <2>6. QED
    BY <2>4, <2>5
<1>3. ASSUME NEW t \in Threads, Transcrever(t) PROVE Lugares'
  <2> DEFINE x == consumidor[t].item
  <2>1. /\ consumidor' = [consumidor EXCEPT ![t] = Lendo]
        /\ UNCHANGED <<NaFila, descartadas, enviadas, criadas>>
    BY <1>3 DEF Transcrever, DepoisDeFalhar, NaFila
  <2>2. \/ Entregues' = Entregues \cup {x} /\ falhas' = falhas
        \/ Entregues' = Entregues /\ falhas' = falhas \cup {x}
    <3>1. CASE entregues' = Append(entregues, x) /\ falhas' = falhas
      <4>1. x \in Turnos
        BY <1>3 DEF Transcrever, TInv, TypeOK, Contagem
      <4>2. Len(entregues) \in Nat /\ Len(entregues') = Len(entregues) + 1
            /\ \A i \in 1..Len(entregues') :
                  entregues'[i] = IF i <= Len(entregues) THEN entregues[i] ELSE x
        BY <1>0, <3>1, <4>1
      <4>3. Entregues' \subseteq Entregues \cup {x}
        BY <4>2 DEF Entregues
      <4>4. Entregues \subseteq Entregues' /\ x \in Entregues'
        BY <4>2 DEF Entregues
      <4>5. QED
        BY <3>1, <4>3, <4>4
    <3>2. CASE entregues' = entregues /\ falhas' = falhas \cup {x}
      BY <3>2 DEF Entregues
    <3>3. QED
      BY <1>3, <3>1, <3>2 DEF Transcrever
  <2>3. t \in Ocupadas /\ Ocupadas' = Ocupadas \ {t}
        /\ \A u \in Ocupadas' : consumidor'[u] = consumidor[u]
    BY <1>3, <2>1 DEF Transcrever, TInv, TypeOK, Ocupadas, Lendo
  <2>4. NaMao' = NaMao \ {x} /\ x \in NaMao
    BY <1>a, <2>3 DEF Lugares, MaosDistintas
  <2>5. MaosDistintas'
    <3>1. \A u \in Threads : Viva(u)' => Viva(u)
      BY <1>3, <2>1 DEF Transcrever, TInv, TypeOK, Viva
    <3>2. QED
      BY <2>1, <2>3, <3>1 DEF Lugares, MaosDistintas
  <2> HIDE DEF x
  <2>6. QED
    BY <2>1, <2>2, <2>4, <2>5 DEF Lugares, Disjuntos, Todos
<1>4. CASE Start
  <2>1. /\ UNCHANGED <<NaFila, descartadas, Entregues, falhas, enviadas>>
        /\ criadas' = criadas + 1
        /\ consumidor' = [consumidor EXCEPT ![criadas'] = Lendo]
    BY <1>4 DEF Start, turnoVars, NaFila, Entregues
  <2>2. criadas' \notin Ocupadas
    BY <1>0, <2>1 DEF Lugares, MaosDistintas, Ocupadas, Viva
  <2>3. Ocupadas' = Ocupadas /\ \A u \in Ocupadas : consumidor'[u] = consumidor[u]
    BY <2>1, <2>2 DEF TInv, TypeOK, Ocupadas, Lendo
  <2>4. NaMao' = NaMao
    BY <1>a, <2>3
  <2>5. MaosDistintas'
    <3>1. \A u \in Threads : Viva(u)' => Viva(u) \/ u = criadas'
      BY <2>1 DEF TInv, TypeOK, Viva
    <3>2. QED
      BY <1>0, <2>1, <2>3, <3>1 DEF Lugares, MaosDistintas, Threads
  <2>6. QED
    BY <2>1, <2>4, <2>5 DEF Lugares, Disjuntos, Todos
<1>5. CASE Join \/ ThreadJoin \/ (\E drain \in BOOLEAN : Stop(drain)) \/ UNCHANGED vars
  <2>1. UNCHANGED <<fila, consumidor, descartadas, entregues, falhas, enviadas, criadas>>
    BY <1>5 DEF Join, ThreadJoin, Stop, vars, turnoVars
  <2>2. UNCHANGED <<NaFila, NaMao, Entregues, MaosDistintas>>
    BY <2>1 DEF NaFila, NaMao, Entregues, MaosDistintas, Ocupadas, Viva
  <2>3. QED
    BY <2>1, <2>2 DEF Lugares, Disjuntos, Todos
<1>6. CASE PutNone
  <2>1. /\ fila' = Append(fila, None)
        /\ UNCHANGED <<consumidor, descartadas, entregues, falhas, enviadas, criadas>>
    BY <1>6 DEF PutNone, turnoVars
  <2>2. Len(fila') = Len(fila) + 1
        /\ \A i \in 1..Len(fila') :
              fila'[i] = IF i <= Len(fila) THEN fila[i] ELSE None
    BY <1>0, <2>1
  <2>3. NaFila' = NaFila
    BY <1>0, <2>2 DEF NaFila
  <2>4. UNCHANGED <<NaMao, Entregues, MaosDistintas>>
    BY <2>1 DEF NaMao, Entregues, MaosDistintas, Ocupadas, Viva
  <2>5. QED
    BY <2>1, <2>3, <2>4 DEF Lugares, Disjuntos, Todos
<1>7. QED
  BY <1>1, <1>2, <1>3, <1>4, <1>5, <1>6 DEF Next

\* Each turn submitted is in exactly one place: dropped, queued, in hand,
\* handed on, failed.
THEOREM NothingLost == Spec => []NadaSePerde
<1>1. Init => TInv /\ SoAThread /\ EmOrdem /\ Lugares
  BY TInvInit, SoAThreadInit, EmOrdemInit, LugaresInit
<1>2. TInv /\ SoAThread /\ EmOrdem /\ Lugares /\ [Next]_vars
      => (TInv /\ SoAThread /\ EmOrdem /\ Lugares)'
  BY TInvStep, SoAThreadStep, EmOrdemStep, LugaresStep
<1>3. QED
  BY <1>1, <1>2, LugaresBastam, PTL DEF Spec

-----------------------------------------------------------------------------
(* What stop(drain=True) promises.                                         *)

\* The turns of the call were submitted before it.
Dreno == noStop <= enviadas /\ DrenoCompleto

LEMMA DrenoStep == TInv /\ Lugares /\ Dreno /\ [Next]_vars => Dreno'
<1> SUFFICES ASSUME TInv, Lugares, Dreno, [Next]_vars PROVE Dreno'
  OBVIOUS
<1>0. /\ enviadas \in Nat /\ noStop \in Nat
      /\ fila \in Seq(Turnos \cup {None}) /\ entregues \in Seq(Turnos)
      /\ Len(entregues) \in Nat
  BY WorkerAssumption DEF TInv, TypeOK
<1>1. CASE Submit
  <2>1. UNCHANGED <<controle, noStop, falhas, Entregues>> /\ enviadas' = enviadas + 1
        /\ descartadas \subseteq descartadas'
    BY <1>1 DEF Submit, Descartar, Entregues
  <2>2. QED
    BY <1>0, <2>1 DEF Dreno, DrenoCompleto
<1>2. ASSUME NEW t \in Threads, Get(t) \/ Transcrever(t) PROVE Dreno'
  <2>1. UNCHANGED <<controle, noStop, descartadas, enviadas>> /\ falhas \subseteq falhas'
    BY <1>2 DEF Get, Transcrever, turnoVars
  <2>2. Entregues \subseteq Entregues'
    <3>1. CASE entregues' = entregues
      BY <3>1 DEF Entregues
    <3>2. CASE entregues' = Append(entregues, consumidor[t].item)
      <4>1. Len(entregues') = Len(entregues) + 1
            /\ \A i \in 1..Len(entregues) : entregues'[i] = entregues[i]
        BY <1>0, <3>2
      <4>2. QED
        BY <1>0, <4>1 DEF Entregues
    <3>3. QED
      BY <1>2, <3>1, <3>2 DEF Get, Transcrever, turnoVars
  <2>3. QED
    BY <2>1, <2>2 DEF Dreno, DrenoCompleto
<1>3. CASE Start \/ UNCHANGED vars
  <2>1. UNCHANGED <<controle, noStop, descartadas, enviadas, falhas, Entregues>>
    BY <1>3 DEF Start, vars, turnoVars, Entregues
  <2>2. QED
    BY <2>1 DEF Dreno, DrenoCompleto
<1>4. ASSUME NEW drain \in BOOLEAN, Stop(drain) PROVE Dreno'
  <2>1. /\ noStop' = enviadas /\ enviadas' = enviadas
        /\ controle'.drain = drain
        /\ controle'.fase = IF drain THEN "drenar" ELSE "encerrar"
    BY <1>4 DEF Stop, turnoVars
  <2>2. QED
    BY <1>0, <2>1 DEF Dreno, DrenoCompleto
<1>5. CASE Join
  <2>1. UNCHANGED <<noStop, descartadas, enviadas, falhas, Entregues>>
    BY <1>5 DEF Join, turnoVars, Entregues
  <2>2. NaFila = {} /\ NaMao = {}
    <3>1. Len(fila) \in Nat /\ Len(fila) = 0 /\ Cardinality(Ocupadas) = 0
      BY <1>0, <1>5, OcupadasFinitas DEF Join, Terminadas, TInv, TypeOK, Contagem
    <3>2. Ocupadas = {}
      BY <3>1, OcupadasFinitas, FS_EmptySet
    <3>3. NaFila = {}
      BY <3>1 DEF NaFila
    <3>4. QED
      BY <3>2, <3>3, MaosOcupadas
  <2>3. 1..enviadas \subseteq Entregues \cup falhas \cup descartadas
    BY <2>2 DEF Lugares, Todos
  <2>4. QED
    BY <1>0, <2>1, <2>3 DEF Dreno, DrenoCompleto
<1>6. CASE PutNone
  <2>1. /\ UNCHANGED <<descartadas, enviadas, falhas, noStop, Entregues>>
        /\ controle.fase = "encerrar" /\ controle' = [controle EXCEPT !.fase = "esperar"]
    BY <1>6 DEF PutNone, turnoVars, Entregues
  <2>2. controle'.drain = controle.drain
    BY <2>1 DEF TInv, TypeOK
  <2>3. QED
    BY <2>1, <2>2 DEF Dreno, DrenoCompleto
<1>7. CASE ThreadJoin
  <2>1. UNCHANGED <<noStop, enviadas>> /\ controle'.fase = "livre"
    BY <1>7 DEF ThreadJoin, turnoVars, Livre
  <2>2. QED
    BY <2>1 DEF Dreno, DrenoCompleto
<1>8. QED
  BY <1>1, <1>2, <1>3, <1>4, <1>5, <1>6, <1>7 DEF Next

\* stop(drain=True) returns only after every turn submitted before the call has
\* been dealt with.
THEOREM DrainComplete == Spec => []DrenoCompleto
<1> DEFINE I == TInv /\ SoAThread /\ EmOrdem /\ Lugares /\ Dreno
<1>1. Init => I
  <2>1. Init => Dreno
    BY DEF Init, Dreno, DrenoCompleto, Livre
  <2>2. QED
    BY <2>1, TInvInit, SoAThreadInit, EmOrdemInit, LugaresInit
<1>2. I /\ [Next]_vars => I'
  BY TInvStep, SoAThreadStep, EmOrdemStep, LugaresStep, DrenoStep
<1>3. I => DrenoCompleto
  BY DEF Dreno
<1>4. QED
  BY <1>1, <1>2, <1>3, PTL DEF Spec

-----------------------------------------------------------------------------
(* The worker implements the abstract FIFO of FilaDeTurnos.                 *)

Pendentes == NaFila \cup NaMao

\* What is pending is what was submitted and is not out in one of three ways.
LEMMA PendentesSao ==
    Lugares => Pendentes = (1..enviadas) \ (descartadas \cup Entregues \cup falhas)
BY DEF Lugares, Disjuntos, Todos, Pendentes

\* A full queue without a request to stop holds max_queue different turns.
LEMMA FilaCheia ==
    TInv /\ EmOrdem /\ ~Cabe /\ (\A i \in 1..Len(fila) : fila[i] # None)
    => Cardinality(Pendentes) >= MaxQueue
<1> SUFFICES ASSUME TInv, EmOrdem, ~Cabe, \A i \in 1..Len(fila) : fila[i] # None
             PROVE  Cardinality(Pendentes) >= MaxQueue
  OBVIOUS
<1>1. /\ fila \in Seq(Turnos \cup {None}) /\ Len(fila) \in Nat /\ Len(fila) = MaxQueue
      /\ \A i \in 1..Len(fila) : fila[i] \in Nat
  BY WorkerAssumption DEF TInv, TypeOK, Turnos, None, Cabe
<1>2. IsFiniteSet(Pendentes)
  <2>1. Pendentes \subseteq 1..MaxTurnos
    BY DEF Pendentes, NaFila, NaMao, TInv, TypeOK, Turnos, None
  <2>2. IsFiniteSet(1..MaxTurnos)
    BY WorkerAssumption, FS_Interval
  <2>3. QED
    BY <2>1, <2>2, FS_Subset
<1>3. Cardinality(NaFila) = Len(fila)
  <2> DEFINE f == [i \in 1..Len(fila) |-> fila[i]]
  <2>1. f \in Bijection(1..Len(fila), NaFila)
    <3>1. \A i, j \in 1..Len(fila) : fila[i] = fila[j] => i = j
      <4> SUFFICES ASSUME NEW i \in 1..Len(fila), NEW j \in 1..Len(fila), i < j
                   PROVE  fila[i] # fila[j]
        BY <1>1
      <4>1. fila[i] < fila[j]
        BY DEF EmOrdem, FilaEmOrdem
      <4>2. QED
        BY <1>1, <4>1
    <3>2. NaFila = {fila[i] : i \in 1..Len(fila)}
      BY DEF NaFila
    <3>3. QED
      BY <3>1, <3>2 DEF Bijection, Injection, Surjection, IsInjective
  <2>2. ExistsBijection(1..Len(fila), NaFila)
    BY <2>1 DEF ExistsBijection
  <2>3. QED
    BY <1>1, <2>2, FS_CountingElements
<1>4. Cardinality(NaFila) <= Cardinality(Pendentes)
  BY <1>2, FS_Subset DEF Pendentes
<1>5. QED
  BY <1>1, <1>2, <1>3, <1>4, WorkerAssumption, FS_CardinalityType

\* Every step of the worker is a step of the FIFO, or none at all.
LEMMA PassoDaFila ==
    /\ TInv /\ SoAThread /\ EmOrdem /\ Lugares /\ Lugares'
    /\ [Next]_vars
    => [Fila!Next]_(Fila!vars)
<1> SUFFICES ASSUME TInv, SoAThread, EmOrdem, Lugares, Lugares', [Next]_vars
             PROVE  [Fila!Next]_(Fila!vars)
  OBVIOUS
<1> DEFINE parando == \E i \in 1..Len(fila) : fila[i] = None
<1>0. /\ fila \in Seq(Turnos \cup {None}) /\ entregues \in Seq(Turnos)
      /\ Len(fila) \in Nat /\ Len(entregues) \in Nat /\ enviadas \in Nat
      /\ expirou \in BOOLEAN
  BY WorkerAssumption DEF TInv, TypeOK
<1>a. /\ Pendentes = (1..enviadas) \ (descartadas \cup Entregues \cup falhas)
      /\ Pendentes' = (1..enviadas') \ (descartadas' \cup Entregues' \cup falhas')
      /\ descartadas \cup Entregues \cup falhas \subseteq 1..enviadas
  <2>1. (Lugares => Pendentes = (1..enviadas) \ (descartadas \cup Entregues \cup falhas))'
    BY PendentesSao, PTL
  <2>2. QED
    BY <2>1, PendentesSao DEF Lugares, Todos
<1>b. ASSUME UNCHANGED <<enviadas, Pendentes, entregues, falhas, descartadas>>,
             expirou' \in {expirou, TRUE}
      PROVE  Fila!Next
  <2>1. Fila!Parar
    BY <1>b DEF Fila!Parar, Pendentes
  <2>2. QED
    BY <2>1 DEF Fila!Next
<1>c. entregues' = entregues => Entregues' = Entregues
  BY DEF Entregues
<1>1. CASE Submit
  <2>1. /\ enviadas < MaxTurnos /\ enviadas' = enviadas + 1
        /\ UNCHANGED <<entregues, falhas, expirou, Entregues>>
    BY <1>1 DEF Submit, Entregues
  <2>2. CASE Cabe
    <3>1. fila' = Append(fila, enviadas') /\ descartadas' = descartadas
      BY <1>1, <2>2 DEF Submit
    <3>2. Pendentes' = Pendentes \cup {enviadas'}
      BY <1>0, <1>a, <2>1, <3>1
    <3>3. parando' = parando
      <4>1. /\ Len(fila') = Len(fila) + 1 /\ enviadas' # None
            /\ \A i \in 1..Len(fila') :
                  fila'[i] = IF i <= Len(fila) THEN fila[i] ELSE enviadas'
        BY <1>0, <2>1, <3>1 DEF None
      <4>2. QED
        BY <1>0, <4>1
    <3>4. Fila!Aceitar
      BY <2>1, <3>1, <3>2, <3>3 DEF Fila!Aceitar, Pendentes
    <3>5. QED
      BY <3>4 DEF Fila!Next
  <2>3. CASE ~Cabe
    <3>1. fila' = fila /\ descartadas' = descartadas \cup {enviadas'}
      BY <1>1, <2>3 DEF Submit, Descartar
    <3>2. Pendentes' = Pendentes
      BY <1>0, <1>a, <2>1, <3>1
    <3>3. parando' = parando
      BY <3>1
    <3>4. parando \/ Cardinality(NaFila \cup NaMao) >= MaxQueue
      BY <2>3, FilaCheia DEF Pendentes
    <3>5. /\ UNCHANGED <<NaFila \cup NaMao, entregues, falhas, parando, expirou>>
          /\ enviadas < MaxTurnos /\ enviadas' = enviadas + 1
          /\ descartadas' = descartadas \cup {enviadas'}
      BY <2>1, <3>1, <3>2, <3>3 DEF Pendentes
    <3> HIDE DEF parando
    <3>6. Fila!Recusar
      BY <3>4, <3>5, Zenon DEF Fila!Recusar, parando, Fila!Cardinality, Cardinality
    <3>7. QED
      BY <3>6 DEF Fila!Next
  <2>4. QED
    BY <2>2, <2>3
<1>2. ASSUME NEW t \in Threads, Get(t) PROVE Fila!Next
  BY <1>2, <1>a, <1>b, <1>c DEF Get, turnoVars
<1>3. ASSUME NEW t \in Threads, Transcrever(t) PROVE Fila!Next
  <2> DEFINE x == consumidor[t].item
  <2>1. t \in Ocupadas /\ Viva(t) /\ x \in Turnos
    BY <1>3 DEF Transcrever, Ocupadas, Viva, TInv, TypeOK, Contagem
  <2>2. x \in NaMao /\ x \in Pendentes
    BY <2>1, MaosOcupadas DEF Pendentes
  <2>3. expirou \/ Fila!MaisAntigo(x)
    <3> SUFFICES ASSUME ~expirou, NEW m \in Pendentes
                 PROVE  x <= m
      BY DEF Fila!MaisAntigo, Pendentes
    <3>1. CASE m \in NaFila
      <4>1. x < m
        BY <2>1, <3>1 DEF EmOrdem, MaosAntesDaFila, NaFila
      <4>2. x \in Nat /\ m \in Nat
        BY <1>0, <2>1, <3>1 DEF NaFila, Turnos, None
      <4>3. QED
        BY <4>1, <4>2
    <3>2. CASE m \in NaMao
      <4>1. PICK u \in Ocupadas : m = consumidor[u].item
        BY <3>2, MaosOcupadas
      <4>2. u = t
        BY <2>1, <4>1 DEF SoAThread, Ocupadas, Viva
      <4>3. QED
        BY <2>1, <4>1, <4>2 DEF Turnos
    <3>3. QED
      BY <3>1, <3>2 DEF Pendentes
  <2>4. UNCHANGED <<fila, enviadas, descartadas, expirou>>
    BY <1>3 DEF Transcrever
  <2>5. \/ entregues' = Append(entregues, x) /\ falhas' = falhas
        \/ falhas' = falhas \cup {x} /\ entregues' = entregues
    BY <1>3 DEF Transcrever
  <2>6. Pendentes' = Pendentes \ {x}
    <3>1. CASE entregues' = Append(entregues, x) /\ falhas' = falhas
      <4>1. /\ Len(entregues') = Len(entregues) + 1
            /\ \A k \in 1..Len(entregues') :
                  entregues'[k] = IF k <= Len(entregues) THEN entregues[k] ELSE x
        BY <1>0, <2>1, <3>1
      <4>2. Entregues' \subseteq Entregues \cup {x}
        BY <1>0, <4>1 DEF Entregues
      <4>3. Entregues \cup {x} \subseteq Entregues'
        BY <1>0, <4>1 DEF Entregues
      <4>4. QED
        BY <1>a, <2>4, <3>1, <4>2, <4>3
    <3>2. CASE falhas' = falhas \cup {x} /\ entregues' = entregues
      BY <1>a, <1>c, <2>4, <3>2
    <3>3. QED
      BY <2>5, <3>1, <3>2
  <2>7. parando' = parando
    BY <2>4
  <2>8. Fila!Sair(x)
    BY <2>2, <2>3, <2>4, <2>5, <2>6, <2>7 DEF Fila!Sair, Pendentes
  <2>9. QED
    BY <2>2, <2>8 DEF Fila!Next, Pendentes
<1>4. CASE Start \/ (\E drain \in BOOLEAN : Stop(drain)) \/ Join \/ PutNone \/ ThreadJoin
  <2>1. UNCHANGED <<enviadas, entregues, falhas, descartadas>>
    BY <1>4 DEF Start, Stop, Join, PutNone, ThreadJoin, turnoVars
  <2>2. expirou' \in {expirou, TRUE}
    BY <1>0, <1>4 DEF Start, Stop, Join, PutNone, ThreadJoin
  <2>3. QED
    BY <1>a, <1>b, <1>c, <2>1, <2>2
<1>5. CASE UNCHANGED vars
  BY <1>5, <1>a DEF vars, turnoVars, Fila!vars, Pendentes, NaFila, NaMao, Viva
<1>6. QED
  BY <1>1, <1>2, <1>3, <1>4, <1>5 DEF Next

\* With its queue, threads and count hidden, the worker is a FIFO: turns are
\* refused only when there is no room, and come out oldest first and once each,
\* unless a stop gave up on a live thread.
THEOREM FifoImplemented == Spec => CumpreAFila
<1> DEFINE I == TInv /\ SoAThread /\ EmOrdem /\ Lugares
<1>1. Init => I
  BY TInvInit, SoAThreadInit, EmOrdemInit, LugaresInit
<1>2. I /\ [Next]_vars => I'
  BY TInvStep, SoAThreadStep, EmOrdemStep, LugaresStep
<1>3. Init => Fila!Init
  <2> SUFFICES ASSUME Init PROVE Fila!Init
    OBVIOUS
  <2>1. NaFila = {} /\ NaMao = {} /\ ~\E i \in 1..Len(fila) : fila[i] = None
    BY DEF Init, NaFila, NaMao, Viva, Parado
  <2>2. QED
    BY <2>1 DEF Init, Fila!Init
<1>4. I /\ I' /\ [Next]_vars => [Fila!Next]_(Fila!vars)
  BY PassoDaFila
<1>5. QED
  BY <1>1, <1>2, <1>3, <1>4, PTL DEF Spec, CumpreAFila, Fila!Spec
=============================================================================
