------------------------ MODULE SessionRecorderProofs -----------------------
(***************************************************************************)
(* Proofs about the recorder of sessions, for every length of block and    *)
(* any turns.                                                              *)
(***************************************************************************)
EXTENDS SessionRecorder, SequenceTheorems, TLAPS

Trecho  == [inicio : Int, fim : Int]
Fala    == [turno : Nat, raw : Trecho, sessao : Trecho, ancora : BOOLEAN]
Fechado == [pcm : Seq(Nat), started_at : Int, ended_at : Int]
Aberto  == [pcm : Seq(Nat), inicio : Int, fim : Int, duracao : Int]

Tipos ==
    /\ session \in BOOLEAN /\ paused \in BOOLEAN /\ recalibrar \in BOOLEAN
    /\ retomou \in BOOLEAN /\ emOrdem \in BOOLEAN
    /\ raw_offset \in Int /\ last_session_end \in Int /\ ultimo_fim \in Int
    /\ recebidos \in Nat
    /\ bloco \in Aberto
    /\ blocks \in Seq(Fechado) /\ devolvidos \in Seq(Fechado)
    /\ aceitos \in Seq(Fala)

\* The turns of a block, and of a list of blocks.
Turnos(pcm) == {pcm[k] : k \in 1..Len(pcm)}
Todos(B)    == UNION {Turnos(B[i].pcm) : i \in 1..Len(B)}

Crescente(pcm) == \A k, l \in 1..Len(pcm) : k < l => pcm[k] < pcm[l]

\* All the blocks of B come before the instant t, or before the turns of pcm.
Antes(B, t)       == \A i \in 1..Len(B) : B[i].ended_at <= t
Menores(B, pcm)   == \A m \in Todos(B), n \in Turnos(pcm) : m < n

\* A list of blocks: no overlap of times, and no turn out of place.
Fila(B) ==
    /\ \A i \in 1..Len(B) : B[i].started_at <= B[i].ended_at
    /\ \A i, j \in 1..Len(B) : i < j => B[i].ended_at <= B[j].started_at
    /\ \A i \in 1..Len(B) : Crescente(B[i].pcm)
    /\ \A i, j \in 1..Len(B) : i < j =>
          \A m \in Turnos(B[i].pcm), n \in Turnos(B[j].pcm) : m < n

\* Block b may be put at the end of B.  Its duration is that of its turns, the
\* silence between them not counted.
Cabe(b, B) ==
    /\ b.inicio <= b.fim /\ b.duracao <= b.fim - b.inicio
    /\ Antes(B, b.inicio)
    /\ Crescente(b.pcm) /\ Menores(B, b.pcm)

\* The closed blocks of the session.
Anteriores == devolvidos \o blocks

\* The block in progress goes where the next block must.
BlocoInv ==
    /\ Fila(Anteriores) /\ Antes(Anteriores, last_session_end)
    /\ \/ bloco = BlocoVazio
       \/ bloco.pcm # <<>> /\ bloco.fim = last_session_end /\ Cabe(bloco, Anteriores)
    /\ \A i \in 1..Len(blocks) : blocks[i].started_at < blocks[i].ended_at

\* The turns that were kept are those of the blocks.
TurnosInv ==
    /\ Todos(Anteriores) \cup Turnos(bloco.pcm) = {aceitos[k].turno : k \in 1..Len(aceitos)}
    /\ \A n \in Todos(Anteriores) \cup Turnos(bloco.pcm) : n <= recebidos

\* The two clocks at the end of the last turn that was kept.
RelogioInv ==
    /\ retomou <=> recalibrar
    /\ aceitos = <<>> => recalibrar
    /\ aceitos # <<>> =>
          LET u == aceitos[Len(aceitos)]
          IN  /\ u.sessao.fim = last_session_end
              /\ emOrdem => u.raw.fim <= ultimo_fim
              /\ emOrdem /\ ~recalibrar => raw_offset = u.raw.fim - u.sessao.fim
    /\ RelogioFiel

IInv == Tipos /\ BlocoInv /\ TurnosInv /\ RelogioInv

-----------------------------------------------------------------------------
LEMMA UmAMenos ==
    ASSUME NEW m \in Nat, NEW j \in 1..(m + 1), j # m + 1
    PROVE  j \in 1..m
OBVIOUS

\* A turn is put at the end of a block.
LEMMA MaisUmTurno ==
    ASSUME NEW s \in Seq(Nat), NEW n \in Nat
    PROVE  /\ Append(s, n) \in Seq(Nat) /\ Append(s, n) # <<>>
           /\ Turnos(Append(s, n)) = Turnos(s) \cup {n}
           /\ Crescente(s) /\ (\A m \in Turnos(s) : m < n) => Crescente(Append(s, n))
<1> DEFINE a == Append(s, n)
<1>1. /\ a \in Seq(Nat) /\ Len(a) = Len(s) + 1 /\ a[Len(s) + 1] = n
      /\ \A k \in 1..Len(s) : a[k] = s[k]
      /\ Len(s) \in Nat
  OBVIOUS
<1>2. a # <<>>
  BY <1>1
<1> HIDE DEF a
<1>3. Turnos(a) = Turnos(s) \cup {n}
  <2>1. ASSUME NEW x \in Turnos(a)
        PROVE  x \in Turnos(s) \cup {n}
    <3>1. PICK k \in 1..Len(a) : x = a[k]
      BY DEF Turnos
    <3>2. CASE k = Len(s) + 1
      BY <1>1, <3>1, <3>2
    <3>3. CASE k # Len(s) + 1
      <4>1. k \in 1..Len(s)
        BY <1>1, <3>3
      <4>2. QED
        BY <1>1, <3>1, <4>1 DEF Turnos
    <3>4. QED
      BY <3>2, <3>3
  <2>2. ASSUME NEW x \in Turnos(s) \cup {n}
        PROVE  x \in Turnos(a)
    <3>1. CASE x = n
      <4>1. Len(s) + 1 \in 1..Len(a)
        BY <1>1
      <4>2. QED
        BY <1>1, <3>1, <4>1 DEF Turnos
    <3>2. CASE x \in Turnos(s)
      <4>1. PICK k \in 1..Len(s) : x = s[k]
        BY <3>2 DEF Turnos
      <4>2. k \in 1..Len(a) /\ x = a[k]
        BY <1>1, <4>1
      <4>3. QED
        BY <4>2 DEF Turnos
    <3>3. QED
      BY <3>1, <3>2
  <2>3. QED
    BY <2>1, <2>2
<1>4. ASSUME Crescente(s), \A m \in Turnos(s) : m < n
      PROVE  Crescente(a)
  <2> SUFFICES ASSUME NEW k \in 1..Len(a), NEW l \in 1..Len(a), k < l
               PROVE  a[k] < a[l]
    BY DEF Crescente
  <2>1. k \in 1..Len(s) /\ a[k] = s[k]
    BY <1>1
  <2>2. CASE l = Len(s) + 1
    <3>1. s[k] \in Turnos(s)
      BY <2>1 DEF Turnos
    <3>2. QED
      BY <1>1, <1>4, <2>1, <2>2, <3>1
  <2>3. CASE l # Len(s) + 1
    <3>1. l \in 1..Len(s)
      <4>1. l \in 1..(Len(s) + 1)
        BY <1>1
      <4>2. QED
        BY <1>1, <2>3, <4>1, UmAMenos
    <3>2. QED
      BY <1>1, <1>4, <2>1, <3>1 DEF Crescente
  <2>4. QED
    BY <2>2, <2>3
<1>5. QED
  BY <1>1, <1>2, <1>3, <1>4 DEF a

\* A closed block is put at the end of a list.
LEMMA MaisUmBloco ==
    ASSUME NEW B \in Seq(Fechado), NEW x \in Fechado
    PROVE  /\ Append(B, x) \in Seq(Fechado)
           /\ Todos(Append(B, x)) = Todos(B) \cup Turnos(x.pcm)
           /\ \A t \in Int : Antes(B, t) /\ x.ended_at <= t => Antes(Append(B, x), t)
           /\ /\ Fila(B) /\ x.started_at <= x.ended_at /\ Antes(B, x.started_at)
              /\ Crescente(x.pcm) /\ Menores(B, x.pcm)
              => Fila(Append(B, x))
<1> DEFINE a == Append(B, x)
<1>1. /\ a \in Seq(Fechado) /\ Len(a) = Len(B) + 1 /\ a[Len(B) + 1] = x
      /\ \A k \in 1..Len(B) : a[k] = B[k]
      /\ Len(B) \in Nat
  OBVIOUS
<1> HIDE DEF a
<1>2. \A k \in 1..Len(a) : k \in 1..Len(B) \/ k = Len(B) + 1
  BY <1>1
<1>3. (1..Len(B)) \subseteq 1..Len(a) /\ Len(B) + 1 \in 1..Len(a)
  BY <1>1
<1>4. Todos(a) = Todos(B) \cup Turnos(x.pcm)
  <2>1. ASSUME NEW n
        PROVE  n \in Todos(a) <=> \E i \in 1..Len(a) : n \in Turnos(a[i].pcm)
    BY DEF Todos
  <2>2. ASSUME NEW n
        PROVE  n \in Todos(B) <=> \E i \in 1..Len(B) : n \in Turnos(B[i].pcm)
    BY DEF Todos
  <2>3. ASSUME NEW n
        PROVE  n \in Todos(a) <=> n \in Todos(B) \/ n \in Turnos(x.pcm)
    BY <1>1, <1>2, <1>3, <2>1, <2>2
  <2>4. QED
    BY <2>3
<1>5. ASSUME NEW t \in Int, Antes(B, t), x.ended_at <= t
      PROVE  Antes(a, t)
  BY <1>1, <1>2, <1>5 DEF Antes
<1>6. ASSUME Fila(B), x.started_at <= x.ended_at, Antes(B, x.started_at),
             Crescente(x.pcm), Menores(B, x.pcm)
      PROVE  Fila(a)
  <2>1. ASSUME NEW i \in 1..Len(a)
        PROVE  a[i].started_at <= a[i].ended_at /\ Crescente(a[i].pcm)
    BY <1>1, <1>2, <1>6 DEF Fila
  <2>2. ASSUME NEW i \in 1..Len(a), NEW j \in 1..Len(a), i < j
        PROVE  /\ a[i].ended_at <= a[j].started_at
               /\ \A m \in Turnos(a[i].pcm), n \in Turnos(a[j].pcm) : m < n
    <3>1. i \in 1..Len(B) /\ a[i] = B[i]
      BY <1>1, <2>2
    <3>2. CASE j \in 1..Len(B)
      BY <1>1, <1>6, <2>2, <3>1, <3>2 DEF Fila
    <3>3. CASE j = Len(B) + 1
      <4>1. a[j] = x /\ Turnos(B[i].pcm) \subseteq Todos(B)
        BY <1>1, <3>1, <3>3 DEF Todos
      <4>2. QED
        BY <1>6, <3>1, <4>1 DEF Antes, Menores
    <3>4. QED
      BY <1>2, <3>2, <3>3
  <2>3. QED
    BY <2>1, <2>2 DEF Fila
<1>7. QED
  BY <1>1, <1>4, <1>5, <1>6 DEF a

\* What FecharBloco makes of a block that holds audio.
Fecho(b) == [pcm |-> b.pcm, started_at |-> b.inicio, ended_at |-> b.fim]

LEMMA Fechando ==
    ASSUME NEW b \in Aberto, NEW B \in Seq(Fechado), Fila(B),
           b.pcm = <<>> \/ Cabe(b, B)
    PROVE  /\ FecharBloco(b, B) \in Seq(Fechado) /\ Fila(FecharBloco(b, B))
           /\ Todos(FecharBloco(b, B)) = Todos(B) \cup Turnos(b.pcm)
           /\ \A t \in Int : /\ Antes(B, t)
                             /\ b.pcm # <<>> => b.fim <= t
                             => Antes(FecharBloco(b, B), t)
<1>1. CASE b.pcm = <<>>
  <2>1. FecharBloco(b, B) = B
    BY <1>1 DEF FecharBloco
  <2>2. Turnos(b.pcm) = {}
    BY <1>1 DEF Turnos
  <2>3. QED
    BY <2>1, <2>2
<1>2. CASE b.pcm # <<>>
  <2>1. Fecho(b) \in Fechado
    BY DEF Fecho, Fechado, Aberto
  <2>2. /\ Fecho(b).pcm = b.pcm /\ Fecho(b).started_at = b.inicio
        /\ Fecho(b).ended_at = b.fim
    BY DEF Fecho
  <2>3. FecharBloco(b, B) = Append(B, Fecho(b))
    BY <1>2 DEF FecharBloco, Fecho
  <2>4. Cabe(b, B)
    BY <1>2
  <2>5. Fila(Append(B, Fecho(b)))
    BY <2>1, <2>2, <2>4, MaisUmBloco DEF Cabe
  <2>6. QED
    BY <1>2, <2>1, <2>2, <2>3, <2>5, MaisUmBloco
<1>3. QED
  BY <1>1, <1>2

\* The block in progress comes after all that was handed over before.
LEMMA Juncao ==
    ASSUME Tipos, NEW b \in Aberto
    PROVE  devolvidos \o FecharBloco(b, blocks) = FecharBloco(b, Anteriores)
<1>1. CASE b.pcm = <<>>
  BY <1>1 DEF FecharBloco, Anteriores
<1>2. CASE b.pcm # <<>>
  <2>1. Fecho(b) \in Fechado
    BY DEF Fecho, Fechado, Aberto
  <2>2. ASSUME NEW S, NEW d \in Seq(S), NEW l \in Seq(S), NEW x \in S
        PROVE  d \o Append(l, x) = Append(d \o l, x)
    <3>1. Append(l, x) = l \o <<x>>
      OBVIOUS
    <3>2. d \o l \in Seq(S) /\ Append(d \o l, x) = (d \o l) \o <<x>>
      OBVIOUS
    <3>3. d \o (l \o <<x>>) = (d \o l) \o <<x>>
      OBVIOUS
    <3>4. QED
      BY <3>1, <3>2, <3>3
  <2>3. devolvidos \in Seq(Fechado) /\ blocks \in Seq(Fechado)
    BY DEF Tipos
  <2>4. devolvidos \o Append(blocks, Fecho(b)) = Append(devolvidos \o blocks, Fecho(b))
    BY <2>1, <2>2, <2>3
  <2>5. QED
    BY <1>2, <2>4 DEF FecharBloco, Anteriores, Fecho
<1>3. QED
  BY <1>1, <1>2

-----------------------------------------------------------------------------
\* The clamps.
LEMMA Clamps ==
    ASSUME last_session_end \in Int, NEW x \in Int, NEW y \in Int
    PROVE  /\ Travado(x, y) \in Trecho
           /\ last_session_end <= Travado(x, y).inicio
           /\ Travado(x, y).inicio <= Travado(x, y).fim
           /\ last_session_end <= x /\ x <= y =>
                 Travado(x, y).inicio = x /\ Travado(x, y).fim = y
BY DEF Travado, Trecho

\* The block in progress with turn n, which takes the time t of the session.
Novo(n, t) ==
    [pcm     |-> Append(bloco.pcm, n),
     inicio  |-> IF bloco.pcm = <<>> THEN t.inicio ELSE bloco.inicio,
     fim     |-> t.fim,
     duracao |-> bloco.duracao + (t.fim - t.inicio)]

LEMMA NovoCabe ==
    ASSUME Tipos, BlocoInv, TurnosInv, NEW n \in Nat, recebidos < n,
           NEW t \in Trecho, last_session_end <= t.inicio, t.inicio <= t.fim
    PROVE  /\ Novo(n, t) \in Aberto /\ Novo(n, t).pcm # <<>> /\ Novo(n, t).fim = t.fim
           /\ Turnos(Novo(n, t).pcm) = Turnos(bloco.pcm) \cup {n}
           /\ Cabe(Novo(n, t), Anteriores)
<1> DEFINE novo == Novo(n, t)
<1>1. /\ bloco.pcm \in Seq(Nat) /\ bloco.inicio \in Int /\ bloco.fim \in Int
      /\ bloco.duracao \in Int /\ last_session_end \in Int /\ recebidos \in Nat
      /\ t.inicio \in Int /\ t.fim \in Int
  BY DEF Tipos, Aberto, Trecho
<1>2. /\ novo.pcm = Append(bloco.pcm, n) /\ novo.fim = t.fim
      /\ novo.inicio = (IF bloco.pcm = <<>> THEN t.inicio ELSE bloco.inicio)
      /\ novo.duracao = bloco.duracao + (t.fim - t.inicio)
  BY DEF Novo
<1>3. /\ novo.pcm \in Seq(Nat) /\ novo.pcm # <<>>
      /\ Turnos(novo.pcm) = Turnos(bloco.pcm) \cup {n}
  BY <1>1, <1>2, MaisUmTurno
<1>4. novo \in Aberto
  <2>1. novo.inicio \in Int /\ novo.duracao \in Int /\ novo.fim \in Int
    BY <1>1, <1>2
  <2>2. novo = [pcm |-> novo.pcm, inicio |-> novo.inicio, fim |-> novo.fim,
                duracao |-> novo.duracao]
    BY DEF Novo
  <2> HIDE DEF novo
  <2>3. QED
    BY <1>3, <2>1, <2>2 DEF Aberto
<1>5. \A m \in Todos(Anteriores) \cup Turnos(bloco.pcm) : m < n
  <2>1. \A m \in Todos(Anteriores) \cup Turnos(bloco.pcm) : m <= recebidos
    BY DEF TurnosInv
  <2>2. \A m \in Turnos(bloco.pcm) : m \in Nat
    BY <1>1 DEF Turnos
  <2>3. \A m \in Todos(Anteriores) : m \in Nat
    <3>1. Anteriores \in Seq(Fechado)
      BY DEF Tipos, Anteriores
    <3>2. ASSUME NEW i \in 1..Len(Anteriores)
          PROVE  \A m \in Turnos(Anteriores[i].pcm) : m \in Nat
      <4>1. Anteriores[i] \in Fechado
        BY <3>1
      <4>2. Anteriores[i].pcm \in Seq(Nat)
        BY <4>1 DEF Fechado
      <4>3. QED
        BY <4>2 DEF Turnos
    <3>3. QED
      BY <3>2 DEF Todos
  <2>4. QED
    BY <1>1, <2>1, <2>2, <2>3
<1> HIDE DEF novo
<1>6. Crescente(novo.pcm)
  <2>1. Crescente(bloco.pcm)
    BY DEF BlocoInv, BlocoVazio, Crescente, Cabe
  <2>2. \A m \in Turnos(bloco.pcm) : m < n
    BY <1>5
  <2>3. QED
    BY <1>1, <1>2, <2>1, <2>2, MaisUmTurno
<1>7. Menores(Anteriores, novo.pcm)
  <2>1. CASE bloco = BlocoVazio
    <3>1. Turnos(novo.pcm) = {n}
      <4>1. bloco.pcm = <<>>
        BY <2>1 DEF BlocoVazio
      <4>2. Turnos(bloco.pcm) = {}
        BY <4>1 DEF Turnos
      <4>3. QED
        BY <1>3, <4>2
    <3>2. QED
      BY <1>5, <3>1 DEF Menores
  <2>2. CASE Cabe(bloco, Anteriores)
    BY <1>3, <1>5, <2>2 DEF Cabe, Menores
  <2>3. QED
    BY <2>1, <2>2 DEF BlocoInv
<1>8. /\ novo.inicio <= novo.fim /\ novo.duracao <= novo.fim - novo.inicio
      /\ Antes(Anteriores, novo.inicio)
  <2>1. CASE bloco = BlocoVazio
    <3>1. bloco.pcm = <<>> /\ bloco.duracao = 0
      BY <2>1 DEF BlocoVazio
    <3>2. Antes(Anteriores, t.inicio)
      <4>1. Antes(Anteriores, last_session_end) /\ Anteriores \in Seq(Fechado)
        BY DEF BlocoInv, Tipos, Anteriores
      <4>2. \A i \in 1..Len(Anteriores) : Anteriores[i].ended_at \in Int
        <5>1. \A i \in 1..Len(Anteriores) : Anteriores[i] \in Fechado
          BY <4>1
        <5>2. QED
          BY <5>1 DEF Fechado
      <4>3. QED
        BY <1>1, <4>1, <4>2 DEF Antes
    <3>3. QED
      BY <1>1, <1>2, <3>1, <3>2
  <2>2. CASE bloco.pcm # <<>> /\ bloco.fim = last_session_end /\ Cabe(bloco, Anteriores)
    BY <1>1, <1>2, <2>2 DEF Cabe
  <2>3. QED
    BY <2>1, <2>2 DEF BlocoInv
<1>9. Cabe(novo, Anteriores)
  BY <1>6, <1>7, <1>8 DEF Cabe
<1>10. QED
  BY <1>2, <1>3, <1>4, <1>9 DEF novo

\* What Add leaves of the clocks, for a turn that was kept.
Deslocamento(a)  == IF recalibrar THEN a - last_session_end ELSE raw_offset
NaSessao(a, b)   == Travado(a - Deslocamento(a), b - Deslocamento(a))
Registro(n, a, b) == [turno |-> n, raw |-> [inicio |-> a, fim |-> b],
                      sessao |-> NaSessao(a, b), ancora |-> retomou]

LEMMA PassoGuardar ==
    ASSUME IInv, NEW n \in Nat, recebidos < n, NEW a \in Int, NEW b \in Int,
           a < b, Guardar(n, a, b)
    PROVE  LET t == NaSessao(a, b)
           IN  /\ t \in Trecho /\ last_session_end <= t.inicio /\ t.inicio <= t.fim
               /\ Deslocamento(a) \in Int /\ raw_offset' = Deslocamento(a)
               /\ recalibrar' = FALSE /\ retomou' = FALSE /\ last_session_end' = t.fim
               /\ aceitos' = Append(aceitos, Registro(n, a, b))
               /\ UNCHANGED <<session, paused, devolvidos>>
               /\ \/ /\ Cheio(Novo(n, t).duracao) /\ bloco' = BlocoVazio
                     /\ blocks' = FecharBloco(Novo(n, t), blocks)
                  \/ bloco' = Novo(n, t) /\ blocks' = blocks
<1>1. a \in Int /\ b \in Int /\ last_session_end \in Int /\ raw_offset \in Int
  BY DEF IInv, Tipos
<1>2. Deslocamento(a) \in Int
  BY <1>1 DEF Deslocamento
<1>3. a - Deslocamento(a) \in Int /\ b - Deslocamento(a) \in Int
  BY <1>1, <1>2
<1>4. /\ NaSessao(a, b) \in Trecho /\ last_session_end <= NaSessao(a, b).inicio
      /\ NaSessao(a, b).inicio <= NaSessao(a, b).fim
  BY <1>1, <1>3, Clamps DEF NaSessao
<1>5. /\ raw_offset' = Deslocamento(a) /\ recalibrar' = FALSE /\ retomou' = FALSE
      /\ last_session_end' = NaSessao(a, b).fim
      /\ aceitos' = Append(aceitos, Registro(n, a, b))
      /\ UNCHANGED <<session, paused, devolvidos>>
      /\ \/ /\ Cheio(Novo(n, NaSessao(a, b)).duracao) /\ bloco' = BlocoVazio
            /\ blocks' = FecharBloco(Novo(n, NaSessao(a, b)), blocks)
         \/ bloco' = Novo(n, NaSessao(a, b)) /\ blocks' = blocks
  BY DEF Guardar, Deslocamento, NaSessao, Registro, Novo
<1>6. QED
  BY <1>2, <1>4, <1>5

\* The blocks after a turn that was kept.
LEMMA GuardaBlocos ==
    ASSUME IInv, NEW n \in Nat, recebidos < n, NEW a \in Int, NEW b \in Int,
           a < b, Guardar(n, a, b)
    PROVE  /\ bloco' \in Aberto /\ blocks' \in Seq(Fechado) /\ BlocoInv'
           /\ Todos(Anteriores)' \cup Turnos(bloco'.pcm)
                 = (Todos(Anteriores) \cup Turnos(bloco.pcm)) \cup {n}
<1> DEFINE t == NaSessao(a, b)
           novo == Novo(n, t)
<1>1. /\ t \in Trecho /\ last_session_end <= t.inicio /\ t.inicio <= t.fim
      /\ last_session_end' = t.fim /\ devolvidos' = devolvidos
      /\ \/ /\ Cheio(novo.duracao) /\ bloco' = BlocoVazio
            /\ blocks' = FecharBloco(novo, blocks)
         \/ bloco' = novo /\ blocks' = blocks
  BY PassoGuardar
<1> HIDE DEF t
<1>2. /\ novo \in Aberto /\ novo.pcm # <<>> /\ novo.fim = t.fim
      /\ Turnos(novo.pcm) = Turnos(bloco.pcm) \cup {n}
      /\ Cabe(novo, Anteriores)
  BY <1>1, NovoCabe DEF IInv
<1> HIDE DEF novo
<1>3. /\ devolvidos \in Seq(Fechado) /\ blocks \in Seq(Fechado)
      /\ Anteriores \in Seq(Fechado) /\ Fila(Anteriores)
      /\ Antes(Anteriores, last_session_end)
      /\ t.fim \in Int /\ t.inicio \in Int /\ last_session_end \in Int
      /\ \A i \in 1..Len(blocks) : blocks[i].started_at < blocks[i].ended_at
  BY <1>1 DEF IInv, Tipos, BlocoInv, Anteriores, Trecho
<1>4. Antes(Anteriores, t.fim)
  <2>1. \A i \in 1..Len(Anteriores) : Anteriores[i] \in Fechado
    BY <1>3
  <2>2. \A i \in 1..Len(Anteriores) : Anteriores[i].ended_at \in Int
    BY <2>1 DEF Fechado
  <2>3. QED
    BY <1>1, <1>3, <2>2 DEF Antes
<1>5. CASE Cheio(novo.duracao) /\ bloco' = BlocoVazio /\ blocks' = FecharBloco(novo, blocks)
  <2>1. Anteriores' = FecharBloco(novo, Anteriores)
    BY <1>1, <1>2, <1>5, Juncao DEF IInv, Anteriores
  <2>2. /\ FecharBloco(novo, Anteriores) \in Seq(Fechado)
        /\ Fila(FecharBloco(novo, Anteriores))
        /\ Todos(FecharBloco(novo, Anteriores)) = Todos(Anteriores) \cup Turnos(novo.pcm)
        /\ Antes(FecharBloco(novo, Anteriores), t.fim)
    <3>1. novo.pcm # <<>> => novo.fim <= t.fim
      BY <1>2, <1>3
    <3>2. QED
      BY <1>2, <1>3, <1>4, <3>1, Fechando
  <2>3. bloco' \in Aberto /\ Turnos(bloco'.pcm) = {}
    <3>1. bloco'.pcm = <<>>
      BY <1>5 DEF BlocoVazio
    <3>2. QED
      BY <1>5, <3>1 DEF BlocoVazio, Aberto, Turnos
  <2>4. blocks' = Append(blocks, Fecho(novo)) /\ Fecho(novo) \in Fechado
    BY <1>2, <1>5 DEF FecharBloco, Fecho, Fechado, Aberto
  <2>5. Fecho(novo).started_at < Fecho(novo).ended_at
    <3>1. novo.duracao \in Int /\ novo.inicio \in Int /\ novo.fim \in Int
      BY <1>2 DEF Aberto
    <3>2. novo.duracao <= novo.fim - novo.inicio /\ novo.duracao > 0
      BY <1>2, <1>5, <3>1, RecorderAssumption DEF Cabe, Cheio
    <3>3. QED
      BY <3>1, <3>2 DEF Fecho
  <2>6. \A i \in 1..Len(blocks') : blocks'[i].started_at < blocks'[i].ended_at
    BY <1>3, <2>4, <2>5
  <2>7. BlocoInv'
    BY <1>1, <1>5, <2>1, <2>2, <2>6 DEF BlocoInv
  <2>8. Todos(Anteriores)' = Todos(Anteriores) \cup Turnos(novo.pcm)
    BY <2>1, <2>2
  <2>9. blocks' \in Seq(Fechado)
    BY <1>3, <2>4
  <2>10. QED
    BY <1>2, <2>3, <2>7, <2>8, <2>9
<1>6. CASE bloco' = novo /\ blocks' = blocks
  <2>1. Anteriores' = Anteriores
    BY <1>1, <1>6 DEF Anteriores
  <2>2. BlocoInv'
    BY <1>1, <1>2, <1>3, <1>4, <1>6, <2>1 DEF BlocoInv
  <2>3. Todos(Anteriores)' = Todos(Anteriores)
    BY <2>1
  <2>4. QED
    BY <1>2, <1>3, <1>6, <2>2, <2>3
<1>7. QED
  BY <1>1, <1>5, <1>6

\* RelogioFiel, of one turn and the one before it.
Fiel(t)     == t.sessao.fim - t.sessao.inicio = t.raw.fim - t.raw.inicio
Segue(u, t) == t.sessao.inicio - u.sessao.fim =
                  IF t.ancora THEN 0 ELSE t.raw.inicio - u.raw.fim

\* The first turn of a stretch is put at the end of the session, and the next ones
\* at the same distance from it as in the capture: no clamp is needed.
LEMMA OProximo ==
    ASSUME IInv, NEW a \in Int, NEW b \in Int, a < b, emOrdem, a >= ultimo_fim
    PROVE  /\ NaSessao(a, b).inicio = a - Deslocamento(a)
           /\ NaSessao(a, b).fim = b - Deslocamento(a)
           /\ \A n \in Nat : /\ Fiel(Registro(n, a, b))
                             /\ aceitos # <<>> =>
                                   Segue(aceitos[Len(aceitos)], Registro(n, a, b))
<1> DEFINE off == Deslocamento(a)
           u == aceitos[Len(aceitos)]
           t == NaSessao(a, b)
<1>1. /\ a \in Int /\ b \in Int /\ last_session_end \in Int /\ raw_offset \in Int
      /\ ultimo_fim \in Int /\ aceitos \in Seq(Fala)
  BY DEF IInv, Tipos
<1>2. off \in Int
  BY <1>1 DEF Deslocamento
<1>3. aceitos # <<>> =>
         /\ u.sessao.fim \in Int /\ u.raw.fim \in Int
         /\ u.sessao.fim = last_session_end /\ u.raw.fim <= ultimo_fim
         /\ ~recalibrar => raw_offset = u.raw.fim - u.sessao.fim
  <2>1. ASSUME aceitos # <<>>
        PROVE  u \in Fala
    BY <1>1, <2>1
  <2>2. aceitos # <<>> => u.sessao.fim \in Int /\ u.raw.fim \in Int
    BY <2>1 DEF Fala, Trecho
  <2>3. QED
    BY <2>2 DEF IInv, RelogioInv
<1> HIDE DEF u
<1>4. CASE recalibrar
  <2>1. off = a - last_session_end
    BY <1>4 DEF Deslocamento
  <2> HIDE DEF off
  <2>2. a - off = last_session_end /\ last_session_end <= a - off /\ a - off <= b - off
    BY <1>1, <2>1
  <2>3. t.inicio = a - off /\ t.fim = b - off
    <3>1. a - off \in Int /\ b - off \in Int
      BY <1>1, <1>2
    <3>2. t = Travado(a - off, b - off)
      BY DEF NaSessao, off
    <3>3. QED
      BY <1>1, <2>2, <3>1, <3>2, Clamps
  <2> HIDE DEF t
  <2>4. ASSUME NEW n \in Nat
        PROVE  Fiel(Registro(n, a, b)) /\ (aceitos # <<>> => Segue(u, Registro(n, a, b)))
    <3>1. /\ Registro(n, a, b).sessao = t /\ Registro(n, a, b).raw.inicio = a
          /\ Registro(n, a, b).raw.fim = b /\ Registro(n, a, b).ancora = TRUE
      BY <1>4 DEF Registro, t, IInv, RelogioInv, Tipos
    <3>2. QED
      BY <1>1, <1>2, <1>3, <2>2, <2>3, <3>1 DEF Fiel, Segue
  <2>5. QED
    BY <2>3, <2>4 DEF u, t, off
<1>5. CASE ~recalibrar
  <2>1. off = raw_offset /\ aceitos # <<>>
    BY <1>5 DEF Deslocamento, IInv, RelogioInv
  <2> HIDE DEF off
  <2>2. last_session_end <= a - off /\ a - off <= b - off
    BY <1>1, <1>3, <1>5, <2>1
  <2>3. t.inicio = a - off /\ t.fim = b - off
    <3>1. a - off \in Int /\ b - off \in Int
      BY <1>1, <1>2
    <3>2. t = Travado(a - off, b - off)
      BY DEF NaSessao, off
    <3>3. QED
      BY <1>1, <2>2, <3>1, <3>2, Clamps
  <2> HIDE DEF t
  <2>4. ASSUME NEW n \in Nat
        PROVE  Fiel(Registro(n, a, b)) /\ (aceitos # <<>> => Segue(u, Registro(n, a, b)))
    <3>1. /\ Registro(n, a, b).sessao = t /\ Registro(n, a, b).raw.inicio = a
          /\ Registro(n, a, b).raw.fim = b /\ Registro(n, a, b).ancora = FALSE
      BY <1>5 DEF Registro, t, IInv, RelogioInv, Tipos
    <3>2. Fiel(Registro(n, a, b))
      BY <1>1, <1>2, <2>3, <3>1 DEF Fiel
    <3>3. t.inicio - u.sessao.fim = a - u.raw.fim
      <4>1. /\ u.sessao.fim \in Int /\ u.raw.fim \in Int
            /\ off = u.raw.fim - u.sessao.fim
        BY <1>3, <1>5, <2>1
      <4>2. QED
        BY <1>1, <2>3, <4>1
    <3>4. Segue(u, Registro(n, a, b))
      BY <3>1, <3>3 DEF Segue
    <3>5. QED
      BY <3>2, <3>4
  <2>5. QED
    BY <2>3, <2>4 DEF u, t, off
<1>6. QED
  BY <1>4, <1>5

RelogioPorPares ==
    emOrdem => /\ \A k \in 1..Len(aceitos) : Fiel(aceitos[k])
               /\ \A k \in 1..Len(aceitos) : k > 1 => Segue(aceitos[k - 1], aceitos[k])

LEMMA Pares == RelogioFiel <=> RelogioPorPares
BY DEF RelogioFiel, RelogioPorPares, Fiel, Segue

LEMMA GuardaRelogio ==
    ASSUME IInv, NEW n \in Nat, recebidos < n, NEW a \in Int, NEW b \in Int,
           a < b, Guardar(n, a, b), emOrdem' = (emOrdem /\ a >= ultimo_fim),
           ultimo_fim' = b
    PROVE  aceitos' \in Seq(Fala) /\ RelogioInv'
<1> DEFINE r == Registro(n, a, b)
           m == Len(aceitos)
<1>1. /\ NaSessao(a, b) \in Trecho /\ raw_offset' = Deslocamento(a)
      /\ recalibrar' = FALSE /\ retomou' = FALSE
      /\ last_session_end' = NaSessao(a, b).fim /\ aceitos' = Append(aceitos, r)
      /\ Deslocamento(a) \in Int
  BY PassoGuardar
<1>2. aceitos \in Seq(Fala) /\ m \in Nat
  BY DEF IInv, Tipos
<1>3. r \in Fala
  <2>1. retomou \in BOOLEAN /\ [inicio |-> a, fim |-> b] \in Trecho
    BY DEF IInv, Tipos, Trecho
  <2>2. QED
    BY <1>1, <2>1 DEF Registro, Fala
<1>4. /\ r.sessao = NaSessao(a, b) /\ r.raw.inicio = a /\ r.raw.fim = b
      /\ NaSessao(a, b).fim \in Int
  BY <1>1 DEF Registro, Trecho
<1> HIDE DEF r
<1>5. /\ aceitos' \in Seq(Fala) /\ Len(aceitos') = m + 1 /\ aceitos'[m + 1] = r
      /\ \A k \in 1..m : aceitos'[k] = aceitos[k]
      /\ aceitos' # <<>>
  BY <1>1, <1>2, <1>3
<1>6. RelogioPorPares'
  <2> SUFFICES ASSUME emOrdem'
               PROVE  /\ \A k \in 1..(m + 1) : Fiel(aceitos'[k])
                      /\ \A k \in 1..(m + 1) : k > 1 => Segue(aceitos'[k - 1], aceitos'[k])
    BY <1>5 DEF RelogioPorPares
  <2>1. emOrdem /\ a >= ultimo_fim
    BY DEF IInv, Tipos
  <2>2. Fiel(r) /\ (aceitos # <<>> => Segue(aceitos[m], r))
    BY <2>1, OProximo DEF r
  <2>3. RelogioPorPares
    BY Pares DEF IInv, RelogioInv
  <2>4. ASSUME NEW k \in 1..(m + 1)
        PROVE  Fiel(aceitos'[k]) /\ (k > 1 => Segue(aceitos'[k - 1], aceitos'[k]))
    <3>1. CASE k = m + 1
      <4>1. aceitos'[k] = r
        BY <1>5, <3>1
      <4>2. ASSUME k > 1
            PROVE  aceitos # <<>> /\ aceitos'[k - 1] = aceitos[m]
        <5>1. k - 1 = m /\ m \in 1..m
          BY <1>2, <3>1, <4>2
        <5>2. QED
          BY <1>2, <1>5, <5>1
      <4>3. QED
        BY <2>2, <4>1, <4>2
    <3>2. CASE k # m + 1
      <4>1. k \in 1..m
        BY <1>2, <3>2, UmAMenos
      <4>2. k > 1 => k - 1 \in 1..m
        BY <1>2, <4>1
      <4>3. QED
        BY <1>5, <2>1, <2>3, <4>1, <4>2 DEF RelogioPorPares
    <3>3. QED
      BY <3>1, <3>2
  <2>5. QED
    BY <2>4
<1>7. LET u == aceitos'[Len(aceitos')]
      IN  /\ u.sessao.fim = last_session_end'
          /\ emOrdem' => u.raw.fim <= ultimo_fim'
          /\ emOrdem' => raw_offset' = u.raw.fim - u.sessao.fim
  <2>1. aceitos'[Len(aceitos')] = r
    BY <1>5
  <2>2. emOrdem' => Deslocamento(a) = b - NaSessao(a, b).fim
    <3>1. ASSUME emOrdem'
          PROVE  Deslocamento(a) = b - NaSessao(a, b).fim
      <4>1. emOrdem /\ a >= ultimo_fim
        BY <3>1 DEF IInv, Tipos
      <4>2. NaSessao(a, b).fim = b - Deslocamento(a)
        BY <4>1, OProximo
      <4>3. QED
        BY <1>1, <1>4, <4>2
    <3>2. QED
      BY <3>1
  <2>3. QED
    BY <1>1, <1>4, <2>1, <2>2
<1>8. RelogioFiel'
  <2>1. RelogioFiel' <=> RelogioPorPares'
    BY DEF RelogioFiel, RelogioPorPares, Fiel, Segue
  <2>2. QED
    BY <1>6, <2>1
<1>9. QED
  BY <1>1, <1>5, <1>7, <1>8 DEF RelogioInv

-----------------------------------------------------------------------------
\* Every operation keeps the invariant.
LEMMA GuardaAdd ==
    ASSUME IInv, NEW a \in 0..MaxTempo, NEW b \in 0..MaxTempo, a < b, Add(a, b)
    PROVE  IInv'
<1>1. /\ a \in Int /\ b \in Int /\ recebidos \in Nat /\ recebidos' = recebidos + 1
      /\ emOrdem' = (emOrdem /\ a >= ultimo_fim) /\ ultimo_fim' = b
      /\ recebidos' \in Nat /\ recebidos < recebidos' /\ emOrdem' \in BOOLEAN
  BY DEF Add, IInv, Tipos
<1>2. CASE session /\ ~paused /\ Guardar(recebidos', a, b)
  <2>1. PICK n \in Nat : n = recebidos'
    BY <1>1
  <2>2. recebidos < n /\ Guardar(n, a, b)
    BY <1>1, <1>2, <2>1
  <2>3. /\ bloco' \in Aberto /\ blocks' \in Seq(Fechado) /\ BlocoInv'
        /\ Todos(Anteriores)' \cup Turnos(bloco'.pcm)
              = (Todos(Anteriores) \cup Turnos(bloco.pcm)) \cup {n}
    BY <1>1, <2>2, GuardaBlocos
  <2>4. aceitos' \in Seq(Fala) /\ RelogioInv'
    BY <1>1, <2>2, GuardaRelogio
  <2>5. /\ NaSessao(a, b) \in Trecho /\ Deslocamento(a) \in Int
        /\ raw_offset' = Deslocamento(a) /\ recalibrar' = FALSE /\ retomou' = FALSE
        /\ last_session_end' = NaSessao(a, b).fim
        /\ aceitos' = Append(aceitos, Registro(n, a, b))
        /\ UNCHANGED <<session, paused, devolvidos>>
    BY <1>1, <2>2, PassoGuardar
  <2>6. Tipos'
    <3>1. raw_offset' \in Int /\ last_session_end' \in Int
      BY <2>5 DEF Trecho
    <3>2. QED
      BY <1>1, <2>3, <2>4, <2>5, <3>1 DEF IInv, Tipos
  <2>7. TurnosInv'
    <3>1. {aceitos'[k].turno : k \in 1..Len(aceitos')}
             = {aceitos[k].turno : k \in 1..Len(aceitos)} \cup {n}
      <4> DEFINE m == Len(aceitos)
      <4>1. /\ aceitos \in Seq(Fala) /\ m \in Nat /\ Registro(n, a, b).turno = n
        BY DEF IInv, Tipos, Registro
      <4>2. /\ Len(aceitos') = m + 1 /\ aceitos'[m + 1].turno = n
            /\ \A k \in 1..m : aceitos'[k] = aceitos[k]
        BY <2>5, <4>1
      <4>3. \A k \in 1..(m + 1) : k \in 1..m \/ k = m + 1
        BY <4>1
      <4>4. (1..m) \subseteq 1..(m + 1) /\ m + 1 \in 1..(m + 1)
        BY <4>1
      <4> HIDE DEF m
      <4>5. {aceitos'[k].turno : k \in 1..(m + 1)} = {aceitos[k].turno : k \in 1..m} \cup {n}
        BY <4>2, <4>3, <4>4
      <4>6. QED
        BY <4>2, <4>5 DEF m
    <3>2. Todos(Anteriores) \cup Turnos(bloco.pcm) = {aceitos[k].turno : k \in 1..Len(aceitos)}
      BY DEF IInv, TurnosInv
    <3>3. ASSUME NEW x \in Todos(Anteriores)' \cup Turnos(bloco'.pcm)
          PROVE  x <= n
      <4>1. x = n \/ (x \in Todos(Anteriores) \cup Turnos(bloco.pcm) /\ x <= recebidos)
        BY <2>3 DEF IInv, TurnosInv
      <4>2. x \in Int
        <5>1. x = n \/ x \in {aceitos[k].turno : k \in 1..Len(aceitos)}
          BY <3>2, <4>1
        <5>2. \A k \in 1..Len(aceitos) : aceitos[k] \in Fala
          BY DEF IInv, Tipos
        <5>3. QED
          BY <5>1, <5>2 DEF Fala
      <4>3. QED
        BY <1>1, <2>2, <4>1, <4>2
    <3>4. QED
      BY <2>1, <2>3, <3>1, <3>2, <3>3 DEF TurnosInv
  <2>8. QED
    BY <2>3, <2>4, <2>6, <2>7 DEF IInv
<1>3. CASE UNCHANGED <<session, paused, linha, bloco, blocks, aceitos, devolvidos, retomou>>
  <2>1. /\ UNCHANGED <<session, paused, recalibrar, raw_offset, last_session_end, bloco,
                      blocks, aceitos, devolvidos, retomou>>
    BY <1>3 DEF linha
  <2>2. Tipos'
    BY <1>1, <2>1 DEF IInv, Tipos
  <2>3. BlocoInv'
    BY <2>1 DEF IInv, BlocoInv, Anteriores
  <2>4. TurnosInv'
    <3>1. ASSUME NEW x \in Todos(Anteriores) \cup Turnos(bloco.pcm)
          PROVE  x <= recebidos'
      <4>1. x <= recebidos /\ x \in {aceitos[k].turno : k \in 1..Len(aceitos)}
        BY DEF IInv, TurnosInv
      <4>2. \A k \in 1..Len(aceitos) : aceitos[k] \in Fala
        BY DEF IInv, Tipos
      <4>3. x \in Int
        BY <4>1, <4>2 DEF Fala
      <4>4. QED
        BY <1>1, <4>1, <4>3
    <3>2. QED
      BY <2>1, <3>1 DEF IInv, TurnosInv, Anteriores
  <2>5. RelogioInv'
    <3>1. emOrdem' => emOrdem /\ ultimo_fim <= ultimo_fim'
      <4>1. emOrdem' => emOrdem /\ a >= ultimo_fim
        BY <1>1 DEF IInv, Tipos
      <4>2. a >= ultimo_fim => ultimo_fim <= ultimo_fim'
        BY <1>1 DEF IInv, Tipos
      <4>3. QED
        BY <4>1, <4>2
    <3>2. RelogioFiel'
      BY <2>1, <3>1 DEF IInv, RelogioInv, RelogioFiel
    <3>3. ASSUME aceitos # <<>>, emOrdem'
          PROVE  aceitos[Len(aceitos)].raw.fim <= ultimo_fim'
      <4>1. aceitos[Len(aceitos)] \in Fala
        BY <3>3 DEF IInv, Tipos
      <4>2. aceitos[Len(aceitos)].raw.fim \in Int /\ ultimo_fim \in Int /\ ultimo_fim' \in Int
        BY <1>1, <4>1 DEF Fala, Trecho, IInv, Tipos
      <4>3. aceitos[Len(aceitos)].raw.fim <= ultimo_fim
        BY <3>1, <3>3 DEF IInv, RelogioInv
      <4>4. QED
        BY <3>1, <3>3, <4>2, <4>3
    <3>4. QED
      BY <2>1, <3>1, <3>2, <3>3 DEF IInv, RelogioInv
  <2>6. QED
    BY <2>2, <2>3, <2>4, <2>5 DEF IInv
<1>4. QED
  BY <1>2, <1>3 DEF Add

LEMMA GuardaPausa == ASSUME IInv, Pause \/ Resume PROVE IInv'
<1>1. /\ UNCHANGED <<session, raw_offset, last_session_end, bloco, blocks, aceitos,
                     devolvidos, recebidos, emOrdem, ultimo_fim>>
      /\ \/ recalibrar' = recalibrar /\ retomou' = retomou
         \/ recalibrar' = TRUE /\ retomou' = TRUE
      /\ paused' \in BOOLEAN
  BY DEF Pause, Resume, Recalibrar, linha, chegada
<1>2. Tipos'
  BY <1>1 DEF IInv, Tipos
<1>3. BlocoInv' /\ TurnosInv'
  BY <1>1 DEF IInv, BlocoInv, TurnosInv, Anteriores
<1>4. RelogioInv'
  BY <1>1 DEF IInv, RelogioInv, RelogioFiel
<1>5. QED
  BY <1>2, <1>3, <1>4 DEF IInv

\* An empty block, and no block at all.
LEMMA Vazio ==
    /\ BlocoVazio \in Aberto /\ BlocoVazio.pcm = <<>> /\ Turnos(BlocoVazio.pcm) = {}
    /\ Todos(<<>>) = {} /\ Fila(<<>>) /\ \A t \in Int : Antes(<<>>, t)
BY DEF BlocoVazio, Aberto, Turnos, Todos, Fila, Antes

LEMMA Recomeco ==
    ASSUME session' \in BOOLEAN, paused' = FALSE, recalibrar' = TRUE, raw_offset' = 0,
           last_session_end' = 0, bloco' = BlocoVazio, blocks' = <<>>, aceitos' = <<>>,
           devolvidos' = <<>>, retomou' = TRUE,
           recebidos' \in Nat, emOrdem' \in BOOLEAN, ultimo_fim' \in Int
    PROVE  IInv'
<1>1. Anteriores' = <<>>
  <2>1. devolvidos' \in Seq(Fechado) /\ blocks' = <<>> /\ devolvidos' = <<>>
    OBVIOUS
  <2>2. devolvidos' \o <<>> = devolvidos'
    BY <2>1, ConcatEmptySeq
  <2>3. QED
    BY <2>1, <2>2 DEF Anteriores
<1>2. Tipos'
  <2>1. blocks' \in Seq(Fechado) /\ devolvidos' \in Seq(Fechado) /\ aceitos' \in Seq(Fala)
    OBVIOUS
  <2>2. raw_offset' \in Int /\ last_session_end' \in Int /\ bloco' \in Aberto
    BY Vazio
  <2>3. paused' \in BOOLEAN /\ recalibrar' \in BOOLEAN /\ retomou' \in BOOLEAN
    OBVIOUS
  <2>4. QED
    BY <2>1, <2>2, <2>3 DEF Tipos
<1>3. BlocoInv'
  BY <1>1, Vazio DEF BlocoInv
<1>4. TurnosInv'
  BY <1>1, Vazio DEF TurnosInv
<1>5. RelogioInv'
  BY DEF RelogioInv, RelogioFiel
<1>6. QED
  BY <1>2, <1>3, <1>4, <1>5 DEF IInv

LEMMA GuardaStart == ASSUME IInv, Start PROVE IInv'
BY Recomeco DEF Start, chegada, IInv, Tipos

LEMMA GuardaStop == ASSUME IInv, Stop PROVE IInv'
<1>1. /\ devolvidos' = devolvidos \o FecharBloco(bloco, blocks) /\ blocks' = <<>>
      /\ bloco' = BlocoVazio
      /\ UNCHANGED <<session, paused, recalibrar, raw_offset, last_session_end, aceitos,
                     retomou, recebidos, emOrdem, ultimo_fim>>
  BY DEF Stop, ComOAberto, linha, chegada
<1>2. /\ bloco \in Aberto /\ Anteriores \in Seq(Fechado) /\ Fila(Anteriores)
      /\ Antes(Anteriores, last_session_end) /\ last_session_end \in Int
      /\ bloco.pcm = <<>> \/ Cabe(bloco, Anteriores)
      /\ bloco.pcm # <<>> => bloco.fim <= last_session_end
  BY Vazio DEF IInv, Tipos, BlocoInv, Anteriores
<1>3. devolvidos' = FecharBloco(bloco, Anteriores)
  BY <1>1, <1>2, Juncao DEF IInv
<1>4. /\ devolvidos' \in Seq(Fechado) /\ Fila(devolvidos')
      /\ Todos(devolvidos') = Todos(Anteriores) \cup Turnos(bloco.pcm)
      /\ Antes(devolvidos', last_session_end)
  BY <1>2, <1>3, Fechando
<1>5. Anteriores' = devolvidos'
  BY <1>1, <1>4 DEF Anteriores
<1>6. Tipos'
  BY <1>1, <1>4, Vazio DEF IInv, Tipos
<1>7. BlocoInv'
  BY <1>1, <1>4, <1>5 DEF BlocoInv
<1>8. TurnosInv'
  BY <1>1, <1>4, <1>5, Vazio DEF IInv, TurnosInv
<1>9. RelogioInv'
  BY <1>1 DEF IInv, RelogioInv, RelogioFiel
<1>10. QED
  BY <1>6, <1>7, <1>8, <1>9 DEF IInv

LEMMA Inicio == Init => IInv
<1> SUFFICES ASSUME Init PROVE IInv
  OBVIOUS
<1>1. Anteriores = <<>>
  <2>1. devolvidos \in Seq(Fechado) /\ blocks = <<>> /\ devolvidos = <<>>
    BY DEF Init
  <2>2. devolvidos \o <<>> = devolvidos
    BY <2>1, ConcatEmptySeq
  <2>3. QED
    BY <2>1, <2>2 DEF Anteriores
<1>2. Tipos
  <2>1. blocks \in Seq(Fechado) /\ devolvidos \in Seq(Fechado) /\ aceitos \in Seq(Fala)
    BY DEF Init
  <2>2. /\ raw_offset \in Int /\ last_session_end \in Int /\ bloco \in Aberto
        /\ ultimo_fim \in Int /\ recebidos \in Nat
    BY Vazio DEF Init
  <2>3. /\ session \in BOOLEAN /\ paused \in BOOLEAN /\ recalibrar \in BOOLEAN
        /\ retomou \in BOOLEAN /\ emOrdem \in BOOLEAN
    BY DEF Init
  <2>4. QED
    BY <2>1, <2>2, <2>3 DEF Tipos
<1>3. BlocoInv /\ TurnosInv
  BY <1>1, Vazio DEF Init, BlocoInv, TurnosInv
<1>4. RelogioInv
  BY DEF Init, RelogioInv, RelogioFiel
<1>5. QED
  BY <1>2, <1>3, <1>4 DEF IInv

LEMMA Passo == IInv /\ [Next]_vars => IInv'
<1> SUFFICES ASSUME IInv, [Next]_vars PROVE IInv'
  OBVIOUS
<1>1. CASE Start
  BY <1>1, GuardaStart
<1>2. CASE Pause \/ Resume
  BY <1>2, GuardaPausa
<1>3. CASE Stop
  BY <1>3, GuardaStop
<1>4. CASE \E a, b \in 0..MaxTempo : a < b /\ Add(a, b)
  BY <1>4, GuardaAdd
<1>5. CASE UNCHANGED vars
  BY <1>5 DEF vars, linha, chegada, IInv, Tipos, BlocoInv, TurnosInv, RelogioInv, RelogioFiel,
              Anteriores
<1>6. QED
  BY <1>1, <1>2, <1>3, <1>4, <1>5 DEF Next

\* The inductive invariant holds of every reachable state.
THEOREM Invariante == Spec => []IInv
BY Inicio, Passo, PTL DEF Spec

\* All the blocks of the session, the one in progress last.
LEMMA OsBlocos ==
    ASSUME IInv
    PROVE  /\ Fila(TodosOsBlocos) /\ TodosOsBlocos \in Seq(Fechado)
           /\ Todos(TodosOsBlocos) = {aceitos[k].turno : k \in 1..Len(aceitos)}
<1>1. /\ bloco \in Aberto /\ Anteriores \in Seq(Fechado) /\ Fila(Anteriores)
      /\ bloco.pcm = <<>> \/ Cabe(bloco, Anteriores)
  BY Vazio DEF IInv, Tipos, BlocoInv, Anteriores
<1>2. TodosOsBlocos = FecharBloco(bloco, Anteriores)
  BY <1>1, Juncao DEF IInv, TodosOsBlocos
<1>3. QED
  BY <1>1, <1>2, Fechando DEF IInv, TurnosInv

\* No turn is split, lost, repeated or moved on its way into the blocks.
THEOREM WholeTurns == Spec => []TudoNosBlocos
<1>1. IInv => TudoNosBlocos
  <2> SUFFICES ASSUME IInv PROVE TudoNosBlocos
    OBVIOUS
  <2>1. /\ Fila(TodosOsBlocos)
        /\ Todos(TodosOsBlocos) = {aceitos[k].turno : k \in 1..Len(aceitos)}
    BY OsBlocos
  <2>2. QED
    BY <2>1 DEF TudoNosBlocos, Fila, Todos, Turnos, Crescente
<1>2. QED
  BY <1>1, Invariante, PTL

\* Whatever times the turns come with, blocks follow each other without overlap, and
\* those of one hand-over never begin together.
THEOREM OneTimeline == Spec => []LinhaDoTempo
<1>1. IInv => LinhaDoTempo
  <2> SUFFICES ASSUME IInv PROVE LinhaDoTempo
    OBVIOUS
  <2>1. Fila(TodosOsBlocos)
    BY OsBlocos
  <2>2. ASSUME NEW i \in 1..Len(blocks), NEW j \in 1..Len(blocks), i < j
        PROVE  blocks[i].started_at < blocks[j].started_at
    <3> DEFINE d == Len(devolvidos)
    <3>1. devolvidos \in Seq(Fechado) /\ blocks \in Seq(Fechado) /\ d \in Nat
      BY DEF IInv, Tipos
    <3>2. /\ d + i \in 1..Len(Anteriores) /\ Anteriores[d + i] = blocks[i]
          /\ d + j \in 1..Len(Anteriores) /\ Anteriores[d + j] = blocks[j]
          /\ d + i < d + j
      BY <2>2, <3>1 DEF Anteriores
    <3>3. blocks[i].ended_at <= blocks[j].started_at
      BY <3>2 DEF IInv, BlocoInv, Fila
    <3>4. blocks[i].started_at < blocks[i].ended_at
      BY DEF IInv, BlocoInv
    <3>5. /\ blocks[i].started_at \in Int /\ blocks[i].ended_at \in Int
          /\ blocks[j].started_at \in Int
      <4>1. blocks[i] \in Fechado /\ blocks[j] \in Fechado
        BY <3>1
      <4>2. QED
        BY <4>1 DEF Fechado
    <3>6. QED
      BY <3>3, <3>4, <3>5
  <2>3. QED
    BY <2>1, <2>2 DEF LinhaDoTempo, Fila
<1>2. QED
  BY <1>1, Invariante, PTL

\* As long as the turns come in order, the time of the session is that of the
\* capture without the pauses.
THEOREM FaithfulClock == Spec => []RelogioFiel
<1>1. IInv => RelogioFiel
  BY DEF IInv, RelogioInv
<1>2. QED
  BY <1>1, Invariante, PTL
=============================================================================
