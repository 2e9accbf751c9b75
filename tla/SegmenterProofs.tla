--------------------------- MODULE SegmenterProofs ---------------------------
(***************************************************************************)
(* Proofs about capture/segmenter.py, for every size of window, of pre-    *)
(* roll, of blocks and of silence.                                         *)
(***************************************************************************)
EXTENDS Segmenter, FiniteSetTheorems, TLAPS

Causas == {"silencio", "corte", "flush"}

Turno == [janelas : Seq(Nat), causa : Causas, speech_ms : Nat, emitido : BOOLEAN,
          started_at : Int, ended_at : Int]

TiposDoSegmenter ==
    /\ state \in {"silence", "speech", "hangover"}
    /\ {residuo, alimentados, a_processar} \subseteq Nat
    /\ pre_roll \in Seq(Nat)
    /\ buffer_fala \in Seq(Nat)
    /\ {silencio_ms, fala_ms, decorrido_ms} \subseteq Nat
    /\ inicio_turno \in Int
    /\ voz \in Seq(BOOLEAN)
    /\ fechados \in Seq(Turno)

\* The audio that is in no turn yet: what is held of it begins after window
\* Frente.
Guardadas == IF state = "silence" THEN pre_roll ELSE buffer_fala
Frente == Len(voz) - Len(Guardadas)

\* The windows held are the last ones heard, and a turn in progress began with
\* the first one it holds.
JanelasEmDia ==
    /\ AteAgora(pre_roll) /\ AteAgora(buffer_fala)
    /\ Len(pre_roll) <= Len(voz) /\ Len(buffer_fala) <= Len(voz)
    /\ decorrido_ms = Len(voz) * WindowMs
    /\ IF state = "silence" THEN buffer_fala = <<>>
                            ELSE buffer_fala # <<>> /\ pre_roll = <<>>
    /\ state # "silence" => inicio_turno = (Len(voz) - Len(buffer_fala)) * WindowMs

BytesContados ==
    alimentados = (Len(voz) + a_processar) * WindowBytes + residuo

BaseInv == TiposDoSegmenter /\ JanelasEmDia /\ BytesContados

-----------------------------------------------------------------------------
(* Milliseconds.                                                           *)

LEMMA Ms ==
    ASSUME NEW a \in Int, NEW b \in Int
    PROVE  /\ a * WindowMs \in Int
           /\ (a + b) * WindowMs = a * WindowMs + b * WindowMs
           /\ (a - b) * WindowMs = a * WindowMs - b * WindowMs
           /\ 1 * WindowMs = WindowMs
           /\ 0 * WindowMs = 0
           /\ WindowMs \in Nat /\ WindowMs > 0
BY SegmenterAssumption

LEMMA MsCresce ==
    ASSUME NEW a \in Int, NEW b \in Int, a <= b
    PROVE  a * WindowMs <= b * WindowMs
<1>1. PICK d \in Nat : b = a + d
  <2>1. b - a \in Nat /\ b = a + (b - a)
    OBVIOUS
  <2>2. QED
    BY <2>1
<1>2. d * WindowMs \in Nat
  BY SegmenterAssumption
<1>3. QED
  <2>1. b * WindowMs = a * WindowMs + d * WindowMs
    BY <1>1, Ms
  <2>2. a * WindowMs \in Int
    BY Ms
  <2>3. QED
    BY <1>2, <2>1, <2>2

LEMMA MsCresceMuito ==
    ASSUME NEW a \in Int, NEW b \in Int, a < b
    PROVE  a * WindowMs < b * WindowMs
<1>1. (a + 1) * WindowMs <= b * WindowMs
  BY MsCresce
<1>2. (a + 1) * WindowMs = a * WindowMs + WindowMs
  BY Ms
<1>3. /\ a * WindowMs \in Int /\ b * WindowMs \in Int /\ (a + 1) * WindowMs \in Int
      /\ WindowMs \in Nat /\ WindowMs > 0
  BY Ms
<1>4. QED
  BY <1>1, <1>2, <1>3

\* s holds the last windows up to window n.
Seguidas(s, n) ==
    /\ s \in Seq(Nat) /\ Len(s) <= n
    /\ \A i \in 1..Len(s) : s[i] = n - Len(s) + i

\* Window n + 1 joins s, which ends with window n; the oldest one may have to go.
LEMMA MaisUma ==
    ASSUME NEW s, NEW n \in Nat, NEW r, Seguidas(s, n),
           r = Append(s, n + 1) \/ (Len(s) > 0 /\ r = Tail(Append(s, n + 1)))
    PROVE  /\ r \in Seq(Nat)
           /\ Len(r) \in 1..(n + 1)
           /\ Len(r) <= Len(s) + 1
           /\ \A i \in 1..Len(r) : r[i] = (n + 1) - Len(r) + i
           /\ r # <<>>
<1>0. /\ s \in Seq(Nat) /\ Len(s) <= n
      /\ \A i \in 1..Len(s) : s[i] = n - Len(s) + i
  BY DEF Seguidas
<1> DEFINE q == Append(s, n + 1)
<1>1. /\ q \in Seq(Nat)
      /\ Len(q) = Len(s) + 1
      /\ \A i \in 1..Len(q) : q[i] = (n + 1) - Len(q) + i
  BY <1>0
<1>2. CASE r = q
  BY <1>0, <1>1, <1>2
<1>3. CASE Len(s) > 0 /\ r = Tail(q)
  <2>1. /\ r \in Seq(Nat)
        /\ Len(r) = Len(q) - 1
        /\ \A i \in 1..Len(r) : r[i] = q[i + 1]
    BY <1>1, <1>3
  <2>2. Len(r) = Len(s) /\ Len(s) \in 1..n
    BY <1>0, <1>1, <1>3, <2>1
  <2>3. ASSUME NEW i \in 1..Len(r)
        PROVE  r[i] = (n + 1) - Len(r) + i
    <3>1. i + 1 \in 1..Len(q)
      BY <1>1, <2>2
    <3>2. q[i + 1] = (n + 1) - Len(q) + (i + 1)
      BY <1>1, <3>1
    <3>3. QED
      BY <1>1, <2>1, <2>2, <3>2
  <2>4. QED
    BY <2>1, <2>2, <2>3
<1>4. QED
  BY <1>2, <1>3

LEMMA NPreRollPositivo == NPreRoll >= 1 /\ NPreRoll \in Int
BY SegmenterAssumption DEF NPreRoll

LEMMA PreRollMaisUma ==
    ASSUME pre_roll \in Seq(Nat), NEW j \in Nat
    PROVE  \/ ComPreRoll(j) = Append(pre_roll, j)
           \/ Len(pre_roll) > 0 /\ ComPreRoll(j) = Tail(Append(pre_roll, j))
BY NPreRollPositivo DEF ComPreRoll

\* The four ways a window can go.
Calada(e) ==
    /\ state = "silence" /\ ~e
    /\ pre_roll' = ComPreRoll(Len(voz) + 1)
    /\ UNCHANGED <<state, buffer_fala, silencio_ms, fala_ms, inicio_turno, fechados>>
Abre(e) ==
    /\ state = "silence" /\ e
    /\ state' = "speech"
    /\ buffer_fala' = ComPreRoll(Len(voz) + 1)
    /\ pre_roll' = <<>>
    /\ inicio_turno' = Inicio(Len(buffer_fala'))
    /\ fala_ms' = WindowMs
    /\ silencio_ms' = 0
    /\ UNCHANGED fechados
Fecha(e) ==
    /\ state # "silence"
    /\ \E causa \in {"silencio", "corte"} :
         /\ causa = "silencio" => FimPorSilencio(e)
         /\ FecharTurno(Append(buffer_fala, Len(voz) + 1), FalaDepois(e), causa)
Continua(e) ==
    /\ state # "silence"
    /\ state' \in {"speech", "hangover"}
    /\ buffer_fala' = Append(buffer_fala, Len(voz) + 1)
    /\ fala_ms' = FalaDepois(e)
    /\ silencio_ms' = SilencioDepois(e)
    /\ UNCHANGED <<pre_roll, inicio_turno, fechados>>

LEMMA UmaJanela ==
    ASSUME TiposDoSegmenter, NEW e \in BOOLEAN, ProcessarJanela(e)
    PROVE  /\ voz' = Append(voz, e)
           /\ Len(voz') = Len(voz) + 1
           /\ decorrido_ms' = decorrido_ms + WindowMs
           /\ a_processar > 0 /\ a_processar' = a_processar - 1
           /\ UNCHANGED <<alimentados, residuo>>
           /\ Calada(e) \/ Abre(e) \/ Fecha(e) \/ Continua(e)
<1>1. voz' = Append(voz, e) /\ Len(voz') = Len(voz) + 1
  BY DEF ProcessarJanela, TiposDoSegmenter
<1>2. EmSilencio(Len(voz'), e) => Calada(e) \/ Abre(e)
  BY <1>1 DEF EmSilencio, AbrirTurno, Calada, Abre, PreRollLimpo
<1>3. EmTurno(Len(voz'), e) => Fecha(e) \/ Continua(e)
  BY <1>1 DEF EmTurno, Fecha, Continua
<1>4. QED
  BY <1>1, <1>2, <1>3 DEF ProcessarJanela

\* What closing a turn leaves.
LEMMA FechaDeixa ==
    ASSUME TiposDoSegmenter, NEW q \in Seq(Nat), NEW fala \in Nat, NEW causa \in Causas,
           FecharTurno(q, fala, causa)
    PROVE  /\ state' = "silence"
           /\ buffer_fala' = <<>> /\ silencio_ms' = 0 /\ fala_ms' = 0
           /\ UNCHANGED <<pre_roll, inicio_turno>>
           /\ fechados' \in Seq(Turno)
           /\ Len(fechados') = Len(fechados) + 1
           /\ \A i \in 1..Len(fechados) : fechados'[i] = fechados[i]
           /\ fechados'[Len(fechados) + 1].janelas = q
           /\ fechados'[Len(fechados) + 1].causa = causa
           /\ fechados'[Len(fechados) + 1].started_at = inicio_turno
           /\ fechados'[Len(fechados) + 1].ended_at
                = inicio_turno + (Len(q) * WindowMs - Corte(Len(q) * WindowMs))
<1> DEFINE t == [janelas |-> q, causa |-> causa, speech_ms |-> fala,
                 emitido |-> fala >= MinSpeechMs,
                 started_at |-> inicio_turno,
                 ended_at |-> inicio_turno + (Len(q) * WindowMs - Corte(Len(q) * WindowMs))]
<1>1. Corte(Len(q) * WindowMs) \in Int
  BY SegmenterAssumption DEF Corte, Excedente
<1>2. Len(q) * WindowMs \in Int
  BY Ms
<1>3. t \in Turno
  <2>1. Len(q) * WindowMs - Corte(Len(q) * WindowMs) \in Int
    BY <1>1, <1>2
  <2>2. inicio_turno \in Int /\ MinSpeechMs \in Nat
    BY SegmenterAssumption DEF TiposDoSegmenter
  <2>3. QED
    BY <2>1, <2>2 DEF Turno
<1>4. fechados' = Append(fechados, t)
  BY DEF FecharTurno
<1>5. fechados' \in Seq(Turno) /\ Len(fechados') = Len(fechados) + 1
      /\ (\A i \in 1..Len(fechados) : fechados'[i] = fechados[i])
      /\ fechados'[Len(fechados) + 1] = t
  BY <1>3, <1>4 DEF TiposDoSegmenter
<1>6. QED
  BY <1>5 DEF FecharTurno

-----------------------------------------------------------------------------
(* Windows and bytes.                                                      *)

LEMMA BaseInit == Init => BaseInv
<1> SUFFICES ASSUME Init
             PROVE  BaseInv
  OBVIOUS
<1>1. TiposDoSegmenter
  BY DEF Init, TiposDoSegmenter
<1>2. 0 * WindowMs = 0
  BY Ms
<1>3. JanelasEmDia
  BY <1>2 DEF Init, JanelasEmDia, AteAgora
<1>4. 0 * WindowBytes = 0
  BY SegmenterAssumption
<1>5. BytesContados
  BY <1>4 DEF Init, BytesContados
<1>6. QED
  BY <1>1, <1>3, <1>5 DEF BaseInv

\* The block and the residue are windows and a new residue.
LEMMA Divide ==
    ASSUME NEW n \in Nat
    PROVE  /\ n \div WindowBytes \in Nat /\ n % WindowBytes \in Nat
           /\ n = ((n \div WindowBytes) * WindowBytes) + (n % WindowBytes)
BY SegmenterAssumption

LEMMA Distribui ==
    ASSUME NEW n \in Int, NEW k \in Int, NEW w \in Int
    PROVE  (n + k) * w = (n * w) + (k * w) /\ n * w \in Int /\ k * w \in Int
OBVIOUS

LEMMA FeedPreserva ==
    ASSUME BaseInv, NEW b \in Blocos, Feed(b)
    PROVE  BaseInv'
<1>1. residuo + b \in Nat /\ residuo \in Nat /\ b \in Nat /\ alimentados \in Nat
  BY SegmenterAssumption DEF BaseInv, TiposDoSegmenter
<1>2. PICK k \in Nat, s \in Nat : /\ a_processar' = k /\ residuo' = s
                                  /\ residuo + b = (k * WindowBytes) + s
  BY <1>1, Divide DEF Feed, Sobra
<1>3. TiposDoSegmenter'
  BY <1>1, <1>2 DEF BaseInv, TiposDoSegmenter, Feed, turno
<1>4. JanelasEmDia'
  BY DEF BaseInv, JanelasEmDia, AteAgora, Feed, turno
<1>5. BytesContados'
  <2>1. alimentados = (Len(voz) * WindowBytes) + residuo
    BY SegmenterAssumption DEF BaseInv, BytesContados, Feed, TiposDoSegmenter
  <2>2. Len(voz) \in Int /\ WindowBytes \in Int
    BY SegmenterAssumption DEF BaseInv, TiposDoSegmenter
  <2>3. /\ (Len(voz) + k) * WindowBytes = (Len(voz) * WindowBytes) + (k * WindowBytes)
        /\ Len(voz) * WindowBytes \in Int /\ k * WindowBytes \in Int
    BY <2>2, Distribui
  <2>4. ASSUME NEW m \in Int, NEW q \in Int,
               alimentados = m + residuo, residuo + b = q + s
        PROVE  alimentados + b = (m + q) + s
    BY ONLY <1>1, <2>4, s \in Nat
  <2>5. alimentados + b = ((Len(voz) * WindowBytes) + (k * WindowBytes)) + s
    BY ONLY <1>2, <2>1, <2>3, <2>4, Zenon
  <2>6. alimentados' = alimentados + b /\ voz' = voz
    BY DEF Feed
  <2>7. QED
    BY <1>2, <2>3, <2>5, <2>6, Zenon DEF BytesContados
<1>6. QED
  BY <1>3, <1>4, <1>5 DEF BaseInv

\* The held windows after one more, however it goes.
LEMMA PreRollDepois ==
    ASSUME BaseInv, state = "silence"
    PROVE  LET r == ComPreRoll(Len(voz) + 1)
           IN  /\ r \in Seq(Nat)
               /\ Len(r) \in 1..(Len(voz) + 1)
               /\ Len(r) <= Len(pre_roll) + 1
               /\ \A i \in 1..Len(r) : r[i] = (Len(voz) + 1) - Len(r) + i
               /\ r # <<>>
<1>1. pre_roll \in Seq(Nat) /\ Len(voz) \in Nat /\ Seguidas(pre_roll, Len(voz))
  BY DEF Seguidas, BaseInv, TiposDoSegmenter, JanelasEmDia, AteAgora
<1> DEFINE r == ComPreRoll(Len(voz) + 1)
<1>2. \/ r = Append(pre_roll, Len(voz) + 1)
      \/ Len(pre_roll) > 0 /\ r = Tail(Append(pre_roll, Len(voz) + 1))
  <2>1. Len(voz) + 1 \in Nat
    BY <1>1
  <2>2. QED
    BY <1>1, <2>1, PreRollMaisUma
<1> HIDE DEF r
<1>3. /\ r \in Seq(Nat) /\ Len(r) \in 1..(Len(voz) + 1) /\ Len(r) <= Len(pre_roll) + 1
      /\ \A i \in 1..Len(r) : r[i] = (Len(voz) + 1) - Len(r) + i
      /\ r # <<>>
  BY <1>1, <1>2, MaisUma, Zenon
<1>4. QED
  BY <1>3 DEF r

LEMMA BufferDepois ==
    ASSUME BaseInv
    PROVE  LET r == Append(buffer_fala, Len(voz) + 1)
           IN  /\ r \in Seq(Nat)
               /\ Len(r) = Len(buffer_fala) + 1
               /\ Len(r) \in 1..(Len(voz) + 1)
               /\ \A i \in 1..Len(r) : r[i] = (Len(voz) + 1) - Len(r) + i
               /\ r # <<>>
<1>1. buffer_fala \in Seq(Nat) /\ Len(voz) \in Nat /\ Seguidas(buffer_fala, Len(voz))
  BY DEF Seguidas, BaseInv, TiposDoSegmenter, JanelasEmDia, AteAgora
<1> DEFINE r == Append(buffer_fala, Len(voz) + 1)
<1>2. Len(r) = Len(buffer_fala) + 1 /\ r = Append(buffer_fala, Len(voz) + 1)
  BY <1>1
<1> HIDE DEF r
<1>3. /\ r \in Seq(Nat) /\ Len(r) \in 1..(Len(voz) + 1)
      /\ \A i \in 1..Len(r) : r[i] = (Len(voz) + 1) - Len(r) + i
      /\ r # <<>>
  BY <1>1, <1>2, MaisUma, Zenon
<1>4. QED
  BY <1>2, <1>3 DEF r

LEMMA InicioDeTurno ==
    ASSUME BaseInv, NEW n \in Int, n <= Len(voz) + 1,
           decorrido_ms' = decorrido_ms + WindowMs
    PROVE  Inicio(n) = ((Len(voz) + 1) - n) * WindowMs
<1>1. Len(voz) \in Int /\ decorrido_ms = Len(voz) * WindowMs
  BY DEF BaseInv, TiposDoSegmenter, JanelasEmDia
<1>2. /\ ((Len(voz) + 1) - n) * WindowMs = (Len(voz) + 1) * WindowMs - n * WindowMs
      /\ (Len(voz) + 1) * WindowMs = Len(voz) * WindowMs + WindowMs
  BY <1>1, Ms
<1>3. ((Len(voz) + 1) - n) * WindowMs >= 0
  <2>1. 0 * WindowMs <= ((Len(voz) + 1) - n) * WindowMs
    BY <1>1, MsCresce
  <2>2. QED
    BY <2>1, Ms
<1>4. ((Len(voz) + 1) - n) * WindowMs \in Int
  BY <1>1, Ms
<1>5. decorrido_ms' - n * WindowMs = ((Len(voz) + 1) - n) * WindowMs
  BY <1>1, <1>2, Zenon
<1>6. QED
  BY <1>3, <1>4, <1>5 DEF Inicio

\* Type correctness of one window.
LEMMA TiposDaJanela ==
    ASSUME BaseInv, NEW e \in BOOLEAN, ProcessarJanela(e)
    PROVE  TiposDoSegmenter'
<1>1. TiposDoSegmenter
  BY DEF BaseInv
<1>2. /\ voz' = Append(voz, e) /\ decorrido_ms' = decorrido_ms + WindowMs
      /\ a_processar > 0 /\ a_processar' = a_processar - 1
      /\ UNCHANGED <<alimentados, residuo>>
      /\ Calada(e) \/ Abre(e) \/ Fecha(e) \/ Continua(e)
  BY <1>1, UmaJanela
<1>3. WindowMs \in Nat
  BY SegmenterAssumption
<1>4. /\ voz' \in Seq(BOOLEAN) /\ decorrido_ms' \in Nat
      /\ {residuo, alimentados, a_processar}' \subseteq Nat
  BY <1>1, <1>2, <1>3 DEF TiposDoSegmenter
<1>5. FalaDepois(e) \in Nat /\ SilencioDepois(e) \in Nat
  BY <1>1, <1>3 DEF TiposDoSegmenter, FalaDepois, SilencioDepois
<1>6. CASE Calada(e)
  BY <1>1, <1>4, <1>6, PreRollDepois DEF Calada, TiposDoSegmenter
<1>7. CASE Abre(e)
  <2>1. buffer_fala' \in Seq(Nat) /\ Len(buffer_fala') \in Int
    BY <1>7, PreRollDepois DEF Abre
  <2>2. inicio_turno' \in Int
    BY <1>1, <1>2, <1>7, <1>3, <2>1 DEF Abre, Inicio, TiposDoSegmenter
  <2>3. QED
    BY <1>1, <1>3, <1>4, <1>7, <2>1, <2>2 DEF Abre, TiposDoSegmenter
<1>8. CASE Fecha(e)
  <2>1. PICK causa \in {"silencio", "corte"} :
           FecharTurno(Append(buffer_fala, Len(voz) + 1), FalaDepois(e), causa)
    BY <1>8 DEF Fecha
  <2>2. causa \in Causas /\ Append(buffer_fala, Len(voz) + 1) \in Seq(Nat)
    BY BufferDepois, <2>1 DEF Causas
  <2>3. /\ state' = "silence" /\ buffer_fala' = <<>> /\ silencio_ms' = 0 /\ fala_ms' = 0
        /\ UNCHANGED <<pre_roll, inicio_turno>> /\ fechados' \in Seq(Turno)
    BY <1>1, <1>5, <2>1, <2>2, FechaDeixa
  <2>4. QED
    BY <1>1, <1>4, <2>3 DEF TiposDoSegmenter
<1>9. CASE Continua(e)
  BY <1>1, <1>4, <1>5, <1>9, BufferDepois DEF Continua, TiposDoSegmenter
<1>10. QED
  BY <1>2, <1>6, <1>7, <1>8, <1>9

LEMMA JanelaPreserva ==
    ASSUME BaseInv, NEW e \in BOOLEAN, ProcessarJanela(e)
    PROVE  BaseInv'
<1>1. TiposDoSegmenter /\ TiposDoSegmenter'
  BY TiposDaJanela DEF BaseInv
<1>2. /\ Len(voz') = Len(voz) + 1 /\ decorrido_ms' = decorrido_ms + WindowMs
      /\ a_processar > 0 /\ a_processar' = a_processar - 1
      /\ UNCHANGED <<alimentados, residuo>>
      /\ Calada(e) \/ Abre(e) \/ Fecha(e) \/ Continua(e)
  BY <1>1, UmaJanela
<1>3. Len(voz) \in Nat /\ a_processar \in Nat
  BY <1>1 DEF TiposDoSegmenter
<1>4. BytesContados'
  <2>1. Len(voz') + a_processar' = Len(voz) + a_processar
    BY <1>2, <1>3
  <2>2. QED
    BY <1>2, <2>1 DEF BaseInv, BytesContados
<1>5. decorrido_ms' = Len(voz') * WindowMs
  <2>1. (Len(voz) + 1) * WindowMs = Len(voz) * WindowMs + WindowMs
    BY <1>3, Ms
  <2>2. QED
    BY <1>2, <2>1 DEF BaseInv, JanelasEmDia
<1>6. CASE Calada(e)
  <2>1. /\ state' = "silence" /\ buffer_fala' = <<>>
        /\ pre_roll' = ComPreRoll(Len(voz) + 1)
    BY <1>6 DEF Calada, BaseInv, JanelasEmDia
  <2>2. AteAgora(pre_roll)' /\ AteAgora(buffer_fala)'
    BY <1>2, <1>6, <2>1, PreRollDepois DEF AteAgora, Calada
  <2>3. Len(pre_roll') <= Len(voz') /\ Len(buffer_fala') <= Len(voz')
    BY <1>2, <1>3, <1>6, <2>1, PreRollDepois DEF Calada
  <2>4. QED
    BY <1>1, <1>4, <1>5, <2>1, <2>2, <2>3 DEF BaseInv, JanelasEmDia
<1>7. CASE Abre(e)
  <2>1. /\ state' = "speech" /\ pre_roll' = <<>>
        /\ buffer_fala' = ComPreRoll(Len(voz) + 1)
        /\ inicio_turno' = Inicio(Len(buffer_fala')) /\ state = "silence"
    BY <1>7 DEF Abre
  <2>2. AteAgora(pre_roll)' /\ AteAgora(buffer_fala)'
    BY <1>2, <2>1, PreRollDepois DEF AteAgora
  <2>3. /\ Len(pre_roll') <= Len(voz') /\ Len(buffer_fala') <= Len(voz')
        /\ Len(buffer_fala') \in Int /\ buffer_fala' # <<>>
    BY <1>2, <1>3, <2>1, PreRollDepois
  <2>4. inicio_turno' = (Len(voz') - Len(buffer_fala')) * WindowMs
    BY <1>2, <2>1, <2>3, InicioDeTurno
  <2>5. QED
    BY <1>1, <1>4, <1>5, <2>1, <2>2, <2>3, <2>4 DEF BaseInv, JanelasEmDia
<1>8. CASE Fecha(e)
  <2>1. state # "silence" /\ pre_roll = <<>>
    BY <1>8 DEF Fecha, BaseInv, JanelasEmDia
  <2>2. state' = "silence" /\ buffer_fala' = <<>> /\ pre_roll' = pre_roll
    BY <1>8 DEF Fecha, FecharTurno
  <2>3. AteAgora(pre_roll)' /\ AteAgora(buffer_fala)'
    BY <2>1, <2>2 DEF AteAgora
  <2>4. QED
    BY <1>1, <1>2, <1>3, <1>4, <1>5, <2>1, <2>2, <2>3 DEF BaseInv, JanelasEmDia
<1>9. CASE Continua(e)
  <2>1. /\ state' # "silence" /\ state # "silence"
        /\ buffer_fala' = Append(buffer_fala, Len(voz) + 1)
        /\ pre_roll' = <<>> /\ inicio_turno' = inicio_turno
    BY <1>9 DEF Continua, BaseInv, JanelasEmDia
  <2>2. AteAgora(pre_roll)' /\ AteAgora(buffer_fala)'
    BY <1>2, <2>1, BufferDepois DEF AteAgora
  <2>3. /\ Len(pre_roll') <= Len(voz') /\ Len(buffer_fala') <= Len(voz')
        /\ buffer_fala' # <<>> /\ Len(buffer_fala') = Len(buffer_fala) + 1
    BY <1>2, <1>3, <2>1, BufferDepois
  <2>4. Len(voz') - Len(buffer_fala') = Len(voz) - Len(buffer_fala)
    BY <1>1, <1>2, <1>3, <2>3 DEF TiposDoSegmenter
  <2>5. inicio_turno' = (Len(voz') - Len(buffer_fala')) * WindowMs
    BY <2>1, <2>4 DEF BaseInv, JanelasEmDia
  <2>6. QED
    BY <1>1, <1>4, <1>5, <2>1, <2>2, <2>3, <2>5 DEF BaseInv, JanelasEmDia
<1>10. QED
  BY <1>2, <1>6, <1>7, <1>8, <1>9

LEMMA FlushPreserva ==
    ASSUME BaseInv, Flush
    PROVE  BaseInv'
<1>1. CASE UNCHANGED <<turno, fechados>>
  BY <1>1 DEF Flush, BaseInv, TiposDoSegmenter, JanelasEmDia, AteAgora, BytesContados, turno
<1>2. CASE state # "silence" /\ FecharTurno(buffer_fala, fala_ms, "flush")
  <2>1. /\ state' = "silence" /\ buffer_fala' = <<>> /\ silencio_ms' = 0 /\ fala_ms' = 0
        /\ UNCHANGED <<pre_roll, inicio_turno>> /\ fechados' \in Seq(Turno)
    <3>1. "flush" \in Causas /\ TiposDoSegmenter /\ buffer_fala \in Seq(Nat) /\ fala_ms \in Nat
      BY DEF Causas, BaseInv, TiposDoSegmenter
    <3>2. QED
      BY <1>2, <3>1, FechaDeixa
  <2>2. UNCHANGED <<alimentados, residuo, a_processar, decorrido_ms, voz>>
    BY DEF Flush
  <2>3. TiposDoSegmenter'
    BY <2>1, <2>2 DEF BaseInv, TiposDoSegmenter
  <2>4. JanelasEmDia'
    BY <1>2, <2>1, <2>2 DEF BaseInv, TiposDoSegmenter, JanelasEmDia, AteAgora
  <2>5. QED
    BY <2>2, <2>3, <2>4 DEF BaseInv, BytesContados
<1>3. QED
  BY <1>1, <1>2 DEF Flush

-----------------------------------------------------------------------------
(* What was speech.                                                        *)

\* Nothing in the pre-roll is speech; the speech of the turn is counted; the last
\* silencio_ms of it are silence.
Faladas(s, v) == {i \in 1..Len(s) : v[s[i]]}

PreRollCalado == \A w \in 1..Len(voz) : w > Len(voz) - Len(pre_roll) => ~voz[w]
FalaContada == fala_ms = WindowMs * Cardinality(Faladas(buffer_fala, voz))
SilencioContado ==
    /\ state = "silence" => silencio_ms = 0
    /\ \A w \in 1..Len(voz) : w * WindowMs > Len(voz) * WindowMs - silencio_ms => ~voz[w]

FalaInv == PreRollCalado /\ FalaContada /\ SilencioContado

LEMMA FaladasFinito ==
    ASSUME NEW s \in Seq(Nat), NEW v
    PROVE  /\ IsFiniteSet(Faladas(s, v)) /\ Cardinality(Faladas(s, v)) \in Nat
           /\ Faladas(s, v) \subseteq 1..Len(s)
<1>1. IsFiniteSet(1..Len(s))
  BY FS_Interval
<1>2. Faladas(s, v) \subseteq 1..Len(s)
  BY DEF Faladas
<1>3. QED
  BY <1>1, <1>2, FS_Subset, FS_CardinalityType

\* One more window at the end of a turn counts once, if it is speech.
LEMMA MaisFala ==
    ASSUME NEW s \in Seq(Nat), NEW v \in Seq(BOOLEAN), NEW e \in BOOLEAN,
           \A i \in 1..Len(s) : s[i] \in 1..Len(v)
    PROVE  Cardinality(Faladas(Append(s, Len(v) + 1), Append(v, e)))
             = Cardinality(Faladas(s, v)) + (IF e THEN 1 ELSE 0)
<1> DEFINE q == Append(s, Len(v) + 1)
           u == Append(v, e)
           x == Len(s) + 1
<1>1. /\ Len(q) = x /\ q[x] = Len(v) + 1
      /\ \A i \in 1..Len(s) : q[i] = s[i]
      /\ u[Len(v) + 1] = e /\ \A w \in 1..Len(v) : u[w] = v[w]
  OBVIOUS
<1>2. Faladas(q, u) = Faladas(s, v) \cup (IF e THEN {x} ELSE {})
  <2>1. ASSUME NEW i \in 1..Len(s)
        PROVE  u[q[i]] <=> v[s[i]]
    BY <1>1
  <2>2. u[q[x]] = e
    BY <1>1
  <2>3. 1..Len(q) = (1..Len(s)) \cup {x} /\ x \notin 1..Len(s)
    BY <1>1
  <2> HIDE DEF q, u, x
  <2>4. QED
    BY <2>1, <2>2, <2>3 DEF Faladas
<1>3. x \notin Faladas(s, v)
  BY DEF Faladas
<1>4. IsFiniteSet(Faladas(s, v)) /\ Cardinality(Faladas(s, v)) \in Nat
  BY FaladasFinito
<1> HIDE DEF q, u, x
<1>5. CASE e
  <2>1. Faladas(q, u) = Faladas(s, v) \cup {x}
    BY <1>2, <1>5
  <2>2. Cardinality(Faladas(q, u)) = Cardinality(Faladas(s, v)) + 1
    BY <1>3, <1>4, <2>1, FS_AddElement
  <2>3. QED
    BY <1>5, <2>2 DEF q, u
<1>6. CASE ~e
  <2>1. Faladas(q, u) = Faladas(s, v)
    BY <1>2, <1>6
  <2>2. Cardinality(Faladas(q, u)) = Cardinality(Faladas(s, v)) + 0
    BY <1>4, <2>1
  <2>3. QED
    BY <1>6, <2>2 DEF q, u
<1>7. QED
  BY <1>5, <1>6

LEMMA FalaInit == Init => FalaInv
<1> SUFFICES ASSUME Init
             PROVE  FalaInv
  OBVIOUS
<1>1. Faladas(<<>>, <<>>) = {}
  BY DEF Faladas
<1>2. Cardinality({}) = 0
  BY FS_EmptySet
<1>3. WindowMs * 0 = 0
  BY SegmenterAssumption
<1>4. PreRollCalado /\ SilencioContado
  BY DEF Init, PreRollCalado, SilencioContado
<1>5. FalaContada
  BY <1>1, <1>2, <1>3 DEF Init, FalaContada
<1>6. QED
  BY <1>4, <1>5 DEF FalaInv

LEMMA SoSilencioNoFim ==
    ASSUME BaseInv, SilencioContado, NEW e \in BOOLEAN, NEW w \in 1..(Len(voz) + 1),
           w * WindowMs > (Len(voz) + 1) * WindowMs - SilencioDepois(e)
    PROVE  ~Append(voz, e)[w]
<1>1. /\ Len(voz) \in Nat /\ voz \in Seq(BOOLEAN) /\ silencio_ms \in Nat
  BY DEF BaseInv, TiposDoSegmenter
<1>2. /\ (Len(voz) + 1) * WindowMs = Len(voz) * WindowMs + WindowMs
      /\ Len(voz) * WindowMs \in Int /\ WindowMs \in Nat
  BY <1>1, Ms
<1>3. w * WindowMs <= (Len(voz) + 1) * WindowMs /\ w * WindowMs \in Int
      /\ (Len(voz) + 1) * WindowMs \in Int
  BY <1>1, MsCresce, Ms
<1>4. ~e
  BY <1>3 DEF SilencioDepois
<1>5. (Len(voz) + 1) * WindowMs - SilencioDepois(e) = Len(voz) * WindowMs - silencio_ms
  BY <1>1, <1>2, <1>4 DEF SilencioDepois
<1>6. CASE w = Len(voz) + 1
  BY <1>1, <1>4, <1>6
<1>7. CASE w \in 1..Len(voz)
  <2>1. ~voz[w]
    BY <1>5, <1>7 DEF SilencioContado
  <2>2. QED
    BY <1>1, <1>7, <2>1
<1>8. QED
  BY <1>1, <1>6, <1>7

LEMMA FalaJanela ==
    ASSUME BaseInv, FalaInv, NEW e \in BOOLEAN, ProcessarJanela(e)
    PROVE  FalaInv'
<1>1. /\ voz' = Append(voz, e) /\ Len(voz') = Len(voz) + 1
      /\ Calada(e) \/ Abre(e) \/ Fecha(e) \/ Continua(e)
  BY UmaJanela DEF BaseInv
<1>2. /\ Len(voz) \in Nat /\ voz \in Seq(BOOLEAN) /\ fala_ms \in Nat
      /\ pre_roll \in Seq(Nat) /\ buffer_fala \in Seq(Nat)
  BY DEF BaseInv, TiposDoSegmenter
<1>3. /\ \A w \in 1..Len(voz) : voz'[w] = voz[w]
      /\ voz'[Len(voz) + 1] = e
  BY <1>1, <1>2
<1>4. PreRollCalado /\ FalaContada /\ SilencioContado
  BY DEF FalaInv
<1>5. Faladas(<<>>, voz') = {} /\ Cardinality({}) = 0 /\ WindowMs * 0 = 0
  BY FS_EmptySet, SegmenterAssumption DEF Faladas
\* No silence counted, nothing to show of it.
<1>6. ASSUME silencio_ms' = 0
      PROVE  SilencioContado'
  <2>1. ASSUME NEW w \in 1..Len(voz')
        PROVE  ~(w * WindowMs > Len(voz') * WindowMs - 0)
    <3>1. w \in Int /\ Len(voz') \in Int /\ w <= Len(voz')
      BY <1>1, <1>2
    <3>2. /\ w * WindowMs <= Len(voz') * WindowMs
          /\ w * WindowMs \in Int /\ Len(voz') * WindowMs \in Int
      BY <3>1, MsCresce, Ms
    <3>3. QED
      BY <3>2
  <2>2. QED
    BY <1>6, <2>1 DEF SilencioContado
<1>7. CASE Calada(e)
  <2>1. /\ ~e /\ state = "silence" /\ silencio_ms' = 0
        /\ pre_roll' = ComPreRoll(Len(voz) + 1)
        /\ UNCHANGED <<buffer_fala, fala_ms>> /\ buffer_fala = <<>>
    BY <1>4, <1>7 DEF Calada, SilencioContado, BaseInv, JanelasEmDia
  <2>2. Len(pre_roll') \in Nat /\ Len(pre_roll') <= Len(pre_roll) + 1
    BY <2>1, PreRollDepois
  <2>3. PreRollCalado'
    <3>1. ASSUME NEW w \in 1..Len(voz'), w > Len(voz') - Len(pre_roll')
          PROVE  ~voz'[w]
      <4>1. CASE w = Len(voz) + 1
        BY <1>3, <2>1, <4>1
      <4>2. CASE w \in 1..Len(voz)
        <5>1. w > Len(voz) - Len(pre_roll)
          BY <1>1, <1>2, <2>2, <3>1
        <5>2. QED
          BY <1>3, <1>4, <4>2, <5>1 DEF PreRollCalado
      <4>3. QED
        BY <1>1, <1>2, <4>1, <4>2
    <3>2. QED
      BY <3>1 DEF PreRollCalado
  <2>4. FalaContada'
    <3>1. Faladas(<<>>, voz) = {}
      BY DEF Faladas
    <3>2. QED
      BY <1>4, <1>5, <2>1, <3>1 DEF FalaContada
  <2>5. QED
    BY <1>6, <2>1, <2>3, <2>4 DEF FalaInv
<1>8. CASE Abre(e)
  <2>1. /\ e /\ state = "silence" /\ silencio_ms' = 0 /\ fala_ms' = WindowMs
        /\ pre_roll' = <<>> /\ buffer_fala' = ComPreRoll(Len(voz) + 1)
    BY <1>8 DEF Abre
  <2>2. /\ Len(buffer_fala') \in 1..(Len(voz) + 1) /\ Len(buffer_fala') <= Len(pre_roll) + 1
        /\ \A i \in 1..Len(buffer_fala') :
               buffer_fala'[i] = (Len(voz) + 1) - Len(buffer_fala') + i
    BY <2>1, PreRollDepois
  <2>3. PreRollCalado'
    BY <1>1, <1>2, <2>1 DEF PreRollCalado
  <2>4. Faladas(buffer_fala', voz') = {Len(buffer_fala')}
    <3>1. ASSUME NEW i \in 1..Len(buffer_fala'), i # Len(buffer_fala')
          PROVE  ~voz'[buffer_fala'[i]]
      <4>1. /\ buffer_fala'[i] \in 1..Len(voz)
            /\ buffer_fala'[i] > Len(voz) - Len(pre_roll)
        BY <1>2, <2>2, <3>1
      <4>2. QED
        BY <1>3, <1>4, <4>1 DEF PreRollCalado
    <3>2. voz'[buffer_fala'[Len(buffer_fala')]]
      <4>1. buffer_fala'[Len(buffer_fala')] = Len(voz) + 1
        BY <1>2, <2>2
      <4>2. QED
        BY <1>3, <2>1, <4>1
    <3>3. Len(buffer_fala') \in 1..Len(buffer_fala')
      BY <1>2, <2>2
    <3>4. QED
      BY <3>1, <3>2, <3>3 DEF Faladas
  <2>5. Cardinality({Len(buffer_fala')}) = 1 /\ WindowMs * 1 = WindowMs
    <3>1. Cardinality({Len(buffer_fala')}) = 1
      BY FS_Singleton
    <3>2. WindowMs * 1 = WindowMs
      BY SegmenterAssumption
    <3>3. QED
      BY <3>1, <3>2
  <2>6. FalaContada'
    BY <2>1, <2>4, <2>5 DEF FalaContada
  <2>7. QED
    BY <1>6, <2>1, <2>3, <2>6 DEF FalaInv
<1>9. CASE Fecha(e)
  <2>1. /\ silencio_ms' = 0 /\ fala_ms' = 0 /\ buffer_fala' = <<>> /\ pre_roll' = <<>>
    BY <1>9 DEF Fecha, FecharTurno, BaseInv, JanelasEmDia
  <2>2. PreRollCalado'
    BY <1>1, <1>2, <2>1 DEF PreRollCalado
  <2>3. FalaContada'
    BY <1>5, <2>1 DEF FalaContada
  <2>4. QED
    BY <1>6, <2>1, <2>2, <2>3 DEF FalaInv
<1>10. CASE Continua(e)
  <2>1. /\ state' # "silence" /\ pre_roll' = <<>>
        /\ buffer_fala' = Append(buffer_fala, Len(voz) + 1)
        /\ fala_ms' = FalaDepois(e) /\ silencio_ms' = SilencioDepois(e)
    BY <1>10 DEF Continua, BaseInv, JanelasEmDia
  <2>2. PreRollCalado'
    BY <1>1, <1>2, <2>1 DEF PreRollCalado
  <2>3. FalaContada'
    <3>1. \A i \in 1..Len(buffer_fala) : buffer_fala[i] \in 1..Len(voz)
      BY <1>2 DEF BaseInv, JanelasEmDia, AteAgora
    <3>2. Cardinality(Faladas(buffer_fala', voz'))
            = Cardinality(Faladas(buffer_fala, voz)) + (IF e THEN 1 ELSE 0)
      BY <1>1, <1>2, <2>1, <3>1, MaisFala
    <3>3. Cardinality(Faladas(buffer_fala, voz)) \in Nat
      BY <1>2, FaladasFinito
    <3>4. ASSUME NEW c \in Nat
          PROVE  WindowMs * (c + 1) = WindowMs * c + WindowMs /\ WindowMs * (c + 0) = WindowMs * c
      BY SegmenterAssumption
    <3>5. QED
      BY <1>4, <2>1, <3>2, <3>3, <3>4 DEF FalaContada, FalaDepois
  <2>4. SilencioContado'
    <3>1. ASSUME NEW w \in 1..Len(voz'),
                 w * WindowMs > Len(voz') * WindowMs - silencio_ms'
          PROVE  ~voz'[w]
      BY <1>1, <1>4, <2>1, <3>1, SoSilencioNoFim
    <3>2. QED
      BY <2>1, <3>1 DEF SilencioContado
  <2>5. QED
    BY <2>2, <2>3, <2>4 DEF FalaInv
<1>11. QED
  BY <1>1, <1>7, <1>8, <1>9, <1>10

LEMMA FalaFeed ==
    ASSUME BaseInv, FalaInv, NEW b \in Blocos, Feed(b)
    PROVE  FalaInv'
BY DEF FalaInv, PreRollCalado, FalaContada, SilencioContado, Feed, turno

LEMMA FalaFlush ==
    ASSUME BaseInv, FalaInv, Flush
    PROVE  FalaInv'
<1>1. CASE UNCHANGED turno
  BY <1>1 DEF Flush, FalaInv, PreRollCalado, FalaContada, SilencioContado, turno
<1>2. CASE state # "silence" /\ FecharTurno(buffer_fala, fala_ms, "flush")
  <2>1. /\ silencio_ms' = 0 /\ fala_ms' = 0 /\ buffer_fala' = <<>> /\ pre_roll' = <<>>
        /\ voz' = voz /\ voz \in Seq(BOOLEAN) /\ silencio_ms \in Nat
    BY <1>2 DEF Flush, FecharTurno, BaseInv, JanelasEmDia, TiposDoSegmenter
  <2>2. PreRollCalado'
    BY <2>1 DEF PreRollCalado
  <2>3. Faladas(<<>>, voz) = {} /\ Cardinality({}) = 0 /\ WindowMs * 0 = 0
    BY FS_EmptySet, SegmenterAssumption DEF Faladas
  <2>4. FalaContada'
    BY <2>1, <2>3 DEF FalaContada
  <2>5. Len(voz) * WindowMs \in Int /\ \A w \in 1..Len(voz) : w * WindowMs \in Int
    BY <2>1, Ms
  <2>6. SilencioContado'
    BY <2>1, <2>5 DEF FalaInv, SilencioContado
  <2>7. QED
    BY <2>2, <2>4, <2>6 DEF FalaInv
<1>3. QED
  BY <1>1, <1>2 DEF Flush

-----------------------------------------------------------------------------
(* The turns closed.                                                       *)

\* No closed turn reaches into the audio that is still held.
Atras ==
    \A i \in 1..Len(fechados) :
        /\ fechados[i].started_at < fechados[i].ended_at
        /\ fechados[i].ended_at <= Frente * WindowMs
EmOrdem ==
    \A i, j \in 1..Len(fechados) : i < j => fechados[i].ended_at <= fechados[j].started_at
Ouvidas ==
    \A i \in 1..Len(fechados) :
        \A k \in 1..Len(fechados[i].janelas) : fechados[i].janelas[k] \in 1..Len(voz)

TurnosInv == Atras /\ EmOrdem /\ Ouvidas /\ AparaSoSilencio

IInv == BaseInv /\ FalaInv /\ TurnosInv

\* What is trimmed is never the whole turn, nor more than the silence that ends it.
LEMMA CorteCurto ==
    ASSUME NEW pcm \in Int, pcm > 0
    PROVE  Corte(pcm) \in Int /\ Corte(pcm) >= 0 /\ Corte(pcm) < pcm /\ Corte(pcm) <= EndSilenceMs
BY SegmenterAssumption DEF Corte, Excedente

LEMMA Transitiva ==
    ASSUME NEW a \in Int, NEW b \in Int, NEW c \in Int, a <= b, b <= c
    PROVE  a <= c
OBVIOUS

LEMMA TipoDeTurno ==
    ASSUME TiposDoSegmenter, NEW i \in 1..Len(fechados)
    PROVE  fechados[i].started_at \in Int /\ fechados[i].ended_at \in Int
<1>1. fechados[i] \in Turno
  BY DEF TiposDoSegmenter
<1>2. QED
  BY <1>1 DEF Turno

\* The front only moves forward.
LEMMA FrenteAvanca ==
    ASSUME NEW n \in Int, n = Frente, NEW m \in Int, m = Frente', n <= m,
           Atras, TiposDoSegmenter, fechados' = fechados
    PROVE  Atras'
<1>1. n * WindowMs <= m * WindowMs /\ n * WindowMs \in Int /\ m * WindowMs \in Int
  BY MsCresce, Ms
<1>2. ASSUME NEW i \in 1..Len(fechados)
      PROVE  /\ fechados[i].started_at < fechados[i].ended_at
             /\ fechados[i].ended_at <= m * WindowMs
  <2>1. fechados[i].ended_at \in Int
    BY TipoDeTurno
  <2>2. /\ fechados[i].started_at < fechados[i].ended_at
        /\ fechados[i].ended_at <= n * WindowMs
    BY DEF Atras
  <2>3. QED
    BY <1>1, <2>1, <2>2
<1>3. QED
  BY <1>2 DEF Atras

\* A turn closed on buffer q, windows n - Len(q) + 1 to n, and nothing held after.
LEMMA FechaTurno ==
    ASSUME BaseInv, Atras, EmOrdem, Ouvidas, state # "silence",
           NEW q \in Seq(Nat), NEW fala \in Nat, NEW causa \in Causas,
           FecharTurno(q, fala, causa), Len(q) > 0,
           voz' \in Seq(BOOLEAN), Len(voz') - Len(q) = Len(voz) - Len(buffer_fala),
           Len(voz') >= Len(voz),
           \A k \in 1..Len(q) : q[k] \in 1..Len(voz')
    PROVE  /\ Atras' /\ EmOrdem' /\ Ouvidas'
           /\ fechados'[Len(fechados) + 1].ended_at
                = Len(voz') * WindowMs - Corte(Len(q) * WindowMs)
<1>1. TiposDoSegmenter
  BY DEF BaseInv
<1> DEFINE pcm == Len(q) * WindowMs
           t   == fechados'[Len(fechados) + 1]
<1>2. /\ state' = "silence" /\ pre_roll' = pre_roll /\ fechados' \in Seq(Turno)
      /\ Len(fechados') = Len(fechados) + 1
      /\ \A i \in 1..Len(fechados) : fechados'[i] = fechados[i]
      /\ t.janelas = q /\ t.started_at = inicio_turno
      /\ t.ended_at = inicio_turno + (pcm - Corte(pcm))
  BY <1>1, FechaDeixa
<1>3. /\ Len(voz) \in Int /\ Len(voz') \in Int /\ Len(q) \in Int /\ Len(buffer_fala) \in Int
      /\ Len(fechados) \in Nat
  BY <1>1 DEF TiposDoSegmenter
<1>4. Frente = Len(voz) - Len(buffer_fala) /\ Frente \in Int
  BY <1>3 DEF Frente, Guardadas
<1>5. Frente' = Len(voz') /\ Len(voz') = Frente + Len(q)
  BY <1>2, <1>3, <1>4 DEF BaseInv, JanelasEmDia, Frente, Guardadas
<1>6. inicio_turno = Frente * WindowMs
  BY <1>4 DEF BaseInv, JanelasEmDia
<1>7. /\ (Frente + Len(q)) * WindowMs = Frente * WindowMs + pcm
      /\ Frente * WindowMs \in Int /\ pcm \in Int
  BY <1>3, <1>4, Ms
<1>8. pcm > 0
  <2>1. 0 * WindowMs < pcm /\ 0 * WindowMs = 0
    BY <1>3, MsCresceMuito, Ms
  <2>2. QED
    BY <2>1
<1>9. Corte(pcm) \in Int /\ Corte(pcm) >= 0 /\ Corte(pcm) < pcm
  BY <1>7, <1>8, CorteCurto
<1>10. Len(voz') * WindowMs = Frente * WindowMs + pcm
  BY <1>5, <1>7
<1> HIDE DEF pcm, t
<1>11. /\ t.ended_at = Len(voz') * WindowMs - Corte(pcm)
       /\ t.started_at < t.ended_at /\ t.ended_at <= Len(voz') * WindowMs
       /\ t.started_at = Frente * WindowMs
       /\ Frente * WindowMs <= Len(voz') * WindowMs
  <2>1. ASSUME NEW f \in Int, NEW v \in Int, v = f + pcm
        PROVE  /\ f + (pcm - Corte(pcm)) = v - Corte(pcm)
               /\ f < f + (pcm - Corte(pcm)) /\ f + (pcm - Corte(pcm)) <= v /\ f <= v
    BY <1>7, <1>8, <1>9, <2>1
  <2>2. Len(voz') * WindowMs \in Int
    BY <1>3, Ms
  <2>3. /\ (Frente * WindowMs) + (pcm - Corte(pcm)) = (Len(voz') * WindowMs) - Corte(pcm)
        /\ Frente * WindowMs < (Frente * WindowMs) + (pcm - Corte(pcm))
        /\ (Frente * WindowMs) + (pcm - Corte(pcm)) <= Len(voz') * WindowMs
        /\ Frente * WindowMs <= Len(voz') * WindowMs
    BY <1>7, <1>10, <2>1, <2>2, Zenon
  <2>4. t.started_at = Frente * WindowMs
        /\ t.ended_at = (Frente * WindowMs) + (pcm - Corte(pcm))
    BY <1>2, <1>6, Zenon
  <2>5. QED
    BY <2>3, <2>4, Zenon
<1>12. \A i \in 1..Len(fechados) : fechados[i].ended_at \in Int
  BY <1>1, TipoDeTurno
<1>13. ASSUME NEW i \in 1..Len(fechados')
       PROVE  /\ fechados'[i].started_at < fechados'[i].ended_at
              /\ fechados'[i].ended_at <= Len(voz') * WindowMs
  <2>1. CASE i = Len(fechados) + 1
    BY <1>11, <2>1 DEF t
  <2>2. CASE i \in 1..Len(fechados)
    <3>1. /\ fechados[i].started_at < fechados[i].ended_at
          /\ fechados[i].ended_at <= Frente * WindowMs
      BY <2>2 DEF Atras
    <3>2. Len(voz') * WindowMs \in Int
      BY <1>3, Ms
    <3>3. fechados[i].ended_at <= Len(voz') * WindowMs
      BY <1>7, <1>11, <1>12, <2>2, <3>1, <3>2, Transitiva, Zenon
    <3>4. QED
      BY <1>2, <2>2, <3>1, <3>3
  <2>3. QED
    BY <1>2, <1>3, <2>1, <2>2
<1>14. Atras'
  BY <1>5, <1>13 DEF Atras
<1>15. EmOrdem'
  <2>1. ASSUME NEW i \in 1..Len(fechados'), NEW j \in 1..Len(fechados'), i < j
        PROVE  fechados'[i].ended_at <= fechados'[j].started_at
    <3>1. i \in 1..Len(fechados) /\ fechados'[i] = fechados[i]
      BY <1>2, <1>3, <2>1
    <3>2. CASE j = Len(fechados) + 1
      <4>1. fechados[i].ended_at <= Frente * WindowMs
        BY <3>1 DEF Atras
      <4>2. QED
        BY <1>11, <3>1, <3>2, <4>1 DEF t
    <3>3. CASE j \in 1..Len(fechados)
      BY <1>2, <2>1, <3>1, <3>3 DEF EmOrdem
    <3>4. QED
      BY <1>2, <1>3, <3>2, <3>3
  <2>2. QED
    BY <2>1 DEF EmOrdem
<1>16. Ouvidas'
  <2>1. ASSUME NEW i \in 1..Len(fechados'), NEW k \in 1..Len(fechados'[i].janelas)
        PROVE  fechados'[i].janelas[k] \in 1..Len(voz')
    <3>1. CASE i = Len(fechados) + 1
      BY <1>2, <2>1, <3>1 DEF t
    <3>2. CASE i \in 1..Len(fechados)
      <4>1. fechados[i].janelas[k] \in 1..Len(voz)
        BY <1>2, <2>1, <3>2 DEF Ouvidas
      <4>2. QED
        BY <1>2, <1>3, <3>2, <4>1
    <3>3. QED
      BY <1>2, <1>3, <3>1, <3>2
  <2>2. QED
    BY <2>1 DEF Ouvidas
<1>17. QED
  BY <1>11, <1>14, <1>15, <1>16 DEF t, pcm

\* The windows that are cut into when silence closes a turn were silent.
LEMMA AparaFecha ==
    ASSUME BaseInv, SilencioContado, NEW e \in BOOLEAN, FimPorSilencio(e),
           NEW q \in Seq(Nat), Len(q) > 0, NEW ended_at \in Int,
           ended_at = (Len(voz) + 1) * WindowMs - Corte(Len(q) * WindowMs),
           NEW w \in 1..(Len(voz) + 1), w * WindowMs > ended_at
    PROVE  ~Append(voz, e)[w]
<1>1. Len(voz) \in Nat /\ silencio_ms \in Nat /\ WindowMs \in Nat /\ Len(q) \in Int
  BY SegmenterAssumption DEF BaseInv, TiposDoSegmenter
<1>2. Corte(Len(q) * WindowMs) \in Int /\ Corte(Len(q) * WindowMs) <= EndSilenceMs
  <2>1. 0 * WindowMs < Len(q) * WindowMs /\ 0 * WindowMs = 0 /\ Len(q) * WindowMs \in Int
    BY <1>1, MsCresceMuito, Ms
  <2>2. Len(q) * WindowMs > 0
    BY <2>1
  <2>3. QED
    BY <2>1, <2>2, CorteCurto
<1>3. SilencioDepois(e) \in Int /\ SilencioDepois(e) >= EndSilenceMs /\ EndSilenceMs \in Int
  BY <1>1, SegmenterAssumption DEF FimPorSilencio, SilencioDepois
<1>4. ASSUME NEW f \in Int, NEW g \in Int, g > f - Corte(Len(q) * WindowMs)
      PROVE  g > f - SilencioDepois(e)
  BY <1>2, <1>3, <1>4
<1>5. (Len(voz) + 1) * WindowMs \in Int /\ w * WindowMs \in Int
  BY <1>1, Ms
<1>6. w * WindowMs > (Len(voz) + 1) * WindowMs - SilencioDepois(e)
  BY <1>4, <1>5, Zenon
<1>7. QED
  BY <1>6, SoSilencioNoFim

LEMMA TurnosInit == Init => TurnosInv
BY DEF Init, TurnosInv, Atras, EmOrdem, Ouvidas, AparaSoSilencio

\* Nothing is closed: the turns stay, and so does what the VAD said of their windows.
LEMMA NadaFecha ==
    ASSUME IInv, BaseInv', fechados' = fechados,
           NEW n \in Int, n = Frente, NEW m \in Int, m = Frente', n <= m,
           Len(voz) <= Len(voz'), \A w \in 1..Len(voz) : voz'[w] = voz[w]
    PROVE  TurnosInv'
<1>1. Atras'
  BY FrenteAvanca DEF IInv, BaseInv, TurnosInv
<1>2. EmOrdem'
  BY DEF IInv, TurnosInv, EmOrdem
<1>3. Len(voz) \in Int /\ Len(voz') \in Int
  BY DEF IInv, BaseInv, TiposDoSegmenter
<1>4. Ouvidas'
  BY <1>3 DEF IInv, TurnosInv, Ouvidas
<1>5. AparaSoSilencio'
  <2>1. ASSUME NEW i \in 1..Len(fechados), fechados[i].causa = "silencio",
               NEW k \in 1..Len(fechados[i].janelas),
               fechados[i].janelas[k] * WindowMs > fechados[i].ended_at
        PROVE  ~voz'[fechados[i].janelas[k]]
    <3>1. fechados[i].janelas[k] \in 1..Len(voz)
      BY <2>1 DEF IInv, TurnosInv, Ouvidas
    <3>2. ~voz[fechados[i].janelas[k]]
      BY <2>1 DEF IInv, TurnosInv, AparaSoSilencio, Aparadas
    <3>3. QED
      BY <3>1, <3>2
  <2>2. QED
    BY <2>1 DEF AparaSoSilencio, Aparadas
<1>6. QED
  BY <1>1, <1>2, <1>4, <1>5 DEF TurnosInv

\* A turn is closed: what holds of it, and of the others.
LEMMA UmFecha ==
    ASSUME IInv, state # "silence", voz' \in Seq(BOOLEAN),
           NEW q \in Seq(Nat), NEW fala \in Nat, NEW causa \in Causas,
           FecharTurno(q, fala, causa), Len(q) > 0,
           Len(voz') - Len(q) = Len(voz) - Len(buffer_fala), Len(voz') >= Len(voz),
           \A k \in 1..Len(q) : q[k] \in 1..Len(voz'),
           \A w \in 1..Len(voz) : voz'[w] = voz[w],
           causa = "silencio" =>
               \A w \in 1..Len(voz') :
                   w * WindowMs > Len(voz') * WindowMs - Corte(Len(q) * WindowMs) => ~voz'[w]
    PROVE  TurnosInv'
<1>1. /\ Atras' /\ EmOrdem' /\ Ouvidas'
      /\ fechados'[Len(fechados) + 1].ended_at
           = Len(voz') * WindowMs - Corte(Len(q) * WindowMs)
  BY FechaTurno DEF IInv, TurnosInv
<1>2. /\ Len(fechados') = Len(fechados) + 1 /\ Len(fechados) \in Nat
      /\ \A i \in 1..Len(fechados) : fechados'[i] = fechados[i]
      /\ fechados'[Len(fechados) + 1].janelas = q
      /\ fechados'[Len(fechados) + 1].causa = causa
  <2>1. TiposDoSegmenter /\ Len(fechados) \in Nat
    BY DEF IInv, BaseInv, TiposDoSegmenter
  <2>2. QED
    BY <2>1, FechaDeixa
<1>3. ASSUME NEW i \in 1..Len(fechados'), fechados'[i].causa = "silencio",
             NEW k \in 1..Len(fechados'[i].janelas),
             fechados'[i].janelas[k] * WindowMs > fechados'[i].ended_at
      PROVE  ~voz'[fechados'[i].janelas[k]]
  <2>1. CASE i = Len(fechados) + 1
    BY <1>1, <1>2, <1>3, <2>1
  <2>2. CASE i \in 1..Len(fechados)
    <3>1. fechados[i].janelas[k] \in 1..Len(voz)
      BY <1>2, <1>3, <2>2 DEF IInv, TurnosInv, Ouvidas
    <3>2. ~voz[fechados[i].janelas[k]]
      BY <1>2, <1>3, <2>2 DEF IInv, TurnosInv, AparaSoSilencio, Aparadas
    <3>3. QED
      BY <1>2, <2>2, <3>1, <3>2
  <2>3. QED
    BY <1>2, <2>1, <2>2
<1>4. AparaSoSilencio'
  BY <1>3 DEF AparaSoSilencio, Aparadas
<1>5. QED
  BY <1>1, <1>4 DEF TurnosInv

LEMMA TurnosJanela ==
    ASSUME IInv, BaseInv', NEW e \in BOOLEAN, ProcessarJanela(e)
    PROVE  TurnosInv'
<1>1. BaseInv /\ TiposDoSegmenter /\ SilencioContado
  BY DEF IInv, BaseInv, FalaInv
<1>2. /\ voz' = Append(voz, e) /\ Len(voz') = Len(voz) + 1
      /\ Calada(e) \/ Abre(e) \/ Fecha(e) \/ Continua(e)
  BY <1>1, UmaJanela
<1>3. /\ Len(voz) \in Nat /\ voz \in Seq(BOOLEAN) /\ voz' \in Seq(BOOLEAN)
      /\ Len(pre_roll) \in Int /\ Len(buffer_fala) \in Int
      /\ Len(pre_roll') \in Int /\ Len(buffer_fala') \in Int
  BY DEF IInv, BaseInv, TiposDoSegmenter
<1>4. \A w \in 1..Len(voz) : voz'[w] = voz[w]
  BY <1>2, <1>3
<1>5. ASSUME fechados' = fechados, Frente \in Int, Frente' \in Int, Frente <= Frente'
      PROVE  TurnosInv'
  BY <1>2, <1>3, <1>4, <1>5, NadaFecha
<1>6. CASE Calada(e)
  <2>1. /\ state = "silence" /\ state' = "silence" /\ fechados' = fechados
        /\ Len(pre_roll') <= Len(pre_roll) + 1
    BY <1>1, <1>6, PreRollDepois DEF Calada
  <2>2. Frente \in Int /\ Frente' \in Int /\ Frente <= Frente'
    BY <1>2, <1>3, <2>1 DEF Frente, Guardadas
  <2>3. QED
    BY <1>5, <2>1, <2>2
<1>7. CASE Abre(e)
  <2>1. /\ state = "silence" /\ state' = "speech" /\ fechados' = fechados
        /\ Len(buffer_fala') <= Len(pre_roll) + 1
    BY <1>1, <1>7, PreRollDepois DEF Abre
  <2>2. Frente \in Int /\ Frente' \in Int /\ Frente <= Frente'
    BY <1>2, <1>3, <2>1 DEF Frente, Guardadas
  <2>3. QED
    BY <1>5, <2>1, <2>2
<1>8. CASE Continua(e)
  <2>1. /\ state # "silence" /\ state' # "silence" /\ fechados' = fechados
        /\ Len(buffer_fala') = Len(buffer_fala) + 1
    BY <1>1, <1>8, BufferDepois DEF Continua
  <2>2. Frente \in Int /\ Frente' \in Int /\ Frente <= Frente'
    BY <1>2, <1>3, <2>1 DEF Frente, Guardadas
  <2>3. QED
    BY <1>5, <2>1, <2>2
<1>9. CASE Fecha(e)
  <2> DEFINE q == Append(buffer_fala, Len(voz) + 1)
  <2>1. PICK causa \in {"silencio", "corte"} :
           /\ causa = "silencio" => FimPorSilencio(e)
           /\ FecharTurno(q, FalaDepois(e), causa)
    BY <1>9 DEF Fecha
  <2>2. /\ q \in Seq(Nat) /\ Len(q) = Len(buffer_fala) + 1 /\ Len(q) \in 1..(Len(voz) + 1)
        /\ \A i \in 1..Len(q) : q[i] = (Len(voz) + 1) - Len(q) + i
    BY <1>1, BufferDepois
  <2>3. state # "silence" /\ causa \in Causas /\ FalaDepois(e) \in Nat
    <3>1. state # "silence" /\ causa \in Causas
      BY <1>9, <2>1 DEF Fecha, Causas
    <3>2. fala_ms \in Nat /\ WindowMs \in Nat
      BY <1>1, SegmenterAssumption DEF TiposDoSegmenter
    <3>3. QED
      BY <3>1, <3>2 DEF FalaDepois
  <2> HIDE DEF q
  <2>4. /\ Len(q) > 0 /\ Len(voz') >= Len(voz)
        /\ Len(voz') - Len(q) = Len(voz) - Len(buffer_fala)
        /\ \A k \in 1..Len(q) : q[k] \in 1..Len(voz')
    BY <1>2, <1>3, <2>2
  <2>5. ASSUME causa = "silencio", NEW w \in 1..Len(voz'),
               w * WindowMs > Len(voz') * WindowMs - Corte(Len(q) * WindowMs)
        PROVE  ~voz'[w]
    <3>1. FimPorSilencio(e)
      BY <2>1, <2>5
    <3>2. (Len(voz) + 1) * WindowMs - Corte(Len(q) * WindowMs) \in Int
      <4>1. (Len(voz) + 1) * WindowMs \in Int
        BY <1>3, Ms
      <4>2. Corte(Len(q) * WindowMs) \in Int
        BY SegmenterAssumption DEF Corte, Excedente
      <4>3. QED
        BY <4>1, <4>2
    <3>3. w \in 1..(Len(voz) + 1)
          /\ w * WindowMs > (Len(voz) + 1) * WindowMs - Corte(Len(q) * WindowMs)
      BY <1>2, <2>5
    <3>4. ~Append(voz, e)[w]
      BY <1>1, <2>2, <2>4, <3>1, <3>2, <3>3, AparaFecha
    <3>5. QED
      BY <1>2, <3>4
  <2>6. QED
    BY <1>3, <1>4, <2>1, <2>2, <2>3, <2>4, <2>5, UmFecha
<1>10. QED
  BY <1>2, <1>6, <1>7, <1>8, <1>9

LEMMA TurnosFlush ==
    ASSUME IInv, BaseInv', Flush
    PROVE  TurnosInv'
<1>1. BaseInv /\ TiposDoSegmenter /\ JanelasEmDia
  BY DEF IInv, BaseInv
<1>2. /\ Len(voz) \in Nat /\ voz \in Seq(BOOLEAN) /\ voz' = voz
      /\ Len(pre_roll) \in Int /\ Len(buffer_fala) \in Int /\ Frente \in Int
  BY <1>1 DEF Flush, TiposDoSegmenter, Frente, Guardadas
<1>3. CASE UNCHANGED <<turno, fechados>>
  <2>1. Frente' = Frente /\ fechados' = fechados
    BY <1>2, <1>3 DEF turno, Frente, Guardadas
  <2>2. QED
    BY <1>2, <2>1, NadaFecha
<1>4. CASE state # "silence" /\ FecharTurno(buffer_fala, fala_ms, "flush")
  <2>1. /\ buffer_fala \in Seq(Nat) /\ fala_ms \in Nat /\ "flush" \in Causas
        /\ Len(buffer_fala) > 0 /\ Len(voz') - Len(buffer_fala) = Len(voz) - Len(buffer_fala)
        /\ Len(voz') >= Len(voz)
        /\ \A k \in 1..Len(buffer_fala) : buffer_fala[k] \in 1..Len(voz')
    BY <1>1, <1>2, <1>4 DEF TiposDoSegmenter, JanelasEmDia, AteAgora, Causas
  <2>2. "flush" # "silencio" /\ \A w \in 1..Len(voz) : voz'[w] = voz[w]
    BY <1>2
  <2>3. QED
    BY <1>2, <1>4, <2>1, <2>2, UmFecha
<1>5. QED
  BY <1>3, <1>4 DEF Flush

LEMMA TurnosFeed ==
    ASSUME IInv, BaseInv', NEW b \in Blocos, Feed(b)
    PROVE  TurnosInv'
<1>1. /\ Len(voz) \in Nat /\ Frente \in Int
  BY DEF IInv, BaseInv, TiposDoSegmenter, Frente, Guardadas
<1>2. Frente' = Frente /\ fechados' = fechados /\ voz' = voz
  BY DEF Feed, turno, Frente, Guardadas
<1>3. QED
  BY <1>1, <1>2, NadaFecha

-----------------------------------------------------------------------------
\* The inductive invariant.
LEMMA Passo ==
    ASSUME IInv, [Next]_vars
    PROVE  IInv'
<1>1. BaseInv /\ FalaInv
  BY DEF IInv
<1>2. ASSUME NEW b \in Blocos, Feed(b)
      PROVE  IInv'
  BY <1>1, <1>2, FeedPreserva, FalaFeed, TurnosFeed DEF IInv
<1>3. ASSUME NEW e \in BOOLEAN, ProcessarJanela(e)
      PROVE  IInv'
  BY <1>1, <1>3, JanelaPreserva, FalaJanela, TurnosJanela DEF IInv
<1>4. CASE Flush
  BY <1>1, <1>4, FlushPreserva, FalaFlush, TurnosFlush DEF IInv
<1>5. CASE UNCHANGED vars
  <2>1. BaseInv'
    BY <1>1, <1>5 DEF vars, turno, BaseInv, TiposDoSegmenter, JanelasEmDia, AteAgora,
                      BytesContados
  <2>2. FalaInv'
    BY <1>1, <1>5 DEF vars, turno, FalaInv, PreRollCalado, FalaContada, SilencioContado
  <2>3. Len(voz) \in Nat /\ Frente \in Int /\ Frente' = Frente
        /\ fechados' = fechados /\ voz' = voz
    BY <1>1, <1>5 DEF vars, turno, BaseInv, TiposDoSegmenter, Frente, Guardadas
  <2>4. TurnosInv'
    BY <2>1, <2>3, NadaFecha
  <2>5. QED
    BY <2>1, <2>2, <2>4 DEF IInv
<1>6. QED
  BY <1>2, <1>3, <1>4, <1>5 DEF Next

LEMMA Invariante == Spec => []IInv
<1>1. Init => IInv
  BY BaseInit, FalaInit, TurnosInit DEF IInv
<1>2. IInv /\ [Next]_vars => IInv'
  BY Passo
<1>3. QED
  BY <1>1, <1>2, PTL DEF Spec

\* The state of the segmenter stays well formed, whatever it is fed.
THEOREM TypeCorrectness == Spec => []TiposDoSegmenter
<1>1. IInv => TiposDoSegmenter
  BY DEF IInv, BaseInv
<1>2. QED
  BY <1>1, Invariante, PTL

\* The pre-roll and the turn in progress are the last windows heard, without a
\* gap, and every byte fed is in a window or in the residue, for any sizes of
\* blocks and any verdicts of the VAD.
THEOREM Gapless == Spec => []SemBuracos
<1>1. IInv => SemBuracos
  BY DEF IInv, BaseInv, JanelasEmDia, BytesContados, SemBuracos
<1>2. QED
  BY <1>1, Invariante, PTL

\* started_at of a turn in progress is where its first window is in the
\* recording, and its speech_ms counts the speech it holds, the pre-roll and the
\* hangover excluded.
THEOREM ExactStart == Spec => []InicioExato
<1>1. IInv => InicioExato
  <2> SUFFICES ASSUME IInv
               PROVE  InicioExato
    OBVIOUS
  <2>1. ASSUME buffer_fala # <<>>
        PROVE  inicio_turno = (buffer_fala[1] - 1) * WindowMs
    <3>1. /\ state # "silence" /\ Len(voz) \in Int /\ Len(buffer_fala) \in Int
          /\ 1 \in 1..Len(buffer_fala)
      BY <2>1 DEF IInv, BaseInv, TiposDoSegmenter, JanelasEmDia
    <3>2. buffer_fala[1] = Len(voz) - Len(buffer_fala) + 1
      BY <3>1 DEF IInv, BaseInv, JanelasEmDia, AteAgora
    <3>3. buffer_fala[1] - 1 = Len(voz) - Len(buffer_fala)
      BY <3>1, <3>2
    <3>4. QED
      BY <3>1, <3>3 DEF IInv, BaseInv, JanelasEmDia
  <2>2. QED
    BY <2>1 DEF InicioExato, IInv, FalaInv, FalaContada, Faladas
<1>2. QED
  BY <1>1, Invariante, PTL

\* Closed turns are in the order they were said, share no audio, have a positive
\* duration and lie in the past.
THEOREM DisjointTurns == Spec => []TurnosDisjuntos
<1>1. IInv => TurnosDisjuntos
  <2> SUFFICES ASSUME IInv
               PROVE  TurnosDisjuntos
    OBVIOUS
  <2>1. /\ Len(voz) \in Int /\ Frente \in Int /\ Frente <= Len(voz) /\ TiposDoSegmenter
        /\ decorrido_ms = Len(voz) * WindowMs
    BY DEF IInv, BaseInv, TiposDoSegmenter, JanelasEmDia, Frente, Guardadas
  <2>2. /\ Frente * WindowMs <= decorrido_ms
        /\ Frente * WindowMs \in Int /\ decorrido_ms \in Int
    BY <2>1, MsCresce, Ms
  <2>3. ASSUME NEW i \in 1..Len(fechados)
        PROVE  fechados[i].ended_at <= decorrido_ms
    <3>1. fechados[i].ended_at <= Frente * WindowMs
      BY DEF IInv, TurnosInv, Atras
    <3>2. fechados[i].ended_at \in Int
      BY <2>1, TipoDeTurno
    <3>3. QED
      BY <2>2, <3>1, <3>2, Transitiva, Zenon
  <2>4. QED
    BY <2>3 DEF IInv, TurnosInv, Atras, EmOrdem, TurnosDisjuntos
<1>2. QED
  BY <1>1, Invariante, PTL

\* What is cut off the end of a turn that silence closed was silence, whatever
\* end_silence_ms and the size of a window are.
THEOREM TrimsOnlySilence == Spec => []AparaSoSilencio
<1>1. IInv => AparaSoSilencio
  BY DEF IInv, TurnosInv
<1>2. QED
  BY <1>1, Invariante, PTL
=============================================================================
