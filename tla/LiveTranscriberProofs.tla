----------------------- MODULE LiveTranscriberProofs -----------------------
(***************************************************************************)
(* Proofs about asr/live.py and asr/streaming.py, for every size of the    *)
(* queue, of the buffer and of the words, and whatever Whisper hears.      *)
(***************************************************************************)
EXTENDS LiveTranscriber, SequenceTheorems, WellFoundedInduction, TLAPS

-----------------------------------------------------------------------------
(* What is in a text.                                                      *)

Palavra == [key : Chaves, start : Nat, end : Nat]

\* Words with some length in them, none of which ends after the audio that was heard.
Ouvidas(texto, ate) ==
    /\ texto \in Seq(Palavra)
    /\ \A i \in 1..Len(texto) : texto[i].start < texto[i].end /\ texto[i].end <= ate

EmOrdem(texto) ==
    \A i, j \in 1..Len(texto) :
        i < j /\ (\A k \in (i + 1)..(j - 1) : ~Curta(texto[k]))
            => texto[j].start >= texto[i].end - Tolerancia

StreamingType ==
    /\ buffer \in Nat
    /\ buffer_offset \in Nat
    /\ since_last_run \in Nat
    /\ previous \in Seq(Palavra)
    /\ estourou \in BOOLEAN
    /\ Ouvidas(committed, buffer_offset + buffer)

StreamingInv == StreamingType /\ EmOrdem(committed) /\ PendenteNoBuffer

-----------------------------------------------------------------------------
(* What is on its way from the capture thread to the other one.            *)

Itens == [tipo : {"pcm"}, turno : Nat, bloco : Nat] \cup [tipo : {"fim"}, turno : Nat]
         \cup {None, SemMais}

LiveType ==
    /\ falando \in BOOLEAN
    /\ turno \in Nat
    /\ fila \in Seq(Itens)
    /\ captura \in [fase : {"antes", "livre", "pcm", "marcador", "parar", "esperar", "fim"},
                    fecha : BOOLEAN]
    /\ laco \in [fase : {"nenhuma", "pegar", "item", "fim"}, item : Itens]
    /\ blocos \in 0..MaxAudio
    /\ aceitos \subseteq Nat \X Nat
    /\ ouvidos \subseteq Nat \X Nat
    /\ ultimo \in [anterior : Nat, turno : Nat, audio : SUBSET (Nat \X Nat)]
    /\ captura.fase = "antes" => laco.fase = "nenhuma"

\* Of the items queued and the one in hand, those that belong to a turn.
DeTurno(x) == x.tipo \in {"pcm", "fim"}
NaFila == {fila[i] : i \in 1..Len(fila)}
NaMao == IF laco.fase = "item" THEN {laco.item} ELSE {}
NoCaminho == {x \in NaFila \cup NaMao : DeTurno(x)}

BlocosEm(S) == {<<x.turno, x.bloco>> : x \in {y \in S : y.tipo = "pcm"}}

\* A marker comes after the audio of its turn and before that of the next.
Antes(x, y) ==
    DeTurno(x) /\ DeTurno(y) =>
        /\ x.turno <= y.turno
        /\ x.tipo = "fim" => x.turno < y.turno
        /\ x.tipo = "pcm" /\ y.tipo = "pcm" => x.bloco < y.bloco

NaOrdem ==
    /\ \A i, j \in 1..Len(fila) : i < j => Antes(fila[i], fila[j])
    /\ laco.fase = "item" => \A i \in 1..Len(fila) : Antes(laco.item, fila[i])

\* The turn that began last has neither its marker queued nor lost it.
Aberto == falando \/ captura.fase \in {"pcm", "marcador"}

TurnoAberto ==
    /\ captura.fase = "pcm" => (falando <=> ~captura.fecha)
    /\ captura.fase = "marcador" => ~falando
    /\ ultimo.turno <= turno
    /\ Aberto => ultimo.turno < turno

\* What is on its way belongs to a turn that is not closed yet, ...
Pendentes ==
    \A x \in NoCaminho :
        /\ ultimo.turno < x.turno
        /\ x.turno <= turno
        /\ x.tipo = "fim" /\ Aberto => x.turno < turno

\* ... and each of these has its marker on the way, to come, or no text of its own.
Marcados ==
    \A t \in (ultimo.turno + 1)..turno :
        t \in semTurno \/ Fim(t) \in NoCaminho \/ (Aberto /\ t = turno)

\* The audio of those turns has been inserted or is on its way.
AudioNoCaminho ==
    /\ {b \in aceitos : b[1] > ultimo.turno} = ouvidos \cup BlocosEm(NoCaminho)
    /\ \A b \in aceitos : b[1] <= turno
    /\ \A b \in ouvidos, x \in NoCaminho : b[1] <= x.turno

\* The buffer holds no more than the blocks before the next one.
Numerados == IF captura.fase = "pcm" THEN blocos - 1 ELSE blocos
Contagem ==
    /\ buffer <= Numerados
    /\ \A x \in NoCaminho : x.tipo = "pcm" => buffer < x.bloco /\ x.bloco <= Numerados

FilaInv ==
    /\ LiveType /\ Contagem
    /\ NaOrdem /\ TurnoAberto /\ Pendentes /\ Marcados
    /\ AudioNoCaminho /\ AudioDoSeuTurno

LiveInv == StreamingInv /\ FilaInv

-----------------------------------------------------------------------------
(* The operators of the two modules.                                       *)

\* A set of numbers that does not go beyond k has a largest one.
LEMMA MaxExiste ==
    ASSUME NEW k \in Nat, NEW S \in SUBSET (0..k), S # {}
    PROVE  Max(S) \in S /\ \A x \in S : x <= Max(S)
<1> DEFINE T == {k - x : x \in S}
           R == OpToRel(<, Nat)
<1>1. T \subseteq Nat /\ T # {}
  OBVIOUS
<1>2. PICK m \in T : \A y \in T : <<y, m>> \notin R
  <2>1. IsWellFoundedOn(R, Nat)
    BY NatLessThanWellFounded
  <2> HIDE DEF R, T
  <2> QED
    BY <1>1, <2>1, WFMin
<1>3. \A y \in T : ~(y < m)
  BY <1>1, <1>2 DEF OpToRel
<1>4. PICK x \in S : m = k - x
  BY <1>2
<1>5. \A y \in S : y <= x
  <2> TAKE y \in S
  <2>1. k - y \in T
    OBVIOUS
  <2>2. ~(k - y < m)
    BY <1>3, <2>1
  <2> QED
    BY <1>4, <2>2
<1>6. \E y \in S : \A z \in S : y >= z
  BY <1>5
<1> QED
  BY <1>6 DEF Max

LEMMA MaxComZero ==
    ASSUME NEW x \in Int
    PROVE  Max({0, x}) = IF x > 0 THEN x ELSE 0
BY DEF Max

-----------------------------------------------------------------------------
(* The queue.                                                              *)

LEMMA Cauda ==
    ASSUME NEW S, NEW s \in Seq(S), s # <<>>
    PROVE  /\ Head(s) = s[1] /\ s[1] \in S
           /\ Tail(s) \in Seq(S)
           /\ Len(s) \in Nat \ {0} /\ Len(Tail(s)) = Len(s) - 1
           /\ \A i \in 1..Len(Tail(s)) : i + 1 \in 1..Len(s) /\ Tail(s)[i] = s[i + 1]
           /\ \A i \in 1..Len(s) : i = 1 \/ i - 1 \in 1..Len(Tail(s))
BY HeadTailProperties

LEMMA TiraOPrimeiro ==
    ASSUME NEW S, NEW s \in Seq(S), s # <<>>
    PROVE  RemoveAt(s, 1) = Tail(s)
<1>1. SubSeq(s, 1, 0) = <<>>
  BY SubSeqEmpty
<1>2. SubSeq(s, 2, Len(s)) = Tail(s) /\ Tail(s) \in Seq(S)
  BY TailIsSubSeq, HeadTailProperties
<1>3. <<>> \o Tail(s) = Tail(s)
  BY <1>2, ConcatEmptySeq
<1> QED
  BY <1>1, <1>2, <1>3 DEF RemoveAt

LEMMA Elementos ==
    ASSUME NEW S, NEW s \in Seq(S), s # <<>>
    PROVE  {s[i] : i \in 1..Len(s)} = {s[1]} \cup {Tail(s)[i] : i \in 1..Len(Tail(s))}
<1> DEFINE A == {s[i] : i \in 1..Len(s)}
           B == {Tail(s)[i] : i \in 1..Len(Tail(s))}
<1>1. ASSUME NEW x \in A PROVE x \in {s[1]} \cup B
  <2>1. PICK i \in 1..Len(s) : x = s[i]
    BY <1>1
  <2>2. CASE i = 1
    BY <2>1, <2>2
  <2>3. CASE i # 1
    <3>1. i - 1 \in 1..Len(Tail(s))
      BY <2>3, Cauda
    <3>2. Tail(s)[i - 1] = s[(i - 1) + 1] /\ (i - 1) + 1 = i
      BY <3>1, Cauda
    <3> QED
      BY <2>1, <3>1, <3>2
  <2> QED
    BY <2>2, <2>3
<1>2. ASSUME NEW x \in {s[1]} \cup B PROVE x \in A
  <2>1. CASE x = s[1]
    BY <2>1, Cauda
  <2>2. CASE x \in B
    <3>1. PICK i \in 1..Len(Tail(s)) : x = Tail(s)[i]
      BY <2>2
    <3>2. i + 1 \in 1..Len(s) /\ x = s[i + 1]
      BY <3>1, Cauda
    <3> QED
      BY <3>2
  <2> QED
    BY <1>2, <2>1, <2>2
<1> QED
  BY <1>1, <1>2

LEMMA Juntar ==
    ASSUME NEW S, NEW s \in Seq(S), NEW x \in S
    PROVE  /\ Append(s, x) \in Seq(S)
           /\ Len(s) \in Nat /\ Len(Append(s, x)) = Len(s) + 1
           /\ \A i \in 1..Len(s) : Append(s, x)[i] = s[i]
           /\ Append(s, x)[Len(s) + 1] = x
           /\ {Append(s, x)[i] : i \in 1..Len(Append(s, x))} = {s[i] : i \in 1..Len(s)} \cup {x}
<1>1. /\ Append(s, x) \in Seq(S)
      /\ Len(s) \in Nat /\ Len(Append(s, x)) = Len(s) + 1
      /\ \A i \in 1..Len(s) : Append(s, x)[i] = s[i]
      /\ Append(s, x)[Len(s) + 1] = x
  BY AppendProperties
<1>2. 1..(Len(s) + 1) = (1..Len(s)) \cup {Len(s) + 1}
  BY <1>1
<1> QED
  BY <1>1, <1>2

\* The tags of the items.
LEMMA Tipos ==
    /\ \A t, n : DeTurno(Pcm(t, n)) /\ Pcm(t, n).tipo = "pcm"
    /\ \A t : DeTurno(Fim(t)) /\ Fim(t).tipo = "fim"
    /\ ~DeTurno(None) /\ ~DeTurno(SemMais)
    /\ \A x \in Itens : x.tipo = "pcm" => x.turno \in Nat /\ x.bloco \in Nat
                                          /\ x = Pcm(x.turno, x.bloco)
    /\ \A x \in Itens : x.tipo = "fim" => x.turno \in Nat /\ x = Fim(x.turno)
    /\ \A x \in Itens : ~DeTurno(x) => x \in {None, SemMais}
<1>1. \A x \in [tipo : {"pcm"}, turno : Nat, bloco : Nat] :
         /\ x.tipo = "pcm" /\ x.turno \in Nat /\ x.bloco \in Nat
         /\ x = [tipo |-> "pcm", turno |-> x.turno, bloco |-> x.bloco]
  OBVIOUS
<1>2. \A x \in [tipo : {"fim"}, turno : Nat] :
         /\ x.tipo = "fim" /\ x.turno \in Nat
         /\ x = [tipo |-> "fim", turno |-> x.turno]
  OBVIOUS
<1>3. None.tipo = "none" /\ SemMais.tipo = "sem mais"
  BY DEF None, SemMais
<1> HIDE DEF None, SemMais
<1> QED
  BY <1>1, <1>2, <1>3 DEF Itens, DeTurno, Pcm, Fim

LEMMA CaminhoTipo ==
    ASSUME LiveType, NEW x \in NoCaminho
    PROVE  x \in Itens /\ DeTurno(x) /\ x.turno \in Nat
<1>1. fila \in Seq(Itens) /\ laco.item \in Itens
  BY DEF LiveType
<1>2. \A i \in 1..Len(fila) : fila[i] \in Itens
  BY <1>1, ElementOfSeq
<1>3. x \in Itens /\ DeTurno(x)
  BY <1>1, <1>2 DEF NoCaminho, NaFila, NaMao
<1> QED
  BY <1>3, Tipos DEF DeTurno

\* An item is queued: all that is on its way comes before it.
LEMMA Enfileirar ==
    ASSUME LiveType, NaOrdem, NEW x \in Itens,
           fila' = Append(fila, x), laco' = laco,
           \A y \in NoCaminho : Antes(y, x)
    PROVE  /\ fila' \in Seq(Itens)
           /\ NoCaminho' = NoCaminho \cup {y \in {x} : DeTurno(y)}
           /\ NaOrdem'
<1>0. fila \in Seq(Itens)
  BY DEF LiveType
<1>1. /\ fila' \in Seq(Itens) /\ Len(fila) \in Nat /\ Len(fila') = Len(fila) + 1
      /\ \A i \in 1..Len(fila) : fila'[i] = fila[i]
      /\ fila'[Len(fila) + 1] = x
  BY <1>0, Juntar
<1>2. NaFila' = NaFila \cup {x} /\ NaMao' = NaMao
  BY <1>0, Juntar DEF NaFila, NaMao
<1>3. \A y \in NaFila \cup NaMao : Antes(y, x)
  BY DEF NoCaminho, Antes
<1>4. NaOrdem'
  <2>1. ASSUME NEW i \in 1..Len(fila'), NEW j \in 1..Len(fila'), i < j
        PROVE  Antes(fila'[i], fila'[j])
    <3>1. i \in 1..Len(fila) /\ fila'[i] = fila[i] /\ fila[i] \in NaFila
      BY <1>1, <2>1 DEF NaFila
    <3>2. CASE j \in 1..Len(fila)
      BY <1>1, <2>1, <3>1, <3>2 DEF NaOrdem
    <3>3. CASE j = Len(fila) + 1
      BY <1>1, <1>3, <3>1, <3>3
    <3> QED
      BY <1>1, <3>2, <3>3
  <2>2. ASSUME laco'.fase = "item", NEW i \in 1..Len(fila')
        PROVE  Antes(laco'.item, fila'[i])
    <3>1. laco.fase = "item" /\ laco'.item = laco.item /\ laco.item \in NaMao
      BY <2>2 DEF NaMao
    <3>2. CASE i \in 1..Len(fila)
      BY <1>1, <3>1, <3>2 DEF NaOrdem
    <3>3. CASE i = Len(fila) + 1
      BY <1>1, <1>3, <3>1, <3>3
    <3> QED
      BY <1>1, <3>2, <3>3
  <2> QED
    BY <2>1, <2>2 DEF NaOrdem, Antes, DeTurno
<1> QED
  BY <1>1, <1>2, <1>4 DEF NoCaminho, DeTurno

\* The item in hand is done with, and the first of the queue is taken.
LEMMA Seguir ==
    ASSUME LiveType, NaOrdem, fila # <<>>, fila' = Tail(fila),
           laco'.fase = "item", laco'.item = fila[1]
    PROVE  /\ fila' \in Seq(Itens) /\ laco'.item \in Itens
           /\ NoCaminho' = {y \in NaFila : DeTurno(y)}
           /\ NaOrdem'
<1>0. fila \in Seq(Itens)
  BY DEF LiveType
<1>1. /\ fila' \in Seq(Itens) /\ laco'.item \in Itens
      /\ 1 \in 1..Len(fila)
      /\ \A i \in 1..Len(fila') : i + 1 \in 1..Len(fila) /\ fila'[i] = fila[i + 1]
  BY <1>0, Cauda
<1>2. NaFila = {fila[1]} \cup NaFila' /\ NaMao' = {fila[1]}
  BY <1>0, Elementos DEF NaFila, NaMao
<1>3. NaOrdem'
  <2>1. ASSUME NEW i \in 1..Len(fila'), NEW j \in 1..Len(fila'), i < j
        PROVE  Antes(fila'[i], fila'[j])
    <3>1. i + 1 < j + 1
      BY <2>1
    <3> QED
      BY <1>1, <2>1, <3>1 DEF NaOrdem
  <2>2. ASSUME NEW i \in 1..Len(fila')
        PROVE  Antes(laco'.item, fila'[i])
    <3>1. 1 < i + 1
      BY <2>2
    <3> QED
      BY <1>1, <2>2, <3>1 DEF NaOrdem
  <2> QED
    BY <2>1, <2>2 DEF NaOrdem, Antes, DeTurno
<1> QED
  BY <1>1, <1>2, <1>3 DEF NoCaminho, DeTurno

\* Nothing is in hand any more.
LEMMA Largar ==
    ASSUME LiveType, NaOrdem, fila' = fila,
           laco'.fase # "item" \/ laco'.item = SemMais
    PROVE  /\ NoCaminho' = {y \in NaFila : DeTurno(y)}
           /\ NaOrdem'
<1>1. NaFila' = NaFila
  BY DEF NaFila
<1>2. \A y \in NaMao' : ~DeTurno(y)
  BY Tipos DEF NaMao
<1>3. \A i \in 1..Len(fila') : laco'.fase = "item" => Antes(laco'.item, fila'[i])
  BY Tipos DEF Antes
<1> QED
  BY <1>1, <1>2, <1>3 DEF NoCaminho, DeTurno, NaOrdem, Antes

LEMMA Parado ==
    ASSUME NaOrdem, fila' = fila, laco'.fase = "item" <=> laco.fase = "item",
           laco'.item = laco.item
    PROVE  NoCaminho' = NoCaminho /\ NaOrdem'
BY DEF NoCaminho, NaFila, NaMao, NaOrdem, Antes, DeTurno

\* Without the item in hand: it is none of those in the queue.
LEMMA SemAMao ==
    ASSUME LiveType, NaOrdem
    PROVE  /\ laco.fase # "item" \/ ~DeTurno(laco.item) => {y \in NaFila : DeTurno(y)} = NoCaminho
           /\ laco.fase = "item" /\ DeTurno(laco.item) =>
                 /\ laco.item \in NoCaminho
                 /\ {y \in NaFila : DeTurno(y)} = NoCaminho \ {laco.item}
                 /\ \A y \in NoCaminho \ {laco.item} : Antes(laco.item, y)
<1>1. laco.fase # "item" \/ ~DeTurno(laco.item) => {y \in NaFila : DeTurno(y)} = NoCaminho
  BY DEF NoCaminho, NaMao
<1>2. ASSUME laco.fase = "item", DeTurno(laco.item)
      PROVE  /\ laco.item \in NoCaminho
             /\ {y \in NaFila : DeTurno(y)} = NoCaminho \ {laco.item}
             /\ \A y \in NoCaminho \ {laco.item} : Antes(laco.item, y)
  <2>1. NaMao = {laco.item}
    BY <1>2 DEF NaMao
  <2>2. \A y \in NaFila : Antes(laco.item, y)
    BY <1>2 DEF NaFila, NaOrdem
  <2>3. laco.item \in NoCaminho
    BY <1>2, <2>1 DEF NoCaminho
  <2>4. laco.item \in Itens
    BY DEF LiveType
  <2>5. laco.item \notin NaFila
    <3> SUFFICES ASSUME laco.item \in NaFila PROVE FALSE
      OBVIOUS
    <3>1. Antes(laco.item, laco.item)
      BY <2>2
    <3>2. CASE laco.item.tipo = "pcm"
      <4>1. laco.item.bloco \in Nat /\ laco.item.bloco < laco.item.bloco
        BY <1>2, <2>4, <3>1, <3>2, Tipos DEF Antes
      <4> QED
        BY <4>1
    <3>3. CASE laco.item.tipo = "fim"
      <4>1. laco.item.turno \in Nat /\ laco.item.turno < laco.item.turno
        BY <1>2, <2>4, <3>1, <3>3, Tipos DEF Antes
      <4> QED
        BY <4>1
    <3> QED
      BY <1>2, <3>2, <3>3 DEF DeTurno
  <2> QED
    BY <2>1, <2>2, <2>3, <2>5 DEF NoCaminho
<1> QED
  BY <1>1, <1>2

-----------------------------------------------------------------------------
(* The queue, step by step.  What a step does to the buffer is all that is *)
(* needed here of the streaming.                                           *)

\* The type of each variable, for the steps that leave most of them alone.
LEMMA Tipado ==
    ASSUME LiveType
    PROVE  /\ falando \in BOOLEAN /\ turno \in Nat /\ fila \in Seq(Itens)
           /\ captura.fecha \in BOOLEAN /\ laco.item \in Itens /\ blocos \in Nat
           /\ ultimo.turno \in Nat /\ ultimo.anterior \in Nat
           /\ aceitos \subseteq Nat \X Nat /\ ouvidos \subseteq Nat \X Nat
           /\ ultimo.audio \subseteq Nat \X Nat
BY StreamingAssumption DEF LiveType

\* Nothing comes or goes: neither an item with a turn, nor a turn.
LEMMA NadaMuda ==
    ASSUME FilaInv, LiveType', NaOrdem', TurnoAberto',
           NoCaminho' = NoCaminho, Aberto' <=> Aberto, Numerados' = Numerados,
           buffer \in Nat, buffer' \in Nat, buffer' <= buffer,
           UNCHANGED <<turno, aceitos, ouvidos, semTurno, ultimo>>
    PROVE  FilaInv'
<1>1. turno' = turno /\ aceitos' = aceitos /\ ouvidos' = ouvidos /\ semTurno' = semTurno
      /\ ultimo' = ultimo
  OBVIOUS
<1>2. Pendentes'
  BY <1>1 DEF FilaInv, Pendentes
<1>3. Marcados'
  BY <1>1 DEF FilaInv, Marcados, Fim
<1>4. AudioNoCaminho'
  BY <1>1 DEF FilaInv, AudioNoCaminho, BlocosEm
<1>5. AudioDoSeuTurno'
  BY <1>1 DEF FilaInv, AudioDoSeuTurno
<1>6. Contagem'
  <2>1. Numerados \in Int
    BY Tipado DEF FilaInv, Numerados
  <2>2. \A x \in NoCaminho : x.tipo = "pcm" => x.bloco \in Nat
    BY CaminhoTipo, Tipos DEF FilaInv
  <2> QED
    BY <2>1, <2>2 DEF FilaInv, Contagem
<1> QED
  BY <1>2, <1>3, <1>4, <1>5, <1>6 DEF FilaInv

LEMMA StartFila ==
    ASSUME FilaInv, buffer \in Nat, Start
    PROVE  FilaInv'
<1>1. LiveType /\ NaOrdem /\ TurnoAberto
  BY DEF FilaInv
<1>2. LiveType' /\ captura'.fase = "livre" /\ laco'.fase = "pegar"
      /\ UNCHANGED <<falando, turno, fila, blocos, ondeVars, buffer>>
  BY <1>1 DEF Start, LiveType, ondeVars, streaming
<1>3. captura.fase = "antes"
  BY DEF Start
<1>4. Aberto' <=> Aberto
  BY <1>2, <1>3 DEF Aberto
<1>5. TurnoAberto'
  BY <1>1, <1>2, <1>3, <1>4 DEF TurnoAberto, ondeVars
<1>6. Numerados' = Numerados
  BY <1>2, <1>3 DEF Numerados
<1>7. NaOrdem' /\ NoCaminho' = NoCaminho
  <2>1. laco.fase = "nenhuma" /\ fila' = fila
    BY <1>1, <1>2, <1>3 DEF LiveType
  <2> QED
    BY <1>1, <1>2, <2>1, Largar, SemAMao
<1> QED
  BY <1>2, <1>4, <1>5, <1>6, <1>7, NadaMuda DEF ondeVars

LEMMA SegmentarFila ==
    ASSUME FilaInv, buffer \in Nat, NEW novo \in BOOLEAN, NEW fecha \in BOOLEAN,
           Segmentar(novo, fecha)
    PROVE  FilaInv'
<1>1. LiveType /\ NaOrdem /\ TurnoAberto
  BY DEF FilaInv
<1>2. /\ captura.fase = "livre" /\ captura'.fase = "pcm" /\ captura'.fecha = fecha
      /\ falando' = ~fecha /\ novo = ~falando /\ (novo => ~fecha)
      /\ turno' = (IF novo THEN turno + 1 ELSE turno)
      /\ blocos' = blocos + 1 /\ blocos < MaxAudio
      /\ UNCHANGED <<fila, laco, ondeVars, buffer>>
  BY DEF Segmentar, streaming
<1>3. UNCHANGED <<aceitos, ouvidos, semTurno, ultimo>>
  BY <1>2 DEF ondeVars
<1>4. LiveType'
  <2>1. blocos' \in 0..MaxAudio /\ turno' \in Nat
    BY <1>1, <1>2, StreamingAssumption DEF LiveType
  <2>2. captura' \in [fase : {"antes", "livre", "pcm", "marcador", "parar", "esperar", "fim"},
                      fecha : BOOLEAN]
    BY DEF Segmentar
  <2> QED
    BY <1>1, <1>2, <1>3, <2>1, <2>2 DEF LiveType
<1>5. NaOrdem' /\ NoCaminho' = NoCaminho
  BY <1>1, <1>2, Parado
<1>6. Numerados' = Numerados /\ Numerados \in Nat
  BY <1>1, <1>2, Tipado DEF Numerados
<1>7. turno \in Nat /\ turno' \in Nat /\ turno <= turno' /\ ultimo.turno \in Nat
      /\ ultimo'.turno = ultimo.turno /\ ultimo.turno < turno'
  <2>1. turno \in Nat /\ ultimo.turno \in Nat /\ ultimo.turno <= turno
    BY <1>1, Tipado DEF TurnoAberto
  <2>2. ~novo => ultimo.turno < turno
    BY <1>1, <1>2 DEF TurnoAberto, Aberto
  <2> QED
    BY <1>2, <1>3, <2>1, <2>2
<1>8. Aberto' /\ TurnoAberto'
  <2>1. Aberto'
    BY <1>2 DEF Aberto
  <2>2. falando' <=> ~captura'.fecha
    BY <1>2, Zenon
  <2>3. captura'.fase # "marcador" /\ ultimo'.turno <= turno' /\ ultimo'.turno < turno'
    BY <1>2, <1>7
  <2> QED
    BY <2>1, <2>2, <2>3 DEF TurnoAberto
<1>9. Pendentes'
  <2> SUFFICES ASSUME NEW x \in NoCaminho
      PROVE  ultimo.turno < x.turno /\ x.turno <= turno' /\ (x.tipo = "fim" => x.turno < turno')
    BY <1>3, <1>5 DEF Pendentes
  <2>1. x.turno \in Nat
    BY <1>1, CaminhoTipo
  <2>2. ultimo.turno < x.turno /\ x.turno <= turno /\ (x.tipo = "fim" /\ Aberto => x.turno < turno)
    BY DEF FilaInv, Pendentes
  <2>3. CASE novo
    BY <1>2, <1>7, <2>1, <2>2, <2>3
  <2>4. CASE ~novo
    BY <1>2, <2>2, <2>4 DEF Aberto
  <2> QED
    BY <2>3, <2>4
<1>10. Marcados'
  <2> SUFFICES ASSUME NEW t \in (ultimo.turno + 1)..turno'
      PROVE  t \in semTurno \/ Fim(t) \in NoCaminho \/ t = turno'
    BY <1>3, <1>5, <1>8 DEF Marcados, Fim
  <2>1. CASE t = turno'
    BY <2>1
  <2>2. CASE t # turno'
    <3>1. t \in (ultimo.turno + 1)..turno /\ (~novo => t # turno)
      BY <1>2, <1>7, <2>2
    <3>2. t \in semTurno \/ Fim(t) \in NoCaminho \/ (Aberto /\ t = turno)
      BY <3>1 DEF FilaInv, Marcados
    <3>3. novo => ~Aberto
      BY <1>2 DEF Aberto
    <3> QED
      BY <3>1, <3>2, <3>3
  <2> QED
    BY <2>1, <2>2
<1>11. AudioNoCaminho'
  <2>1. \A b \in aceitos : b[1] <= turno'
    <3> SUFFICES ASSUME NEW b \in aceitos PROVE b[1] <= turno'
      OBVIOUS
    <3>1. b[1] \in Nat /\ b[1] <= turno
      BY <1>1, Tipado DEF FilaInv, AudioNoCaminho
    <3> QED
      BY <1>7, <3>1
  <2> QED
    BY <1>3, <1>5, <2>1 DEF FilaInv, AudioNoCaminho, BlocosEm
<1>12. AudioDoSeuTurno'
  BY <1>3 DEF FilaInv, AudioDoSeuTurno
<1>13. Contagem'
  BY <1>2, <1>5, <1>6 DEF FilaInv, Contagem
<1> QED
  BY <1>4, <1>5, <1>8, <1>9, <1>10, <1>11, <1>12, <1>13 DEF FilaInv

LEMMA SegmentarCurtoFila ==
    ASSUME FilaInv, buffer \in Nat, SegmentarCurto
    PROVE  FilaInv'
<1>1. LiveType /\ NaOrdem /\ TurnoAberto
  BY DEF FilaInv
<1>2. /\ captura.fase = "livre" /\ falando /\ falando' = FALSE
      /\ semTurno' = semTurno \cup {turno}
      /\ UNCHANGED <<turno, fila, captura, laco, blocos, aceitos, ouvidos, ultimo, buffer>>
  BY DEF SegmentarCurto, streaming
<1>3. LiveType'
  BY <1>1, <1>2 DEF LiveType
<1>4. NaOrdem' /\ NoCaminho' = NoCaminho
  BY <1>1, <1>2, Parado
<1>5. Aberto /\ ~Aberto' /\ TurnoAberto'
  BY <1>1, <1>2 DEF Aberto, TurnoAberto
<1>6. Pendentes'
  BY <1>2, <1>4, <1>5 DEF FilaInv, Pendentes
<1>7. Marcados'
  <2> SUFFICES ASSUME NEW t \in (ultimo.turno + 1)..turno
      PROVE  t \in semTurno \cup {turno} \/ Fim(t) \in NoCaminho
    BY <1>2, <1>4 DEF Marcados, Fim
  <2> QED
    BY DEF FilaInv, Marcados
<1>8. AudioNoCaminho'
  BY <1>2, <1>4 DEF FilaInv, AudioNoCaminho, BlocosEm
<1>9. AudioDoSeuTurno'
  BY <1>2 DEF FilaInv, AudioDoSeuTurno
<1>10. Contagem'
  BY <1>2, <1>4 DEF FilaInv, Contagem, Numerados
<1> QED
  BY <1>3, <1>4, <1>5, <1>6, <1>7, <1>8, <1>9, <1>10 DEF FilaInv

LEMMA PutPcmFila ==
    ASSUME FilaInv, buffer \in Nat, PutPcm
    PROVE  FilaInv'
<1>1. LiveType /\ NaOrdem /\ TurnoAberto
  BY DEF FilaInv
<1>2. /\ captura.fase = "pcm" /\ captura'.fase = DepoisDoPcm /\ captura'.fecha = captura.fecha
      /\ UNCHANGED <<falando, turno, laco, blocos, ouvidos, semTurno, ultimo, buffer>>
  BY <1>1 DEF PutPcm, streaming, LiveType
<1>3. Aberto /\ Aberto' /\ TurnoAberto'
  BY <1>1, <1>2 DEF Aberto, TurnoAberto, DepoisDoPcm
<1>4. Numerados = blocos - 1 /\ Numerados' = blocos /\ blocos \in Nat /\ turno \in Nat
  BY <1>1, <1>2, Tipado DEF Numerados, DepoisDoPcm
<1>5. captura' \in [fase : {"antes", "livre", "pcm", "marcador", "parar", "esperar", "fim"},
                    fecha : BOOLEAN]
  BY <1>1 DEF LiveType, PutPcm, DepoisDoPcm
<1>6. CASE fila' = fila /\ aceitos' = aceitos
  <2>1. LiveType'
    BY <1>1, <1>2, <1>5, <1>6 DEF LiveType, DepoisDoPcm
  <2>2. NaOrdem' /\ NoCaminho' = NoCaminho
    BY <1>1, <1>2, <1>6, Parado
  <2>3. Pendentes' /\ Marcados'
    BY <1>2, <1>3, <2>2 DEF FilaInv, Pendentes, Marcados, Fim
  <2>4. AudioNoCaminho'
    BY <1>2, <1>6, <2>2 DEF FilaInv, AudioNoCaminho, BlocosEm
  <2>5. AudioDoSeuTurno'
    BY <1>2, <1>6 DEF FilaInv, AudioDoSeuTurno
  <2>6. Contagem'
    <3>1. \A x \in NoCaminho : x.tipo = "pcm" => x.bloco \in Nat
      BY <1>1, CaminhoTipo, Tipos
    <3> QED
      BY <1>2, <1>4, <2>2, <3>1 DEF FilaInv, Contagem
  <2> QED
    BY <1>3, <2>1, <2>2, <2>3, <2>4, <2>5, <2>6 DEF FilaInv
<1>7. CASE fila' = Append(fila, Pcm(turno, blocos)) /\ aceitos' = aceitos \cup {<<turno, blocos>>}
  <2> DEFINE x == Pcm(turno, blocos)
  <2>1. x \in Itens /\ DeTurno(x) /\ x.tipo = "pcm" /\ x.turno = turno /\ x.bloco = blocos
    BY <1>4 DEF Itens, Pcm, DeTurno
  <2> HIDE DEF x
  <2>2. \A y \in NoCaminho : y.turno \in Nat /\ y.turno <= turno /\ (y.tipo = "fim" => y.turno < turno)
    BY <1>1, <1>3, CaminhoTipo DEF FilaInv, Pendentes
  <2>3. \A y \in NoCaminho : y.tipo = "pcm" => y.bloco \in Nat /\ y.bloco < blocos
    <3>1. \A y \in NoCaminho : y.tipo = "pcm" => y.bloco \in Nat
      BY <1>1, CaminhoTipo, Tipos
    <3> QED
      BY <1>4, <3>1 DEF FilaInv, Contagem
  <2>4. \A y \in NoCaminho : Antes(y, x)
    BY <2>1, <2>2, <2>3 DEF Antes
  <2>5. fila' \in Seq(Itens) /\ NoCaminho' = NoCaminho \cup {x} /\ NaOrdem'
    <3>1. fila' = Append(fila, x)
      BY <1>7 DEF x
    <3> QED
      BY <1>1, <1>2, <2>1, <2>4, <3>1, Enfileirar
  <2>6. LiveType'
    <3>1. aceitos' \subseteq Nat \X Nat
      BY <1>1, <1>4, <1>7, Tipado
    <3> QED
      BY <1>1, <1>2, <1>5, <2>5, <3>1 DEF LiveType, DepoisDoPcm
  <2>7. ultimo.turno \in Nat /\ ultimo.turno < turno
    BY <1>1, <1>3, Tipado DEF TurnoAberto
  <2>8. Pendentes'
    <3> SUFFICES ASSUME NEW y \in NoCaminho \cup {x}
        PROVE  ultimo.turno < y.turno /\ y.turno <= turno /\ (y.tipo = "fim" => y.turno < turno)
      BY <1>2, <2>5 DEF Pendentes
    <3>1. CASE y = x
      BY <1>4, <2>1, <2>7, <3>1
    <3>2. CASE y \in NoCaminho
      BY <1>3, <3>2 DEF FilaInv, Pendentes
    <3> QED
      BY <3>1, <3>2
  <2>9. Marcados'
    BY <1>2, <1>3, <2>5 DEF FilaInv, Marcados, Fim
  <2>10. AudioNoCaminho'
    <3>1. BlocosEm(NoCaminho') = BlocosEm(NoCaminho) \cup {<<turno, blocos>>}
      BY <2>1, <2>5 DEF BlocosEm
    <3>2. {b \in aceitos' : b[1] > ultimo'.turno} = {b \in aceitos : b[1] > ultimo.turno} \cup {<<turno, blocos>>}
      BY <1>2, <1>4, <1>7, <2>7
    <3>3. {b \in aceitos' : b[1] > ultimo'.turno} = ouvidos' \cup BlocosEm(NoCaminho')
      BY <1>2, <3>1, <3>2 DEF FilaInv, AudioNoCaminho
    <3>4. \A b \in aceitos' : b[1] <= turno
      BY <1>4, <1>7 DEF FilaInv, AudioNoCaminho
    <3>5. \A b \in ouvidos : b \in aceitos
      BY DEF FilaInv, AudioNoCaminho
    <3>6. \A b \in ouvidos : b[1] <= turno
      BY <3>5 DEF FilaInv, AudioNoCaminho
    <3>7. \A b \in ouvidos, y \in NoCaminho \cup {x} : b[1] <= y.turno
      BY <2>1, <3>6 DEF FilaInv, AudioNoCaminho
    <3> QED
      BY <1>2, <2>5, <3>3, <3>4, <3>7 DEF AudioNoCaminho, BlocosEm
  <2>11. AudioDoSeuTurno'
    <3>1. \A b \in aceitos' : b[1] <= ultimo.turno => b \in aceitos
      BY <1>4, <1>7, <2>7
    <3>2. {b \in aceitos' : b[1] \in (ultimo.anterior + 1)..ultimo.turno}
            = {b \in aceitos : b[1] \in (ultimo.anterior + 1)..ultimo.turno}
      BY <1>7, <3>1
    <3> QED
      BY <1>2, <3>2 DEF FilaInv, AudioDoSeuTurno
  <2>12. Contagem'
    <3>1. buffer <= blocos - 1 /\ buffer < blocos
      BY <1>4 DEF FilaInv, Contagem
    <3>2. \A y \in NoCaminho : y.tipo = "pcm" => buffer < y.bloco /\ y.bloco <= blocos
      BY <1>4, <2>3 DEF FilaInv, Contagem
    <3> QED
      BY <1>2, <1>4, <2>1, <2>5, <3>1, <3>2 DEF Contagem
  <2> QED
    BY <1>3, <2>5, <2>6, <2>8, <2>9, <2>10, <2>11, <2>12 DEF FilaInv
<1> QED
  BY <1>6, <1>7 DEF PutPcm

LEMMA PutMarcadorFila ==
    ASSUME FilaInv, buffer \in Nat, PutMarcador
    PROVE  FilaInv'
<1>1. LiveType /\ NaOrdem /\ TurnoAberto
  BY DEF FilaInv
<1>2. /\ captura.fase = "marcador" /\ captura'.fase = "livre" /\ captura'.fecha = captura.fecha
      /\ UNCHANGED <<falando, turno, laco, blocos, aceitos, ouvidos, ultimo, buffer>>
  BY <1>1 DEF PutMarcador, streaming, LiveType
<1>3. Aberto /\ ~Aberto' /\ TurnoAberto'
  BY <1>1, <1>2 DEF Aberto, TurnoAberto
<1>4. Numerados' = Numerados /\ turno \in Nat
  BY <1>1, <1>2, Tipado DEF Numerados
<1>5. captura' \in [fase : {"antes", "livre", "pcm", "marcador", "parar", "esperar", "fim"},
                    fecha : BOOLEAN]
  BY <1>1 DEF LiveType, PutMarcador
<1>6. CASE fila' = fila /\ semTurno' = semTurno \cup {turno}
  <2>1. LiveType'
    BY <1>1, <1>2, <1>5, <1>6 DEF LiveType
  <2>2. NaOrdem' /\ NoCaminho' = NoCaminho
    BY <1>1, <1>2, <1>6, Parado
  <2>3. Pendentes'
    BY <1>2, <1>3, <2>2 DEF FilaInv, Pendentes
  <2>4. Marcados'
    <3> SUFFICES ASSUME NEW t \in (ultimo.turno + 1)..turno
        PROVE  t \in semTurno \cup {turno} \/ Fim(t) \in NoCaminho
      BY <1>2, <1>6, <2>2 DEF Marcados, Fim
    <3> QED
      BY DEF FilaInv, Marcados
  <2>5. AudioNoCaminho'
    BY <1>2, <2>2 DEF FilaInv, AudioNoCaminho, BlocosEm
  <2>6. AudioDoSeuTurno'
    BY <1>2, <1>6 DEF FilaInv, AudioDoSeuTurno
  <2>7. Contagem'
    BY <1>2, <1>4, <2>2 DEF FilaInv, Contagem
  <2> QED
    BY <1>3, <2>1, <2>2, <2>3, <2>4, <2>5, <2>6, <2>7 DEF FilaInv
<1>7. CASE fila' = Append(fila, Fim(turno)) /\ semTurno' = semTurno
  <2> DEFINE x == Fim(turno)
  <2>1. x \in Itens /\ DeTurno(x) /\ x.tipo = "fim" /\ x.turno = turno
    BY <1>4 DEF Itens, Fim, DeTurno
  <2>2. x = Fim(turno)
    OBVIOUS
  <2> HIDE DEF x
  <2>3. \A y \in NoCaminho : y.turno \in Nat /\ y.turno <= turno /\ (y.tipo = "fim" => y.turno < turno)
    BY <1>1, <1>3, CaminhoTipo DEF FilaInv, Pendentes
  <2>4. \A y \in NoCaminho : Antes(y, x)
    BY <2>1, <2>3 DEF Antes
  <2>5. fila' \in Seq(Itens) /\ NoCaminho' = NoCaminho \cup {x} /\ NaOrdem'
    <3>1. fila' = Append(fila, x)
      BY <1>7, <2>2
    <3> QED
      BY <1>1, <1>2, <2>1, <2>4, <3>1, Enfileirar
  <2>6. LiveType'
    BY <1>1, <1>2, <1>5, <2>5 DEF LiveType
  <2>7. ultimo.turno \in Nat /\ ultimo.turno < turno
    BY <1>1, <1>3, Tipado DEF TurnoAberto
  <2>8. Pendentes'
    <3> SUFFICES ASSUME NEW y \in NoCaminho \cup {x}
        PROVE  ultimo.turno < y.turno /\ y.turno <= turno
      BY <1>2, <1>3, <2>5 DEF Pendentes
    <3>1. CASE y = x
      BY <1>4, <2>1, <2>7, <3>1
    <3>2. CASE y \in NoCaminho
      BY <3>2 DEF FilaInv, Pendentes
    <3> QED
      BY <3>1, <3>2
  <2>9. Marcados'
    <3> SUFFICES ASSUME NEW t \in (ultimo.turno + 1)..turno
        PROVE  t \in semTurno \/ Fim(t) \in NoCaminho \cup {x}
      BY <1>2, <1>7, <2>5 DEF Marcados, Fim
    <3> QED
      BY <2>2 DEF FilaInv, Marcados
  <2>10. AudioNoCaminho'
    <3>1. BlocosEm(NoCaminho') = BlocosEm(NoCaminho)
      BY <2>1, <2>5 DEF BlocosEm
    <3>2. \A b \in ouvidos : b[1] <= turno
      BY DEF FilaInv, AudioNoCaminho
    <3>3. \A b \in ouvidos, y \in NoCaminho \cup {x} : b[1] <= y.turno
      BY <2>1, <3>2 DEF FilaInv, AudioNoCaminho
    <3> QED
      BY <1>2, <2>5, <3>1, <3>3 DEF FilaInv, AudioNoCaminho, BlocosEm
  <2>11. AudioDoSeuTurno'
    BY <1>2, <1>7 DEF FilaInv, AudioDoSeuTurno
  <2>12. Contagem'
    <3>1. \A y \in NoCaminho' : y.tipo = "pcm" => y \in NoCaminho
      BY <2>1, <2>5
    <3> QED
      BY <1>2, <1>4, <3>1 DEF FilaInv, Contagem
  <2> QED
    BY <1>3, <2>5, <2>6, <2>8, <2>9, <2>10, <2>11, <2>12 DEF FilaInv
<1> QED
  BY <1>6, <1>7 DEF PutMarcador

\* stop, from the call to the return.
LEMMA PararFila ==
    ASSUME FilaInv, buffer \in Nat, Stop \/ PutNone \/ Join
    PROVE  FilaInv'
<1>1. LiveType /\ NaOrdem /\ TurnoAberto
  BY DEF FilaInv
<1>2. /\ captura.fase \in {"livre", "parar", "esperar"}
      /\ captura'.fase \in {"parar", "esperar", "fim"}
      /\ captura' \in [fase : {"antes", "livre", "pcm", "marcador", "parar", "esperar", "fim"},
                       fecha : BOOLEAN]
      /\ UNCHANGED <<falando, turno, laco, blocos, aceitos, ouvidos, semTurno, ultimo, buffer>>
  <2>1. CASE Stop
    BY <1>1, <2>1 DEF Stop, streaming, LiveType, ondeVars
  <2>2. CASE PutNone
    BY <1>1, <2>2 DEF PutNone, streaming, LiveType, ondeVars
  <2>3. CASE Join
    BY <1>1, <2>3 DEF Join, streaming, LiveType, ondeVars
  <2> QED
    BY <2>1, <2>2, <2>3
<1>3. (Aberto' <=> Aberto) /\ TurnoAberto'
  BY <1>1, <1>2 DEF Aberto, TurnoAberto
<1>4. Numerados' = Numerados
  BY <1>2 DEF Numerados
<1>5. fila' \in Seq(Itens) /\ NoCaminho' = NoCaminho /\ NaOrdem'
  <2>1. CASE fila' = fila
    BY <1>1, <1>2, <2>1, Parado DEF LiveType
  <2>2. CASE fila' = Append(fila, None)
    <3> DEFINE x == None
    <3>1. x \in Itens /\ ~DeTurno(x)
      BY Tipos DEF Itens
    <3>2. fila' = Append(fila, x)
      BY <2>2
    <3> HIDE DEF x
    <3>3. \A y \in NoCaminho : Antes(y, x)
      BY <3>1 DEF Antes
    <3> QED
      BY <1>1, <1>2, <3>1, <3>2, <3>3, Enfileirar
  <2> QED
    BY <2>1, <2>2 DEF Stop, PutNone, Join
<1>6. LiveType'
  BY <1>1, <1>2, <1>5 DEF LiveType
<1> QED
  BY <1>2, <1>3, <1>4, <1>5, <1>6, NadaMuda

\* Whatever the transcribing thread leaves alone.
LEMMA DoLaco ==
    ASSUME FilaInv, UNCHANGED capturaVars
    PROVE  /\ UNCHANGED <<falando, turno, captura, blocos, aceitos>>
           /\ (Aberto' <=> Aberto) /\ Numerados' = Numerados
           /\ UNCHANGED <<ultimo>> => TurnoAberto'
           /\ laco.fase = "item" => captura.fase # "antes"
BY DEF capturaVars, Aberto, Numerados, FilaInv, TurnoAberto, LiveType

LEMMA PegarFila ==
    ASSUME FilaInv, buffer \in Nat, Pegar
    PROVE  FilaInv'
<1>1. LiveType /\ NaOrdem /\ UNCHANGED <<capturaVars, ouvidos, semTurno, ultimo, buffer>>
  BY DEF FilaInv, Pegar, streaming
<1>2. fila # <<>> /\ fila \in Seq(Itens) /\ fila' = Tail(fila) /\ Head(fila) = fila[1]
      /\ laco.fase = "pegar" /\ laco' = [fase |-> "item", item |-> fila[1]]
  <2>1. fila # <<>> /\ fila \in Seq(Itens)
    BY <1>1 DEF Pegar, LiveType
  <2>2. Head(fila) = fila[1]
    BY <2>1, Cauda
  <2> QED
    BY <2>1, <2>2 DEF Pegar
<1>3. laco'.fase = "item" /\ laco'.item = fila[1]
  BY <1>2
<1>4. fila' \in Seq(Itens) /\ laco'.item \in Itens /\ NoCaminho' = {y \in NaFila : DeTurno(y)} /\ NaOrdem'
  BY <1>1, <1>2, <1>3, Seguir
<1>5. NoCaminho' = NoCaminho
  BY <1>1, <1>2, <1>4, SemAMao
<1>6. LiveType'
  BY <1>1, <1>2, <1>3, <1>4, DoLaco DEF LiveType
<1> QED
  BY <1>1, <1>4, <1>5, <1>6, DoLaco, NadaMuda

LEMMA AbsorverFila ==
    ASSUME FilaInv, buffer \in Nat, Absorver
    PROVE  FilaInv'
<1> DEFINE x == laco.item
<1>1. LiveType /\ NaOrdem /\ UNCHANGED <<capturaVars, semTurno, ultimo>>
      /\ buffer' = buffer + 1 /\ ouvidos' = ouvidos \cup {<<x.turno, x.bloco>>}
      /\ laco.fase = "item" /\ x.tipo = "pcm"
  BY DEF FilaInv, Absorver, InsertAudio, Item
<1>2. x \in Itens /\ DeTurno(x) /\ x.turno \in Nat /\ x.bloco \in Nat
      /\ x \in NoCaminho /\ {y \in NaFila : DeTurno(y)} = NoCaminho \ {x}
      /\ \A y \in NoCaminho \ {x} : Antes(x, y)
  <2>1. x \in Itens
    BY <1>1 DEF LiveType
  <2> QED
    BY <1>1, <2>1, SemAMao, Tipos DEF DeTurno
<1>3. /\ fila' \in Seq(Itens) /\ laco'.item \in Itens /\ laco'.fase = "item"
      /\ laco' \in [fase : {"nenhuma", "pegar", "item", "fim"}, item : Itens]
      /\ NoCaminho' = NoCaminho \ {x} /\ NaOrdem'
  <2>1. laco \in [fase : {"nenhuma", "pegar", "item", "fim"}, item : Itens] /\ fila \in Seq(Itens)
    BY <1>1 DEF LiveType
  <2>2. CASE fila # <<>>
    <3>1. fila' = Tail(fila) /\ fila[1] \in Itens
      BY <2>1, <2>2, TiraOPrimeiro, Cauda DEF Absorver, Proximo
    <3>2. laco' = [laco EXCEPT !.item = fila[1]]
      BY <2>2 DEF Absorver, Proximo
    <3>3. laco'.item = fila[1] /\ laco'.fase = "item"
      BY <1>1, <2>1, <3>2
    <3> QED
      BY <1>1, <1>2, <2>1, <2>2, <3>1, <3>2, <3>3, Seguir
  <2>3. CASE fila = <<>>
    <3>1. fila' = fila /\ laco' = [laco EXCEPT !.item = SemMais]
      BY <2>3 DEF Absorver
    <3>2. laco'.item = SemMais /\ laco'.fase = "item" /\ SemMais \in Itens
      BY <1>1, <2>1, <3>1 DEF Itens
    <3> QED
      BY <1>1, <1>2, <2>1, <3>1, <3>2, Largar
  <2> QED
    BY <2>2, <2>3
<1>4. /\ UNCHANGED <<falando, turno, captura, blocos, aceitos>>
      /\ (Aberto' <=> Aberto) /\ Numerados' = Numerados /\ TurnoAberto'
      /\ captura.fase # "antes"
  BY <1>1, DoLaco
<1>5. LiveType'
  <2>1. ouvidos' \subseteq Nat \X Nat
    BY <1>1, <1>2, Tipado
  <2> QED
    BY <1>1, <1>3, <1>4, <2>1 DEF LiveType
<1> HIDE DEF x
<1>6. Pendentes'
  BY <1>1, <1>3, <1>4 DEF FilaInv, Pendentes
<1>7. Marcados'
  <2> SUFFICES ASSUME NEW t, Fim(t) \in NoCaminho PROVE Fim(t) \in NoCaminho \ {x}
    BY <1>1, <1>3, <1>4 DEF FilaInv, Marcados, Fim
  <2> QED
    BY <1>1, Tipos DEF x
<1>8. AudioNoCaminho'
  <2>1. BlocosEm(NoCaminho) = BlocosEm(NoCaminho \ {x}) \cup {<<x.turno, x.bloco>>}
    BY <1>1, <1>2 DEF BlocosEm, x
  <2>2. {b \in aceitos : b[1] > ultimo.turno} = ouvidos' \cup BlocosEm(NoCaminho \ {x})
    BY <1>1, <2>1 DEF FilaInv, AudioNoCaminho
  <2>3. \A b \in ouvidos', y \in NoCaminho \ {x} : b[1] <= y.turno
    <3>1. \A y \in NoCaminho \ {x} : x.turno <= y.turno
      BY <1>2 DEF Antes, NoCaminho
    <3> QED
      BY <1>1, <3>1 DEF FilaInv, AudioNoCaminho
  <2> QED
    BY <1>1, <1>3, <1>4, <2>2, <2>3 DEF FilaInv, AudioNoCaminho, BlocosEm
<1>9. AudioDoSeuTurno'
  BY <1>1, <1>4 DEF FilaInv, AudioDoSeuTurno
<1>10. Contagem'
  <2>1. buffer < x.bloco /\ x.bloco <= Numerados /\ Numerados \in Int
    BY <1>1, <1>2, Tipado DEF FilaInv, Contagem, Numerados, x
  <2>2. \A y \in NoCaminho \ {x} : y.tipo = "pcm" => y.bloco \in Nat /\ x.bloco < y.bloco
                                                    /\ y.bloco <= Numerados
    <3> SUFFICES ASSUME NEW y \in NoCaminho \ {x}, y.tipo = "pcm"
        PROVE  y.bloco \in Nat /\ x.bloco < y.bloco /\ y.bloco <= Numerados
      OBVIOUS
    <3>1. y.bloco \in Nat
      BY <1>1, CaminhoTipo, Tipos
    <3>2. x.bloco < y.bloco
      BY <1>1, <1>2, Tipos DEF Antes, DeTurno, x
    <3> QED
      BY <3>1, <3>2 DEF FilaInv, Contagem
  <2> QED
    BY <1>1, <1>2, <1>3, <1>4, <2>1, <2>2 DEF Contagem
<1> QED
  BY <1>3, <1>4, <1>5, <1>6, <1>7, <1>8, <1>9, <1>10 DEF FilaInv

\* The pass in between takes some audio off the buffer, if anything.
LEMMA SemItemFila ==
    ASSUME FilaInv, buffer \in Nat, buffer' \in Nat, buffer' <= buffer,
           Parcial \/ Encerrar
    PROVE  FilaInv'
<1>1. /\ LiveType /\ NaOrdem /\ UNCHANGED <<capturaVars, fila, ouvidos, semTurno, ultimo>>
      /\ laco.fase = "item" /\ ~DeTurno(laco.item)
      /\ laco' \in {Volta, [fase |-> "fim", item |-> None]}
  BY DEF FilaInv, Parcial, Encerrar, Item, DeTurno
<1>2. laco'.fase # "item" /\ laco' \in [fase : {"nenhuma", "pegar", "item", "fim"}, item : Itens]
  BY <1>1 DEF Volta, Itens
<1>3. NoCaminho' = NoCaminho /\ NaOrdem'
  BY <1>1, <1>2, Largar, SemAMao
<1>4. LiveType'
  BY <1>1, <1>2, DoLaco DEF LiveType
<1> QED
  BY <1>1, <1>3, <1>4, DoLaco, NadaMuda

LEMMA FimDeTurnoFila ==
    ASSUME FilaInv, buffer \in Nat, FimDeTurno
    PROVE  FilaInv'
<1> DEFINE x == laco.item
<1>1. /\ LiveType /\ NaOrdem /\ UNCHANGED <<capturaVars, fila, semTurno>>
      /\ buffer' = 0 /\ ouvidos' = {}
      /\ ultimo' = [anterior |-> ultimo.turno, turno |-> x.turno, audio |-> ouvidos]
      /\ laco.fase = "item" /\ x.tipo = "fim" /\ laco' = Volta
  BY DEF FilaInv, FimDeTurno, Reset, Item
<1>2. x \in Itens /\ DeTurno(x) /\ x.turno \in Nat /\ x \in NoCaminho /\ x = Fim(x.turno)
      /\ {y \in NaFila : DeTurno(y)} = NoCaminho \ {x}
      /\ \A y \in NoCaminho \ {x} : Antes(x, y)
  <2>1. x \in Itens
    BY <1>1 DEF LiveType
  <2> QED
    BY <1>1, <2>1, SemAMao, Tipos DEF DeTurno
<1>3. laco'.fase # "item" /\ laco' \in [fase : {"nenhuma", "pegar", "item", "fim"}, item : Itens]
  BY <1>1 DEF Volta, Itens
<1>4. NoCaminho' = NoCaminho \ {x} /\ NaOrdem'
  BY <1>1, <1>2, <1>3, Largar
<1>5. /\ UNCHANGED <<falando, turno, captura, blocos, aceitos>>
      /\ (Aberto' <=> Aberto) /\ Numerados' = Numerados
      /\ captura.fase # "antes"
  BY <1>1, DoLaco
<1>6. ultimo.turno \in Nat /\ ultimo'.turno = x.turno /\ ultimo'.anterior = ultimo.turno
      /\ ultimo'.audio = ouvidos /\ turno \in Nat
  BY <1>1, Tipado
<1>7. \A y \in NoCaminho \ {x} : y.turno \in Nat /\ x.turno < y.turno
  <2> SUFFICES ASSUME NEW y \in NoCaminho \ {x} PROVE y.turno \in Nat /\ x.turno < y.turno
    OBVIOUS
  <2>1. y.turno \in Nat /\ DeTurno(y)
    BY <1>1, CaminhoTipo
  <2> QED
    BY <1>1, <1>2, <2>1 DEF Antes
<1>8. ultimo.turno < x.turno /\ x.turno <= turno /\ (Aberto => x.turno < turno)
  BY <1>1, <1>2 DEF FilaInv, Pendentes
<1>9. LiveType'
  <2>1. ultimo' \in [anterior : Nat, turno : Nat, audio : SUBSET (Nat \X Nat)]
    BY <1>1, <1>2, <1>6, Tipado
  <2> QED
    BY <1>1, <1>3, <1>5, <2>1 DEF LiveType
<1> HIDE DEF x
<1>10. TurnoAberto'
  <2>1. ultimo'.turno <= turno /\ (Aberto => ultimo'.turno < turno)
    BY <1>6, <1>8
  <2>2. (captura.fase = "pcm" => (falando <=> ~captura.fecha)) /\ (captura.fase = "marcador" => ~falando)
    BY DEF FilaInv, TurnoAberto
  <2> QED
    BY <1>5, <2>1, <2>2 DEF TurnoAberto
<1>11. Pendentes'
  BY <1>4, <1>5, <1>6, <1>7 DEF FilaInv, Pendentes
<1>12. Marcados'
  <2> SUFFICES ASSUME NEW t \in (x.turno + 1)..turno
      PROVE  t \in semTurno \/ Fim(t) \in NoCaminho \ {x} \/ (Aberto /\ t = turno)
    BY <1>1, <1>4, <1>5, <1>6 DEF Marcados, Fim
  <2>1. t \in (ultimo.turno + 1)..turno /\ t # x.turno
    BY <1>2, <1>6, <1>8
  <2>2. Fim(t) # x
    BY <1>2, <2>1 DEF Fim
  <2> QED
    BY <2>1, <2>2 DEF FilaInv, Marcados
<1>13. BlocosEm(NoCaminho \ {x}) = BlocosEm(NoCaminho)
  BY <1>1 DEF BlocosEm, x
<1>14. \A b \in BlocosEm(NoCaminho) : b[1] \in Nat /\ x.turno < b[1]
  <2>1. \A b \in BlocosEm(NoCaminho \ {x}) : b[1] \in Nat /\ x.turno < b[1]
    BY <1>7 DEF BlocosEm
  <2> QED
    BY <1>13, <2>1
<1>15. \A b \in ouvidos : b[1] \in Nat /\ ultimo.turno < b[1] /\ b[1] <= x.turno /\ b \in aceitos
  BY <1>1, <1>2, Tipado DEF FilaInv, AudioNoCaminho
<1>16. AudioNoCaminho'
  <2>1. {b \in aceitos : b[1] > x.turno} = BlocosEm(NoCaminho)
    <3>1. ASSUME NEW b \in aceitos, b[1] > x.turno PROVE b \in BlocosEm(NoCaminho)
      <4>1. b[1] \in Nat /\ b[1] > ultimo.turno /\ b \notin ouvidos
        BY <1>1, <1>2, <1>6, <1>8, <1>15, <3>1, Tipado
      <4> QED
        BY <4>1 DEF FilaInv, AudioNoCaminho
    <3>2. ASSUME NEW b \in BlocosEm(NoCaminho) PROVE b \in aceitos /\ b[1] > x.turno
      BY <1>14 DEF FilaInv, AudioNoCaminho
    <3> QED
      BY <3>1, <3>2
  <2>2. {b \in aceitos' : b[1] > ultimo'.turno} = ouvidos' \cup BlocosEm(NoCaminho')
    BY <1>1, <1>4, <1>5, <1>6, <1>13, <2>1
  <2> QED
    BY <1>1, <1>5, <2>2 DEF FilaInv, AudioNoCaminho, BlocosEm
<1>17. AudioDoSeuTurno'
  <2>1. ouvidos = {b \in aceitos : b[1] \in (ultimo.turno + 1)..x.turno}
    <3>1. ASSUME NEW b \in aceitos, b[1] \in (ultimo.turno + 1)..x.turno PROVE b \in ouvidos
      <4>1. b[1] > ultimo.turno /\ b \notin BlocosEm(NoCaminho)
        BY <1>2, <1>6, <1>14, <3>1
      <4> QED
        BY <4>1 DEF FilaInv, AudioNoCaminho
    <3> QED
      BY <1>2, <1>6, <1>15, <3>1
  <2>2. (ultimo.turno + 1)..(x.turno - 1) \subseteq semTurno
    <3> SUFFICES ASSUME NEW t \in (ultimo.turno + 1)..(x.turno - 1) PROVE t \in semTurno
      OBVIOUS
    <3>1. t \in (ultimo.turno + 1)..turno /\ t # turno /\ t < x.turno
      BY <1>2, <1>6, <1>8
    <3>2. Fim(t) \notin NoCaminho
      <4>1. Fim(t).turno = t /\ Fim(t) # x
        BY <1>2, <3>1 DEF Fim
      <4> QED
        BY <1>2, <1>7, <3>1, <4>1
    <3> QED
      BY <3>1, <3>2 DEF FilaInv, Marcados
  <2> QED
    BY <1>1, <1>5, <1>6, <2>1, <2>2 DEF AudioDoSeuTurno
<1>18. Contagem'
  <2>1. Numerados \in Int /\ 0 <= Numerados
    BY <1>1, Tipado DEF FilaInv, Contagem, Numerados
  <2>2. \A y \in NoCaminho : y.tipo = "pcm" => y.bloco \in Nat /\ 0 < y.bloco
    BY <1>1, CaminhoTipo, Tipos DEF FilaInv, Contagem
  <2> QED
    BY <1>1, <1>4, <1>5, <2>1, <2>2 DEF FilaInv, Contagem
<1> QED
  BY <1>4, <1>9, <1>10, <1>11, <1>12, <1>16, <1>17, <1>18 DEF FilaInv

\* The turn loses its marker and leaves its audio to the next one.
LEMMA FimDeTurnoFalhaFila ==
    ASSUME FilaInv, buffer \in Nat, FimDeTurnoFalha
    PROVE  FilaInv'
<1> DEFINE x == laco.item
<1>1. /\ LiveType /\ NaOrdem /\ UNCHANGED <<capturaVars, fila, ouvidos, ultimo, buffer>>
      /\ semTurno' = semTurno \cup {x.turno}
      /\ laco.fase = "item" /\ x.tipo = "fim" /\ laco' = Volta
  BY DEF FilaInv, FimDeTurnoFalha, FinalizeFalha, Item, DepoisDeFalhar, streaming
<1>2. x \in Itens /\ x = Fim(x.turno) /\ {y \in NaFila : DeTurno(y)} = NoCaminho \ {x}
  <2>1. x \in Itens
    BY <1>1 DEF LiveType
  <2> QED
    BY <1>1, <2>1, SemAMao, Tipos DEF DeTurno
<1>3. laco'.fase # "item" /\ laco' \in [fase : {"nenhuma", "pegar", "item", "fim"}, item : Itens]
  BY <1>1 DEF Volta, Itens
<1>4. NoCaminho' = NoCaminho \ {x} /\ NaOrdem'
  BY <1>1, <1>2, <1>3, Largar
<1>5. /\ UNCHANGED <<falando, turno, captura, blocos, aceitos>>
      /\ (Aberto' <=> Aberto) /\ Numerados' = Numerados /\ TurnoAberto'
      /\ captura.fase # "antes"
  BY <1>1, DoLaco
<1>6. LiveType'
  BY <1>1, <1>3, <1>5 DEF LiveType
<1> HIDE DEF x
<1>7. Pendentes'
  BY <1>1, <1>4, <1>5 DEF FilaInv, Pendentes
<1>8. Marcados'
  <2> SUFFICES ASSUME NEW t \in (ultimo.turno + 1)..turno, Fim(t) = x PROVE t = x.turno
    BY <1>1, <1>4, <1>5 DEF FilaInv, Marcados, Fim
  <2> QED
    BY <1>2 DEF Fim
<1>9. AudioNoCaminho'
  <2>1. BlocosEm(NoCaminho \ {x}) = BlocosEm(NoCaminho)
    BY <1>1 DEF BlocosEm, x
  <2> QED
    BY <1>1, <1>4, <1>5, <2>1 DEF FilaInv, AudioNoCaminho, BlocosEm
<1>10. AudioDoSeuTurno'
  BY <1>1, <1>5 DEF FilaInv, AudioDoSeuTurno
<1>11. Contagem'
  BY <1>1, <1>4, <1>5 DEF FilaInv, Contagem
<1> QED
  BY <1>4, <1>5, <1>6, <1>7, <1>8, <1>9, <1>10, <1>11 DEF FilaInv

-----------------------------------------------------------------------------
(* The streaming: what a pass hears, what is confirmed of it, what is cut. *)

\* A pass hears words of some length in the buffer, one after another, that begin
\* about where the confirmed ones end or later.
LEMMA Hipotese ==
    ASSUME StreamingType, buffer <= MaxAudio, NEW h \in Hipoteses
    PROVE  /\ h \in Seq(Palavra)
           /\ \A i \in 1..Len(h) : /\ h[i].start < h[i].end
                                   /\ h[i].start >= buffer_offset
                                   /\ h[i].end <= buffer_offset + buffer
                                   /\ Nova(h[i])
           /\ EmSequencia(h)
<1>1. buffer \in 0..MaxAudio /\ buffer_offset \in Nat /\ Duracoes \subseteq Nat \ {0}
      /\ MaxPalavras \in Nat
  BY StreamingAssumption DEF StreamingType
<1>2. PICK f \in Falas(buffer) : h = NoTempo(f)
  BY DEF Hipoteses
<1>3. f \in BoundedSeq(Palavras(buffer), MaxPalavras) /\ EmSequencia(f)
  BY <1>1, <1>2 DEF Falas, FalasAte
<1>4. PICK m \in Nat : f \in [1..m -> Palavras(buffer)]
  BY <1>1, <1>3 DEF BoundedSeq, SeqOf
<1>5. f \in Seq(Palavras(buffer)) /\ Len(f) = m
  BY <1>4
<1>6. \A i \in 1..m : /\ f[i].key \in Chaves /\ f[i].start \in 0..buffer /\ f[i].end \in 0..buffer
                      /\ f[i].end - f[i].start \in Nat \ {0}
  BY <1>1, <1>4 DEF Palavras
<1>7. h = [i \in 1..m |-> [key   |-> f[i].key,
                           start |-> f[i].start + buffer_offset,
                           end   |-> f[i].end + buffer_offset]]
  BY <1>2, <1>5 DEF NoTempo
<1>8. \A i \in 1..m : /\ h[i].key = f[i].key
                      /\ h[i].start = f[i].start + buffer_offset
                      /\ h[i].end = f[i].end + buffer_offset
                      /\ h[i] \in Palavra
  BY <1>1, <1>6, <1>7 DEF Palavra
<1>9. h \in Seq(Palavra) /\ Len(h) = m
  <2>1. h \in [1..m -> Palavra]
    BY <1>7, <1>8
  <2> QED
    BY <2>1, IsASeq
<1>10. \A i \in 1..Len(h) : Nova(h[i])
  BY DEF Hipoteses
<1>11. \A i \in 1..Len(h) : h[i].start < h[i].end /\ h[i].start >= buffer_offset
                            /\ h[i].end <= buffer_offset + buffer
  <2> TAKE i \in 1..Len(h)
  <2>1. f[i].start \in 0..buffer /\ f[i].end \in 0..buffer /\ f[i].end - f[i].start \in Nat \ {0}
    BY <1>6, <1>9
  <2>2. h[i].start = f[i].start + buffer_offset /\ h[i].end = f[i].end + buffer_offset
    BY <1>8, <1>9
  <2> QED
    BY <1>1, <2>1, <2>2
<1>12. EmSequencia(h)
  <2>1. \A i, j \in 1..m : i < j => f[i].end <= f[j].start
    BY <1>3, <1>5 DEF EmSequencia
  <2>2. \A i, j \in 1..m : i < j => h[i].end <= h[j].start
    <3> TAKE i, j \in 1..m
    <3>1. f[i].end \in 0..buffer /\ f[j].start \in 0..buffer
      BY <1>6
    <3>2. h[i].end = f[i].end + buffer_offset /\ h[j].start = f[j].start + buffer_offset
      BY <1>8
    <3> QED
      BY <1>1, <2>1, <3>1, <3>2
  <2> QED
    BY <1>9, <2>2 DEF EmSequencia
<1> QED
  BY <1>9, <1>10, <1>11, <1>12

LEMMA AcordoCabe ==
    ASSUME NEW h \in Seq(Palavra), previous \in Seq(Palavra)
    PROVE  Acordo(h) \in 0..Len(h)
<1> DEFINE S == {n \in 0..Len(h) : n <= Len(previous) /\ Concordam(h, n)}
<1>1. Len(h) \in Nat /\ Len(previous) \in Nat
  OBVIOUS
<1>2. 0 \in S
  <2>1. Concordam(h, 0)
    <3>1. 1..0 = {}
      OBVIOUS
    <3> QED
      BY <3>1, Zenon DEF Concordam
  <2>2. 0 \in 0..Len(h) /\ 0 <= Len(previous)
    BY <1>1
  <2> QED
    BY <2>1, <2>2
<1>3. S \in SUBSET (0..Len(h)) /\ S # {}
  BY <1>2
<1>4. Acordo(h) = Max(S)
  BY DEF Acordo
<1> HIDE DEF S
<1>5. Max(S) \in S
  BY <1>1, <1>3, MaxExiste
<1> QED
  BY <1>3, <1>4, <1>5

\* The first words of a hypothesis, and the rest.
LEMMA Partes ==
    ASSUME NEW h \in Seq(Palavra), NEW n \in 0..Len(h)
    PROVE  /\ SubSeq(h, 1, n) \in Seq(Palavra) /\ Len(SubSeq(h, 1, n)) = n
           /\ \A i \in 1..n : i \in 1..Len(h) /\ SubSeq(h, 1, n)[i] = h[i]
           /\ SubSeq(h, n + 1, Len(h)) \in Seq(Palavra) /\ Len(SubSeq(h, n + 1, Len(h))) = Len(h) - n
           /\ \A i \in 1..(Len(h) - n) : n + i \in 1..Len(h) /\ SubSeq(h, n + 1, Len(h))[i] = h[n + i]
<1>1. Len(h) \in Nat
  OBVIOUS
<1>2. /\ SubSeq(h, 1, n) \in Seq(Palavra)
      /\ Len(SubSeq(h, 1, n)) = n
      /\ \A i \in 1..n : SubSeq(h, 1, n)[i] = h[i]
  <2>1. \A i \in 1..n : h[i] \in Palavra
    BY <1>1
  <2>2. SubSeq(h, 1, n) = [i \in 1..n |-> h[i]]
    BY <1>1
  <2> QED
    BY <1>1, <2>1, <2>2, IsASeq
<1>3. /\ SubSeq(h, n + 1, Len(h)) \in Seq(Palavra)
      /\ Len(SubSeq(h, n + 1, Len(h))) = Len(h) - n
      /\ \A i \in 1..(Len(h) - n) : SubSeq(h, n + 1, Len(h))[i] = h[n + i]
  <2>1. \A i \in 1..(Len(h) - n) : h[n + i] \in Palavra
    BY <1>1
  <2>2. SubSeq(h, n + 1, Len(h)) = [i \in 1..(Len(h) - n) |-> h[n + i]]
    BY <1>1
  <2> QED
    BY <1>1, <2>1, <2>2, IsASeq
<1> QED
  BY <1>1, <1>2, <1>3

\* New words after a text.
LEMMA Emenda ==
    ASSUME NEW c \in Seq(Palavra), NEW h \in Seq(Palavra)
    PROVE  /\ c \o h \in Seq(Palavra) /\ Len(c) \in Nat /\ Len(h) \in Nat
           /\ Len(c \o h) = Len(c) + Len(h)
           /\ \A i \in 1..Len(c) : (c \o h)[i] = c[i]
           /\ \A i \in 1..Len(h) : (c \o h)[Len(c) + i] = h[i]
           /\ \A i \in 1..Len(c \o h) : i \in 1..Len(c) \/ i - Len(c) \in 1..Len(h)
BY ConcatProperties

LEMMA Distancia ==
    ASSUME NEW a \in Nat, NEW b \in Nat, NEW c \in Nat, NEW d \in Nat, NEW T \in Nat,
           d >= c - T, c - b >= T, b >= a - T
    PROVE  d >= a - T
OBVIOUS

LEMMA Junta ==
    ASSUME Tolerancia \in Nat,
           NEW c \in Seq(Palavra), NEW h \in Seq(Palavra), EmOrdem(c), EmSequencia(h),
           c # <<>> => \A k \in 1..Len(h) : h[k].start >= Last(c).end - Tolerancia
    PROVE  EmOrdem(c \o h)
<1> DEFINE m == Len(c)
           t == c \o h
<1>1. /\ t \in Seq(Palavra) /\ m \in Nat /\ Len(t) = m + Len(h) /\ Len(h) \in Nat
      /\ \A i \in 1..m : t[i] = c[i]
      /\ \A i \in 1..Len(h) : t[m + i] = h[i]
      /\ \A i \in 1..Len(t) : i \in 1..m \/ i - m \in 1..Len(h)
  BY Emenda
<1>2. \A i \in 1..Len(t) : t[i].start \in Nat /\ t[i].end \in Nat
  <2>1. \A i \in 1..Len(t) : t[i] \in Palavra
    BY <1>1, ElementOfSeq
  <2> QED
    BY <2>1 DEF Palavra
<1> HIDE DEF t
<1> SUFFICES ASSUME NEW i \in 1..Len(t), NEW j \in 1..Len(t), i < j,
                    \A k \in (i + 1)..(j - 1) : ~Curta(t[k])
    PROVE  t[j].start >= t[i].end - Tolerancia
  BY DEF EmOrdem, t
<1>3. CASE j \in 1..m
  <2>1. i \in 1..m /\ \A k \in (i + 1)..(j - 1) : t[k] = c[k]
    BY <1>1, <1>3
  <2>2. c[j].start >= c[i].end - Tolerancia
    BY <1>3, <2>1 DEF EmOrdem
  <2> QED
    BY <1>1, <1>3, <2>1, <2>2
<1>4. CASE j - m \in 1..Len(h)
  <2>1. t[j] = h[j - m] /\ j \in Nat /\ m < j
    <3>1. m + (j - m) = j
      BY <1>1
    <3> QED
      BY <1>1, <1>4, <3>1
  <2>2. CASE i - m \in 1..Len(h)
    <3>1. t[i] = h[i - m] /\ i - m < j - m
      <4>1. m + (i - m) = i /\ i - m < j - m
        BY <1>1
      <4>2. t[m + (i - m)] = h[i - m]
        BY <1>1, <2>2
      <4> QED
        BY <4>1, <4>2
    <3>2. h[i - m].end <= h[j - m].start
      BY <1>4, <2>2, <3>1 DEF EmSequencia
    <3>3. t[i].end <= t[j].start
      BY <2>1, <3>1, <3>2
    <3>4. t[i].end \in Nat /\ t[j].start \in Nat
      BY <1>2
    <3> QED
      BY <3>3, <3>4
  <2>3. CASE i \in 1..m
    <3>1. c # <<>> /\ Last(c) = t[m] /\ m \in 1..m /\ m \in 1..Len(t)
      BY <1>1, <2>3 DEF Last
    <3>2. t[j].start >= t[m].end - Tolerancia
      BY <1>4, <2>1, <3>1
    <3>3. CASE i = m
      BY <3>2, <3>3
    <3>4. CASE i # m
      <4>1. i < m /\ m \in (i + 1)..(j - 1)
        BY <1>1, <2>1, <2>3, <3>4
      <4>2. t[m].end - t[m].start >= Tolerancia
        BY <1>2, <3>1, <4>1 DEF Curta
      <4>3. t[m].start >= t[i].end - Tolerancia
        <5>1. \A k \in (i + 1)..(m - 1) : k \in (i + 1)..(j - 1) /\ t[k] = c[k]
          BY <1>1, <2>1, <2>3
        <5>2. \A k \in (i + 1)..(m - 1) : ~Curta(c[k])
          BY <5>1
        <5>3. c[m].start >= c[i].end - Tolerancia
          BY <2>3, <3>1, <4>1, <5>2 DEF EmOrdem
        <5> QED
          BY <1>1, <2>3, <3>1, <5>3
      <4>4. /\ t[i].end \in Nat /\ t[j].start \in Nat
            /\ t[m].end \in Nat /\ t[m].start \in Nat
        BY <1>2, <3>1
      <4> QED
        BY <3>2, <4>2, <4>3, <4>4, Distancia
    <3> QED
      BY <3>3, <3>4
  <2> QED
    BY <1>1, <2>2, <2>3
<1> QED
  BY <1>1, <1>3, <1>4

\* _trim cuts no more than there is; unless the ceiling is the reason, nothing later
\* than context_s before the end of what is confirmed.
LEMMA Corte ==
    ASSUME StreamingType, NEW c, Ouvidas(c, buffer_offset + buffer)
    PROVE  /\ Excesso(c) \in 0..buffer
           /\ c = <<>> /\ ~Estoura(c) => Excesso(c) = 0
           /\ c # <<>> => Excesso(c) = 0 \/ buffer_offset + Excesso(c) = Last(c).end - ContextS
<1>1. buffer \in Nat /\ buffer_offset \in Nat /\ ContextS \in Nat /\ MaxBuffer \in Nat
  BY StreamingAssumption DEF StreamingType
<1>2. CASE c # <<>>
  <2>1. Len(c) \in 1..Len(c) /\ c[Len(c)] \in Palavra /\ c[Len(c)].end <= buffer_offset + buffer
    BY <1>2 DEF Ouvidas
  <2> DEFINE e == Last(c).end
  <2>2. e \in Nat /\ e <= buffer_offset + buffer
    BY <2>1 DEF Last, Palavra
  <2>3. Excesso(c) = Max({0, e - ContextS - buffer_offset})
    BY <1>2 DEF Excesso, AteOContexto
  <2> HIDE DEF e
  <2>4. e - ContextS - buffer_offset \in Int
    BY <1>1, <2>2
  <2>5. Excesso(c) = IF e - ContextS - buffer_offset > 0 THEN e - ContextS - buffer_offset ELSE 0
    BY <2>3, <2>4, MaxComZero
  <2> QED
    BY <1>1, <1>2, <2>2, <2>5 DEF e
<1>3. CASE c = <<>>
  BY <1>1, <1>3 DEF Excesso, Estoura
<1> QED
  BY <1>2, <1>3

\* What process confirms, and what it leaves for the next pass.
LEMMA Confirma ==
    ASSUME StreamingInv, buffer <= MaxAudio, NEW h \in Hipoteses, NEW n \in 0..Len(h)
    PROVE  LET c == committed \o SubSeq(h, 1, n)
           IN  /\ Ouvidas(c, buffer_offset + buffer)
               /\ EmOrdem(c)
               /\ c # <<>> => \A k \in (n + 1)..Len(h) : h[k].start >= Last(c).end - Tolerancia
<1> DEFINE p == SubSeq(h, 1, n)
           c == committed \o p
           ate == buffer_offset + buffer
<1>1. /\ StreamingType /\ Tolerancia \in Nat
      /\ committed \in Seq(Palavra) /\ EmOrdem(committed) /\ Ouvidas(committed, ate)
  BY StreamingAssumption DEF StreamingInv, StreamingType, Ouvidas
<1>2. /\ h \in Seq(Palavra) /\ Len(h) \in Nat
      /\ \A i \in 1..Len(h) : h[i].start < h[i].end /\ h[i].end <= ate /\ Nova(h[i])
      /\ EmSequencia(h)
  BY <1>1, Hipotese
<1>3. /\ p \in Seq(Palavra) /\ Len(p) = n
      /\ \A i \in 1..n : i \in 1..Len(h) /\ p[i] = h[i]
  BY <1>2, Partes
<1> HIDE DEF p
<1>4. EmSequencia(p)
  BY <1>2, <1>3 DEF EmSequencia
<1>5. committed # <<>> => \A k \in 1..Len(h) : h[k].start >= Last(committed).end - Tolerancia
  BY <1>2 DEF Nova, Limite
<1>6. EmOrdem(c)
  <2>1. committed # <<>> => \A k \in 1..Len(p) : p[k].start >= Last(committed).end - Tolerancia
    BY <1>3, <1>5
  <2> QED
    BY <1>1, <1>3, <1>4, <2>1, Junta
<1>7. /\ c \in Seq(Palavra) /\ Len(committed) \in Nat /\ Len(c) = Len(committed) + n
      /\ \A i \in 1..Len(committed) : c[i] = committed[i]
      /\ \A i \in 1..n : c[Len(committed) + i] = p[i]
      /\ \A i \in 1..Len(c) : i \in 1..Len(committed) \/ i - Len(committed) \in 1..n
  BY <1>1, <1>3, Emenda
<1> HIDE DEF c
<1>8. Ouvidas(c, ate)
  <2> SUFFICES ASSUME NEW i \in 1..Len(c)
      PROVE  c[i].start < c[i].end /\ c[i].end <= ate
    BY <1>7 DEF Ouvidas
  <2>1. CASE i \in 1..Len(committed)
    BY <1>1, <1>7, <2>1 DEF Ouvidas
  <2>2. CASE i - Len(committed) \in 1..n
    <3>1. Len(committed) + (i - Len(committed)) = i
      BY <1>7
    <3>2. c[i] = h[i - Len(committed)] /\ i - Len(committed) \in 1..Len(h)
      BY <1>3, <1>7, <2>2, <3>1
    <3> QED
      BY <1>2, <3>2
  <2> QED
    BY <1>7, <2>1, <2>2
<1>9. ASSUME c # <<>>, NEW k \in (n + 1)..Len(h)
      PROVE  h[k].start >= Last(c).end - Tolerancia
  <2>1. k \in 1..Len(h) /\ k \in Nat
    BY <1>2
  <2>2. CASE n = 0
    <3>1. c = committed
      BY <1>1, <1>3, <1>7, <2>2, ConcatEmptySeq DEF c
    <3> QED
      BY <1>5, <1>9, <2>1, <3>1
  <2>3. CASE n # 0
    <3>1. Last(c) = h[n] /\ n \in 1..Len(h) /\ n < k
      BY <1>2, <1>3, <1>7, <2>3 DEF Last
    <3>2. h[n].end <= h[k].start
      BY <1>2, <2>1, <3>1 DEF EmSequencia
    <3>3. h[n].end \in Nat /\ h[k].start \in Nat
      <4>1. h[n] \in Palavra /\ h[k] \in Palavra
        BY <1>2, <2>1, <3>1, ElementOfSeq
      <4> QED
        BY <4>1 DEF Palavra
    <3> QED
      BY <1>1, <3>1, <3>2, <3>3
  <2> QED
    BY <2>2, <2>3
<1> QED
  BY <1>6, <1>8, <1>9 DEF c, p

LEMMA ProcessStreaming ==
    ASSUME StreamingInv, buffer <= MaxAudio, Process
    PROVE  StreamingInv' /\ buffer' <= buffer
<1>1. StreamingType /\ buffer \in Nat /\ buffer_offset \in Nat
      /\ {Tolerancia, ContextS} \subseteq Nat /\ ContextS >= Tolerancia
  BY StreamingAssumption DEF StreamingInv, StreamingType
<1>2. PICK h \in Hipoteses :
        LET n == Acordo(h)
            c == committed \o SubSeq(h, 1, n)
        IN  /\ committed' = c
            /\ previous' = SubSeq(h, n + 1, Len(h))
            /\ buffer' = buffer - Excesso(c)
            /\ buffer_offset' = buffer_offset + Excesso(c)
            /\ estourou' = (estourou \/ Estoura(c))
  BY DEF Process
<1> DEFINE n == Acordo(h)
           c == committed \o SubSeq(h, 1, n)
           corte == Excesso(c)
<1>3. /\ h \in Seq(Palavra) /\ Len(h) \in Nat
      /\ \A i \in 1..Len(h) : h[i].start >= buffer_offset
  BY <1>1, Hipotese
<1>4. n \in 0..Len(h)
  BY <1>1, <1>3, AcordoCabe DEF StreamingType
<1> HIDE DEF n
<1>5. /\ Ouvidas(c, buffer_offset + buffer) /\ EmOrdem(c)
      /\ c # <<>> => \A k \in (n + 1)..Len(h) : h[k].start >= Last(c).end - Tolerancia
  BY <1>4, Confirma
<1>6. /\ committed' = c /\ previous' = SubSeq(h, n + 1, Len(h))
      /\ buffer' = buffer - corte /\ buffer_offset' = buffer_offset + corte
      /\ estourou' = (estourou \/ Estoura(c)) /\ since_last_run' = 0
  BY <1>2 DEF n, Process
<1> HIDE DEF c
<1>7. /\ corte \in 0..buffer
      /\ c = <<>> /\ ~Estoura(c) => corte = 0
      /\ c # <<>> => corte = 0 \/ buffer_offset + corte = Last(c).end - ContextS
  BY <1>1, <1>5, Corte
<1> HIDE DEF corte
<1>8. buffer' \in Nat /\ buffer_offset' \in Nat /\ buffer' <= buffer
      /\ buffer_offset' + buffer' = buffer_offset + buffer
  BY <1>1, <1>6, <1>7
<1>9. /\ previous' \in Seq(Palavra) /\ Len(previous') = Len(h) - n
      /\ \A i \in 1..Len(previous') : n + i \in 1..Len(h) /\ previous'[i] = h[n + i]
  BY <1>3, <1>4, <1>6, Partes
<1>10. StreamingType'
  <2>1. estourou' \in BOOLEAN
    BY <1>6
  <2>2. Ouvidas(committed', buffer_offset' + buffer')
    BY <1>5, <1>6, <1>8
  <2> QED
    BY <1>6, <1>8, <1>9, <2>1, <2>2 DEF StreamingType, Ouvidas
<1>11. EmOrdem(committed)'
  BY <1>5, <1>6 DEF EmOrdem, Curta
<1>12. PendenteNoBuffer'
  <2> SUFFICES ASSUME ~estourou', NEW i \in 1..Len(previous')
      PROVE  previous'[i].start >= buffer_offset'
    BY DEF PendenteNoBuffer
  <2> DEFINE k == n + i
  <2>1. k \in (n + 1)..Len(h) /\ k \in 1..Len(h) /\ previous'[i] = h[k]
    BY <1>3, <1>4, <1>9
  <2> HIDE DEF k
  <2>2. h[k].start \in Nat /\ h[k].start >= buffer_offset
    <3>1. h[k] \in Palavra
      BY <1>3, <2>1, ElementOfSeq
    <3> QED
      BY <1>3, <2>1, <3>1 DEF Palavra
  <2>3. CASE corte = 0
    <3>1. buffer_offset' = buffer_offset
      BY <1>1, <1>6, <2>3
    <3> QED
      BY <2>1, <2>2, <3>1
  <2>4. CASE corte # 0
    <3>1. ~Estoura(c)
      BY <1>6
    <3>2. c # <<>> /\ buffer_offset' = Last(c).end - ContextS
      BY <1>6, <1>7, <2>4, <3>1
    <3>3. h[k].start >= Last(c).end - Tolerancia
      BY <1>5, <2>1, <3>2
    <3>4. Last(c).end \in Nat
      <4>1. c \in Seq(Palavra) /\ Len(c) \in 1..Len(c)
        BY <1>5, <3>2 DEF Ouvidas
      <4>2. c[Len(c)] \in Palavra
        BY <4>1, ElementOfSeq
      <4> QED
        BY <4>2 DEF Last, Palavra
    <3> QED
      BY <1>1, <2>1, <2>2, <3>2, <3>3, <3>4
  <2> QED
    BY <2>3, <2>4
<1> QED
  BY <1>8, <1>10, <1>11, <1>12 DEF StreamingInv

\* Neither more audio, nor a pass that fails, nor a step elsewhere touches the words.
LEMMA MesmasPalavras ==
    ASSUME StreamingInv, buffer' \in Nat, buffer' >= buffer, since_last_run' \in Nat,
           UNCHANGED <<buffer_offset, committed, previous, estourou>>
    PROVE  StreamingInv'
<1>1. StreamingType /\ buffer \in Nat /\ buffer_offset \in Nat /\ committed \in Seq(Palavra)
  BY DEF StreamingInv, StreamingType, Ouvidas
<1>2. Ouvidas(committed, buffer_offset + buffer')
  <2>1. \A i \in 1..Len(committed) : committed[i] \in Palavra
    BY <1>1, ElementOfSeq
  <2>2. \A i \in 1..Len(committed) : committed[i].end \in Nat
    BY <2>1 DEF Palavra
  <2> QED
    BY <1>1, <2>2 DEF StreamingType, Ouvidas
<1>3. StreamingType'
  BY <1>1, <1>2 DEF StreamingType, Ouvidas
<1>4. EmOrdem(committed)' /\ PendenteNoBuffer'
  BY DEF StreamingInv, EmOrdem, Curta, PendenteNoBuffer
<1> QED
  BY <1>3, <1>4 DEF StreamingInv

LEMMA NadaOuvido ==
    ASSUME NEW c \in Seq(Palavra), 1..Len(c) = {}, NEW ate
    PROVE  Ouvidas(c, ate)
BY Zenon DEF Ouvidas

LEMMA ResetStreaming ==
    ASSUME StreamingInv, Reset
    PROVE  StreamingInv'
<1>1. buffer \in Nat /\ buffer_offset \in Nat
  BY DEF StreamingInv, StreamingType
<1>2. /\ buffer_offset' = buffer_offset + buffer /\ buffer' = 0 /\ since_last_run' = 0
      /\ committed' = <<>> /\ previous' = <<>> /\ estourou' = FALSE
  BY DEF Reset
<1>3. committed' \in Seq(Palavra) /\ previous' \in Seq(Palavra)
      /\ 1..Len(committed') = {} /\ 1..Len(previous') = {}
  BY <1>2
<1>4. StreamingType'
  <2>1. Ouvidas(committed', buffer_offset' + buffer')
    BY <1>3, NadaOuvido
  <2>2. buffer' \in Nat /\ buffer_offset' \in Nat /\ since_last_run' \in Nat
    BY <1>1, <1>2
  <2>3. estourou' \in BOOLEAN
    BY DEF Reset
  <2> QED
    BY <1>3, <2>1, <2>2, <2>3 DEF StreamingType, Ouvidas
<1>5. EmOrdem(committed)' /\ PendenteNoBuffer'
  BY <1>3 DEF EmOrdem, PendenteNoBuffer
<1> QED
  BY <1>4, <1>5 DEF StreamingInv

\* What EmOrdem says of a text is what SemRepetir says, and nothing else.
LEMMA OrdemBasta ==
    ASSUME Tolerancia \in Nat, NEW c \in Seq(Palavra), EmOrdem(c)
    PROVE  SemRepetir(c)
<1> SUFFICES ASSUME NEW i \in 1..Len(c), NEW j \in 1..Len(c), i < j,
                    \A k \in (i + 1)..(j - 1) : ~Curta(c[k])
    PROVE  /\ c[j].start >= c[i].end - Tolerancia
           /\ c[i].end - c[i].start > Tolerancia => c[j].start > c[i].start
  BY DEF SemRepetir
<1>1. c[j].start >= c[i].end - Tolerancia
  BY DEF EmOrdem
<1>2. c[i] \in Palavra /\ c[j] \in Palavra
  BY ElementOfSeq
<1>3. c[i].start \in Nat /\ c[i].end \in Nat /\ c[j].start \in Nat
  BY <1>2 DEF Palavra
<1> QED
  BY <1>1, <1>3

\* The words of a turn: those confirmed, and those one more pass hears.
LEMMA TextosEmOrdem ==
    ASSUME StreamingInv, buffer <= MaxAudio
    PROVE  SemRepetir(committed) /\ \A texto \in Textos : SemRepetir(texto)
<1>1. /\ StreamingType /\ Tolerancia \in Nat
      /\ committed \in Seq(Palavra) /\ EmOrdem(committed)
  BY StreamingAssumption DEF StreamingInv, StreamingType, Ouvidas
<1>2. SemRepetir(committed)
  BY <1>1, OrdemBasta
<1>3. ASSUME NEW h \in Hipoteses PROVE SemRepetir(committed \o h)
  <2>1. h \in Seq(Palavra) /\ EmSequencia(h) /\ \A k \in 1..Len(h) : Nova(h[k])
    BY <1>1, Hipotese
  <2>2. committed # <<>> => \A k \in 1..Len(h) : h[k].start >= Last(committed).end - Tolerancia
    BY <2>1 DEF Nova, Limite
  <2>3. EmOrdem(committed \o h)
    BY <1>1, <2>1, <2>2, Junta
  <2>4. committed \o h \in Seq(Palavra)
    BY <1>1, <2>1, Emenda
  <2> QED
    BY <1>1, <2>3, <2>4, OrdemBasta
<1> QED
  BY <1>2, <1>3 DEF Textos

-----------------------------------------------------------------------------
(* The inductive invariant.                                                *)

LEMMA LiveInicio == Init => LiveInv
<1> SUFFICES ASSUME Init PROVE LiveInv
  OBVIOUS
<1>1. /\ buffer = 0 /\ buffer_offset = 0 /\ since_last_run = 0
      /\ committed = <<>> /\ previous = <<>> /\ estourou = FALSE
      /\ falando = FALSE /\ turno = 0 /\ fila = <<>> /\ blocos = 0
      /\ captura = [fase |-> "antes", fecha |-> FALSE]
      /\ laco = [fase |-> "nenhuma", item |-> None]
      /\ aceitos = {} /\ ouvidos = {} /\ semTurno = {}
      /\ ultimo = [anterior |-> 0, turno |-> 0, audio |-> {}]
  BY DEF Init, StreamingInit
<1>2. /\ captura.fase = "antes" /\ laco.fase = "nenhuma" /\ laco.item = None
      /\ ultimo.anterior = 0 /\ ultimo.turno = 0 /\ ultimo.audio = {}
  BY <1>1
<1>3. /\ committed \in Seq(Palavra) /\ previous \in Seq(Palavra) /\ fila \in Seq(Itens)
      /\ 1..Len(committed) = {} /\ 1..Len(previous) = {} /\ 1..Len(fila) = {}
  BY <1>1
<1>4. StreamingInv
  <2>1. Ouvidas(committed, buffer_offset + buffer)
    BY <1>3, NadaOuvido
  <2>2. EmOrdem(committed) /\ PendenteNoBuffer
    BY <1>3 DEF EmOrdem, PendenteNoBuffer
  <2> QED
    BY <1>1, <1>3, <2>1, <2>2 DEF StreamingInv, StreamingType
<1>5. LiveType
  <2>1. laco \in [fase : {"nenhuma", "pegar", "item", "fim"}, item : Itens]
    BY <1>1 DEF Itens
  <2>2. ultimo \in [anterior : Nat, turno : Nat, audio : SUBSET (Nat \X Nat)]
    BY <1>1
  <2>3. blocos \in 0..MaxAudio
    BY <1>1, StreamingAssumption
  <2> QED
    BY <1>1, <1>2, <1>3, <2>1, <2>2, <2>3 DEF LiveType
<1>6. NoCaminho = {} /\ NaOrdem /\ ~Aberto
  BY <1>1, <1>2, <1>3 DEF NoCaminho, NaFila, NaMao, NaOrdem, Aberto
<1>7. TurnoAberto /\ Pendentes /\ Marcados
  BY <1>1, <1>2, <1>6 DEF TurnoAberto, Pendentes, Marcados
<1>8. AudioNoCaminho
  BY <1>1, <1>6 DEF AudioNoCaminho, BlocosEm
<1>9. AudioDoSeuTurno
  BY <1>1, <1>2 DEF AudioDoSeuTurno
<1>10. Contagem
  BY <1>1, <1>2, <1>6 DEF Contagem, Numerados
<1> QED
  BY <1>4, <1>5, <1>6, <1>7, <1>8, <1>9, <1>10 DEF LiveInv, FilaInv

\* What the other invariants say of the buffer.
LEMMA BufferCabe ==
    ASSUME LiveInv
    PROVE  buffer \in Nat /\ since_last_run \in Nat /\ buffer <= MaxAudio
<1>1. buffer \in Nat /\ since_last_run \in Nat
  BY DEF LiveInv, StreamingInv, StreamingType
<1>2. LiveType /\ buffer <= Numerados
  BY DEF LiveInv, FilaInv, Contagem
<1>3. blocos \in 0..MaxAudio /\ MaxAudio \in Nat
  BY <1>2, StreamingAssumption DEF LiveType
<1> QED
  BY <1>1, <1>2, <1>3 DEF Numerados

LEMMA LivePasso == LiveInv /\ [Next]_vars => LiveInv'
<1> SUFFICES ASSUME LiveInv, [Next]_vars PROVE LiveInv'
  OBVIOUS
<1>1. /\ StreamingInv /\ FilaInv
      /\ buffer \in Nat /\ since_last_run \in Nat /\ buffer <= MaxAudio
  BY BufferCabe DEF LiveInv
<1>2. ASSUME UNCHANGED streaming PROVE StreamingInv'
  BY <1>1, <1>2, MesmasPalavras DEF streaming
<1>3. CASE Start
  BY <1>1, <1>2, <1>3, StartFila DEF Start, LiveInv
<1>4. CASE \E novo, fecha \in BOOLEAN : Segmentar(novo, fecha)
  <2>1. PICK novo \in BOOLEAN, fecha \in BOOLEAN : Segmentar(novo, fecha)
    BY <1>4
  <2>2. UNCHANGED streaming
    BY <2>1 DEF Segmentar
  <2> QED
    BY <1>1, <1>2, <2>1, <2>2, SegmentarFila DEF LiveInv
<1>5. CASE SegmentarCurto
  BY <1>1, <1>2, <1>5, SegmentarCurtoFila DEF SegmentarCurto, LiveInv
<1>6. CASE PutPcm
  BY <1>1, <1>2, <1>6, PutPcmFila DEF PutPcm, LiveInv
<1>7. CASE PutMarcador
  BY <1>1, <1>2, <1>7, PutMarcadorFila DEF PutMarcador, LiveInv
<1>8. CASE Stop \/ PutNone \/ Join
  BY <1>1, <1>2, <1>8, PararFila DEF Stop, PutNone, Join, LiveInv
<1>9. CASE Pegar
  BY <1>1, <1>2, <1>9, PegarFila DEF Pegar, LiveInv
<1>10. CASE Absorver
  <2>1. buffer' = buffer + 1 /\ since_last_run' = since_last_run + 1
        /\ UNCHANGED <<buffer_offset, committed, previous, estourou>>
    BY <1>10 DEF Absorver, InsertAudio
  <2>2. buffer' \in Nat /\ buffer' >= buffer /\ since_last_run' \in Nat
    BY <1>1, <2>1
  <2>3. StreamingInv'
    BY <1>1, <2>1, <2>2, MesmasPalavras
  <2> QED
    BY <1>1, <1>10, <2>3, AbsorverFila DEF LiveInv
<1>11. CASE Parcial
  <2>1. StreamingInv' /\ buffer' <= buffer
    <3>1. CASE Process
      BY <1>1, <3>1, ProcessStreaming
    <3>2. CASE ProcessFalha
      <4>1. /\ since_last_run' = 0 /\ buffer' = buffer
            /\ UNCHANGED <<buffer_offset, committed, previous, estourou>>
        BY <3>2 DEF ProcessFalha
      <4> QED
        BY <1>1, <4>1, MesmasPalavras
    <3>3. CASE UNCHANGED streaming
      <4>1. buffer' = buffer
        BY <3>3 DEF streaming
      <4> QED
        BY <1>1, <1>2, <3>3, <4>1
    <3> QED
      BY <1>11, <3>1, <3>2, <3>3 DEF Parcial
  <2>2. buffer' \in Nat
    BY <2>1 DEF StreamingInv, StreamingType
  <2> QED
    BY <1>1, <1>11, <2>1, <2>2, SemItemFila DEF LiveInv
<1>12. CASE FimDeTurno
  BY <1>1, <1>12, ResetStreaming, FimDeTurnoFila DEF FimDeTurno, LiveInv
<1>13. CASE FimDeTurnoFalha
  BY <1>1, <1>2, <1>13, FimDeTurnoFalhaFila DEF FimDeTurnoFalha, FinalizeFalha, LiveInv
<1>14. CASE Encerrar
  <2>1. UNCHANGED streaming
    BY <1>14 DEF Encerrar
  <2>2. buffer' = buffer
    BY <2>1 DEF streaming
  <2> QED
    BY <1>1, <1>2, <1>14, <2>1, <2>2, SemItemFila DEF LiveInv
<1>15. CASE UNCHANGED vars
  <2>1. UNCHANGED <<streaming, falando, turno, fila, captura, laco, blocos, aceitos, ouvidos,
                    semTurno, ultimo>>
    BY <1>15 DEF vars
  <2>2. buffer' = buffer
    BY <2>1 DEF streaming
  <2>3. LiveType' /\ NaOrdem' /\ NoCaminho' = NoCaminho
    BY <1>1, <2>1, Parado DEF FilaInv, LiveType
  <2>4. TurnoAberto' /\ (Aberto' <=> Aberto) /\ Numerados' = Numerados
    BY <1>1, <2>1 DEF FilaInv, TurnoAberto, Aberto, Numerados
  <2> QED
    BY <1>1, <1>2, <2>1, <2>2, <2>3, <2>4, NadaMuda DEF LiveInv
<1> QED
  BY <1>3, <1>4, <1>5, <1>6, <1>7, <1>8, <1>9, <1>10, <1>11, <1>12, <1>13, <1>14, <1>15
  DEF Next, Laco

\* The inductive invariant holds in every reachable state.
LEMMA LiveSempre == Spec => []LiveInv
BY LiveInicio, LivePasso, PTL DEF Spec

-----------------------------------------------------------------------------
(* The theorems.                                                           *)

\* Every item on the queue is a block, a marker or the end; the buffer never holds
\* more audio than was fed to it; and what is confirmed lies in the audio heard so far.
THEOREM TypeCorrectness == Spec => [](LiveType /\ StreamingType)
<1>1. LiveInv => LiveType /\ StreamingType
  BY DEF LiveInv, FilaInv, StreamingInv
<1> QED
  BY <1>1, LiveSempre, PTL

\* The text of a turn is made of all its own audio that found room in the queue, and
\* of no other turn's, unless those before it have no text of their own: for a queue
\* of any size, and however put_nowait, get_nowait, the end of a turn and a pass
\* that raises are interleaved.
THEOREM AudioOfItsTurn == Spec => []AudioDoSeuTurno
<1>1. LiveInv => AudioDoSeuTurno
  BY DEF LiveInv, FilaInv
<1> QED
  BY <1>1, LiveSempre, PTL

\* Neither what is confirmed nor the text of a whole turn says a stretch of audio twice,
\* whatever Whisper hears, whenever passes fail and wherever _trim cuts, up to words
\* shorter than the tolerance.
THEOREM NothingRepeated == Spec => []SemRepeticao
<1>1. LiveInv => SemRepeticao
  <2> SUFFICES ASSUME LiveInv PROVE SemRepeticao
    OBVIOUS
  <2>1. StreamingInv /\ buffer <= MaxAudio
    BY BufferCabe DEF LiveInv
  <2> QED
    BY <2>1, TextosEmOrdem DEF SemRepeticao
<1> QED
  BY <1>1, LiveSempre, PTL

\* What was heard and is not confirmed is still in the buffer for the next pass, unless
\* the ceiling cut it: for every context_s no less than the tolerance.
THEOREM PendingStaysInBuffer == Spec => []PendenteNoBuffer
<1>1. LiveInv => PendenteNoBuffer
  BY DEF LiveInv, StreamingInv
<1> QED
  BY <1>1, LiveSempre, PTL

=============================================================================
