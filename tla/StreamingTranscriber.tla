------------------------ MODULE StreamingTranscriber ------------------------
(***************************************************************************)
(* asr/streaming.py: LocalAgreement-2 over a growing buffer of audio.  Each *)
(* pass transcribes the whole buffer; what two passes in a row agree on    *)
(* from the front is confirmed, and its audio is cut off the buffer.       *)
(*                                                                         *)
(* Time and samples are counted in one unit, so a stretch of audio is a    *)
(* length.  A word is its key, its start and its end; Whisper is external: *)
(* a pass may hear any words that lie in the buffer one after another.     *)
(* The prompt, the text itself and the loading of the model are left out;  *)
(* a load that fails is a pass that fails.                                 *)
(*                                                                         *)
(* LiveTranscriber is the specification that uses these operations.        *)
(* A definition marked (variant) is the next one with a mistake in it; no  *)
(* action uses it.                                                         *)
(***************************************************************************)
EXTENDS Integers, Sequences, FiniteSets, FiniteSetsExt, SequencesExt

CONSTANTS
    MinChunk,      \* min_chunk_s
    MaxBuffer,     \* max_buffer_s
    ContextS,      \* context_s
    Tolerancia,    \* the 0.1 s of process and finalize
    Chaves,        \* what Word.key may be; "" is a word of punctuation only
    Duracoes,      \* bound: lengths of a word
    MaxPalavras,   \* bound: words one pass hears
    MaxAudio       \* bound: audio inserted

ASSUME StreamingAssumption ==
    /\ {MinChunk, MaxBuffer} \subseteq Nat \ {0}
    /\ {ContextS, Tolerancia, MaxPalavras, MaxAudio} \subseteq Nat
    /\ ContextS >= Tolerancia   \* or _trim cuts what may still be heard
    /\ Duracoes \subseteq Nat \ {0}

VARIABLES
    buffer,          \* _buffer.size
    buffer_offset,   \* _buffer_offset
    since_last_run,  \* _since_last_run
    committed,       \* _committed
    previous,        \* _previous
    estourou         \* history: the ceiling has cut the buffer in this turn

streaming == <<buffer, buffer_offset, since_last_run, committed, previous, estourou>>

StreamingInit ==
    /\ buffer = 0
    /\ buffer_offset = 0
    /\ since_last_run = 0
    /\ committed = <<>>
    /\ previous = <<>>
    /\ estourou = FALSE

-----------------------------------------------------------------------------
\* What Whisper may hear in n units of audio: words one after another.
Palavras(n) == {w \in [key : Chaves, start : 0..n, end : 0..n] : w.end - w.start \in Duracoes}
EmSequencia(f) == \A i, j \in 1..Len(f) : i < j => f[i].end <= f[j].start
FalasAte ==
    [n \in 0..MaxAudio |-> {f \in BoundedSeq(Palavras(n), MaxPalavras) : EmSequencia(f)}]
Falas(n) == FalasAte[n]

Limite == IF committed = <<>> THEN 0 ELSE Last(committed).end

\* Only the tail that is not confirmed yet is compared.
\* (variant) the whole hypothesis.
NovaSempre(w) == TRUE
Nova(w) == w.start >= Limite - Tolerancia

\* A pass over the buffer, in absolute time, without what is confirmed already: any
\* words may be heard, so any that are all new may be left.
NoTempo(f) == [i \in 1..Len(f) |-> [key   |-> f[i].key,
                                     start |-> f[i].start + buffer_offset,
                                     end   |-> f[i].end + buffer_offset]]
Hipoteses ==
    {h \in {NoTempo(f) : f \in Falas(buffer)} : \A i \in 1..Len(h) : Nova(h[i])}

\* _confirmar_prefixo_comum: how many words agree with the last pass.
Concordam(h, n) == \A i \in 1..n : previous[i].key = h[i].key /\ h[i].key # ""
Acordo(h) == Max({n \in 0..Len(h) : n <= Len(previous) /\ Concordam(h, n)})

\* How much _trim cuts, c being confirmed: up to context_s before the end of
\* what is confirmed, or, with nothing confirmed, half of a buffer that is over the ceiling.
\* (variant) the context is cut off as well.
SemContexto(c) == Last(c).end + ContextS
AteOContexto(c) == Last(c).end - ContextS
Estoura(c) == c = <<>> /\ buffer > MaxBuffer
Excesso(c) ==
    IF c # <<>> THEN Max({0, AteOContexto(c) - buffer_offset})
    ELSE IF Estoura(c) THEN buffer - MaxBuffer \div 2 ELSE 0

-----------------------------------------------------------------------------
InsertAudio ==
    /\ buffer' = buffer + 1
    /\ since_last_run' = since_last_run + 1
    /\ UNCHANGED <<buffer_offset, committed, previous, estourou>>

Ready == since_last_run >= MinChunk

\* process; `ready` implies that the buffer is not empty.
Process ==
    /\ \E h \in Hipoteses :
         LET n == Acordo(h)
             c == committed \o SubSeq(h, 1, n)
         IN  /\ committed' = c
             /\ previous' = SubSeq(h, n + 1, Len(h))
             /\ buffer' = buffer - Excesso(c)
             /\ buffer_offset' = buffer_offset + Excesso(c)
             /\ estourou' = (estourou \/ Estoura(c))
    /\ since_last_run' = 0

\* process raises in the pass: the interval has begun anew all the same.
ProcessFalha ==
    /\ since_last_run' = 0
    /\ UNCHANGED <<buffer, buffer_offset, committed, previous, estourou>>

\* finalize: one more pass, all of which counts, unless there is no audio left;
\* then reset, which keeps the time line.
Textos == IF buffer = 0 THEN {committed} ELSE {committed \o h : h \in Hipoteses}

Reset ==
    /\ buffer_offset' = buffer_offset + buffer
    /\ buffer' = 0
    /\ since_last_run' = 0
    /\ committed' = <<>>
    /\ previous' = <<>>
    /\ estourou' = FALSE

\* finalize raises in the pass: there is no reset.
FinalizeFalha == buffer > 0 /\ UNCHANGED streaming

-----------------------------------------------------------------------------
\* No stretch of audio becomes text twice: of two words of a text the later one
\* follows the earlier, up to the tolerance, and an earlier one longer than that
\* is not said again.  Only words shorter than the tolerance, in between, can
\* undo it: each of them may take the limit back.
Curta(w) == w.end - w.start < Tolerancia
SemRepetir(texto) ==
    \A i, j \in 1..Len(texto) :
        i < j /\ (\A k \in (i + 1)..(j - 1) : ~Curta(texto[k]))
            => /\ texto[j].start >= texto[i].end - Tolerancia
               /\ texto[i].end - texto[i].start > Tolerancia
                    => texto[j].start > texto[i].start

\* What the last pass heard and is not confirmed can still be heard by the next:
\* _trim has cut none of its audio, unless the ceiling did.
PendenteNoBuffer ==
    ~estourou => \A i \in 1..Len(previous) : previous[i].start >= buffer_offset
=============================================================================
