----------------------------- MODULE Segmenter -----------------------------
(***************************************************************************)
(* capture/segmenter.py: PCM blocks of any size in, closed turns of speech *)
(* out.                                                                    *)
(*                                                                         *)
(* Audio is cut into windows of WindowMs milliseconds; a window is its     *)
(* number, and `voz` remembers what the VAD said of each one.  The VAD     *)
(* itself is external: any window may be speech.  All durations are in     *)
(* milliseconds, and a block is its length in bytes.                       *)
(*                                                                         *)
(* A definition marked (variant) is the next one with a mistake in it; no  *)
(* action uses it.                                                         *)
(***************************************************************************)
EXTENDS Integers, Sequences, FiniteSets

CONSTANTS
    WindowMs,        \* WINDOW_MS
    WindowBytes,     \* WINDOW_BYTES
    PreRollMs,       \* SegmenterConfig.pre_roll_ms
    EndSilenceMs,    \* SegmenterConfig.end_silence_ms
    MinSpeechMs,     \* SegmenterConfig.min_speech_ms
    MaxUtteranceMs,  \* SegmenterConfig.max_utterance_s
    MargemMs,        \* margem of _fechar_turno, 200 ms
    Blocos,          \* sizes of the blocks fed
    MaxJanelas       \* bound: windows of a recording

ASSUME SegmenterAssumption ==
    /\ WindowMs \in Nat \ {0} /\ WindowBytes \in Nat \ {0}
    /\ {PreRollMs, EndSilenceMs, MinSpeechMs, MaxUtteranceMs, MargemMs} \subseteq Nat
    /\ EndSilenceMs > 0
    /\ Blocos \subseteq Nat
    /\ MaxJanelas \in Nat

VARIABLES
    state,         \* _state
    residuo,       \* len(_residuo)
    alimentados,   \* history: bytes fed so far
    a_processar,   \* windows of the current feed still to be processed
    pre_roll,      \* _pre_roll, as window numbers
    buffer_fala,   \* _buffer_fala, as window numbers
    silencio_ms,   \* _silencio_ms
    fala_ms,       \* _fala_ms
    inicio_turno,  \* _inicio_turno
    decorrido_ms,  \* _decorrido_ms
    voz,           \* history: what the VAD said of every window so far
    fechados       \* history: the turns closed, emitted or discarded

turno == <<state, pre_roll, buffer_fala, silencio_ms, fala_ms, inicio_turno>>
vars  == <<turno, alimentados, residuo, a_processar, decorrido_ms, voz, fechados>>

\* round() to the nearest window, at least one.
NPreRoll == LET n == (2 * PreRollMs + WindowMs) \div (2 * WindowMs)
            IN  IF n > 1 THEN n ELSE 1

\* What _fechar_turno takes off the end.
Excedente == EndSilenceMs - MargemMs

Init ==
    /\ state = "silence"
    /\ alimentados = 0
    /\ residuo = 0
    /\ a_processar = 0
    /\ pre_roll = <<>>
    /\ buffer_fala = <<>>
    /\ silencio_ms = 0
    /\ fala_ms = 0
    /\ inicio_turno = 0
    /\ decorrido_ms = 0
    /\ voz = <<>>
    /\ fechados = <<>>

-----------------------------------------------------------------------------
Sobra(n) == n % WindowBytes

\* feed: cut the residue and the block into windows.
Feed(b) ==
    /\ a_processar = 0
    /\ Len(voz) + (residuo + b) \div WindowBytes <= MaxJanelas
    /\ alimentados' = alimentados + b
    /\ residuo' = Sobra(residuo + b)
    /\ a_processar' = (residuo + b) \div WindowBytes
    /\ UNCHANGED <<turno, decorrido_ms, voz, fechados>>

\* deque(maxlen=n_pre_roll).append
ComPreRoll(j) ==
    LET longo == Append(pre_roll, j)
    IN  IF Len(longo) > NPreRoll THEN Tail(longo) ELSE longo

\* How much is cut off the end of pcm milliseconds of audio.
\* (variants) the margin is added; a short turn is not spared.
CorteSinalTrocado(pcm) ==
    IF pcm > EndSilenceMs + MargemMs THEN EndSilenceMs + MargemMs ELSE 0
CorteSempre(pcm) == IF Excedente > 0 THEN Excedente ELSE 0
Corte(pcm) == IF Excedente > 0 /\ pcm > Excedente THEN Excedente ELSE 0

\* _fechar_turno on the given buffer.  causa is why: end of turn, forced cut,
\* or flush.
FecharTurno(buffer, fala, causa) ==
    LET pcm == Len(buffer) * WindowMs
        resta == pcm - Corte(pcm)
    IN  /\ fechados' = Append(fechados,
              [janelas |-> buffer, causa |-> causa, speech_ms |-> fala,
               emitido |-> fala >= MinSpeechMs,
               started_at |-> inicio_turno, ended_at |-> inicio_turno + resta])
        /\ buffer_fala' = <<>>
        /\ silencio_ms' = 0
        /\ fala_ms' = 0
        /\ state' = "silence"
        /\ UNCHANGED <<pre_roll, inicio_turno>>

\* _abrir_turno, with the current window already in the pre-roll.
\* (variant) the pre-roll is forgotten.
InicioSemPreRoll(n) == decorrido_ms'
Inicio(n) == LET ms == decorrido_ms' - n * WindowMs IN IF ms > 0 THEN ms ELSE 0

\* (variant) not cleared.
PreRollMantido == pre_roll
PreRollLimpo == <<>>

AbrirTurno(j) ==
    /\ buffer_fala' = ComPreRoll(j)
    /\ pre_roll' = PreRollLimpo
    /\ inicio_turno' = Inicio(Len(buffer_fala'))
    /\ fala_ms' = WindowMs
    /\ silencio_ms' = 0
    /\ state' = "speech"

\* _processar_janela, silence: keep the pre-roll, open a turn on speech.
EmSilencio(j, e_fala) ==
    /\ state = "silence"
    /\ IF e_fala
         THEN AbrirTurno(j)
         ELSE /\ pre_roll' = ComPreRoll(j)
              /\ UNCHANGED <<state, buffer_fala, silencio_ms, fala_ms, inicio_turno>>
    /\ UNCHANGED fechados

\* The window after which the turn ends: enough silence, or the forced cut.
FimPorSilencio(e_fala) == ~e_fala /\ silencio_ms + WindowMs >= EndSilenceMs
CorteForcado(buffer) == Len(buffer) * WindowMs >= MaxUtteranceMs

\* _fala_ms and _silencio_ms after one more window.
FalaDepois(e_fala) == IF e_fala THEN fala_ms + WindowMs ELSE fala_ms
SilencioDepois(e_fala) == IF e_fala THEN 0 ELSE silencio_ms + WindowMs

\* _processar_janela, in a turn: the window always joins it.
EmTurno(j, e_fala) ==
    LET buffer == Append(buffer_fala, j)
        fala   == FalaDepois(e_fala)
    IN  /\ state # "silence"
        /\ \/ /\ FimPorSilencio(e_fala)
              /\ FecharTurno(buffer, fala, "silencio")
           \/ /\ ~FimPorSilencio(e_fala)
              /\ CorteForcado(buffer)
              /\ FecharTurno(buffer, fala, "corte")
           \/ /\ ~FimPorSilencio(e_fala)
              /\ ~CorteForcado(buffer)
              /\ buffer_fala' = buffer
              /\ fala_ms' = fala
              /\ silencio_ms' = SilencioDepois(e_fala)
              /\ state' = IF e_fala THEN "speech" ELSE "hangover"
              /\ UNCHANGED <<pre_roll, inicio_turno, fechados>>

ProcessarJanela(e_fala) ==
    /\ a_processar > 0
    /\ a_processar' = a_processar - 1
    /\ decorrido_ms' = decorrido_ms + WindowMs
    /\ voz' = Append(voz, e_fala)
    /\ EmSilencio(Len(voz'), e_fala) \/ EmTurno(Len(voz'), e_fala)
    /\ UNCHANGED <<alimentados, residuo>>

\* flush: close the open turn, if any.  The pipeline may feed the same object again.
Flush ==
    /\ a_processar = 0
    /\ \/ /\ state # "silence"
          /\ FecharTurno(buffer_fala, fala_ms, "flush")
       \/ /\ state = "silence"
          /\ UNCHANGED <<turno, fechados>>
    /\ UNCHANGED <<alimentados, residuo, a_processar, decorrido_ms, voz>>

Next ==
    \/ \E b \in Blocos : Feed(b)
    \/ \E e_fala \in BOOLEAN : ProcessarJanela(e_fala)
    \/ Flush

Spec == Init /\ [][Next]_vars

-----------------------------------------------------------------------------
\* s is a run of consecutive windows, up to and including the last one heard.
AteAgora(s) == \A i \in 1..Len(s) : s[i] = Len(voz) - Len(s) + i

\* Pre-roll and turn in progress are gapless and up to date: the audio stuck to
\* the front of a turn is what really came before it, never a leftover of an
\* earlier turn, and nothing is missing in between.
\* Nor is a byte lost or read twice between windows, whatever the sizes of the
\* blocks: what was fed is in a window, or is the residue.
SemBuracos ==
    /\ AteAgora(pre_roll) /\ AteAgora(buffer_fala)
    /\ alimentados = (Len(voz) + a_processar) * WindowBytes + residuo

\* started_at is the true position in the recording of the first window of the
\* turn, through discarded turns, forced cuts, flushes and restarts; and the speech
\* counted is the speech the turn holds, none of it from the pre-roll or from the
\* hangover, so that min_speech_ms judges what would be lost.
InicioExato ==
    /\ buffer_fala # <<>> => inicio_turno = (buffer_fala[1] - 1) * WindowMs
    /\ fala_ms = WindowMs * Cardinality({i \in 1..Len(buffer_fala) : voz[buffer_fala[i]]})

\* Turns come out in the order they were said and never share audio, pre-roll
\* included; a turn has a positive duration and lies in the past.
TurnosDisjuntos ==
    /\ \A i, j \in 1..Len(fechados) :
           i < j => fechados[i].ended_at <= fechados[j].started_at
    /\ \A i \in 1..Len(fechados) :
           /\ fechados[i].started_at < fechados[i].ended_at
           /\ fechados[i].ended_at <= decorrido_ms

\* The windows of t that its trimming cuts into.
Aparadas(t) == {t.janelas[i] : i \in {k \in 1..Len(t.janelas) :
                                        t.janelas[k] * WindowMs > t.ended_at}}

\* A turn closed by silence loses only silence to the trimming: no syllable.
AparaSoSilencio ==
    \A i \in 1..Len(fechados) :
        fechados[i].causa = "silencio" => \A j \in Aparadas(fechados[i]) : ~voz[j]
=============================================================================
