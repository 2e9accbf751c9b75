-------------------------- MODULE LiveTranscriber --------------------------
(***************************************************************************)
(* asr/live.py: the capture thread runs the segmenter and queues the audio *)
(* of a turn and then a marker of its end; one thread takes as much audio  *)
(* as there is, transcribes the buffer now and then for a partial text,    *)
(* and closes the turn at its marker.  demo_stream.py starts it, feeds it, *)
(* and stops it from the thread that fed it.                               *)
(*                                                                         *)
(* A block is one window of the segmenter and one unit of audio; a block   *)
(* is the turn it belongs to and its number.  What the segmenter makes of  *)
(* a window is an input here: its own module is Segmenter.  The texts that *)
(* are shown (on_partial) and whether a callback raises leave no trace in  *)
(* the state.                                                              *)
(***************************************************************************)
EXTENDS StreamingTranscriber

CONSTANTS
    MaxFila,     \* maxsize of _fila
    MaxTurnos    \* bound: turns begun

ASSUME LiveAssumption == MaxFila \in Nat \ {0} /\ MaxTurnos \in Nat

VARIABLES
    falando,    \* segmenter.state is not SILENCE
    turno,      \* turns begun
    fila,       \* _fila
    captura,    \* where the capture thread is in feed or stop
    laco,       \* where the other thread is in _loop, and its item
    blocos,     \* history: blocks of speech so far
    aceitos,    \* history: those that found room in the queue
    ouvidos,    \* history: those inserted since the last reset
    semTurno,   \* history: turns that get no text of their own
    ultimo      \* history: the last turn closed, the one before it, its audio

vars == <<streaming, falando, turno, fila, captura, laco, blocos, aceitos,
          ouvidos, semTurno, ultimo>>

Pcm(t, n) == [tipo |-> "pcm", turno |-> t, bloco |-> n]
Fim(t)    == [tipo |-> "fim", turno |-> t]
None      == [tipo |-> "none"]
SemMais   == [tipo |-> "sem mais"]

Init ==
    /\ StreamingInit
    /\ falando = FALSE
    /\ turno = 0
    /\ fila = <<>>
    /\ captura = [fase |-> "antes", fecha |-> FALSE]
    /\ laco = [fase |-> "nenhuma", item |-> None]
    /\ blocos = 0
    /\ aceitos = {}
    /\ ouvidos = {}
    /\ semTurno = {}
    /\ ultimo = [anterior |-> 0, turno |-> 0, audio |-> {}]

ondeVars == <<aceitos, ouvidos, semTurno, ultimo>>

-----------------------------------------------------------------------------
(* The capture thread.                                                     *)

Start ==
    /\ captura.fase = "antes"
    /\ captura' = [captura EXCEPT !.fase = "livre"]
    /\ laco' = [laco EXCEPT !.fase = "pegar"]
    /\ UNCHANGED <<streaming, falando, turno, fila, blocos, ondeVars>>

\* feed, up to the end of segmenter.feed: a turn begins, goes on, or ends.
Segmentar(novo, fecha) ==
    /\ captura.fase = "livre"
    /\ blocos < MaxAudio
    /\ novo = ~falando
    /\ novo => ~fecha /\ turno < MaxTurnos
    /\ falando' = ~fecha
    /\ turno' = IF novo THEN turno + 1 ELSE turno
    /\ blocos' = blocos + 1
    /\ captura' = [fase |-> "pcm", fecha |-> fecha]
    /\ UNCHANGED <<streaming, fila, laco, ondeVars>>

\* A turn ends that is too short: the segmenter yields nothing and is silent, so
\* neither the block nor a marker is queued.
SegmentarCurto ==
    /\ captura.fase = "livre"
    /\ falando
    /\ falando' = FALSE
    /\ semTurno' = semTurno \cup {turno}
    /\ UNCHANGED <<streaming, turno, fila, captura, laco, blocos, aceitos, ouvidos,
                   ultimo>>

Cabe == Len(fila) < MaxFila

DepoisDoPcm == IF captura.fecha THEN "marcador" ELSE "livre"

\* put_nowait of the block, or queue.Full.
PutPcm ==
    /\ captura.fase = "pcm"
    /\ \/ /\ Cabe
          /\ fila' = Append(fila, Pcm(turno, blocos))
          /\ aceitos' = aceitos \cup {<<turno, blocos>>}
       \/ /\ ~Cabe
          /\ UNCHANGED <<fila, aceitos>>
    /\ captura' = [captura EXCEPT !.fase = DepoisDoPcm]
    /\ UNCHANGED <<streaming, falando, turno, laco, blocos, ouvidos, semTurno, ultimo>>

\* put_nowait of the marker, which carries the times of its turn.
PutMarcador ==
    /\ captura.fase = "marcador"
    /\ \/ /\ Cabe
          /\ fila' = Append(fila, Fim(turno))
          /\ UNCHANGED semTurno
       \/ /\ ~Cabe
          /\ semTurno' = semTurno \cup {turno}
          /\ UNCHANGED fila
    /\ captura' = [captura EXCEPT !.fase = "livre"]
    /\ UNCHANGED <<streaming, falando, turno, laco, blocos, aceitos, ouvidos, ultimo>>

Stop ==
    /\ captura.fase = "livre"
    /\ captura' = [captura EXCEPT !.fase = "parar"]
    /\ UNCHANGED <<streaming, falando, turno, fila, laco, blocos, ondeVars>>

\* put(None) waits for room.
PutNone ==
    /\ captura.fase = "parar"
    /\ Cabe
    /\ fila' = Append(fila, None)
    /\ captura' = [captura EXCEPT !.fase = "esperar"]
    /\ UNCHANGED <<streaming, falando, turno, laco, blocos, ondeVars>>

\* join(timeout): the thread has ended, or the time is up.
Join ==
    /\ captura.fase = "esperar"
    /\ captura' = [captura EXCEPT !.fase = "fim"]
    /\ UNCHANGED <<streaming, falando, turno, fila, laco, blocos, ondeVars>>

-----------------------------------------------------------------------------
(* The transcribing thread: _loop.                                         *)

capturaVars == <<falando, turno, captura, blocos, aceitos>>

Pegar ==
    /\ laco.fase = "pegar"
    /\ fila # <<>>
    /\ laco' = [fase |-> "item", item |-> Head(fila)]
    /\ fila' = Tail(fila)
    /\ UNCHANGED <<streaming, capturaVars, ouvidos, semTurno, ultimo>>

Item(tipo) == laco.fase = "item" /\ laco.item.tipo = tipo

\* Insert the block and take the next item, if there is one.
\* (variant) audio that waits behind a marker is taken in front of it.
PosicoesPcm == {i \in 1..Len(fila) : fila[i].tipo = "pcm"}
ProximoPcm == IF PosicoesPcm # {} THEN Min(PosicoesPcm) ELSE 1
Proximo == 1

Absorver ==
    /\ Item("pcm")
    /\ InsertAudio
    /\ ouvidos' = ouvidos \cup {<<laco.item.turno, laco.item.bloco>>}
    /\ IF fila # <<>>
         THEN laco' = [laco EXCEPT !.item = fila[Proximo]] /\ fila' = RemoveAt(fila, Proximo)
         ELSE laco' = [laco EXCEPT !.item = SemMais] /\ UNCHANGED fila
    /\ UNCHANGED <<capturaVars, semTurno, ultimo>>

Volta == [fase |-> "pegar", item |-> None]

\* No more audio for now: a pass, if there is enough of it and somebody is
\* speaking, which the other thread may change at any time.
Parcial ==
    /\ Item("sem mais")
    /\ \/ Ready /\ falando /\ (Process \/ ProcessFalha)
       \/ ~(Ready /\ falando) /\ UNCHANGED streaming
    /\ laco' = Volta
    /\ UNCHANGED <<capturaVars, fila, ouvidos, semTurno, ultimo>>

\* The end of a turn: its text, one of Textos, is handed on ...
FimDeTurno ==
    /\ Item("fim")
    /\ Reset
    /\ ultimo' = [anterior |-> ultimo.turno, turno |-> laco.item.turno, audio |-> ouvidos]
    /\ ouvidos' = {}
    /\ laco' = Volta
    /\ UNCHANGED <<capturaVars, fila, semTurno>>

\* The loop survives an exception.
\* (variant) no try.
MorreAoFalhar == [fase |-> "fim", item |-> None]
DepoisDeFalhar == Volta

\* ... or the last pass raises.
FimDeTurnoFalha ==
    /\ Item("fim")
    /\ FinalizeFalha
    /\ semTurno' = semTurno \cup {laco.item.turno}
    /\ laco' = DepoisDeFalhar
    /\ UNCHANGED <<capturaVars, fila, ouvidos, ultimo>>

Encerrar ==
    /\ Item("none")
    /\ laco' = [fase |-> "fim", item |-> None]
    /\ UNCHANGED <<streaming, capturaVars, fila, ouvidos, semTurno, ultimo>>

Laco == \/ Pegar \/ Absorver \/ Parcial
        \/ FimDeTurno \/ FimDeTurnoFalha
        \/ Encerrar

Next ==
    \/ Start
    \/ \E novo, fecha \in BOOLEAN : Segmentar(novo, fecha)
    \/ SegmentarCurto \/ PutPcm \/ PutMarcador
    \/ Stop \/ PutNone \/ Join
    \/ Laco

Spec == Init /\ [][Next]_vars

\* Both threads run when they can; when somebody speaks or stops is left open.
FairSpec ==
    /\ Spec
    /\ WF_vars(Laco)
    /\ WF_vars(PutPcm \/ PutMarcador \/ PutNone \/ Join)

-----------------------------------------------------------------------------
\* The text of a turn is made of its own audio: all that found room in the queue has
\* been put into the buffer (what _trim cuts there is the concern of PendenteNoBuffer),
\* whatever the two threads do in between, and its marker carries its own times.
\* Audio of another turn gets into it only in one way: that turn came before it and has
\* no text of its own (too short, marker dropped by a full queue, last pass failed), and
\* then all of it does.
AudioDoSeuTurno ==
    /\ ultimo.audio = {b \in aceitos : b[1] \in (ultimo.anterior + 1)..ultimo.turno}
    /\ (ultimo.anterior + 1)..(ultimo.turno - 1) \subseteq semTurno

\* Neither a confirmed text nor that of a whole turn, whose last words come from
\* one more pass, says the same audio twice.
SemRepeticao ==
    /\ SemRepetir(committed)
    /\ Item("fim") => \A texto \in Textos : SemRepetir(texto)

\* As long as the process lives, a turn whose marker is queued gets its text, unless its
\* last pass fails, whatever raises before it and also when stop is called or has given up
\* its join before; and stop returns, however full the queue is and whatever the thread
\* is doing.
NadaFicaPreso ==
    /\ \A t \in 1..MaxTurnos :
           (\E i \in 1..Len(fila) : fila[i] = Fim(t)) ~> (ultimo.turno >= t \/ t \in semTurno)
    /\ captura.fase = "parar" ~> captura.fase = "fim"
=============================================================================
