--------------------------- MODULE CopilotCapture ---------------------------
(***************************************************************************)
(* How the Copilot captures sound: copilot_app.py and the switches of      *)
(* ui/copilot_window.py that drive it, capture/multi.py,                   *)
(* capture/pipeline.py and capture/recorder.py.  The Tk thread runs one    *)
(* handler at a time (`ui'); every pipeline that was started has a capture *)
(* thread (`captura'), which reads blocks from a pw-record process of its  *)
(* own, feeds them to its segmenter and hands finished turns to the        *)
(* listeners.  Each enable_microphone makes a new pipeline; the system's   *)
(* is made once and may be started again.                                  *)
(*                                                                         *)
(* Data.  A block is what the segmenter makes of it: nothing, the start of *)
(* a turn, the end of one that is emitted or one that is discarded.  The   *)
(* listeners of a pipeline are copies of one lambda and those of           *)
(* MultiSourcePipeline copies of worker.submit: both are counted.          *)
(* A definition marked (variant) is the next one with a mistake in it; no  *)
(* action uses it.                                                         *)
(***************************************************************************)
EXTENDS Integers

CONSTANTS
    MaxMicrofones,  \* bound: microphone pipelines made
    MaxInscricoes   \* bound: copies of worker.submit subscribed

ASSUME CaptureAssumption == MaxMicrofones \in Nat /\ MaxInscricoes \in Nat

VARIABLES
    pipe,       \* the pipelines, with their recorder and segmenter
    captura,    \* their threads
    app,        \* MultiSourcePipeline and CopilotApp
    ui,         \* where the Tk thread is, and what the screen shows
    refeita     \* history: the screen was rebuilt while the worker was subscribed

vars == <<pipe, captura, app, ui, refeita>>

SISTEMA   == 0
NENHUM    == -1                 \* no microphone: None
Pipelines == 0..MaxMicrofones

Init ==
    /\ pipe = [p \in Pipelines |->
          [rodando  |-> FALSE,  \* _rodando
           stop     |-> FALSE,  \* recorder._stop
           proc     |-> FALSE,  \* is recorder._proc alive?
           aberto   |-> FALSE,  \* segmenter: a turn is open
           ouvintes |-> 0]]     \* _listeners
    /\ captura = [p \in Pipelines |->
          [fase |-> "nada", volta |-> "verificar",
           restam |-> 0,        \* lambdas left in the snapshot of _emitir
           envios |-> 0,        \* submits left in the snapshot of the outer _emitir
           copias |-> 0,        \* history: submits of this turn
           tardios |-> 0]]      \* history: submits after its lambda was to be gone
    /\ \E montado \in BOOLEAN, tela \in {"copilot", "config"} :
         /\ tela = "config" => ~montado
         /\ app = [montado |-> montado,          \* pipeline is not None
                   microfones |-> 0,             \* microphone pipelines made
                   microphone |-> NENHUM,
                   system_unsubscribe |-> FALSE, \* is it there?
                   inscritos |-> 0,              \* _listeners of MultiSourcePipeline
                   unsubscribe |-> FALSE]        \* _unsubscribe: is it there?
         /\ ui = [fase |-> "livre", alvo |-> SISTEMA, tela |-> tela,
                  ouvir |-> FALSE, mic |-> FALSE]   \* the switches on it
    /\ refeita = FALSE

-----------------------------------------------------------------------------
\* The capture thread of a pipeline: utterances, with stream and _emitir inside.

Fase(p, f) == captura[p].fase = f
Vai(p, f)  == captura' = [captura EXCEPT ![p].fase = f]
SoThread   == UNCHANGED <<pipe, app, ui, refeita>>

Viva(p) == captura[p].fase \notin {"nada", "fim"}

Nascer(p) ==
    /\ Fase(p, "nascer")
    /\ pipe' = [pipe EXCEPT ![p].rodando = TRUE]
    /\ Vai(p, "limpar")
    /\ UNCHANGED <<app, ui, refeita>>

\* stream clears the event; before that it raises if there is no pw-record.
Limpar(p) ==
    /\ Fase(p, "limpar")
    /\ \/ Vai(p, "flush") /\ UNCHANGED pipe
       \/ Vai(p, "abrir") /\ pipe' = [pipe EXCEPT ![p].stop = FALSE]
    /\ UNCHANGED <<app, ui, refeita>>

\* An exception inside the try of stream, or in feed, goes through _encerrar.
\* (variant) it goes straight to the flush.
AoFalharDireto == "flush"
AoFalhar       == "encerrar"

\* Popen, which may raise, outside the try of stream; then
\* _consumir_cabecalho_au, which raises if the process ends before its header.
Abrir(p) ==
    /\ Fase(p, "abrir")
    /\ \/ Vai(p, "flush") /\ UNCHANGED pipe
       \/ /\ pipe' = [pipe EXCEPT ![p].proc = TRUE]
          /\ Vai(p, "laco") \/ Vai(p, AoFalhar)
    /\ UNCHANGED <<app, ui, refeita>>

Laco(p) ==
    /\ Fase(p, "laco")
    /\ Vai(p, IF pipe[p].stop THEN "encerrar" ELSE "ler")
    /\ SoThread

\* The open turn is closed, and emitted or too short.
Fechar(p, depois) ==
    /\ pipe' = [pipe EXCEPT ![p].aberto = FALSE]
    /\ \/ captura' = [captura EXCEPT ![p] = [@ EXCEPT !.fase = "emitir", !.volta = depois]]
       \/ Vai(p, depois)

\* A block comes and is fed to the segmenter, which may raise; one window, so
\* it closes one turn at most.  Or the process has died and the read is empty.
Ler(p) ==
    /\ Fase(p, "ler")
    /\ \/ Vai(p, AoFalhar) /\ UNCHANGED pipe
       \/ Vai(p, "verificar") /\ UNCHANGED pipe
       \/ Vai(p, "verificar") /\ pipe' = [pipe EXCEPT ![p].aberto = TRUE]
       \/ pipe[p].aberto /\ Fechar(p, "verificar")
       \/ Vai(p, "encerrar") /\ pipe' = [pipe EXCEPT ![p].proc = FALSE]
    /\ UNCHANGED <<app, ui, refeita>>

\* CapturePipeline._emitir: the snapshot of its listeners.
Emitir(p) ==
    /\ Fase(p, "emitir")
    /\ captura' = [captura EXCEPT ![p] =
                     [@ EXCEPT !.fase = "repassar", !.restam = pipe[p].ouvintes]]
    /\ SoThread

\* The next lambda: MultiSourcePipeline._emitir takes its snapshot.
Repassar(p) ==
    /\ Fase(p, "repassar")
    /\ LET c == captura[p]
       IN  captura' = [captura EXCEPT ![p] =
             IF c.restam = 0
               THEN [c EXCEPT !.fase = c.volta, !.volta = "verificar", !.copias = 0]
               ELSE [c EXCEPT !.fase = "entregar", !.restam = c.restam - 1,
                              !.envios = app.inscritos]]
    /\ SoThread

\* History: the lambda has been put on p, and disable_microphone or stop has
\* not yet come to remove it.
Assinada(p) ==
    IF p = SISTEMA THEN app.system_unsubscribe
    ELSE app.microphone = p /\ ui.fase \notin {"parar", "sinalizar", "join"}

\* worker.submit, for each copy of it.
Entregar(p) ==
    /\ Fase(p, "entregar")
    /\ LET c == captura[p]
       IN  captura' = [captura EXCEPT ![p] =
             IF c.envios = 0
               THEN [c EXCEPT !.fase = "repassar"]
               ELSE [c EXCEPT !.envios = c.envios - 1, !.copias = c.copias + 1,
                              !.tardios = IF ~Assinada(p) /\ c.tardios < 2
                                            THEN c.tardios + 1 ELSE c.tardios]]
    /\ SoThread

\* After the turns of a block: `if not self._rodando: break'.
\* (variant) the event alone ends the capture.
SempreContinua(p) == TRUE
Continua(p)       == pipe[p].rodando

Verificar(p) ==
    /\ Fase(p, "verificar")
    /\ Vai(p, IF Continua(p) THEN "laco" ELSE "encerrar")
    /\ SoThread

\* The finally of stream: terminate, and kill if that does not help.
Encerrar(p) ==
    /\ Fase(p, "encerrar")
    /\ pipe' = [pipe EXCEPT ![p].proc = FALSE]
    /\ Vai(p, "flush")
    /\ UNCHANGED <<app, ui, refeita>>

\* The finally of utterances: flush, then _rodando.
Flush(p) ==
    /\ Fase(p, "flush")
    /\ IF pipe[p].aberto THEN Fechar(p, "sair") ELSE Vai(p, "sair") /\ UNCHANGED pipe
    /\ UNCHANGED <<app, ui, refeita>>

Sair(p) ==
    /\ Fase(p, "sair")
    /\ pipe' = [pipe EXCEPT ![p].rodando = FALSE]
    /\ Vai(p, "fim")
    /\ UNCHANGED <<app, ui, refeita>>

Thread(p) ==
    \/ Nascer(p) \/ Limpar(p) \/ Abrir(p) \/ Laco(p) \/ Ler(p)
    \/ Emitir(p) \/ Repassar(p) \/ Entregar(p) \/ Verificar(p)
    \/ Encerrar(p) \/ Flush(p) \/ Sair(p)

-----------------------------------------------------------------------------
\* The Tk thread.

Livre == ui.fase = "livre"
UiVai(f) == ui' = [ui EXCEPT !.fase = f]

\* iniciar_audio: builds everything once, unless there is no source.
IniciarAudio(montado) ==
    /\ app.montado => montado
    /\ app' = [app EXCEPT !.montado = montado]

\* CapturePipeline.start
Start(p) ==
    IF Viva(p) THEN UNCHANGED captura
    ELSE captura' = [captura EXCEPT ![p].fase = "nascer"]

\* The Ouvir switch turned on, _ao_alternar_escuta: it ends there if there is
\* still no pipeline.
LigarEscuta ==
    /\ Livre /\ ui.tela = "copilot" /\ ~ui.ouvir
    /\ app.inscritos < MaxInscricoes
    /\ \E montado \in BOOLEAN :
         /\ IniciarAudio(montado)
         /\ ui' = [ui EXCEPT !.ouvir = TRUE, !.fase = IF montado THEN "iniciar" ELSE @]
    /\ UNCHANGED <<pipe, captura, refeita>>

\* MultiSourcePipeline.start
IniciarSistema ==
    /\ ui.fase = "iniciar"
    /\ Start(SISTEMA)
    /\ UiVai("inscrever_sistema")
    /\ UNCHANGED <<pipe, app, refeita>>

\* Its guard is _system_unsubscribe.  (variant) there is none.
NuncaInscrito == FALSE
JaInscrito    == app.system_unsubscribe

InscreverSistema ==
    /\ ui.fase = "inscrever_sistema"
    /\ IF JaInscrito THEN UNCHANGED <<pipe, app>>
       ELSE /\ pipe' = [pipe EXCEPT ![SISTEMA].ouvintes = @ + 1]
            /\ app' = [app EXCEPT !.system_unsubscribe = TRUE]
    /\ UiVai("inscrever")
    /\ UNCHANGED <<captura, refeita>>

Inscrever ==
    /\ ui.fase = "inscrever"
    /\ app' = [app EXCEPT !.inscritos = @ + 1, !.unsubscribe = TRUE]
    /\ UiVai("livre")
    /\ UNCHANGED <<pipe, captura, refeita>>

\* unsubscribe removes one copy, if there is one.
UmaAMenos(n) == IF n > 0 THEN n - 1 ELSE 0

\* The Ouvir switch turned off.
DesligarEscuta ==
    /\ Livre /\ ui.tela = "copilot" /\ ui.ouvir
    /\ \E montado \in BOOLEAN :
         /\ app.montado => montado
         /\ app' = [app EXCEPT !.montado = montado, !.unsubscribe = FALSE,
                               !.inscritos = IF app.unsubscribe THEN UmaAMenos(@) ELSE @]
    /\ ui' = [ui EXCEPT !.ouvir = FALSE]
    /\ UNCHANGED <<pipe, captura, refeita>>

\* The microphone switch turned on: the factory may raise, and a microphone
\* that is there already is left alone.
LigarMic ==
    /\ Livre /\ ui.tela = "copilot" /\ ~ui.mic
    /\ \E montado \in BOOLEAN, abre \in BOOLEAN :
         LET novo == montado /\ abre /\ app.microphone = NENHUM
         IN  /\ app.montado => montado
             /\ novo => app.microfones < MaxMicrofones
             /\ app' = [app EXCEPT !.montado = montado,
                                   !.microfones = IF novo THEN @ + 1 ELSE @]
             /\ ui' = [ui EXCEPT !.mic = TRUE,
                                 !.fase = IF novo THEN "iniciar_mic" ELSE @]
    /\ UNCHANGED <<pipe, captura, refeita>>

\* enable_microphone: start, then the new pipeline is the microphone.
IniciarMic ==
    /\ ui.fase = "iniciar_mic"
    /\ Start(app.microfones)
    /\ UiVai("inscrever_mic")
    /\ UNCHANGED <<pipe, app, refeita>>

InscreverMic ==
    /\ ui.fase = "inscrever_mic"
    /\ app' = [app EXCEPT !.microphone = app.microfones]
    /\ pipe' = [pipe EXCEPT ![app.microfones].ouvintes = @ + 1]
    /\ UiVai("livre")
    /\ UNCHANGED <<captura, refeita>>

\* The microphone switch turned off: disable_microphone, if there is one.
DesligarMic ==
    /\ Livre /\ ui.tela = "copilot" /\ ui.mic
    /\ \E montado \in BOOLEAN : IniciarAudio(montado)
    /\ ui' = IF app.microphone = NENHUM
               THEN [ui EXCEPT !.mic = FALSE]
               ELSE [ui EXCEPT !.mic = FALSE, !.alvo = app.microphone, !.fase = "calar"]
    /\ UNCHANGED <<pipe, captura, refeita>>

\* The window is closed, encerrar: the listener first, then both pipelines.
FecharJanela ==
    /\ Livre
    /\ app' = [app EXCEPT !.inscritos = IF app.unsubscribe THEN UmaAMenos(@) ELSE @]
    /\ ui' = [ui EXCEPT !.tela = "fechando", !.ouvir = FALSE, !.mic = FALSE,
                        !.alvo = IF app.microphone = NENHUM THEN SISTEMA ELSE app.microphone,
                        !.fase = IF app.montado THEN "calar" ELSE "fechada"]
    /\ UNCHANGED <<pipe, captura, refeita>>

\* The lambda is removed from the pipeline that is going to stop.
\* (variant) it is forgotten.
ComOuvinte(p) == pipe
SemOuvinte(p) == [pipe EXCEPT ![p].ouvintes = UmaAMenos(@)]

Calar ==
    /\ ui.fase = "calar"
    /\ pipe' = SemOuvinte(ui.alvo)
    /\ app' = IF ui.alvo = SISTEMA THEN [app EXCEPT !.system_unsubscribe = FALSE] ELSE app
    /\ UiVai("parar")
    /\ UNCHANGED <<captura, refeita>>

\* CapturePipeline.stop: _rodando, the event of the recorder, the join.
Parar ==
    /\ ui.fase = "parar"
    /\ pipe' = [pipe EXCEPT ![ui.alvo].rodando = FALSE]
    /\ UiVai("sinalizar")
    /\ UNCHANGED <<captura, app, refeita>>

Sinalizar ==
    /\ ui.fase = "sinalizar"
    /\ pipe' = [pipe EXCEPT ![ui.alvo].stop = TRUE]
    /\ UiVai("join")
    /\ UNCHANGED <<captura, app, refeita>>

\* The thread has ended, or five seconds have passed.
Join ==
    /\ ui.fase = "join"
    /\ app' = IF ui.alvo = SISTEMA THEN app ELSE [app EXCEPT !.microphone = NENHUM]
    /\ ui' = [ui EXCEPT !.alvo = SISTEMA,
                        !.fase = IF ui.tela # "fechando" THEN "livre"
                                 ELSE IF ui.alvo = SISTEMA THEN "fechada" ELSE "calar"]
    /\ UNCHANGED <<pipe, captura, refeita>>

\* The settings screen takes the place of the switches; back, or saved, they
\* are built again, off.
AbrirConfig ==
    /\ Livre /\ ui.tela = "copilot"
    /\ ui' = [ui EXCEPT !.tela = "config", !.ouvir = FALSE, !.mic = FALSE]
    /\ UNCHANGED <<pipe, captura, app, refeita>>

VoltarDaConfig ==
    /\ Livre /\ ui.tela = "config"
    /\ \E montado \in BOOLEAN : IniciarAudio(montado)
    /\ ui' = [ui EXCEPT !.tela = "copilot"]
    /\ refeita' = (refeita \/ app.inscritos > 0)
    /\ UNCHANGED <<pipe, captura>>

Handler ==
    \/ IniciarSistema \/ InscreverSistema \/ Inscrever \/ IniciarMic \/ InscreverMic
    \/ Calar \/ Parar \/ Sinalizar \/ Join

Usuario ==
    \/ LigarEscuta \/ DesligarEscuta \/ LigarMic \/ DesligarMic
    \/ FecharJanela \/ AbrirConfig \/ VoltarDaConfig

Next == Handler \/ Usuario \/ \E p \in Pipelines : Thread(p)

Spec == Init /\ [][Next]_vars

\* The scheduler runs every thread, and pw-record keeps delivering blocks or ends.
FairSpec == Spec /\ WF_vars(Handler) /\ \A p \in Pipelines : WF_vars(Thread(p))

-----------------------------------------------------------------------------
TypeOK ==
    /\ pipe \in [Pipelines -> [rodando : BOOLEAN, stop : BOOLEAN, proc : BOOLEAN,
                               aberto : BOOLEAN, ouvintes : 0..1]]
    /\ captura \in [Pipelines ->
          [fase : {"nada", "nascer", "limpar", "abrir", "laco", "ler",
                   "emitir", "repassar", "entregar", "verificar",
                   "encerrar", "flush", "sair", "fim"},
           volta : {"verificar", "sair"}, restam : 0..1, envios : 0..MaxInscricoes,
           copias : 0..MaxInscricoes, tardios : 0..2]]
    /\ app \in [montado : BOOLEAN, microfones : 0..MaxMicrofones,
                microphone : (1..MaxMicrofones) \cup {NENHUM},
                system_unsubscribe : BOOLEAN, inscritos : 0..MaxInscricoes,
                unsubscribe : BOOLEAN]
    /\ ui \in [fase : {"livre", "iniciar", "inscrever_sistema", "inscrever",
                       "iniciar_mic", "inscrever_mic", "calar", "parar",
                       "sinalizar", "join", "fechada"},
               alvo : Pipelines, tela : {"copilot", "config", "fechando"},
               ouvir : BOOLEAN, mic : BOOLEAN]
    /\ refeita \in BOOLEAN

\* However often the switches are turned and the captures die and are started
\* again, a turn is handed to the worker once at most, unless the screen was
\* rebuilt with the worker subscribed.  copilot_app.py:159, multi.py:98.
UmaEntrega == \A p \in Pipelines : captura[p].copias <= 1 \/ refeita

\* Once its listener has been removed, a pipeline hands over the one turn it
\* was about to deliver and no other: also when its stop was lost and it goes
\* on capturing.  multi.py:130, pipeline.py:55.
FonteCalada == \A p \in Pipelines : captura[p].tardios <= 1 \/ refeita

\* However a capture ended, its pw-record is dead, and it left no turn open
\* that the next capture of that pipeline would go on with.  recorder.py:134,
\* pipeline.py:77.
SemRestos ==
    \A p \in Pipelines :
        /\ ~Viva(p) => ~pipe[p].proc /\ ~pipe[p].aberto
        /\ captura[p].fase \in {"nascer", "limpar", "abrir"}
              => ~pipe[p].proc /\ ~pipe[p].aberto

\* A thread that has got past the clearing of the event ends after either half
\* of stop.  A stop that comes before that is lost.  recorder.py:113.
StopEncerra ==
    \A p \in Pipelines :
        (/\ captura[p].fase \notin {"nada", "nascer", "limpar"}
         /\ pipe[p].stop \/ ~pipe[p].rodando)
            ~> captura[p].fase = "fim"

\* `Escuta pausada.': with the switch turned off by the user the worker hears
\* nothing.  copilot_window.py:308.  The code does not keep it.
EscutaPausada ==
    [][ui.ouvir /\ ~ui'.ouvir /\ ui.tela = ui'.tela => app'.inscritos = 0]_vars
=============================================================================
