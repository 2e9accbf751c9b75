# A verification of meet-assistant in TLA+

meet-assistant listens to what a computer plays (and, on request, to its microphone), cuts the
audio into turns of speech, transcribes them with Whisper, and then either answers the questions
it hears in a floating window (the Copilot) or turns a whole lecture into a transcript, a summary
and a list of tasks (the session mode). This directory holds TLA+ modules of its parts, TLC
configurations that check them on small instances, and proofs for every instance. Names of state
variables, operations and fields are those of the code, which is Portuguese in most places.

Paths below are relative to the root of the repository.

## 1. The system

```
 PipeWireRecorder -> Segmenter        one CapturePipeline thread per source
        \-> LiveTranscriber -> StreamingTranscriber      (live captions: one queue, one thread)
        \-> MultiSourcePipeline  -> TranscriptionWorker -> CopilotEngine -> CopilotWindow
                                     one thread             1 thread per     the Tk thread
                                                            answer
 CapturePipeline -> SessionRecorder -> SessionProcessor -> SessionRepository -> exporters
                                       1 thread per run    1 connection per thread
```

| Component | State | Operations | Hard because | What makes it correct |
|---|---|---|---|---|
| `modes/copilot/engine.py` CopilotEngine | context deque, last turn, live id `_geracao_atual`, cooldown clock, one Exchange per answer | ingest, answer_last_turn, cancel, set_auto_answer, update_user_context, `_gerar` | the worker thread, the Tk thread and one thread per answer; callbacks after the lock is released | a superseded answer goes silent, callbacks come in order, the live answer is always concluded, the quota is respected |
| `modes/copilot/detector.py` | none | detect | text | pure function |
| `ui/copilot_window.py` CopilotWindow | two screens, the answer box | one handler per callback, switches, settings | posted callbacks against a user who changes the screen | the box ends up with the outcome of the live answer and does not stay at "Consultando…" |
| `copilot_app.py` CopilotApp | the objects above, the subscription | switches, encerrar | switch on twice, listen off with work queued | one subscription, everything stopped |
| `asr/worker.py` TranscriptionWorker | bounded queue, unfinished count, thread | submit, start, stop, `_loop` | full queue, raising transcriber, join with and without timeout, restart | order kept, nothing lost uncounted, drain means drained, stop returns |
| `asr/live.py` LiveTranscriber | queue of blocks and end-of-turn markers, one thread | start, feed, stop, `_loop` | a full queue drops the marker too, finalize may raise, blocks are absorbed while Whisper works | a turn's audio is not transcribed as another's, a closed turn comes out, stop returns |
| `asr/streaming.py` StreamingTranscriber | audio buffer and its front, confirmed words, last hypothesis | process, finalize, reset | every pass hears the buffer anew; the front is cut while words are pending | no word twice, no unconfirmed audio cut away |
| `capture/segmenter.py` Segmenter | state, pre-roll, buffer, counters, clock | feed, flush | block and window sizes, forced cut, flush and go on | exact times, no gaps, turns do not overlap, only silence is trimmed |
| `capture/recorder.py`, `pipeline.py`, `multi.py` | pw-record process, stop event, threads, listeners | start, stop, subscribe, microphone on and off | lost stop, blocking read, join timeout, flush without listener | a stop stops, a stopped source is silent, a turn is handed over once, nothing is left behind by a capture that died |
| `modes/session/recorder.py` SessionRecorder | clock of the session, block in progress, closed blocks | start, pause, resume, add, stop | pauses, turns out of order, two sources | blocks hold exactly the turns kept, the timeline is right |
| `modes/session/processor.py` SessionProcessor | cancel event, one thread per run, rows in the database | process_async, cancel | any call may fail, cancel, concurrent runs, crash | what was transcribed is saved, DONE means complete, the caller is told the truth |
| `storage/sqlite_repo.py` | tables, one connection and transaction per thread | CRUD | open transactions, ids read back, cascades | ids are one's own, no orphans |
| `storage/memory_repo.py` | dicts under one lock | the same | nothing | the reference for the former |
| `llm/openai_compat.py` | the attempt, the stream being read | stream_reply, check | retry on 429, timeouts, an answer that stops in the middle | text of one response only, an end or an LLMError, bounded waiting |
| `config/`, `exporters/`, `domain/`, demos | files, none | load, save, export | little | |

`PROJECT.json` lists every component with its status, and under `hazards` what is hard to test in
this code, at its line, with the properties that watch it.

## 2. The modules

| Module | Code | Notes |
|---|---|---|
| `CopilotEngine` | `modes/copilot/engine.py` | one action per lock, per read of shared state and per callback |
| `CopilotWindow` | `ui/copilot_window.py` | extends `CopilotEngine`; reads its log of callbacks |
| `MCCopilotEngine`, `MCCopilotWindow` | | restricted specifications for TLC |
| `FilaDeTurnos` | what `asr/worker.py` promises | abstract: a FIFO with counted drops; refined by `TranscriptionWorker` |
| `TranscriptionWorker` | `asr/worker.py` | |
| `TranscriptionWorkerProofs` | | theorems about `TranscriptionWorker`, the refinement among them |
| `StreamingTranscriber` | `asr/streaming.py` | actions of the one thread that calls it |
| `LiveTranscriber` | `asr/live.py` | extends `StreamingTranscriber`: the two composed |
| `LiveTranscriberProofs` | | theorems about `LiveTranscriber` and `StreamingTranscriber` |
| `LLMClient` | what `llm/base.py` promises | abstract; refined by `OpenAICompatClient` |
| `OpenAICompatClient`, `MCOpenAICompatClient` | `llm/openai_compat.py` | |
| `CopilotProofs` | | theorems about `CopilotEngine`, `CopilotWindow` and `OpenAICompatClient`, the refinement of the client among them |
| `CopilotCapture` | `copilot_app.py`, `capture/multi.py`, `pipeline.py`, `recorder.py`, the switches of `ui/copilot_window.py` | the Tk thread and one thread per pipeline |
| `CopilotCaptureProofs` | | theorems about `CopilotCapture` |
| `Segmenter` | `capture/segmenter.py` | |
| `SegmenterProofs` | | theorems about `Segmenter` |
| `SessionRecorder` | `modes/session/recorder.py` | |
| `SessionRecorderProofs` | | theorems about `SessionRecorder` |
| `SessionProcessor`, `MCSessionProcessor` | `modes/session/processor.py`, `prompts.py` | |
| `SessionProcessorProofs` | | theorems about `SessionProcessor` |
| `InMemoryRepository` | `storage/memory_repo.py` | every call one step; abstract for `SQLiteRepository` |
| `SQLiteRepository` | `storage/sqlite_repo.py` | file mode; refines `InMemoryRepository` |
| `SQLiteRepositoryProofs` | | theorems about `SQLiteRepository`, the refinement among them |

Every property stands under the specification of its module. A definition marked *(variant)* is a
mutated form of the one that follows it. No action uses it; it documents which mistake the
property named in `PROJECT.json` would catch.

A step that changes several fields of one record is written as one nested update,
`[f EXCEPT ![p] = [f[p] EXCEPT !.a = x, !.b = y]]`, and never as several updates of `f` at the same
index: both mean the same, but the SMT translation of the proof system mistakes the second form.

### CopilotEngine and CopilotWindow

Two threads call the engine. `chamador` says where each of them is: `Ingest` and `Decidir` are
`ingest`; `Criar` (the Exchange takes its id) and `Publicar` (the lock, and the start of the
thread) are `_responder`. `estado[g]` is where the generation thread of exchange `g` is in `_gerar`:
`Iniciar`, `MontarMensagens`, then `Pedaco`/`Emitir` for each chunk, `FimDoStream` or
`Falha`/`Avisar`, the last `_vigente` in `Final`, and `Concluir`. A read of `_vigente` and the
callback it guards are two steps, because the code releases the lock in between. `chamadas` is
the log of the callbacks, each with whether its exchange was live at that moment; it is also what
the window has been posted.

A turn is a number and the two facts the engine asks about. The text of an answer is how many
blanks it opens with, how much of `[IGNORAR]` follows, and whether other text does; a chunk may
extend it in any way. Blanks that follow a part of the marker count as other text: the code strips
them, the model does not.

`CopilotWindow` runs the posted callbacks one at a time (`Despachar`). On the settings screen the
boxes are destroyed and a handler that runs there raises in the Tk loop, so its effect is lost.
Labels, the footer, the transcription box and the button states are left out, as is the exchange
of the LLM client on saving.

### CopilotCapture

One module holds the four files that make a capture, because what is hard lies between them. `ui` is
the Tk thread: a switch, a screen change or the closing of the window starts a handler
(`Usuario`), and each access of the handler to what a capture thread also uses is a step of its own
(`Handler`): `start`, the two subscriptions, and `stop` as the removal of the listener, `_rodando`,
the event and the join. `captura[p]` is the thread of pipeline `p`: `utterances`, with `stream` inside
it up to the point where the block has been fed, and the two levels of `_emitir`, each with its
snapshot. Number 0 is the system's pipeline, the others are the microphones made so far.

Opening pw-record and reading its header are one step, as are reading a block and feeding it:
nothing another thread reads or writes lies between them. A block is one window, so it ends one
turn at most. The join may return at any time, since five seconds may pass at any time. The worker
is its `submit`: what becomes of a turn is `TranscriptionWorker`.

### TranscriptionWorker

`fila` and `inacabadas` are `queue.Queue`: `put` counts, `task_done` counts down, `join` waits for
zero, and the `None` that ends the loop is taken without `task_done`, as in the code. `controle` is
where the controlling thread is in `stop`. `expirou` remembers that a `join(timeout)` gave up on a
live thread, which is the only way two consumers can exist.

`FilaDeTurnos` is the contract: turns are submitted in order; a turn is refused only when there are as
many pending as the queue holds, or a stop is under way; the others come out once each, oldest first, as
a text or as a failure, until a stop has given up (`desistiu`). The mapping (`CumpreAFila`): pending are
the turns in `fila` and those in hand, a stop is under way while a `None` is queued, and `desistiu` is
`expirou`.

### LiveTranscriber and StreamingTranscriber

The recorder's thread feeds (`Segmentar`, then one `PutPcm` and, at the end of a turn, one
`PutMarcador`, each dropped if the queue is full); the consumer takes an item (`Pegar`), absorbs the
blocks that are already waiting (`Absorver`, which stops at a marker), and transcribes (`Parcial`, or
`FimDeTurno` at a marker); `Stop`, `PutNone` and `Join` are `stop`. What the segmenter makes of a block
(speech, silence, end of turn, a turn too short) is an input.

Time and audio are counted in one unit, and a block of audio knows its turn. What a pass of Whisper
hears is a sequence of at most `MaxPalavras` words inside the buffer, one after another; *any* such
sequence may be heard, which covers mishearing, words moving in time and words disappearing. A word's
text is its key. `Nova` is the rule by which a pass tells the words that are confirmed already
(`Hipoteses` are the passes left by it: a sequence without some of its words is one of the sequences
that may be heard), `Acordo` is `_confirmar_prefixo_comum`, `AteOContexto` is where `_trim` cuts.

`SemRepeticao` compares two words of a text if no word in between is shorter than the tolerance of 0.1 s.
The limit a pass uses is the end of the last confirmed word less the tolerance, so a shorter word takes it
back and a few of them in a row let earlier audio in again: without that condition TLC finds the
repetition, with it the property holds for words of every length and is proved. A second `start` of
the same object is not modelled.

### OpenAICompatClient

`stream_reply` is a generator: between two pieces it is suspended (`entregue`), and the caller asks for
the next one (`Proximo`) or drops it (`Abandonar`). `Responder` is the answer's status: any of success, a
429 of the quota per minute, of the day, another error status. `Esperar` and `Acordar` are the sleep
before the next attempt: `Prazos` is what may be asked for, by a `Retry-After` or by the backoff,
`EsperaDo429` how long `_espera_do_429` makes of it, and `esperas` keeps both, one entry for each sleep. The body is
lines: with text, without, `[DONE]`, something odd, or the connection breaks. `texto` tags every piece
with the attempt it came from; `motivo` says how the generator ended. `LLMClient` is what
`llm/base.py` asks of any client: pieces while it is open, then one end, complete, abandoned or an error.

### Segmenter

A window is its number, and what the VAD said of it is an input. `feed` cuts blocks into windows
(`Feed`), `_processar_janela` is `ProcessarJanela`, one step per window, and `_fechar_turno` is part
of the step that calls it. Bytes are counted, not stored; positions are in milliseconds. A turn
too short to be emitted is closed and discarded by the code: the model keeps it in `fechados` with
`emitido` FALSE.

### SessionRecorder

Each operation is one step, because the code holds one lock throughout. A turn may come with any
start and end, in any order.

### SessionProcessor

`execucao[r]` is the thread of one `process_async`, one action per call it makes to the
transcriber, the LLM or the repository and per check of the cancel event. Every such call may
raise. Of the LLM's answer only what the control flow asks is kept: is there a summary, are there
tasks. `split_into_parts` may cut at any boundary between segments. The threads are daemons, so
`Cair` may end the program between two steps; the database stays. Every call has a Session object
of its own: two calls with one and the same object would also share its `status` field.

### SQLiteRepository

One connection per thread, one write lock for the file. `pendentes[t]` are the rows in the open
transaction of `t`, and `Confirmar` commits everything in it, also what an earlier call of that
thread left there when it raised. `add_artifacts` stands for `add_todos`, which is the same code
on another table. `InMemoryRepository` is the same calls over dictionaries, each a single step;
`CumpreAMemoria` says that every step of the file leaves the committed tables as one such call would.
Not modelled: a commit refused because another connection is reading, the columns, and the
`:memory:` mode, in which all threads share one connection and one lock. The schema is created in
`__init__` by statements that are all IF NOT EXISTS, so a crash between two of them is mended by the
next start: left out.

## 3. The runs

| Run | Shows | Bounds, and why they are enough |
|---|---|---|
| `CopilotSeguranca` | `CaixaDaVigente`, `ObsoletaNaoVolta`, `OrdemDasChamadas`, `NaoRessuscita` | one turn, two exchanges, one chunk each: enough for one exchange to supersede another at every step of both, from either thread, with the settings opened and closed in between |
| `CopilotConteudo` | `MarcadorNaoPisca`, `ContextoSoDoPassado`, `CotaLimitada` | three turns against a context of two (the deque overflows), a marker of two characters in up to two chunks (cut in the middle), a cooldown of one tick in two; the user's switches are left alone |
| `CopilotVivo` | `VigenteConclui`, `EsperaTermina` under fairness | as `CopilotSeguranca`, with the settings left alone: the settings screen rebuilds the box and can only end a wait |
| `Worker` | `UmaThread`, `DrenoCompleto`, the refinement `CumpreAFila`, and `TodoTurnoSai` and `PrimeiroStopRetorna` under fairness | a queue of two, four turns (it fills up and drops), three threads (two restarts); deadlock is not checked because the worker may be stopped for good |
| `SegmenterTurnos` | `SemBuracos`, `InicioExato`, `TurnosDisjuntos`, `AparaSoSilencio` | windows of 2 ms, pre-roll of two windows, three windows of silence, cut after six, nine windows in all: a turn and a forced cut with the next turn after it; blocks smaller than, equal to and larger than a window |
| `Gravador` | `TudoNosBlocos`, `LinhaDoTempo`, `RelogioFiel` | blocks of two seconds, four turns anywhere on a clock of three seconds: a block closed exactly at, above and below the goal, overlapping and reversed turns, two pauses |
| `Processador` | the five properties of `SessionProcessor` | one session, a run of two blocks and one of up to one block at the same time, one crash: two blocks are needed for a second block to fail and for a reduction of two summaries |
| `Acervo` | `SemOrfaos`, `CadaUmComSeuId`, the refinement `CumpreAMemoria` | two threads, two sessions, three batches of up to two rows: one batch left half-done, one of another thread, one that commits both |
| `Captura` | `UmaEntrega`, `FonteCalada`, `SemRestos`, and `StopEncerra` under fairness | the system and one microphone, up to two copies of the subscription (the second one only a rebuilt screen can make); the system capture may die and be started again without a bound, the user may do anything any number of times. Deadlock is not checked: a closed window stays closed |
| `AoVivo` | `AudioDoSeuTurno`, `SemRepeticao`, `PendenteNoBuffer`, and `NadaFicaPreso` under fairness | two turns, five units of audio, words of two and three units, a buffer of two before it is cut, a context of two, a tolerance of one, at most two words in a pass (five units hold no more), a queue of two items: two turns can close, three passes of Whisper see one buffer, the front is cut with words pending, and the queue overflows on a block and on a marker. Deadlock is not checked: a stopped transcriber stays stopped |
| `ClienteLLM` | `SoInsisteNoMinuto`, the refinement `CumpreContrato`, and `SempreResponde` under fairness | the three attempts of the code, every kind of status, `Retry-After` absent, below and above the ceiling, up to four lines per response, with text, without or odd |
| `CapturaPausada` | violates `EscutaPausada` | as `Captura` |

The type invariant of a component stays out of the runs where it is proved: `TypeCorrectness` of
`CopilotEngine`, `TranscriptionWorker`, `Segmenter`, `CopilotCapture` and `SessionProcessor`, `Tipos` in
`Invariante` of `SessionRecorder`, `TiposDoCliente` in `ClienteInvariante`, `LiveType` and `StreamingType` in
`TypeCorrectness` of `LiveTranscriber`.

`CapturaPausada` checks what the window says and the code does not do: `copilot_app.py:159` overwrites the
only handle of the subscription. The settings screen rebuilds the Ouvir switch off while the worker
stays subscribed; on again makes a second copy, off removes one, and with "Escuta pausada." on the
screen every turn is still transcribed, and may be answered.

Other disagreements seen while modelling, which no run is spent on:

* `segmenter.py:199` trims the length of the hangover off a turn closed by the forced cut too,
  which has no hangover: up to 250 ms of speech in the middle of a sentence are lost from the audio
  of the turn (`end_silence_ms` 450 less the margin of 200 in the Copilot). `AparaSoSilencio` is
  about turns that ended in silence.
* `sqlite_repo.py:409` and `:453` read the ids back after the commit, which is the race the comment
  at line 335 describes and `add_segments` avoids. `CadaUmComSeuId` says when they may be wrong.
* `engine.py:207` takes the id of an exchange before the lock. When the worker thread and the
  button create one each, the older one may be published last and stays live, while the docstring
  says that only the last question matters.
* `processor.py:104` clears the cancel event inside the new thread: a cancel that comes right after
  `process_async` returned is forgotten. `CancelaLogo` counts from that clearing on.
* A `stop` that comes before the capture thread has set `_rodando` and cleared the event is lost
  (`pipeline.py:69`, `recorder.py:113`): the thread captures on until the program ends.
  `StopEncerra` speaks of threads that have got past it, `FonteCalada` of what such a thread can still do.
* `enable_microphone` promises that a failure to open the microphone reaches its caller
  (`multi.py:107`); opening happens in the capture thread, which logs it and dies, and the switch has
  to be turned off and on for another try.
* `disable_microphone` removes the listener before the final flush, so the turn being spoken is lost
  (`multi.py:130`).
* "Ouvindo o áudio do sistema." is shown also when there is no source and nothing was started
  (`copilot_window.py:308`).
* The cooldown answers the *first* question of a burst and drops the later ones (`engine.py:172`);
  the comment at line 106 speaks of the most recent one.
* An abandoned exchange whose stream ends without text still reports an error (`engine.py:278`);
  `ObsoletaNaoVolta` allows for it by name.
* With a leading blank, part of `[IGNORAR]` is emitted before it is recognised (`engine.py:246`
  measures the text before stripping it); `MarcadorNaoPisca` is stated without leading blanks.
* A turn that arrives before the prompt is built puts the question into its own context
  (`engine.py:290`); `ContextoSoDoPassado` says exactly when.
* A cancelled exchange leaves "Consultando…" in the box until the next one (`copilot_window.py:391`);
  `EsperaTermina` speaks of live exchanges.
* `stop(drain=False)` does not discard what is pending, as the docstring has it: the `None` is
  queued behind it (`worker.py:98`).
* The `None` is never marked done (`worker.py:79`): after one stop and a restart, a `stop(drain=True)`
  waits for ever. `PrimeiroStopRetorna` is about the first stop.
* A `join` that times out and a restart leave two consumers and turns out of order (`worker.py:99`);
  `UmaThread` and `CumpreAFila` except it by `expirou`.
* After a forced cut the rest of a sentence is dropped if it is shorter than `min_speech_ms`
  (`segmenter.py:190`).
* A crash leaves a session in PROCESSING for good, and processing a session twice stores its
  segments twice.
* A turn that comes after `SessionRecorder.stop` opens a block nobody collects.
* A batch that raises in the middle is never rolled back: its first rows are committed by the next
  call of that thread, and the write lock is held until then.
* `update_session` of a missing session is silent in SQLite and a KeyError in memory, and
  `InMemoryRepository.add_segments` does not ask whether the session exists, while
  `memory_repo.py:3` says the same tests should pass on both. (Hence `CumpreAMemoria` lets the memory
  add to a session that does not exist: the file does less, never more.)
* The "absolute ceiling of the buffer" (`streaming.py:93`) is not applied once a word is confirmed: then
  only the cut behind the confirmed words shortens the buffer.
* A word no longer than the tolerance of 0.1 s may be confirmed twice, and shorter words in a row let audio
  before them be confirmed again (`streaming.py:203`).
* Times are said to be on an absolute line (`streaming.py:68`, `:304`); `LiveTranscriber` does not feed
  the silence between turns, so they are not.
* The pre-roll of a turn is not queued by `LiveTranscriber.feed`; the audio of a turn that is discarded as too
  short stays and is transcribed with the next one (`live.py:102`), as is that of a turn whose
  `finalize` raises (`live.py:156`). `AudioDoSeuTurno` names all three ways into another turn's text.
* `demo_stream` stops without a flush: the turn that is open then is never finalized.
* A stream that is cut without `[DONE]`, and an error object inside the stream, end like a complete answer
  (`openai_compat.py:144`).
* `base.py:16` promises an `LLMError` for every failure; JSON of another shape, a negative `Retry-After` and
  a malformed URL raise something else.
* The docstring of `_espera_do_429` says that a `Retry-After` is obeyed, "ele sabe melhor que nós", and puts a
  ceiling only on the backoff (`openai_compat.py:164`); line 171 puts the ceiling of 6 s on what the
  provider asks for too. Asked for a minute, the client is back after six seconds, and gives up after
  twelve. The comment at line 28 wants few and short waits, so either the docstring or the `min` is
  wrong. `SoInsisteNoMinuto` states what the code and that comment have in common: no sleep beyond the
  ceiling, and below it none shorter than was asked for.
* A superseded generation that sleeps on a 429 still sends its remaining attempts.
* `save` empties the settings file before it writes it (`settings.py:147`): a crash in between
  loses the settings, and the next `load` silently starts from the defaults.
* `_caminho_sem_colisao` says it never overwrites (`obsidian.py:108`); it looks and writes in two steps, so
  two exports at the same moment can.

## 4. Fairness

Nothing the user or a speaker does is fair. Threads that can run do run: weak fairness on each
generation thread, on the caller inside `ingest` or `_responder`, on the consumer of the worker, on
a `stop` that can go on, on each processor thread, on each capture thread (pw-record writes
silence too, so a read returns, or the process has ended), on the consumer of the live transcriber and
on its feeder once it is inside `feed`, and on the steps of the LLM client (`TimeoutDeLeitura`: httpx
raises when no byte comes in time). `SempreResponde` assumes a bound on the lines of one response
(`MaxLinhas`): a provider that sends nothing but comments for ever is not answered by any
timeout of the code. A stream ends because httpx has a read
timeout, an answer has `max_tokens` and there are at most three attempts; the transcriber returns
or raises; SQLite has a busy timeout. The Tk main loop runs what is posted to it. Weak fairness is
enough everywhere: none of these steps is disabled by another one and enabled again for ever.

## 5. What is proved

For every value of the constants, under the named assumption of each module, which only say that sizes
and bounds are natural numbers, that the context, the marker and the queue hold at least one element, that
`context_s` is at least the tolerance (1.5 s against 0.1 s in the code) and no word is without length, that
there is a user context, that there is at least one attempt, that there is a session, that a window, a block
of the session mode and the silence that ends a turn are not empty, and that "no connection" is not a
connection. (`OpenAICompatAssumption` also says that powers of two are natural numbers, which the provers do
not know.) Every inductive invariant below was checked by TLC on a small instance before it was proved.

`TranscriptionWorkerProofs`:

* `TypeCorrectness`. `TypeOK` is not inductive: `task_done` could take the count below zero. `Contagem`
  adds that the count is at least the length of the queue plus the number of threads with a turn in
  hand. From it follows `JoinCorrectness`: a count of zero means an empty queue and idle hands.
* `SingleConsumer`, from `SoAThread`: while no join has given up, a live thread is the one in `_thread`.
* `OrderPreserved`, from `EmOrdem`: while no join has given up, the queue ascends, the turn in hand
  is older than the queue, and what has been handed on is older than both.
* `NothingLost`, from `Lugares`: the five places a turn can be in are disjoint and make up `1..enviadas`.
* `DrainComplete`: past `join`, every turn submitted before the call has been dealt with. It rests on
  `Contagem` at the moment of the join and on `Lugares` for where the turns can be.
* `FifoImplemented`: the worker implements `FilaDeTurnos`. A `get` moves a turn from the queue to the hand and
  is a stutter; a turn leaves the hand as the oldest one pending by `EmOrdem`; a full queue of turns is
  as many pending turns as its length by `Lugares`.

`CopilotProofs`, about `CopilotEngine`:

* `TypeCorrectness`: `TypeOK` is inductive.
* `NoResurrection`, from `IdsUnicos`: the ids waiting to be published are below the counter, unlike
  each other and not in use by a thread.
* `SupersedeSticks` and `CallsInOrder`, from `Avisado`: what the log says of an exchange agrees with
  where its thread is (started, has reported an error, has been seen stale, has concluded).
* `ContextIsPast`, from `Consecutivos` (the deque holds the last turns, one after another) and `SoDoPassado`.
  An exchange may read the deque long after it was created; what it reads without its last element is
  older than that element even so.
* `QuotaRespected`, from `Cota`: the automatic answers, counting the one about to be created, times the
  cooldown are at most `_ultima_resposta`, and that is at most the clock. `CotaLimitada` alone is not
  inductive: it does not say that the clock has moved on by a cooldown since the last answer.
* `MarkerNeverShown`, from `SoTexto`: an exchange that has painted, or is about to, has text that is not the
  marker and cannot become it (or opened with blanks), and no exchange is ignored before it stops reading.

`CopilotProofs`, about `CopilotWindow`:

* `BoxOfTheLive`: `CaixaDaVigente`, in two layers. `ContaInv` is about the engine: the last call of an exchange
  says what its Exchange holds, unless the next chunk is in and not yet painted (`UltimaEmDia`); an exchange
  that concludes has something to conclude with, and one that is over while it is still the live one
  has said so (`Desfecho`); and one that concluded with a text painted the whole of it just before (`FimFiel`).
  `JanelaInv` is about the Tk loop, which runs behind: if the last callback it ran, and every one since the
  first of that exchange, is of `g`, the box reflects that callback or was rebuilt since. `CaixaDaVigente` alone
  says nothing of the states in which something is still running, and those are nearly all.

`CopilotProofs`, about `OpenAICompatClient`, from the invariant `ClienteInv`: `Recebidos` (one response for each attempt that is
over, all but the last a 429 of the minute), `TextoDaUltima` (text only from the last attempt, and only
past its status) and `Sonos` (one sleep for each attempt before this one, plus the one it is in; each of them at most
`EsperaMaxima`, and if it is less, no shorter than was asked for).

* `EsperaLimitada`: `SoInsisteNoMinuto`, whatever the number of attempts, the ceiling and the `Retry-After`:
  one sleep between two requests, none that no request follows, each within the ceiling. (The caller is
  therefore asleep for at most `MaxTentativas - 1` times the ceiling.)
* `ContratoCumprido`: the client implements `LLMClient`. A retry is a stutter because by `TextoDaUltima`
  nothing has been handed over yet when it happens.

`SQLiteRepositoryProofs`:

* `NoOrphans`, from `ComATrava` (whoever has rows in an open transaction, or is between its insert and its
  commit, holds the write lock) and `PendentesDeAlguem` (`SemOrfaos` also for rows that are not committed):
  a delete cannot come between the insert and the commit of another thread, and what it finds
  pending in its own transaction goes through the cascade too.
* `MemoryImplemented`: the file implements `InMemoryRepository`, but for the rows a call that raised left
  behind. `Numeradas` says that pending ids are at most the last one given out, so the rows of a new batch
  are none of the old ones; `LotesInteiros` that between insert and commit, when nothing else is pending,
  the open transaction is exactly the batch, numbered from the committed counter on. The commit
  is then one `Add`, and inserts, rereads and failures are stutters.
* `OwnIds`, from `CadaUmInv`: between insert and reread, the ids of the session above the mark are those
  of the batch (`Inseriu`), whatever is left over in the transaction, because the mark was read in it and nobody
  else may write; after the commit the batch is in the table for as long as the session is (`Gravou`), and
  others may have put newer rows behind it. The rest is about ORDER BY: in a set of ids whose largest
  are `base + 1` to `base + n`, the last `n` places hold these in order (`UltimosPostos`), and if there is
  a larger one it is in the last place (`UltimosN`).

`SegmenterProofs`, from three layers of one invariant:

* `BaseInv`: what is held is the last windows heard (`JanelasEmDia`) and every byte fed is in a window
  or in the residue (`BytesContados`). It gives `TypeCorrectness` and `Gapless`.
* `FalaInv`: there is no speech in the pre-roll, `_fala_ms` is the speech in the
  turn and `_silencio_ms` the silence at its end. With `BaseInv` it gives `ExactStart`.
* `TurnosInv`: closed turns lie behind the audio that is held, ascend, and keep the windows they were cut
  from. `DisjointTurns` and `TrimsOnlySilence` follow; the latter needs that the trim is never more
  than the silence that closed the turn, whether or not a window divides `end_silence_ms`.

`CopilotCaptureProofs`, from one invariant of the screen (`Tela`), the subscription (`Inscricao`) and, for each
pipeline, its thread (`UmaThread`) and its listener (`Assinaturas`). A step of a thread leaves the other pipelines
alone (`PassoDaThread`), and a step of the Tk thread all threads; so every half is kept by its own steps.

* `OneDelivery`: before the screen has been rebuilt there is one copy of the subscription, so what
  a thread has handed over of a turn and what it still has to hand over are one submit at most.
* `SilencedSource`: a pipeline that has no listener and still hands over has lost it for good, so no other
  turn of it will find one.
* `NothingLeft`: pw-record and an open turn exist only between the Popen and the `finally`.

`SessionRecorderProofs`:

* `WholeTurns`, from `BlocoInv` and `TurnosInv`: the closed blocks and the one in progress together hold
  exactly the turns that were kept, ascending inside a block and from block to block.
* `OneTimeline`, from `BlocoInv`: the block in progress begins no earlier than the end of every closed one and
  ends at `_last_session_end`. It is what makes overlapping and reversed turns harmless.
* `FaithfulClock`, from `RelogioInv`: while turns come in order, `_raw_offset` is the difference of the two
  clocks at the end of the last turn that was kept.

`SessionProcessorProofs`, from `IInv`: the rows of the database belong to runs that have got to the loop
(`Donos`), and of each run, where it is in the loop (`LacoDe`), what is stored of it (`SalvosDe`, `ColheitaDe`),
what it has stored last (`DesfechoDe`, `StatusDe`), and how many calls have returned since a cancel (`ParadaDe`).
A step of one run adds rows of its own only, so what is read of the others stays.

* `NothingTranscribedIsLost`: the blocks stored are those transcribed, or all but the last, and then only
  while it is being stored, or where the database refused it, or the program died.
* `DoneIsComplete`: a run concludes only past the loop, and with its artifacts and tasks stored.
* `CancelIsPrompt`: calls are begun with the event off, and a run counts none while it is off.
* `TruthfulCallback`: the status stored last decides the callback; with no other run on the session, it is also
  the status of the session.

`LiveTranscriberProofs`, from `LiveInv`, which has a half for each of the two modules. `FilaInv` follows the blocks
and markers from the capture thread to the other one; `StreamingInv` is about words and the buffer.

* `TypeCorrectness`: `LiveType` and `StreamingType`. That confirmed words end within the audio heard is what
  keeps the front of the buffer behind its end, and needs that a pass never hears beyond the buffer.
* `AudioOfItsTurn`: on the way, a marker comes after the audio of its turn and before that of the next (`NaOrdem`);
  everything on the way is of a turn not closed yet (`Pendentes`); each of these turns has its marker on the
  way or to come, or has no text of its own (`Marcados`); and their audio that was accepted has been inserted or is
  on its way (`AudioNoCaminho`). When a marker is taken, no audio of its turn or of an earlier one can be on the
  way behind it, so what was inserted since the last reset is all of it.
* `NothingRepeated`, from `EmOrdem`: a later word of a text begins no earlier than the end of an earlier one, less
  the tolerance. New words are all at or behind the limit, and a word no shorter than the tolerance does not
  take the limit back.
* `PendingStaysInBuffer`: the words left unconfirmed by a pass are at or behind the limit as well, and `_trim` cuts
  `context_s` before it. It is why `context_s` may not be below the tolerance.

Only model-checked: the liveness properties, `VigenteConclui`, `EsperaTermina`, `TodoTurnoSai`,
`PrimeiroStopRetorna`, `ExecucaoAvisa`, `StopEncerra`, `NadaFicaPreso` and `SempreResponde`, which TLAPS does not
reach. Every invariant, every action property and every refinement of the passing runs is proved.

## 6. Not modelled, and the plan

Done so far: the Copilot with its window and its capture, the worker and its contract, the segmenter, live
transcription, the session mode, the repository and its contract, the LLM client and its contract.
Nothing of the plan is left but what the tools do not reach: liveness stays with TLC, on the instances of
section 3.

Left out, and why:

* The VAD and Whisper are external inference: free inputs here.
* `QuestionDetector`, `split_into_parts`, `normalize_map_result`, the Markdown and Obsidian renderers: pure functions
  of text. A model of them would be a copy of regular expressions and formats; their results are free
  inputs of the modules that use them.
* `config/settings.py` keeps no state in memory but the record it returns; its one hazard, the write that is not
  atomic, is listed, and no code recovers from it.
* The AU header and the discovery of audio sources (parsing), logging, theming, the demos and the measuring
  harness (their starting and stopping order is what `LiveTranscriber` takes from them).
