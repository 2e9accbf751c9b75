------------------------ MODULE CopilotCaptureProofs ------------------------
(***************************************************************************)
(* Proofs about the capture of the Copilot, for every number of pipelines  *)
(* and of subscriptions.                                                   *)
(***************************************************************************)
EXTENDS CopilotCapture, TLAPS

\* The phases in which a turn is on its way to the listeners.
Entregando == {"emitir", "repassar", "entregar"}

\* One capture thread.  There is a pw-record, or an open turn, only between the
\* Popen and the finally that gets rid of them; and what is still to be handed over
\* of a turn is one submit at most.
UmaThread(p) ==
    LET c == captura[p]
    IN  /\ c.fase # "entregar" => c.envios = 0
        /\ c.fase # "repassar" => c.restam = 0
        /\ c.fase \notin {"repassar", "entregar"} => c.copias = 0
        /\ c.copias + c.envios <= MaxInscricoes
        /\ c.restam > 0 => c.copias = 0
        /\ c.fase \notin Entregando => c.volta = "verificar"
        /\ pipe[p].proc => \/ c.fase \in {"laco", "ler", "verificar", "encerrar"}
                           \/ c.fase \in Entregando /\ c.volta = "verificar"
        /\ pipe[p].aberto => \/ c.fase \in {"laco", "ler", "verificar", "encerrar", "flush"}
                             \/ c.fase \in Entregando /\ c.volta = "verificar"
        /\ ~refeita => /\ c.copias + c.restam + c.envios <= 1
                       /\ c.tardios + c.restam + c.envios <= 1

\* p has had a listener and lost it for good.
JaCalada(p) ==
    IF p = SISTEMA THEN ui.tela = "fechando"
    ELSE /\ p <= app.microfones
         /\ ui.fase \in {"iniciar_mic", "inscrever_mic"} => p # app.microfones

\* What a thread has handed over late, and what it still has to hand over.
Pendencias(p) == captura[p].tardios + captura[p].restam + captura[p].envios

\* A pipeline has a listener exactly while its lambda is meant to be there; one that
\* has lost it may still hold the turn it was about to deliver, and gets no other.
Assinaturas(p) ==
    /\ Assinada(p) <=> pipe[p].ouvintes = 1
    /\ captura[p].tardios # 0 => ~Assinada(p)
    /\ Pendencias(p) > 0 /\ ~Assinada(p) => JaCalada(p)

Parando == {"calar", "parar", "sinalizar", "join"}
Ligando == {"iniciar", "inscrever_sistema", "inscrever"}

\* The Tk thread.
Tela ==
    /\ app.microphone # NENHUM => app.microphone <= app.microfones
    /\ ui.fase \in {"iniciar_mic", "inscrever_mic"} =>
          app.microphone = NENHUM /\ app.microfones > 0 /\ ui.tela = "copilot"
    /\ ui.fase \in Ligando =>
          ui.tela = "copilot" /\ ui.ouvir /\ app.inscritos < MaxInscricoes
    /\ ui.fase \in Parando =>
          IF ui.alvo = SISTEMA THEN ui.tela = "fechando" /\ app.microphone = NENHUM
                               ELSE ui.alvo = app.microphone
    /\ ui.tela = "fechando" => ui.fase \in Parando \cup {"fechada"}

\* The worker is subscribed once, by the switch that is on, until the screen is
\* rebuilt.
Inscricao ==
    ~refeita => /\ app.inscritos <= 1
                /\ ui.tela = "copilot" /\ app.inscritos = 1 =>
                      app.unsubscribe /\ ui.ouvir /\ ui.fase \notin Ligando

IInv ==
    /\ TypeOK /\ Tela /\ Inscricao
    /\ \A p \in Pipelines : UmaThread(p) /\ Assinaturas(p)

-----------------------------------------------------------------------------
Fases == {"nada", "nascer", "limpar", "abrir", "laco", "ler",
          "emitir", "repassar", "entregar", "verificar",
          "encerrar", "flush", "sair", "fim"}
UmPipe == [rodando : BOOLEAN, stop : BOOLEAN, proc : BOOLEAN,
           aberto : BOOLEAN, ouvintes : 0..1]
UmaCaptura == [fase : Fases, volta : {"verificar", "sair"}, restam : 0..1,
               envios : 0..MaxInscricoes, copias : 0..MaxInscricoes, tardios : 0..2]

TiposDaThread ==
    /\ pipe \in [Pipelines -> UmPipe]
    /\ captura \in [Pipelines -> UmaCaptura]

\* What a step of thread p leaves alone.
Alheio(p) ==
    /\ captura' = [q \in Pipelines |-> IF q = p THEN captura'[p] ELSE captura[q]]
    /\ pipe' = [q \in Pipelines |-> IF q = p THEN pipe'[p] ELSE pipe[q]]
    /\ UNCHANGED <<app, ui, refeita>>
    /\ pipe'[p].ouvintes = pipe[p].ouvintes

\* The step leaves c and r of the thread and its pipeline.
Fica(p, c, r) == captura'[p] = c /\ pipe'[p] = r

LEMMA Tipos == TypeOK => TiposDaThread
BY DEF TypeOK, TiposDaThread, UmPipe, UmaCaptura, Fases

LEMMA TiposDepois ==
    ASSUME TypeOK, NEW p \in Pipelines, Alheio(p),
           captura'[p] \in UmaCaptura, pipe'[p] \in UmPipe
    PROVE  TypeOK'
<1>1. TiposDaThread'
  BY Tipos DEF TiposDaThread, Alheio
<1>2. QED
  BY <1>1 DEF TypeOK, TiposDaThread, UmPipe, UmaCaptura, Fases, Alheio

\* A step of a thread keeps the types, and its own half of the invariant.
LEMMA PassoDaThread ==
    ASSUME TypeOK, Inscricao, NEW p \in Pipelines, UmaThread(p), Assinaturas(p), Thread(p)
    PROVE  Alheio(p) /\ TypeOK' /\ UmaThread(p)'
<1> USE DEF Fase, Vai, SoThread
<1>0. /\ captura[p] \in UmaCaptura /\ pipe[p] \in UmPipe
      /\ captura \in [Pipelines -> UmaCaptura] /\ pipe \in [Pipelines -> UmPipe]
  BY Tipos DEF TiposDaThread
<1>t. ASSUME Alheio(p), captura'[p] \in UmaCaptura, pipe'[p] \in UmPipe, UmaThread(p)'
      PROVE  Alheio(p) /\ TypeOK' /\ UmaThread(p)'
  BY <1>t, TiposDepois
<1>1. CASE Nascer(p)
  <2>1. Alheio(p)
    BY <1>0, <1>1 DEF Alheio, UmPipe, Nascer
  <2>2. captura'[p] \in UmaCaptura /\ pipe'[p] \in UmPipe
    <3>1. captura'[p] \in UmaCaptura
      BY <1>0, <1>1, CaptureAssumption DEF UmaCaptura, Fases, UmaThread, TypeOK, Nascer
    <3>2. pipe'[p] \in UmPipe
      BY <1>0, <1>1, CaptureAssumption DEF UmPipe, Nascer
    <3>3. QED
      BY <3>1, <3>2
  <2>3. UmaThread(p)'
    BY <1>0, <1>1, CaptureAssumption DEF UmaThread, Entregando, UmaCaptura, UmPipe, Fases, TypeOK, Nascer
  <2>4. QED
    BY <1>t, <2>1, <2>2, <2>3
<1>2. CASE Limpar(p)
  <2>1. Alheio(p) /\ refeita' = refeita /\ captura[p].fase = "limpar"
    BY <1>0, <1>2 DEF Alheio, UmPipe, Limpar
  <2>2. \/ Fica(p, [captura[p] EXCEPT !.fase = "flush"], pipe[p])
        \/ Fica(p, [captura[p] EXCEPT !.fase = "abrir"], [pipe[p] EXCEPT !.stop = FALSE])
    BY <1>0, <1>2 DEF Fica, UmPipe, Limpar
  <2>3. CASE Fica(p, [captura[p] EXCEPT !.fase = "flush"], pipe[p])
    <3>1. captura'[p] \in UmaCaptura
      BY <1>0, <2>3 DEF Fica, UmaCaptura, Fases
    <3>2. pipe'[p] \in UmPipe
      BY <1>0, <2>3 DEF Fica, UmPipe
    <3>3. UmaThread(p)'
      BY <1>0, <2>1, <2>3 DEF Fica, UmaThread, Entregando, UmaCaptura, UmPipe, Fases
    <3>4. QED
      BY <1>t, <2>1, <3>1, <3>2, <3>3
  <2>4. CASE Fica(p, [captura[p] EXCEPT !.fase = "abrir"], [pipe[p] EXCEPT !.stop = FALSE])
    <3>1. captura'[p] \in UmaCaptura
      BY <1>0, <2>4 DEF Fica, UmaCaptura, Fases
    <3>2. pipe'[p] \in UmPipe
      BY <1>0, <2>4 DEF Fica, UmPipe
    <3>3. UmaThread(p)'
      BY <1>0, <2>1, <2>4 DEF Fica, UmaThread, Entregando, UmaCaptura, UmPipe, Fases
    <3>4. QED
      BY <1>t, <2>1, <3>1, <3>2, <3>3
  <2>5. QED
    BY <2>2, <2>3, <2>4
<1>3. CASE Abrir(p)
  <2>1. Alheio(p) /\ refeita' = refeita /\ captura[p].fase = "abrir"
    BY <1>0, <1>3 DEF Alheio, UmPipe, Abrir, AoFalhar
  <2>2. \/ Fica(p, [captura[p] EXCEPT !.fase = "flush"], pipe[p])
        \/ Fica(p, [captura[p] EXCEPT !.fase = "laco"], [pipe[p] EXCEPT !.proc = TRUE])
        \/ Fica(p, [captura[p] EXCEPT !.fase = "encerrar"], [pipe[p] EXCEPT !.proc = TRUE])
    BY <1>0, <1>3 DEF Fica, UmPipe, Abrir, AoFalhar
  <2>3. CASE Fica(p, [captura[p] EXCEPT !.fase = "flush"], pipe[p])
    <3>1. captura'[p] \in UmaCaptura
      BY <1>0, <2>3 DEF Fica, UmaCaptura, Fases
    <3>2. pipe'[p] \in UmPipe
      BY <1>0, <2>3 DEF Fica, UmPipe
    <3>3. UmaThread(p)'
      BY <1>0, <2>1, <2>3 DEF Fica, UmaThread, Entregando, UmaCaptura, UmPipe, Fases
    <3>4. QED
      BY <1>t, <2>1, <3>1, <3>2, <3>3
  <2>4. CASE Fica(p, [captura[p] EXCEPT !.fase = "laco"], [pipe[p] EXCEPT !.proc = TRUE])
    <3>1. captura'[p] \in UmaCaptura
      BY <1>0, <2>4 DEF Fica, UmaCaptura, Fases
    <3>2. pipe'[p] \in UmPipe
      BY <1>0, <2>4 DEF Fica, UmPipe
    <3>3. UmaThread(p)'
      BY <1>0, <2>1, <2>4 DEF Fica, UmaThread, Entregando, UmaCaptura, UmPipe, Fases
    <3>4. QED
      BY <1>t, <2>1, <3>1, <3>2, <3>3
  <2>5. CASE Fica(p, [captura[p] EXCEPT !.fase = "encerrar"], [pipe[p] EXCEPT !.proc = TRUE])
    <3>1. captura'[p] \in UmaCaptura
      BY <1>0, <2>5 DEF Fica, UmaCaptura, Fases
    <3>2. pipe'[p] \in UmPipe
      BY <1>0, <2>5 DEF Fica, UmPipe
    <3>3. UmaThread(p)'
      BY <1>0, <2>1, <2>5 DEF Fica, UmaThread, Entregando, UmaCaptura, UmPipe, Fases
    <3>4. QED
      BY <1>t, <2>1, <3>1, <3>2, <3>3
  <2>6. QED
    BY <2>2, <2>3, <2>4, <2>5
<1>4. CASE Laco(p)
  <2>1. Alheio(p)
    BY <1>0, <1>4 DEF Alheio, UmPipe, Laco
  <2>2. captura'[p] \in UmaCaptura /\ pipe'[p] \in UmPipe
    <3>1. captura'[p] \in UmaCaptura
      BY <1>0, <1>4, CaptureAssumption DEF UmaCaptura, Fases, UmaThread, TypeOK, Laco
    <3>2. pipe'[p] \in UmPipe
      BY <1>0, <1>4, CaptureAssumption DEF UmPipe, Laco
    <3>3. QED
      BY <3>1, <3>2
  <2>3. UmaThread(p)'
    BY <1>0, <1>4, CaptureAssumption DEF UmaThread, Entregando, UmaCaptura, UmPipe, Fases, TypeOK, Laco
  <2>4. QED
    BY <1>t, <2>1, <2>2, <2>3
<1>5. CASE Ler(p)
  <2>1. Alheio(p) /\ refeita' = refeita /\ captura[p].fase = "ler"
    BY <1>0, <1>5 DEF Alheio, UmPipe, Ler, AoFalhar, Fechar
  <2>2. \/ Fica(p, [captura[p] EXCEPT !.fase = "encerrar"], pipe[p])
        \/ Fica(p, [captura[p] EXCEPT !.fase = "verificar"], pipe[p])
        \/ Fica(p, [captura[p] EXCEPT !.fase = "verificar"], [pipe[p] EXCEPT !.aberto = TRUE])
        \/ Fica(p, [captura[p] EXCEPT !.fase = "emitir", !.volta = "verificar"], [pipe[p] EXCEPT !.aberto = FALSE])
        \/ Fica(p, [captura[p] EXCEPT !.fase = "verificar"], [pipe[p] EXCEPT !.aberto = FALSE])
        \/ Fica(p, [captura[p] EXCEPT !.fase = "encerrar"], [pipe[p] EXCEPT !.proc = FALSE])
    BY <1>0, <1>5 DEF Fica, UmPipe, Ler, AoFalhar, Fechar
  <2>3. CASE Fica(p, [captura[p] EXCEPT !.fase = "encerrar"], pipe[p])
    <3>1. captura'[p] \in UmaCaptura
      BY <1>0, <2>3 DEF Fica, UmaCaptura, Fases
    <3>2. pipe'[p] \in UmPipe
      BY <1>0, <2>3 DEF Fica, UmPipe
    <3>3. UmaThread(p)'
      BY <1>0, <2>1, <2>3 DEF Fica, UmaThread, Entregando, UmaCaptura, UmPipe, Fases
    <3>4. QED
      BY <1>t, <2>1, <3>1, <3>2, <3>3
  <2>4. CASE Fica(p, [captura[p] EXCEPT !.fase = "verificar"], pipe[p])
    <3>1. captura'[p] \in UmaCaptura
      BY <1>0, <2>4 DEF Fica, UmaCaptura, Fases
    <3>2. pipe'[p] \in UmPipe
      BY <1>0, <2>4 DEF Fica, UmPipe
    <3>3. UmaThread(p)'
      BY <1>0, <2>1, <2>4 DEF Fica, UmaThread, Entregando, UmaCaptura, UmPipe, Fases
    <3>4. QED
      BY <1>t, <2>1, <3>1, <3>2, <3>3
  <2>5. CASE Fica(p, [captura[p] EXCEPT !.fase = "verificar"], [pipe[p] EXCEPT !.aberto = TRUE])
    <3>1. captura'[p] \in UmaCaptura
      BY <1>0, <2>5 DEF Fica, UmaCaptura, Fases
    <3>2. pipe'[p] \in UmPipe
      BY <1>0, <2>5 DEF Fica, UmPipe
    <3>3. UmaThread(p)'
      BY <1>0, <2>1, <2>5 DEF Fica, UmaThread, Entregando, UmaCaptura, UmPipe, Fases
    <3>4. QED
      BY <1>t, <2>1, <3>1, <3>2, <3>3
  <2>6. CASE Fica(p, [captura[p] EXCEPT !.fase = "emitir", !.volta = "verificar"], [pipe[p] EXCEPT !.aberto = FALSE])
    <3>1. captura'[p] \in UmaCaptura
      BY <1>0, <2>6 DEF Fica, UmaCaptura, Fases
    <3>2. pipe'[p] \in UmPipe
      BY <1>0, <2>6 DEF Fica, UmPipe
    <3>3. UmaThread(p)'
      BY <1>0, <2>1, <2>6 DEF Fica, UmaThread, Entregando, UmaCaptura, UmPipe, Fases
    <3>4. QED
      BY <1>t, <2>1, <3>1, <3>2, <3>3
  <2>7. CASE Fica(p, [captura[p] EXCEPT !.fase = "verificar"], [pipe[p] EXCEPT !.aberto = FALSE])
    <3>1. captura'[p] \in UmaCaptura
      BY <1>0, <2>7 DEF Fica, UmaCaptura, Fases
    <3>2. pipe'[p] \in UmPipe
      BY <1>0, <2>7 DEF Fica, UmPipe
    <3>3. UmaThread(p)'
      BY <1>0, <2>1, <2>7 DEF Fica, UmaThread, Entregando, UmaCaptura, UmPipe, Fases
    <3>4. QED
      BY <1>t, <2>1, <3>1, <3>2, <3>3
  <2>8. CASE Fica(p, [captura[p] EXCEPT !.fase = "encerrar"], [pipe[p] EXCEPT !.proc = FALSE])
    <3>1. captura'[p] \in UmaCaptura
      BY <1>0, <2>8 DEF Fica, UmaCaptura, Fases
    <3>2. pipe'[p] \in UmPipe
      BY <1>0, <2>8 DEF Fica, UmPipe
    <3>3. UmaThread(p)'
      BY <1>0, <2>1, <2>8 DEF Fica, UmaThread, Entregando, UmaCaptura, UmPipe, Fases
    <3>4. QED
      BY <1>t, <2>1, <3>1, <3>2, <3>3
  <2>9. QED
    BY <2>2, <2>3, <2>4, <2>5, <2>6, <2>7, <2>8
<1>6. CASE Emitir(p)
  <2>1. Alheio(p) /\ refeita' = refeita /\ captura[p].fase = "emitir"
    BY <1>0, <1>6 DEF Alheio, UmPipe, Emitir
  <2>2. /\ pipe[p].ouvintes \in 0..1
        /\ ~refeita => captura[p].tardios + pipe[p].ouvintes <= 1
    BY <1>0, <2>1 DEF UmPipe, UmaCaptura, UmaThread, Assinaturas, Pendencias
  <2>3. \/ Fica(p, [captura[p] EXCEPT !.fase = "repassar", !.restam = pipe[p].ouvintes], pipe[p])
    BY <1>0, <1>6 DEF Fica, UmPipe, UmaCaptura, Emitir
  <2>4. CASE Fica(p, [captura[p] EXCEPT !.fase = "repassar", !.restam = pipe[p].ouvintes], pipe[p])
    <3>1. captura'[p] \in UmaCaptura
      BY <1>0, <2>4, <2>2 DEF Fica, UmaCaptura, Fases
    <3>2. pipe'[p] \in UmPipe
      BY <1>0, <2>4 DEF Fica, UmPipe
    <3>3. UmaThread(p)'
      BY <1>0, <2>1, <2>4, <2>2 DEF Fica, UmaThread, Entregando, UmaCaptura, UmPipe, Fases
    <3>4. QED
      BY <1>t, <2>1, <3>1, <3>2, <3>3
  <2>5. QED
    BY <2>3, <2>4
<1>7. CASE Repassar(p)
  <2> DEFINE c == captura[p]
  <2>1. Alheio(p) /\ refeita' = refeita /\ c.fase = "repassar"
    BY <1>0, <1>7 DEF Alheio, UmPipe, Repassar
  <2>2. /\ app.inscritos \in 0..MaxInscricoes /\ MaxInscricoes \in Nat
        /\ ~refeita => app.inscritos <= 1
    BY CaptureAssumption DEF TypeOK, Inscricao
  <2>3. CASE c.restam = 0
    <3>1. Fica(p, [c EXCEPT !.fase = c.volta, !.volta = "verificar", !.copias = 0], pipe[p])
      BY <1>0, <1>7, <2>3 DEF Fica, UmPipe, UmaCaptura, Repassar
    <3>2. c.volta \in {"verificar", "sair"} /\ c.envios = 0 /\ 0 \in 0..MaxInscricoes
      BY <1>0, <2>1, <2>2 DEF UmaCaptura, UmaThread
    <3>3. captura'[p] \in UmaCaptura
      BY <1>0, <3>1, <3>2 DEF Fica, UmaCaptura, Fases
    <3>4. pipe'[p] \in UmPipe
      BY <1>0, <3>1 DEF Fica, UmPipe
    <3>5. UmaThread(p)'
      BY <1>0, <2>1, <2>2, <2>3, <3>1, <3>2 DEF Fica, UmaThread, Entregando, UmaCaptura
    <3>6. QED
      BY <1>t, <2>1, <3>3, <3>4, <3>5
  <2>4. CASE c.restam # 0
    <3>1. c.restam = 1 /\ c.restam - 1 = 0 /\ c.copias = 0 /\ c.envios = 0
      BY <1>0, <2>1, <2>4 DEF UmaCaptura, UmaThread
    <3>2. Fica(p, [c EXCEPT !.fase = "entregar", !.restam = 0, !.envios = app.inscritos], pipe[p])
      BY <1>0, <1>7, <3>1 DEF Fica, UmPipe, UmaCaptura, Repassar
    <3>3. captura'[p] \in UmaCaptura
      <4>1. "entregar" \in Fases /\ 0 \in 0..1 /\ app.inscritos \in 0..MaxInscricoes
        BY <2>2 DEF Fases
      <4>2. QED
        BY <1>0, <3>2, <4>1 DEF Fica, UmaCaptura
    <3>4. pipe'[p] \in UmPipe
      BY <1>0, <3>2 DEF Fica, UmPipe
    <3>5. UmaThread(p)'
      BY <1>0, <2>1, <2>2, <3>1, <3>2 DEF Fica, UmaThread, Entregando, UmaCaptura
    <3>6. QED
      BY <1>t, <2>1, <3>3, <3>4, <3>5
  <2>5. QED
    BY <2>3, <2>4
<1>8. CASE Entregar(p)
  <2> DEFINE c == captura[p]
  <2>1. Alheio(p) /\ refeita' = refeita /\ c.fase = "entregar"
    BY <1>0, <1>8 DEF Alheio, UmPipe, Entregar
  <2>2. CASE c.envios = 0
    <3>1. Fica(p, [c EXCEPT !.fase = "repassar"], pipe[p])
      BY <1>0, <1>8, <2>2 DEF Fica, UmPipe, UmaCaptura, Entregar
    <3>2. captura'[p] \in UmaCaptura
      BY <1>0, <3>1 DEF Fica, UmaCaptura, Fases
    <3>3. pipe'[p] \in UmPipe
      BY <1>0, <3>1 DEF Fica, UmPipe
    <3>4. UmaThread(p)'
      BY <1>0, <2>1, <2>2, <3>1 DEF Fica, UmaThread, Entregando, UmaCaptura
    <3>5. QED
      BY <1>t, <2>1, <3>2, <3>3, <3>4
  <2>3. CASE c.envios # 0
    <3> DEFINE m == IF ~Assinada(p) /\ c.tardios < 2 THEN c.tardios + 1 ELSE c.tardios
    <3>1. Fica(p, [c EXCEPT !.envios = c.envios - 1, !.copias = c.copias + 1, !.tardios = m],
               pipe[p])
      BY <1>0, <1>8, <2>3 DEF Fica, UmPipe, UmaCaptura, Entregar
    <3>2. /\ c.copias \in 0..MaxInscricoes /\ c.envios \in 0..MaxInscricoes
          /\ c.copias + c.envios <= MaxInscricoes /\ MaxInscricoes \in Nat
          /\ c.tardios \in 0..2 /\ c.restam \in 0..1
      BY <1>0, CaptureAssumption DEF UmaThread, UmaCaptura
    <3>3. /\ c.envios - 1 \in 0..MaxInscricoes /\ c.copias + 1 \in 0..MaxInscricoes
          /\ m \in 0..2 /\ m <= c.tardios + 1
      BY <2>3, <3>2
    <3> HIDE DEF m
    <3>4. captura'[p] \in UmaCaptura
      BY <1>0, <3>1, <3>3 DEF Fica, UmaCaptura
    <3>5. pipe'[p] \in UmPipe
      BY <1>0, <3>1 DEF Fica, UmPipe
    <3>6. UmaThread(p)'
      BY <1>0, <2>1, <2>3, <3>1, <3>2, <3>3 DEF Fica, UmaThread, Entregando, UmaCaptura
    <3>7. QED
      BY <1>t, <2>1, <3>4, <3>5, <3>6
  <2>4. QED
    BY <2>2, <2>3
<1>9. CASE Verificar(p)
  <2>1. Alheio(p)
    BY <1>0, <1>9 DEF Alheio, UmPipe, Verificar
  <2>2. captura'[p] \in UmaCaptura /\ pipe'[p] \in UmPipe
    <3>1. captura'[p] \in UmaCaptura
      BY <1>0, <1>9, CaptureAssumption DEF UmaCaptura, Fases, UmaThread, TypeOK, Verificar
    <3>2. pipe'[p] \in UmPipe
      BY <1>0, <1>9, CaptureAssumption DEF UmPipe, Verificar
    <3>3. QED
      BY <3>1, <3>2
  <2>3. UmaThread(p)'
    BY <1>0, <1>9, CaptureAssumption DEF UmaThread, Entregando, UmaCaptura, UmPipe, Fases, TypeOK, Verificar
  <2>4. QED
    BY <1>t, <2>1, <2>2, <2>3
<1>10. CASE Encerrar(p)
  <2>1. Alheio(p)
    BY <1>0, <1>10 DEF Alheio, UmPipe, Encerrar
  <2>2. captura'[p] \in UmaCaptura /\ pipe'[p] \in UmPipe
    <3>1. captura'[p] \in UmaCaptura
      BY <1>0, <1>10, CaptureAssumption DEF UmaCaptura, Fases, UmaThread, TypeOK, Encerrar
    <3>2. pipe'[p] \in UmPipe
      BY <1>0, <1>10, CaptureAssumption DEF UmPipe, Encerrar
    <3>3. QED
      BY <3>1, <3>2
  <2>3. UmaThread(p)'
    BY <1>0, <1>10, CaptureAssumption DEF UmaThread, Entregando, UmaCaptura, UmPipe, Fases, TypeOK, Encerrar
  <2>4. QED
    BY <1>t, <2>1, <2>2, <2>3
<1>11. CASE Flush(p)
  <2>1. Alheio(p) /\ refeita' = refeita /\ captura[p].fase = "flush"
    BY <1>0, <1>11 DEF Alheio, UmPipe, Flush, Fechar
  <2>2. \/ Fica(p, [captura[p] EXCEPT !.fase = "emitir", !.volta = "sair"], [pipe[p] EXCEPT !.aberto = FALSE])
        \/ Fica(p, [captura[p] EXCEPT !.fase = "sair"], [pipe[p] EXCEPT !.aberto = FALSE])
        \/ Fica(p, [captura[p] EXCEPT !.fase = "sair"], pipe[p]) /\ ~pipe[p].aberto
    BY <1>0, <1>11 DEF Fica, UmPipe, Flush, Fechar
  <2>3. CASE Fica(p, [captura[p] EXCEPT !.fase = "emitir", !.volta = "sair"], [pipe[p] EXCEPT !.aberto = FALSE])
    <3>1. captura'[p] \in UmaCaptura
      BY <1>0, <2>3 DEF Fica, UmaCaptura, Fases
    <3>2. pipe'[p] \in UmPipe
      BY <1>0, <2>3 DEF Fica, UmPipe
    <3>3. UmaThread(p)'
      BY <1>0, <2>1, <2>3 DEF Fica, UmaThread, Entregando, UmaCaptura, UmPipe, Fases
    <3>4. QED
      BY <1>t, <2>1, <3>1, <3>2, <3>3
  <2>4. CASE Fica(p, [captura[p] EXCEPT !.fase = "sair"], [pipe[p] EXCEPT !.aberto = FALSE])
    <3>1. captura'[p] \in UmaCaptura
      BY <1>0, <2>4 DEF Fica, UmaCaptura, Fases
    <3>2. pipe'[p] \in UmPipe
      BY <1>0, <2>4 DEF Fica, UmPipe
    <3>3. UmaThread(p)'
      BY <1>0, <2>1, <2>4 DEF Fica, UmaThread, Entregando, UmaCaptura, UmPipe, Fases
    <3>4. QED
      BY <1>t, <2>1, <3>1, <3>2, <3>3
  <2>5. CASE Fica(p, [captura[p] EXCEPT !.fase = "sair"], pipe[p]) /\ ~pipe[p].aberto
    <3>1. captura'[p] \in UmaCaptura
      BY <1>0, <2>5 DEF Fica, UmaCaptura, Fases
    <3>2. pipe'[p] \in UmPipe
      BY <1>0, <2>5 DEF Fica, UmPipe
    <3>3. UmaThread(p)'
      BY <1>0, <2>1, <2>5 DEF Fica, UmaThread, Entregando, UmaCaptura, UmPipe, Fases
    <3>4. QED
      BY <1>t, <2>1, <3>1, <3>2, <3>3
  <2>6. QED
    BY <2>2, <2>3, <2>4, <2>5
<1>12. CASE Sair(p)
  <2>1. Alheio(p)
    BY <1>0, <1>12 DEF Alheio, UmPipe, Sair
  <2>2. captura'[p] \in UmaCaptura /\ pipe'[p] \in UmPipe
    <3>1. captura'[p] \in UmaCaptura
      BY <1>0, <1>12, CaptureAssumption DEF UmaCaptura, Fases, UmaThread, TypeOK, Sair
    <3>2. pipe'[p] \in UmPipe
      BY <1>0, <1>12, CaptureAssumption DEF UmPipe, Sair
    <3>3. QED
      BY <3>1, <3>2
  <2>3. UmaThread(p)'
    BY <1>0, <1>12, CaptureAssumption DEF UmaThread, Entregando, UmaCaptura, UmPipe, Fases, TypeOK, Sair
  <2>4. QED
    BY <1>t, <2>1, <2>2, <2>3
<1>13. QED
  BY <1>1, <1>2, <1>3, <1>4, <1>5, <1>6, <1>7, <1>8, <1>9, <1>10, <1>11, <1>12 DEF Thread

\* What a step of thread p does to the counts of its turn: a submit is late only
\* when the lambda is gone, and work appears only where there is a listener.
LEMMA ContasDaThread ==
    ASSUME TypeOK, NEW p \in Pipelines, Thread(p)
    PROVE  /\ captura'[p].tardios = captura[p].tardios \/ ~Assinada(p)
           /\ Pendencias(p)' = 0 \/ Pendencias(p) > 0 \/ pipe[p].ouvintes = 1
<1> USE DEF Fase, Vai, SoThread
<1>0. /\ captura[p] \in UmaCaptura /\ pipe[p] \in UmPipe
      /\ captura \in [Pipelines -> UmaCaptura]
  BY Tipos DEF TiposDaThread
<1>1. CASE Emitir(p)
  <2>1. /\ captura'[p].tardios = captura[p].tardios
        /\ captura'[p].envios = captura[p].envios
        /\ captura'[p].restam = pipe[p].ouvintes
    BY <1>0, <1>1 DEF Emitir, UmaCaptura
  <2>2. QED
    BY <1>0, <2>1 DEF Pendencias, UmaCaptura, UmPipe
<1>2. CASE Repassar(p)
  <2>1. captura'[p].tardios = captura[p].tardios
    BY <1>0, <1>2 DEF Repassar, UmaCaptura
  <2>2. CASE captura[p].restam = 0
    <3>1. captura'[p].restam = captura[p].restam /\ captura'[p].envios = captura[p].envios
      BY <1>0, <1>2, <2>2 DEF Repassar, UmaCaptura
    <3>2. QED
      BY <1>0, <2>1, <3>1 DEF Pendencias, UmaCaptura
  <2>3. CASE captura[p].restam # 0
    BY <1>0, <2>1, <2>3 DEF Pendencias, UmaCaptura
  <2>4. QED
    BY <2>2, <2>3
<1>3. CASE Entregar(p)
  <2>1. CASE captura[p].envios = 0
    <3>1. /\ captura'[p].tardios = captura[p].tardios
          /\ captura'[p].envios = captura[p].envios
          /\ captura'[p].restam = captura[p].restam
      BY <1>0, <1>3, <2>1 DEF Entregar, UmaCaptura
    <3>2. QED
      BY <1>0, <3>1 DEF Pendencias, UmaCaptura
  <2>2. CASE captura[p].envios # 0
    <3>1. captura'[p].tardios = captura[p].tardios \/ ~Assinada(p)
      BY <1>0, <1>3, <2>2 DEF Entregar, UmaCaptura
    <3>2. QED
      BY <1>0, <2>2, <3>1 DEF Pendencias, UmaCaptura
  <2>3. QED
    BY <2>1, <2>2
<1>4. CASE \/ Nascer(p) \/ Limpar(p) \/ Abrir(p) \/ Laco(p) \/ Ler(p)
           \/ Verificar(p) \/ Encerrar(p) \/ Flush(p) \/ Sair(p)
  <2>1. /\ captura'[p].tardios = captura[p].tardios
        /\ captura'[p].envios = captura[p].envios
        /\ captura'[p].restam = captura[p].restam
    <3>1. CASE Nascer(p) \/ Limpar(p) \/ Abrir(p) \/ Laco(p)
      BY <1>0, <3>1 DEF UmaCaptura, Nascer, Limpar, Abrir, Laco
    <3>2. CASE Ler(p)
      <4>1. \/ captura'[p] = [captura[p] EXCEPT !.fase = "encerrar"]
            \/ captura'[p] = [captura[p] EXCEPT !.fase = "verificar"]
            \/ captura'[p] = [captura[p] EXCEPT !.fase = "emitir", !.volta = "verificar"]
        BY <1>0, <3>2 DEF Ler, AoFalhar, Fechar
      <4>2. QED
        BY <1>0, <4>1 DEF UmaCaptura
    <3>3. CASE Flush(p)
      <4>1. \/ captura'[p] = [captura[p] EXCEPT !.fase = "sair"]
            \/ captura'[p] = [captura[p] EXCEPT !.fase = "emitir", !.volta = "sair"]
        BY <1>0, <3>3 DEF Flush, Fechar
      <4>2. QED
        BY <1>0, <4>1 DEF UmaCaptura
    <3>4. CASE Verificar(p) \/ Encerrar(p) \/ Sair(p)
      BY <1>0, <3>4 DEF UmaCaptura, Verificar, Encerrar, Sair
    <3>5. QED
      BY <1>4, <3>1, <3>2, <3>3, <3>4
  <2>2. QED
    BY <1>0, <2>1 DEF Pendencias, UmaCaptura
<1>5. QED
  BY <1>1, <1>2, <1>3, <1>4 DEF Thread

LEMMA ThreadGuarda ==
    ASSUME IInv, NEW p \in Pipelines, Thread(p)
    PROVE  IInv'
<1>1. UmaThread(p) /\ Assinaturas(p) /\ TypeOK /\ Inscricao
  BY DEF IInv
<1>2. Alheio(p) /\ TypeOK' /\ UmaThread(p)'
  BY <1>1, PassoDaThread
<1>3. Tela' /\ Inscricao'
  BY <1>2 DEF IInv, Tela, Inscricao, Alheio
<1>4. ASSUME NEW q \in Pipelines, q # p
      PROVE  UmaThread(q)' /\ Assinaturas(q)'
  <2>1. captura'[q] = captura[q] /\ pipe'[q] = pipe[q] /\ UNCHANGED <<app, ui, refeita>>
    BY <1>2, <1>4 DEF Alheio
  <2>2. UmaThread(q) /\ Assinaturas(q)
    BY DEF IInv
  <2>3. QED
    BY <2>1, <2>2 DEF UmaThread, Assinaturas, Assinada, JaCalada, Pendencias
<1>5. Assinaturas(p)'
  <2>1. /\ pipe'[p].ouvintes = pipe[p].ouvintes
        /\ Assinada(p)' <=> Assinada(p)
        /\ JaCalada(p)' <=> JaCalada(p)
    BY <1>2 DEF Alheio, Assinada, JaCalada
  <2>2. /\ captura'[p].tardios = captura[p].tardios \/ ~Assinada(p)
        /\ Pendencias(p)' = 0 \/ Pendencias(p) > 0 \/ pipe[p].ouvintes = 1
    BY <1>1, ContasDaThread
  <2>3. QED
    BY <1>1, <2>1, <2>2 DEF Assinaturas
<1>6. QED
  BY <1>2, <1>3, <1>4, <1>5 DEF IInv

-----------------------------------------------------------------------------
\* The Tk thread.
UmApp == [montado : BOOLEAN, microfones : 0..MaxMicrofones,
          microphone : (1..MaxMicrofones) \cup {NENHUM},
          system_unsubscribe : BOOLEAN, inscritos : 0..MaxInscricoes,
          unsubscribe : BOOLEAN]
Telas == {"copilot", "config", "fechando"}
FasesDaTela == {"livre", "iniciar", "inscrever_sistema", "inscrever", "iniciar_mic",
                "inscrever_mic", "calar", "parar", "sinalizar", "join", "fechada"}
UmaTela == [fase : FasesDaTela, alvo : Pipelines, tela : Telas,
            ouvir : BOOLEAN, mic : BOOLEAN]

LEMMA TiposPorParte ==
    TypeOK <=> TiposDaThread /\ app \in UmApp /\ ui \in UmaTela /\ refeita \in BOOLEAN
BY DEF TypeOK, TiposDaThread, UmPipe, UmaCaptura, Fases, UmApp, UmaTela, Telas, FasesDaTela

\* What a step of the Tk thread may do to the thread of q: start it.
Quieta(q) ==
    /\ \/ captura'[q] = captura[q]
       \/ ~Viva(q) /\ captura'[q] = [captura[q] EXCEPT !.fase = "nascer"]
    /\ pipe'[q].proc = pipe[q].proc /\ pipe'[q].aberto = pipe[q].aberto

LEMMA ThreadQuieta ==
    ASSUME TypeOK, NEW q \in Pipelines, UmaThread(q), Quieta(q), refeita => refeita'
    PROVE  /\ UmaThread(q)'
           /\ captura'[q].tardios = captura[q].tardios
           /\ Pendencias(q)' = Pendencias(q)
<1>1. captura[q] \in UmaCaptura
  BY Tipos DEF TiposDaThread
<1>2. /\ captura'[q].tardios = captura[q].tardios /\ captura'[q].envios = captura[q].envios
      /\ captura'[q].restam = captura[q].restam /\ captura'[q].copias = captura[q].copias
      /\ captura'[q].volta = captura[q].volta
      /\ \/ captura'[q].fase = captura[q].fase
         \/ captura[q].fase \in {"nada", "fim"} /\ captura'[q].fase = "nascer"
  BY <1>1 DEF Quieta, UmaCaptura, Viva
<1>3. UmaThread(q)'
  <2>1. pipe'[q].proc = pipe[q].proc /\ pipe'[q].aberto = pipe[q].aberto
    BY DEF Quieta
  <2>2. CASE captura'[q].fase = captura[q].fase
    BY <1>2, <2>1, <2>2 DEF UmaThread
  <2>3. CASE captura[q].fase \in {"nada", "fim"} /\ captura'[q].fase = "nascer"
    BY <1>2, <2>1, <2>3 DEF UmaThread, Entregando
  <2>4. QED
    BY <1>2, <2>2, <2>3
<1>4. QED
  BY <1>2, <1>3 DEF Pendencias

\* Start, for a pipeline of the bound.
LEMMA StartQuieto ==
    ASSUME TypeOK, NEW p \in Pipelines, Start(p), UNCHANGED pipe
    PROVE  TiposDaThread' /\ \A q \in Pipelines : Quieta(q)
<1>1. TiposDaThread
  BY Tipos
<1>2. CASE Viva(p)
  BY <1>1, <1>2 DEF TiposDaThread, Quieta, Start
<1>3. CASE ~Viva(p)
  <2>1. captura' = [captura EXCEPT ![p].fase = "nascer"]
    BY <1>3 DEF Start
  <2>2. [captura[p] EXCEPT !.fase = "nascer"] \in UmaCaptura
    BY <1>1 DEF TiposDaThread, UmaCaptura, Fases
  <2>3. captura' \in [Pipelines -> UmaCaptura]
    BY <1>1, <2>1, <2>2 DEF TiposDaThread
  <2>4. ASSUME NEW q \in Pipelines
        PROVE  Quieta(q)
    BY <1>1, <1>3, <2>1 DEF TiposDaThread, Quieta
  <2>5. QED
    BY <1>1, <2>3, <2>4 DEF TiposDaThread
<1>4. QED
  BY <1>2, <1>3

\* What is left to show of a step of the Tk thread.
LEMMA TelaGuarda ==
    ASSUME IInv, TiposDaThread', app' \in UmApp, ui' \in UmaTela, refeita' \in BOOLEAN,
           refeita => refeita', Tela', Inscricao',
           \A q \in Pipelines : Quieta(q),
           \A q \in Pipelines :
              /\ captura'[q].tardios = captura[q].tardios
              /\ Pendencias(q)' = Pendencias(q)
              => Assinaturas(q)'
    PROVE  IInv'
<1>1. TypeOK'
  BY DEF TypeOK, TiposDaThread, UmPipe, UmaCaptura, Fases, UmApp, UmaTela, Telas, FasesDaTela
<1>2. ASSUME NEW q \in Pipelines
      PROVE  UmaThread(q)' /\ Assinaturas(q)'
  <2>1. UmaThread(q) /\ Quieta(q) /\ TypeOK
    BY DEF IInv
  <2>2. /\ UmaThread(q)' /\ captura'[q].tardios = captura[q].tardios
        /\ Pendencias(q)' = Pendencias(q)
    BY <2>1, ThreadQuieta
  <2>3. QED
    BY <2>2
<1>3. QED
  BY <1>1, <1>2 DEF IInv

\* What the invariant says of a pipeline that never lost its listener, and of
\* the number of its listeners.
LEMMA SemAtraso ==
    ASSUME TiposDaThread, NEW q \in Pipelines, Assinaturas(q), ~JaCalada(q)
    PROVE  captura[q].tardios = 0
<1>1. captura[q] \in UmaCaptura
  BY DEF TiposDaThread
<1>2. Pendencias(q) > 0 \/ captura[q].tardios = 0
  BY <1>1 DEF Pendencias, UmaCaptura
<1>3. QED
  BY <1>2 DEF Assinaturas

LEMMA QuantosOuvintes ==
    ASSUME TiposDaThread, NEW q \in Pipelines, Assinaturas(q)
    PROVE  pipe[q].ouvintes = IF Assinada(q) THEN 1 ELSE 0
<1>1. pipe[q].ouvintes \in 0..1
  BY DEF TiposDaThread, UmPipe
<1>2. QED
  BY <1>1 DEF Assinaturas

\* The lambda is put on a pipeline, or taken from it.
LEMMA TrocaDeOuvinte ==
    ASSUME TiposDaThread, NEW p \in Pipelines, NEW n, n = 0 \/ n = 1,
           pipe' = [pipe EXCEPT ![p].ouvintes = n], UNCHANGED captura
    PROVE  TiposDaThread' /\ pipe'[p].ouvintes = n
<1>1. pipe \in [Pipelines -> UmPipe]
  BY DEF TiposDaThread
<1>2. [pipe[p] EXCEPT !.ouvintes = n] \in UmPipe
  BY <1>1 DEF UmPipe
<1>3. pipe' = [pipe EXCEPT ![p] = [pipe[p] EXCEPT !.ouvintes = n]]
  OBVIOUS
<1>4. pipe' \in [Pipelines -> UmPipe]
  BY <1>1, <1>2, <1>3
<1>5. pipe'[p].ouvintes = n
  BY <1>1 DEF UmPipe
<1>6. QED
  BY <1>4, <1>5 DEF TiposDaThread

\* The later steps of a handler of the Tk thread.
LEMMA HandlerGuarda ==
    ASSUME IInv, Handler
    PROVE  IInv'
<1>0. /\ TypeOK /\ TiposDaThread /\ app \in UmApp /\ ui \in UmaTela /\ refeita \in BOOLEAN
      /\ Tela /\ Inscricao /\ MaxInscricoes \in Nat /\ MaxMicrofones \in Nat
      /\ \A q \in Pipelines : Assinaturas(q)
  BY TiposPorParte, CaptureAssumption DEF IInv
<1>1. CASE IniciarSistema
  <2>1. SISTEMA \in Pipelines /\ Start(SISTEMA) /\ UNCHANGED pipe
    BY <1>0, <1>1 DEF IniciarSistema, SISTEMA, Pipelines, UmApp
  <2>2. TiposDaThread' /\ \A q \in Pipelines : Quieta(q)
    BY <1>0, <2>1, StartQuieto
  <2>3. app' \in UmApp
    BY <1>0, <1>1 DEF IniciarSistema, UiVai, UmApp, SISTEMA, NENHUM, Tela
  <2>4. ui' \in UmaTela
    BY <1>0, <1>1 DEF IniciarSistema, UiVai, UmaTela, FasesDaTela, Telas, UmApp, Pipelines, SISTEMA, NENHUM
  <2>5. refeita' \in BOOLEAN /\ (refeita => refeita')
    BY <1>0, <1>1 DEF IniciarSistema
  <2>6. Tela'
    BY <1>0, <1>1 DEF IniciarSistema, UiVai, Tela, UmApp, UmaTela, Parando, Ligando, FasesDaTela, Telas, SISTEMA, NENHUM
  <2>7. Inscricao'
    BY <1>0, <1>1 DEF IniciarSistema, UiVai, Inscricao, Tela, UmApp, UmaTela, Ligando
  <2>8. ASSUME NEW q \in Pipelines, captura'[q].tardios = captura[q].tardios,
               Pendencias(q)' = Pendencias(q)
        PROVE  Assinaturas(q)'
    BY <1>0, <1>1, <2>8 DEF IniciarSistema, UiVai, Assinaturas, Assinada, JaCalada, Tela, UmApp, UmaTela,
       TiposDaThread, UmPipe, Parando, Ligando, SISTEMA, NENHUM
  <2>9. QED
    BY <2>1, <2>2, <2>3, <2>4, <2>5, <2>6, <2>7, <2>8, TelaGuarda
<1>2. CASE InscreverSistema
  <2>1. TiposDaThread'
    <3>1. SISTEMA \in Pipelines
      BY <1>0 DEF Pipelines, SISTEMA
    <3>2. CASE JaInscrito
      BY <1>0, <1>2, <3>2 DEF InscreverSistema, TiposDaThread
    <3>3. CASE ~JaInscrito
      <4>1. pipe[SISTEMA].ouvintes = 0
        BY <1>0, <3>1, <3>3, QuantosOuvintes DEF JaInscrito, Assinada
      <4>2. pipe' = [pipe EXCEPT ![SISTEMA].ouvintes = 1] /\ UNCHANGED captura
        BY <1>2, <3>3, <4>1 DEF InscreverSistema
      <4>3. QED
        BY <1>0, <3>1, <4>2, TrocaDeOuvinte
    <3>4. QED
      BY <3>2, <3>3
  <2>2. \A q \in Pipelines : Quieta(q)
    BY <1>0, <1>2 DEF InscreverSistema, UiVai, JaInscrito, TiposDaThread, UmPipe, UmApp, UmaTela, Quieta
  <2>3. app' \in UmApp
    BY <1>0, <1>2 DEF InscreverSistema, UiVai, JaInscrito, UmApp, SISTEMA, NENHUM, Tela
  <2>4. ui' \in UmaTela
    BY <1>0, <1>2 DEF InscreverSistema, UiVai, JaInscrito, UmaTela, FasesDaTela, Telas, UmApp, Pipelines, SISTEMA, NENHUM
  <2>5. refeita' \in BOOLEAN /\ (refeita => refeita')
    BY <1>0, <1>2 DEF InscreverSistema
  <2>6. Tela'
    BY <1>0, <1>2 DEF InscreverSistema, UiVai, JaInscrito, Tela, UmApp, UmaTela, Parando, Ligando, FasesDaTela, Telas, SISTEMA, NENHUM
  <2>7. Inscricao'
    BY <1>0, <1>2 DEF InscreverSistema, UiVai, JaInscrito, Inscricao, Tela, UmApp, UmaTela, Ligando
  <2>8. ASSUME NEW q \in Pipelines, captura'[q].tardios = captura[q].tardios,
               Pendencias(q)' = Pendencias(q)
        PROVE  Assinaturas(q)'
    <3>1. CASE q = SISTEMA
      <4>1. captura[SISTEMA].tardios = 0
        <5>1. ~JaCalada(SISTEMA)
          BY <1>0, <1>2 DEF InscreverSistema, JaCalada, Tela, Ligando
        <5>2. QED
          BY <1>0, <3>1, <5>1, SemAtraso
      <4>2. Assinada(SISTEMA)'
        BY <1>0, <1>2 DEF InscreverSistema, JaInscrito, Assinada, UmApp
      <4>3. pipe[SISTEMA].ouvintes = IF Assinada(SISTEMA) THEN 1 ELSE 0
        BY <1>0, <3>1, QuantosOuvintes
      <4>4. pipe'[SISTEMA].ouvintes = 1
        BY <1>0, <1>2, <3>1, <4>3 DEF InscreverSistema, JaInscrito, Assinada, TiposDaThread, UmPipe
      <4>5. QED
        BY <2>8, <3>1, <4>1, <4>2, <4>4 DEF Assinaturas
    <3>2. CASE q # SISTEMA
      <4>1. /\ pipe'[q] = pipe[q]
            /\ Assinada(q)' <=> Assinada(q)
            /\ JaCalada(q)' <=> JaCalada(q)
        BY <1>0, <1>2, <3>2 DEF InscreverSistema, UiVai, Assinada, JaCalada, TiposDaThread,
                                UmApp, UmaTela
      <4>2. QED
        BY <1>0, <2>8, <4>1 DEF Assinaturas
    <3>3. QED
      BY <3>1, <3>2
  <2>9. QED
    BY <2>1, <2>2, <2>3, <2>4, <2>5, <2>6, <2>7, <2>8, TelaGuarda
<1>3. CASE Inscrever
  <2>1. TiposDaThread'
    BY <1>0, <1>3 DEF Inscrever, TiposDaThread
  <2>2. \A q \in Pipelines : Quieta(q)
    BY <1>3 DEF Inscrever, Quieta
  <2>3. app' \in UmApp
    <3>1. app.inscritos + 1 \in 0..MaxInscricoes
      BY <1>0, <1>3 DEF Inscrever, Tela, Ligando, UmApp
    <3>2. QED
      BY <1>0, <1>3, <3>1 DEF Inscrever, UmApp
  <2>4. ui' \in UmaTela
    BY <1>0, <1>3 DEF Inscrever, UiVai, UmaTela, FasesDaTela, Telas, UmApp, Pipelines, SISTEMA, NENHUM
  <2>5. refeita' \in BOOLEAN /\ (refeita => refeita')
    BY <1>0, <1>3 DEF Inscrever
  <2>6. Tela'
    BY <1>0, <1>3 DEF Inscrever, UiVai, Tela, UmApp, UmaTela, Parando, Ligando, FasesDaTela, Telas, SISTEMA, NENHUM
  <2>7. Inscricao'
    BY <1>0, <1>3 DEF Inscrever, UiVai, Inscricao, Tela, UmApp, UmaTela, Ligando
  <2>8. ASSUME NEW q \in Pipelines, captura'[q].tardios = captura[q].tardios,
               Pendencias(q)' = Pendencias(q)
        PROVE  Assinaturas(q)'
    BY <1>0, <1>3, <2>8 DEF Inscrever, UiVai, Assinaturas, Assinada, JaCalada, Tela, UmApp, UmaTela,
       TiposDaThread, UmPipe, Parando, Ligando, SISTEMA, NENHUM
  <2>9. QED
    BY <2>1, <2>2, <2>3, <2>4, <2>5, <2>6, <2>7, <2>8, TelaGuarda
<1>4. CASE IniciarMic
  <2>1. app.microfones \in Pipelines /\ Start(app.microfones) /\ UNCHANGED pipe
    BY <1>0, <1>4 DEF IniciarMic, SISTEMA, Pipelines, UmApp
  <2>2. TiposDaThread' /\ \A q \in Pipelines : Quieta(q)
    BY <1>0, <2>1, StartQuieto
  <2>3. app' \in UmApp
    BY <1>0, <1>4 DEF IniciarMic, UiVai, UmApp, SISTEMA, NENHUM, Tela
  <2>4. ui' \in UmaTela
    BY <1>0, <1>4 DEF IniciarMic, UiVai, UmaTela, FasesDaTela, Telas, UmApp, Pipelines, SISTEMA, NENHUM
  <2>5. refeita' \in BOOLEAN /\ (refeita => refeita')
    BY <1>0, <1>4 DEF IniciarMic
  <2>6. Tela'
    BY <1>0, <1>4 DEF IniciarMic, UiVai, Tela, UmApp, UmaTela, Parando, Ligando, FasesDaTela, Telas, SISTEMA, NENHUM
  <2>7. Inscricao'
    BY <1>0, <1>4 DEF IniciarMic, UiVai, Inscricao, Tela, UmApp, UmaTela, Ligando
  <2>8. ASSUME NEW q \in Pipelines, captura'[q].tardios = captura[q].tardios,
               Pendencias(q)' = Pendencias(q)
        PROVE  Assinaturas(q)'
    BY <1>0, <1>4, <2>8 DEF IniciarMic, UiVai, Assinaturas, Assinada, JaCalada, Tela, UmApp, UmaTela,
       TiposDaThread, UmPipe, Parando, Ligando, SISTEMA, NENHUM
  <2>9. QED
    BY <2>1, <2>2, <2>3, <2>4, <2>5, <2>6, <2>7, <2>8, TelaGuarda
<1>5. CASE InscreverMic
  <2>1. TiposDaThread'
    <3>1. app.microfones \in Pipelines /\ app.microfones # SISTEMA /\ app.microphone = NENHUM
      BY <1>0, <1>5 DEF InscreverMic, Tela, UmApp, Pipelines, SISTEMA
    <3>2. pipe[app.microfones].ouvintes = 0
      BY <1>0, <3>1, QuantosOuvintes DEF Assinada, NENHUM, Pipelines
    <3>3. pipe' = [pipe EXCEPT ![app.microfones].ouvintes = 1] /\ UNCHANGED captura
      BY <1>5, <3>2 DEF InscreverMic
    <3>4. QED
      BY <1>0, <3>1, <3>3, TrocaDeOuvinte
  <2>2. \A q \in Pipelines : Quieta(q)
    BY <1>0, <1>5 DEF InscreverMic, UiVai, TiposDaThread, UmPipe, UmApp, UmaTela, Quieta
  <2>3. app' \in UmApp
    BY <1>0, <1>5 DEF InscreverMic, UiVai, UmApp, SISTEMA, NENHUM, Tela
  <2>4. ui' \in UmaTela
    BY <1>0, <1>5 DEF InscreverMic, UiVai, UmaTela, FasesDaTela, Telas, UmApp, Pipelines, SISTEMA, NENHUM
  <2>5. refeita' \in BOOLEAN /\ (refeita => refeita')
    BY <1>0, <1>5 DEF InscreverMic
  <2>6. Tela'
    BY <1>0, <1>5 DEF InscreverMic, UiVai, Tela, UmApp, UmaTela, Parando, Ligando, FasesDaTela, Telas, SISTEMA, NENHUM
  <2>7. Inscricao'
    BY <1>0, <1>5 DEF InscreverMic, UiVai, Inscricao, Tela, UmApp, UmaTela, Ligando
  <2>8. ASSUME NEW q \in Pipelines, captura'[q].tardios = captura[q].tardios,
               Pendencias(q)' = Pendencias(q)
        PROVE  Assinaturas(q)'
    <3> DEFINE m == app.microfones
    <3>1. m \in Pipelines /\ m # SISTEMA /\ m \in Nat /\ app.microphone = NENHUM
      BY <1>0, <1>5 DEF InscreverMic, Tela, UmApp, Pipelines, SISTEMA
    <3>2. app' = [app EXCEPT !.microphone = m] /\ ui' = [ui EXCEPT !.fase = "livre"]
      BY <1>5 DEF InscreverMic, UiVai
    <3>3. /\ app'.microphone = m /\ app'.microfones = m /\ ui'.fase = "livre"
          /\ app'.system_unsubscribe = app.system_unsubscribe /\ ui'.tela = ui.tela
      BY <1>0, <3>2 DEF UmApp, UmaTela
    <3>4. CASE q = m
      <4>1. captura[q].tardios = 0
        <5>1. ~JaCalada(q)
          BY <1>0, <1>5, <3>1, <3>4 DEF InscreverMic, JaCalada
        <5>2. QED
          BY <1>0, <5>1, SemAtraso
      <4>2. Assinada(q)'
        BY <3>1, <3>3, <3>4 DEF Assinada
      <4>3. pipe[q].ouvintes = 0
        BY <1>0, <3>1, <3>4, QuantosOuvintes DEF Assinada, NENHUM, Pipelines
      <4>4. pipe' = [pipe EXCEPT ![q].ouvintes = 1] /\ UNCHANGED captura
        BY <1>5, <3>4, <4>3 DEF InscreverMic
      <4>5. pipe'[q].ouvintes = 1
        BY <1>0, <4>4, TrocaDeOuvinte
      <4>6. QED
        BY <2>8, <4>1, <4>2, <4>5 DEF Assinaturas
    <3>5. CASE q # m
      <4>1. pipe'[q] = pipe[q]
        BY <1>0, <1>5, <3>5 DEF InscreverMic, TiposDaThread
      <4>2. Assinada(q)' <=> Assinada(q)
        BY <1>0, <3>1, <3>3, <3>5 DEF Assinada, NENHUM, Pipelines
      <4>3. JaCalada(q) => JaCalada(q)'
        BY <1>0, <3>1, <3>3, <3>5 DEF JaCalada
      <4>4. QED
        BY <1>0, <2>8, <4>1, <4>2, <4>3 DEF Assinaturas
    <3>6. QED
      BY <3>4, <3>5
  <2>9. QED
    BY <2>1, <2>2, <2>3, <2>4, <2>5, <2>6, <2>7, <2>8, TelaGuarda
<1>6. CASE Calar
  <2>1. TiposDaThread'
    <3> DEFINE n == UmaAMenos(pipe[ui.alvo].ouvintes)
    <3>1. ui.alvo \in Pipelines /\ (n = 0 \/ n = 1)
      BY <1>0 DEF UmaTela, TiposDaThread, UmPipe, UmaAMenos
    <3>2. pipe' = [pipe EXCEPT ![ui.alvo].ouvintes = n] /\ UNCHANGED captura
      BY <1>6 DEF Calar, SemOuvinte
    <3> HIDE DEF n
    <3>3. QED
      BY <1>0, <3>1, <3>2, TrocaDeOuvinte
  <2>2. \A q \in Pipelines : Quieta(q)
    BY <1>0, <1>6 DEF Calar, UiVai, SemOuvinte, UmaAMenos, TiposDaThread, UmPipe, UmApp, UmaTela, Quieta
  <2>3. app' \in UmApp
    BY <1>0, <1>6 DEF Calar, UiVai, SemOuvinte, UmaAMenos, UmApp, SISTEMA, NENHUM, Tela
  <2>4. ui' \in UmaTela
    BY <1>0, <1>6 DEF Calar, UiVai, SemOuvinte, UmaAMenos, UmaTela, FasesDaTela, Telas, UmApp, Pipelines, SISTEMA, NENHUM
  <2>5. refeita' \in BOOLEAN /\ (refeita => refeita')
    BY <1>0, <1>6 DEF Calar
  <2>6. Tela'
    BY <1>0, <1>6 DEF Calar, UiVai, SemOuvinte, UmaAMenos, Tela, UmApp, UmaTela, Parando, Ligando, FasesDaTela, Telas, SISTEMA, NENHUM
  <2>7. Inscricao'
    BY <1>0, <1>6 DEF Calar, UiVai, SemOuvinte, UmaAMenos, Inscricao, Tela, UmApp, UmaTela, Ligando
  <2>8. ASSUME NEW q \in Pipelines, captura'[q].tardios = captura[q].tardios,
               Pendencias(q)' = Pendencias(q)
        PROVE  Assinaturas(q)'
    <3>1. /\ ui.alvo \in Pipelines /\ ui'.fase = "parar" /\ ui'.tela = ui.tela
          /\ app'.microfones = app.microfones /\ app'.microphone = app.microphone
      BY <1>0, <1>6 DEF Calar, UiVai, UmaTela, UmApp
    <3>2. IF ui.alvo = SISTEMA THEN ui.tela = "fechando" /\ app.microphone = NENHUM
                               ELSE ui.alvo = app.microphone /\ app.microphone <= app.microfones
      BY <1>0, <1>6 DEF Calar, Tela, Parando, NENHUM, UmaTela, Pipelines
    <3>3. CASE q = ui.alvo
      <4>1. ~Assinada(q)' /\ JaCalada(q)'
        BY <1>0, <1>6, <3>1, <3>2, <3>3 DEF Calar, Assinada, JaCalada, UmApp
      <4>2. Assinada(q) => pipe[q].ouvintes = 1
        BY <1>0 DEF Assinaturas
      <4>3. pipe'[q].ouvintes = 0
        <5>1. pipe[q].ouvintes \in 0..1
          BY <1>0 DEF TiposDaThread, UmPipe
        <5>2. UmaAMenos(pipe[q].ouvintes) = 0
          BY <5>1 DEF UmaAMenos
        <5>3. pipe' = [pipe EXCEPT ![q].ouvintes = 0] /\ UNCHANGED captura
          BY <1>6, <3>3, <5>2 DEF Calar, SemOuvinte
        <5>4. QED
          BY <1>0, <5>3, TrocaDeOuvinte
      <4>4. QED
        BY <4>1, <4>3 DEF Assinaturas
    <3>4. CASE q # ui.alvo
      <4>1. pipe'[q] = pipe[q]
        BY <1>0, <1>6, <3>4 DEF Calar, SemOuvinte, TiposDaThread
      <4>2. Assinada(q)' <=> Assinada(q)
        BY <1>0, <1>6, <3>1, <3>2, <3>4 DEF Calar, Assinada, UmApp, NENHUM, Pipelines, SISTEMA
      <4>3. JaCalada(q) => JaCalada(q)'
        BY <1>6, <3>1 DEF Calar, JaCalada
      <4>4. QED
        BY <1>0, <2>8, <4>1, <4>2, <4>3 DEF Assinaturas
    <3>5. QED
      BY <3>3, <3>4
  <2>9. QED
    BY <2>1, <2>2, <2>3, <2>4, <2>5, <2>6, <2>7, <2>8, TelaGuarda
<1>7. CASE Parar
  <2>1. TiposDaThread'
    BY <1>0, <1>7 DEF Parar, UiVai, TiposDaThread, UmPipe, UmApp, UmaTela, Pipelines, SISTEMA
  <2>2. \A q \in Pipelines : Quieta(q)
    BY <1>0, <1>7 DEF Parar, UiVai, TiposDaThread, UmPipe, UmApp, UmaTela, Quieta
  <2>3. app' \in UmApp
    BY <1>0, <1>7 DEF Parar, UiVai, UmApp, SISTEMA, NENHUM, Tela
  <2>4. ui' \in UmaTela
    BY <1>0, <1>7 DEF Parar, UiVai, UmaTela, FasesDaTela, Telas, UmApp, Pipelines, SISTEMA, NENHUM
  <2>5. refeita' \in BOOLEAN /\ (refeita => refeita')
    BY <1>0, <1>7 DEF Parar
  <2>6. Tela'
    BY <1>0, <1>7 DEF Parar, UiVai, Tela, UmApp, UmaTela, Parando, Ligando, FasesDaTela, Telas, SISTEMA, NENHUM
  <2>7. Inscricao'
    BY <1>0, <1>7 DEF Parar, UiVai, Inscricao, Tela, UmApp, UmaTela, Ligando
  <2>8. ASSUME NEW q \in Pipelines, captura'[q].tardios = captura[q].tardios,
               Pendencias(q)' = Pendencias(q)
        PROVE  Assinaturas(q)'
    BY <1>0, <1>7, <2>8 DEF Parar, UiVai, Assinaturas, Assinada, JaCalada, Tela, UmApp, UmaTela,
       TiposDaThread, UmPipe, Parando, Ligando, SISTEMA, NENHUM
  <2>9. QED
    BY <2>1, <2>2, <2>3, <2>4, <2>5, <2>6, <2>7, <2>8, TelaGuarda
<1>8. CASE Sinalizar
  <2>1. TiposDaThread'
    BY <1>0, <1>8 DEF Sinalizar, UiVai, TiposDaThread, UmPipe, UmApp, UmaTela, Pipelines, SISTEMA
  <2>2. \A q \in Pipelines : Quieta(q)
    BY <1>0, <1>8 DEF Sinalizar, UiVai, TiposDaThread, UmPipe, UmApp, UmaTela, Quieta
  <2>3. app' \in UmApp
    BY <1>0, <1>8 DEF Sinalizar, UiVai, UmApp, SISTEMA, NENHUM, Tela
  <2>4. ui' \in UmaTela
    BY <1>0, <1>8 DEF Sinalizar, UiVai, UmaTela, FasesDaTela, Telas, UmApp, Pipelines, SISTEMA, NENHUM
  <2>5. refeita' \in BOOLEAN /\ (refeita => refeita')
    BY <1>0, <1>8 DEF Sinalizar
  <2>6. Tela'
    BY <1>0, <1>8 DEF Sinalizar, UiVai, Tela, UmApp, UmaTela, Parando, Ligando, FasesDaTela, Telas, SISTEMA, NENHUM
  <2>7. Inscricao'
    BY <1>0, <1>8 DEF Sinalizar, UiVai, Inscricao, Tela, UmApp, UmaTela, Ligando
  <2>8. ASSUME NEW q \in Pipelines, captura'[q].tardios = captura[q].tardios,
               Pendencias(q)' = Pendencias(q)
        PROVE  Assinaturas(q)'
    BY <1>0, <1>8, <2>8 DEF Sinalizar, UiVai, Assinaturas, Assinada, JaCalada, Tela, UmApp, UmaTela,
       TiposDaThread, UmPipe, Parando, Ligando, SISTEMA, NENHUM
  <2>9. QED
    BY <2>1, <2>2, <2>3, <2>4, <2>5, <2>6, <2>7, <2>8, TelaGuarda
<1>9. CASE Join
  <2>1. TiposDaThread'
    BY <1>0, <1>9 DEF Join, TiposDaThread
  <2>2. \A q \in Pipelines : Quieta(q)
    BY <1>9 DEF Join, Quieta
  <2>3. app' \in UmApp
    BY <1>0, <1>9 DEF Join, UmApp, SISTEMA, NENHUM, Tela
  <2>4. ui' \in UmaTela
    <3>1. SISTEMA \in Pipelines
      BY <1>0 DEF Pipelines, SISTEMA
    <3> DEFINE f == IF ui.tela # "fechando" THEN "livre"
                    ELSE IF ui.alvo = SISTEMA THEN "fechada" ELSE "calar"
    <3>2. f \in FasesDaTela /\ ui' = [ui EXCEPT !.alvo = SISTEMA, !.fase = f]
      BY <1>9 DEF Join, FasesDaTela
    <3> HIDE DEF f
    <3>3. QED
      BY <1>0, <3>1, <3>2 DEF UmaTela
  <2>5. refeita' \in BOOLEAN /\ (refeita => refeita')
    BY <1>0, <1>9 DEF Join
  <2>6. Tela'
    BY <1>0, <1>9 DEF Join, Tela, UmApp, UmaTela, Parando, Ligando, FasesDaTela, Telas, SISTEMA, NENHUM
  <2>7. Inscricao'
    BY <1>0, <1>9 DEF Join, Inscricao, Tela, UmApp, UmaTela, Ligando
  <2>8. ASSUME NEW q \in Pipelines, captura'[q].tardios = captura[q].tardios,
               Pendencias(q)' = Pendencias(q)
        PROVE  Assinaturas(q)'
    <3>1. /\ app'.microphone = NENHUM /\ app'.microfones = app.microfones
          /\ app'.system_unsubscribe = app.system_unsubscribe
          /\ ui'.tela = ui.tela /\ ui'.fase \notin {"iniciar_mic", "inscrever_mic"}
          /\ UNCHANGED pipe
      BY <1>0, <1>9 DEF Join, UmApp, UmaTela, Tela, Parando
    <3>2. Assinada(q)' <=> Assinada(q)
      BY <1>0, <1>9, <3>1 DEF Join, Assinada, NENHUM, Pipelines
    <3>3. JaCalada(q) => JaCalada(q)'
      BY <3>1 DEF JaCalada
    <3>4. QED
      BY <1>0, <2>8, <3>1, <3>2, <3>3 DEF Assinaturas
  <2>9. QED
    BY <2>1, <2>2, <2>3, <2>4, <2>5, <2>6, <2>7, <2>8, TelaGuarda
<1>10. QED
  BY <1>1, <1>2, <1>3, <1>4, <1>5, <1>6, <1>7, <1>8, <1>9 DEF Handler

\* Its first step, which the user takes.
LEMMA UsuarioGuarda ==
    ASSUME IInv, Usuario
    PROVE  IInv'
<1>0. /\ TypeOK /\ TiposDaThread /\ app \in UmApp /\ ui \in UmaTela /\ refeita \in BOOLEAN
      /\ Tela /\ Inscricao /\ MaxInscricoes \in Nat /\ MaxMicrofones \in Nat
      /\ \A q \in Pipelines : Assinaturas(q)
  BY TiposPorParte, CaptureAssumption DEF IInv
<1>1. CASE LigarEscuta
  <2>1. TiposDaThread'
    BY <1>0, <1>1 DEF LigarEscuta, TiposDaThread
  <2>2. \A q \in Pipelines : Quieta(q)
    BY <1>1 DEF LigarEscuta, Quieta
  <2>3. app' \in UmApp
    BY <1>0, <1>1 DEF LigarEscuta, Livre, IniciarAudio, UmApp, SISTEMA, NENHUM, Tela
  <2>4. ui' \in UmaTela
    BY <1>0, <1>1 DEF LigarEscuta, Livre, IniciarAudio, UmaTela, FasesDaTela, Telas, UmApp, Pipelines, SISTEMA, NENHUM
  <2>5. refeita' \in BOOLEAN /\ (refeita => refeita')
    BY <1>0, <1>1 DEF LigarEscuta
  <2>6. Tela'
    BY <1>0, <1>1 DEF LigarEscuta, Livre, IniciarAudio, Tela, UmApp, UmaTela, Parando, Ligando, FasesDaTela, Telas, SISTEMA, NENHUM
  <2>7. Inscricao'
    BY <1>0, <1>1 DEF LigarEscuta, Livre, IniciarAudio, Inscricao, Tela, UmApp, UmaTela, Ligando
  <2>8. ASSUME NEW q \in Pipelines, captura'[q].tardios = captura[q].tardios,
               Pendencias(q)' = Pendencias(q)
        PROVE  Assinaturas(q)'
    BY <1>0, <1>1, <2>8 DEF LigarEscuta, Livre, IniciarAudio, Assinaturas, Assinada, JaCalada, Tela, UmApp, UmaTela,
       TiposDaThread, UmPipe, Parando, Ligando, SISTEMA, NENHUM
  <2>9. QED
    BY <2>1, <2>2, <2>3, <2>4, <2>5, <2>6, <2>7, <2>8, TelaGuarda
<1>2. CASE DesligarEscuta
  <2>1. TiposDaThread'
    BY <1>0, <1>2 DEF DesligarEscuta, TiposDaThread
  <2>2. \A q \in Pipelines : Quieta(q)
    BY <1>2 DEF DesligarEscuta, Quieta
  <2>3. app' \in UmApp
    <3>1. UmaAMenos(app.inscritos) \in 0..MaxInscricoes
      BY <1>0 DEF UmApp, UmaAMenos
    <3>2. QED
      BY <1>0, <1>2, <3>1 DEF DesligarEscuta, UmApp
  <2>4. ui' \in UmaTela
    BY <1>0, <1>2 DEF DesligarEscuta, Livre, UmaAMenos, UmaTela, FasesDaTela, Telas, UmApp, Pipelines, SISTEMA, NENHUM
  <2>5. refeita' \in BOOLEAN /\ (refeita => refeita')
    BY <1>0, <1>2 DEF DesligarEscuta
  <2>6. Tela'
    BY <1>0, <1>2 DEF DesligarEscuta, Livre, UmaAMenos, Tela, UmApp, UmaTela, Parando, Ligando, FasesDaTela, Telas, SISTEMA, NENHUM
  <2>7. Inscricao'
    BY <1>0, <1>2 DEF DesligarEscuta, Livre, UmaAMenos, Inscricao, Tela, UmApp, UmaTela, Ligando
  <2>8. ASSUME NEW q \in Pipelines, captura'[q].tardios = captura[q].tardios,
               Pendencias(q)' = Pendencias(q)
        PROVE  Assinaturas(q)'
    BY <1>0, <1>2, <2>8 DEF DesligarEscuta, Livre, UmaAMenos, Assinaturas, Assinada, JaCalada, Tela, UmApp, UmaTela,
       TiposDaThread, UmPipe, Parando, Ligando, SISTEMA, NENHUM
  <2>9. QED
    BY <2>1, <2>2, <2>3, <2>4, <2>5, <2>6, <2>7, <2>8, TelaGuarda
<1>3. CASE LigarMic
  <2>1. TiposDaThread'
    BY <1>0, <1>3 DEF LigarMic, TiposDaThread
  <2>2. \A q \in Pipelines : Quieta(q)
    BY <1>3 DEF LigarMic, Quieta
  <2>3. app' \in UmApp
    <3>1. PICK montado \in BOOLEAN, abre \in BOOLEAN :
            LET novo == montado /\ abre /\ app.microphone = NENHUM
            IN  /\ novo => app.microfones < MaxMicrofones
                /\ app' = [app EXCEPT !.montado = montado,
                                      !.microfones = IF novo THEN @ + 1 ELSE @]
      BY <1>3 DEF LigarMic
    <3> DEFINE n == IF montado /\ abre /\ app.microphone = NENHUM
                      THEN app.microfones + 1 ELSE app.microfones
    <3>2. n \in 0..MaxMicrofones
      BY <1>0, <3>1 DEF UmApp
    <3>3. app' = [app EXCEPT !.montado = montado, !.microfones = n]
      BY <3>1
    <3> HIDE DEF n
    <3>4. QED
      BY <1>0, <3>2, <3>3 DEF UmApp
  <2>4. ui' \in UmaTela
    BY <1>0, <1>3 DEF LigarMic, Livre, UmaTela, FasesDaTela, Telas, UmApp, Pipelines, SISTEMA, NENHUM
  <2>5. refeita' \in BOOLEAN /\ (refeita => refeita')
    BY <1>0, <1>3 DEF LigarMic
  <2>6. Tela'
    BY <1>0, <1>3 DEF LigarMic, Livre, Tela, UmApp, UmaTela, Parando, Ligando, FasesDaTela, Telas, SISTEMA, NENHUM
  <2>7. Inscricao'
    BY <1>0, <1>3 DEF LigarMic, Livre, Inscricao, Tela, UmApp, UmaTela, Ligando
  <2>8. ASSUME NEW q \in Pipelines, captura'[q].tardios = captura[q].tardios,
               Pendencias(q)' = Pendencias(q)
        PROVE  Assinaturas(q)'
    <3>1. /\ app'.microphone = app.microphone /\ UNCHANGED pipe
          /\ app'.system_unsubscribe = app.system_unsubscribe /\ ui'.tela = ui.tela
          /\ \/ app'.microfones = app.microfones /\ ui'.fase = "livre"
             \/ app'.microfones = app.microfones + 1 /\ ui'.fase = "iniciar_mic"
      BY <1>0, <1>3 DEF LigarMic, Livre, UmApp, UmaTela
    <3>2. Assinada(q)' <=> Assinada(q)
      BY <1>3, <3>1 DEF LigarMic, Livre, Assinada
    <3>3. JaCalada(q) => JaCalada(q)'
      <4>1. app.microfones \in Nat /\ q \in Nat /\ app'.microfones \in Nat
        BY <1>0, <2>3 DEF UmApp, Pipelines
      <4>2. QED
        BY <3>1, <4>1 DEF JaCalada
    <3>4. QED
      BY <1>0, <2>8, <3>1, <3>2, <3>3 DEF Assinaturas
  <2>9. QED
    BY <2>1, <2>2, <2>3, <2>4, <2>5, <2>6, <2>7, <2>8, TelaGuarda
<1>4. CASE DesligarMic
  <2>1. TiposDaThread'
    BY <1>0, <1>4 DEF DesligarMic, TiposDaThread
  <2>2. \A q \in Pipelines : Quieta(q)
    BY <1>4 DEF DesligarMic, Quieta
  <2>3. app' \in UmApp
    BY <1>0, <1>4 DEF DesligarMic, Livre, IniciarAudio, UmApp, SISTEMA, NENHUM, Tela
  <2>4. ui' \in UmaTela
    <3>1. SISTEMA \in Pipelines /\ (app.microphone # NENHUM => app.microphone \in Pipelines)
      BY <1>0 DEF UmApp, Pipelines, SISTEMA
    <3>2. CASE app.microphone = NENHUM
      BY <1>0, <1>4, <3>2 DEF DesligarMic, UmaTela
    <3>3. CASE app.microphone # NENHUM
      BY <1>0, <1>4, <3>1, <3>3 DEF DesligarMic, UmaTela, FasesDaTela
    <3>4. QED
      BY <3>2, <3>3
  <2>5. refeita' \in BOOLEAN /\ (refeita => refeita')
    BY <1>0, <1>4 DEF DesligarMic
  <2>6. Tela'
    BY <1>0, <1>4 DEF DesligarMic, Livre, IniciarAudio, Tela, UmApp, UmaTela, Parando, Ligando, FasesDaTela, Telas, SISTEMA, NENHUM
  <2>7. Inscricao'
    BY <1>0, <1>4 DEF DesligarMic, Livre, IniciarAudio, Inscricao, Tela, UmApp, UmaTela, Ligando
  <2>8. ASSUME NEW q \in Pipelines, captura'[q].tardios = captura[q].tardios,
               Pendencias(q)' = Pendencias(q)
        PROVE  Assinaturas(q)'
    BY <1>0, <1>4, <2>8 DEF DesligarMic, Livre, IniciarAudio, Assinaturas, Assinada, JaCalada, Tela, UmApp, UmaTela,
       TiposDaThread, UmPipe, Parando, Ligando, SISTEMA, NENHUM
  <2>9. QED
    BY <2>1, <2>2, <2>3, <2>4, <2>5, <2>6, <2>7, <2>8, TelaGuarda
<1>5. CASE FecharJanela
  <2>1. TiposDaThread'
    BY <1>0, <1>5 DEF FecharJanela, TiposDaThread
  <2>2. \A q \in Pipelines : Quieta(q)
    BY <1>5 DEF FecharJanela, Quieta
  <2>3. app' \in UmApp
    BY <1>0, <1>5 DEF FecharJanela, Livre, UmaAMenos, UmApp, SISTEMA, NENHUM, Tela
  <2>4. ui' \in UmaTela
    <3>1. SISTEMA \in Pipelines /\ (app.microphone # NENHUM => app.microphone \in Pipelines)
      BY <1>0 DEF UmApp, Pipelines, SISTEMA
    <3> DEFINE a == IF app.microphone = NENHUM THEN SISTEMA ELSE app.microphone
               f == IF app.montado THEN "calar" ELSE "fechada"
    <3>2. a \in Pipelines /\ f \in FasesDaTela /\ "fechando" \in Telas
      BY <3>1 DEF FasesDaTela, Telas
    <3>3. ui' = [ui EXCEPT !.tela = "fechando", !.ouvir = FALSE, !.mic = FALSE,
                           !.alvo = a, !.fase = f]
      BY <1>5 DEF FecharJanela
    <3> HIDE DEF a, f
    <3>4. QED
      BY <1>0, <3>2, <3>3 DEF UmaTela
  <2>5. refeita' \in BOOLEAN /\ (refeita => refeita')
    BY <1>0, <1>5 DEF FecharJanela
  <2>6. Tela'
    BY <1>0, <1>5 DEF FecharJanela, Livre, UmaAMenos, Tela, UmApp, UmaTela, Parando, Ligando, FasesDaTela, Telas, SISTEMA, NENHUM
  <2>7. Inscricao'
    BY <1>0, <1>5 DEF FecharJanela, Livre, UmaAMenos, Inscricao, Tela, UmApp, UmaTela, Ligando
  <2>8. ASSUME NEW q \in Pipelines, captura'[q].tardios = captura[q].tardios,
               Pendencias(q)' = Pendencias(q)
        PROVE  Assinaturas(q)'
    BY <1>0, <1>5, <2>8 DEF FecharJanela, Livre, UmaAMenos, Assinaturas, Assinada, JaCalada, Tela, UmApp, UmaTela,
       TiposDaThread, UmPipe, Parando, Ligando, SISTEMA, NENHUM
  <2>9. QED
    BY <2>1, <2>2, <2>3, <2>4, <2>5, <2>6, <2>7, <2>8, TelaGuarda
<1>6. CASE AbrirConfig
  <2>1. TiposDaThread'
    BY <1>0, <1>6 DEF AbrirConfig, TiposDaThread
  <2>2. \A q \in Pipelines : Quieta(q)
    BY <1>6 DEF AbrirConfig, Quieta
  <2>3. app' \in UmApp
    BY <1>0, <1>6 DEF AbrirConfig, Livre, UmApp, SISTEMA, NENHUM, Tela
  <2>4. ui' \in UmaTela
    BY <1>0, <1>6 DEF AbrirConfig, Livre, UmaTela, FasesDaTela, Telas, UmApp, Pipelines, SISTEMA, NENHUM
  <2>5. refeita' \in BOOLEAN /\ (refeita => refeita')
    BY <1>0, <1>6 DEF AbrirConfig
  <2>6. Tela'
    BY <1>0, <1>6 DEF AbrirConfig, Livre, Tela, UmApp, UmaTela, Parando, Ligando, FasesDaTela, Telas, SISTEMA, NENHUM
  <2>7. Inscricao'
    BY <1>0, <1>6 DEF AbrirConfig, Livre, Inscricao, Tela, UmApp, UmaTela, Ligando
  <2>8. ASSUME NEW q \in Pipelines, captura'[q].tardios = captura[q].tardios,
               Pendencias(q)' = Pendencias(q)
        PROVE  Assinaturas(q)'
    BY <1>0, <1>6, <2>8 DEF AbrirConfig, Livre, Assinaturas, Assinada, JaCalada, Tela, UmApp, UmaTela,
       TiposDaThread, UmPipe, Parando, Ligando, SISTEMA, NENHUM
  <2>9. QED
    BY <2>1, <2>2, <2>3, <2>4, <2>5, <2>6, <2>7, <2>8, TelaGuarda
<1>7. CASE VoltarDaConfig
  <2>1. TiposDaThread'
    BY <1>0, <1>7 DEF VoltarDaConfig, TiposDaThread
  <2>2. \A q \in Pipelines : Quieta(q)
    BY <1>7 DEF VoltarDaConfig, Quieta
  <2>3. app' \in UmApp
    BY <1>0, <1>7 DEF VoltarDaConfig, Livre, IniciarAudio, UmApp, SISTEMA, NENHUM, Tela
  <2>4. ui' \in UmaTela
    BY <1>0, <1>7 DEF VoltarDaConfig, Livre, IniciarAudio, UmaTela, FasesDaTela, Telas, UmApp, Pipelines, SISTEMA, NENHUM
  <2>5. refeita' \in BOOLEAN /\ (refeita => refeita')
    BY <1>0, <1>7 DEF VoltarDaConfig
  <2>6. Tela'
    BY <1>0, <1>7 DEF VoltarDaConfig, Livre, IniciarAudio, Tela, UmApp, UmaTela, Parando, Ligando, FasesDaTela, Telas, SISTEMA, NENHUM
  <2>7. Inscricao'
    <3>1. /\ refeita' \/ ~(app.inscritos > 0)
          /\ app'.inscritos = app.inscritos
      BY <1>0, <1>7 DEF VoltarDaConfig, IniciarAudio, UmApp
    <3>2. ~refeita' => app.inscritos = 0
      BY <1>0, <3>1 DEF UmApp
    <3>3. QED
      BY <3>1, <3>2 DEF Inscricao
  <2>8. ASSUME NEW q \in Pipelines, captura'[q].tardios = captura[q].tardios,
               Pendencias(q)' = Pendencias(q)
        PROVE  Assinaturas(q)'
    BY <1>0, <1>7, <2>8 DEF VoltarDaConfig, Livre, IniciarAudio, Assinaturas, Assinada, JaCalada, Tela, UmApp, UmaTela,
       TiposDaThread, UmPipe, Parando, Ligando, SISTEMA, NENHUM
  <2>9. QED
    BY <2>1, <2>2, <2>3, <2>4, <2>5, <2>6, <2>7, <2>8, TelaGuarda
<1>8. QED
  BY <1>1, <1>2, <1>3, <1>4, <1>5, <1>6, <1>7 DEF Usuario

-----------------------------------------------------------------------------
LEMMA Inicio == Init => IInv
<1> SUFFICES ASSUME Init PROVE IInv
  OBVIOUS
<1>1. MaxInscricoes \in Nat /\ MaxMicrofones \in Nat /\ SISTEMA \in Pipelines
  BY CaptureAssumption DEF SISTEMA, Pipelines
<1>2. TiposDaThread
  <2>1. pipe \in [Pipelines -> UmPipe]
    BY DEF Init, UmPipe
  <2>2. captura \in [Pipelines -> UmaCaptura]
    <3>1. [fase |-> "nada", volta |-> "verificar", restam |-> 0, envios |-> 0,
           copias |-> 0, tardios |-> 0] \in UmaCaptura
      BY <1>1 DEF UmaCaptura, Fases
    <3>2. captura = [p \in Pipelines |->
             [fase |-> "nada", volta |-> "verificar", restam |-> 0, envios |-> 0,
              copias |-> 0, tardios |-> 0]]
      BY DEF Init
    <3> HIDE DEF UmaCaptura
    <3>3. QED
      BY <3>1, <3>2
  <2>3. QED
    BY <2>1, <2>2 DEF TiposDaThread
<1>3. app \in UmApp
  BY <1>1 DEF Init, UmApp
<1>4. ui \in UmaTela /\ refeita \in BOOLEAN
  <2>1. PICK tela \in Telas :
           ui = [fase |-> "livre", alvo |-> SISTEMA, tela |-> tela,
                 ouvir |-> FALSE, mic |-> FALSE]
    BY DEF Init, Telas
  <2>2. "livre" \in FasesDaTela
    BY DEF FasesDaTela
  <2>3. refeita = FALSE
    BY DEF Init
  <2>4. QED
    BY <1>1, <2>1, <2>2, <2>3 DEF UmaTela
<1>5. TypeOK
  BY <1>2, <1>3, <1>4, TiposPorParte
<1>6. Tela
  BY DEF Init, Tela, Ligando, Parando
<1>7. Inscricao
  BY DEF Init, Inscricao
<1>8. ASSUME NEW p \in Pipelines
      PROVE  UmaThread(p) /\ Assinaturas(p)
  <2>1. UmaThread(p)
    BY <1>1 DEF Init, UmaThread, Entregando
  <2>2. ~Assinada(p) /\ pipe[p].ouvintes = 0
    BY DEF Init, Assinada, NENHUM, Pipelines
  <2>3. captura[p].tardios = 0 /\ Pendencias(p) = 0
    <3>1. captura[p].tardios = 0 /\ captura[p].restam = 0 /\ captura[p].envios = 0
      BY DEF Init
    <3>2. QED
      BY <3>1 DEF Pendencias
  <2>4. QED
    BY <2>1, <2>2, <2>3 DEF Assinaturas
<1>9. QED
  BY <1>5, <1>6, <1>7, <1>8 DEF IInv

LEMMA Passo == IInv /\ [Next]_vars => IInv'
<1> SUFFICES ASSUME IInv, [Next]_vars PROVE IInv'
  OBVIOUS
<1>1. CASE Handler
  BY <1>1, HandlerGuarda
<1>2. CASE Usuario
  BY <1>2, UsuarioGuarda
<1>3. CASE \E p \in Pipelines : Thread(p)
  BY <1>3, ThreadGuarda
<1>4. CASE UNCHANGED vars
  BY <1>4 DEF vars, IInv, TypeOK, Tela, Inscricao, UmaThread, Assinaturas, Assinada,
              JaCalada, Pendencias
<1>5. QED
  BY <1>1, <1>2, <1>3, <1>4 DEF Next

\* The inductive invariant holds of every reachable state.
THEOREM Invariante == Spec => []IInv
BY Inicio, Passo, PTL DEF Spec

\* The pipelines, their threads and the screen keep their types, for any number of
\* microphones and of subscriptions.
THEOREM TypeCorrectness == Spec => []TypeOK
<1>1. IInv => TypeOK
  BY DEF IInv
<1>2. QED
  BY <1>1, Invariante, PTL

\* A turn is handed to the worker once at most, unless the screen was rebuilt with
\* the worker subscribed.
THEOREM OneDelivery == Spec => []UmaEntrega
<1>1. IInv => UmaEntrega
  <2> SUFFICES ASSUME IInv, NEW p \in Pipelines
               PROVE  captura[p].copias <= 1 \/ refeita
    BY DEF UmaEntrega
  <2>1. UmaThread(p) /\ captura[p] \in UmaCaptura /\ MaxInscricoes \in Nat
    BY Tipos, CaptureAssumption DEF IInv, TiposDaThread
  <2>2. QED
    BY <2>1 DEF UmaThread, UmaCaptura
<1>2. QED
  BY <1>1, Invariante, PTL

\* A pipeline whose listener was removed hands over the turn it was about to
\* deliver and no other.
THEOREM SilencedSource == Spec => []FonteCalada
<1>1. IInv => FonteCalada
  <2> SUFFICES ASSUME IInv, NEW p \in Pipelines
               PROVE  captura[p].tardios <= 1 \/ refeita
    BY DEF FonteCalada
  <2>1. UmaThread(p) /\ captura[p] \in UmaCaptura /\ MaxInscricoes \in Nat
    BY Tipos, CaptureAssumption DEF IInv, TiposDaThread
  <2>2. QED
    BY <2>1 DEF UmaThread, UmaCaptura
<1>2. QED
  BY <1>1, Invariante, PTL

\* A capture that has ended, however it ended, left no pw-record alive and no turn
\* open for the next one.
THEOREM NothingLeft == Spec => []SemRestos
<1>1. IInv => SemRestos
  BY DEF IInv, UmaThread, SemRestos, Viva, Entregando
<1>2. QED
  BY <1>1, Invariante, PTL
=============================================================================
