--------------------------- MODULE CopilotProofs ---------------------------
(***************************************************************************)
(* Proofs about the live mode: modes/copilot/engine.py, the answer box of  *)
(* ui/copilot_window.py on top of it, and llm/openai_compat.py below it,   *)
(* for every length of a conversation, every number of exchanges and every *)
(* answer.                                                                 *)
(***************************************************************************)
EXTENDS CopilotWindow, OpenAICompatClient, SequenceTheorems, FiniteSetTheorems, TLAPS

-----------------------------------------------------------------------------
(* Type correctness, one group of variables at a time.                     *)

TipoFala ==
    /\ historico \in Seq(Numeros) /\ Len(historico) <= ContextTurns
    /\ turnos \in Seq(Turnos) /\ Len(turnos) <= MaxTurnos
    /\ ultimo_turno \in 0..MaxTurnos
TipoConfig  == auto_answer \in BOOLEAN /\ user_context \in UserContexts
TipoRelogio == ultima_resposta \in 0..MaxTempo /\ agora \in 0..MaxTempo
TipoMotor ==
    /\ ids \in 1..(MaxTrocas + 1)
    /\ geracao_atual \in Ids \cup {0}
    /\ chamador \in [Chamadores -> [fase: Fases, pergunta: 0..MaxTurnos,
                                   auto: BOOLEAN, id: 0..MaxTrocas]]
TipoGerar ==
    /\ estado \in [Ids -> Estados]
    /\ troca \in [Ids -> Exchange]
    /\ chamadas \in Seq(Chamada)

LEMMA TypeOKPartes ==
    TypeOK <=> TipoFala /\ TipoConfig /\ TipoRelogio /\ TipoMotor /\ TipoGerar
BY Zenon DEF TypeOK, TipoFala, TipoConfig, TipoRelogio, TipoMotor, TipoGerar

LEMMA TypeOKInit == Init => TypeOK
<1> SUFFICES ASSUME Init PROVE TypeOK
  OBVIOUS
<1> USE EngineAssumption
<1>1. TipoFala
  BY DEF Init, TipoFala
<1>2. TipoConfig
  BY Zenon DEF Init, TipoConfig
<1>3. TipoRelogio
  BY DEF Init, TipoRelogio
<1>4. TipoMotor
  BY DEF Init, TipoMotor, Livre, Fases, Ids
<1>5. TipoGerar
  <2>1. SemTexto \in Textos
    BY DEF SemTexto, Textos
  <2>2. SemTroca \in Exchange
    BY <2>1 DEF SemTroca, Exchange
  <2>3. QED
    BY <2>2 DEF Init, TipoGerar, Estados
<1>6. QED
  BY <1>1, <1>2, <1>3, <1>4, <1>5, TypeOKPartes

\* A bounded deque stays bounded.
LEMMA AcrescentaTipo ==
    ASSUME NEW h \in Seq(Numeros), Len(h) <= ContextTurns, NEW t \in Numeros
    PROVE  Acrescenta(h, t) \in Seq(Numeros) /\ Len(Acrescenta(h, t)) <= ContextTurns
<1> DEFINE longo == Append(h, t)
<1>1. longo \in Seq(Numeros) /\ Len(longo) = Len(h) + 1 /\ Len(h) \in Nat
  OBVIOUS
<1>2. Tail(longo) \in Seq(Numeros) /\ Len(Tail(longo)) = Len(h)
  BY <1>1
<1>3. QED
  BY <1>1, <1>2, EngineAssumption DEF Acrescenta

\* A callback adds a well-formed entry to the log.
LEMMA ChamaTipo ==
    ASSUME TypeOK, NEW g \in Ids, NEW tipo \in Tipos, Chama(tipo, g)
    PROVE  chamadas' \in Seq(Chamada)
<1>1. troca[g].answer \in Textos
  BY Zenon DEF TypeOK, Exchange
<1>2. (geracao_atual = g) \in BOOLEAN
  OBVIOUS
<1>3. [tipo |-> tipo, troca |-> g, texto |-> troca[g].answer,
       vigente |-> geracao_atual = g] \in Chamada
  BY <1>1, <1>2 DEF Chamada
<1>4. chamadas \in Seq(Chamada)
  BY DEF TypeOK
<1>5. QED
  BY <1>3, <1>4 DEF Chama

LEMMA PassaTipo ==
    ASSUME TypeOK, NEW g \in Ids, NEW de, NEW para \in Estados, Passa(g, de, para)
    PROVE  estado' \in [Ids -> Estados]
BY DEF TypeOK, Passa

\* The step of a generation thread.
LEMMA GerarTipo == ASSUME TypeOK, NEW g \in Ids, Gerar(g) PROVE TipoGerar'
<1>0. /\ estado \in [Ids -> Estados] /\ troca \in [Ids -> Exchange]
      /\ chamadas \in Seq(Chamada) /\ troca[g] \in Exchange
  BY DEF TypeOK
<1>1. CASE Iniciar(g)
  BY <1>0, <1>1, PassaTipo, ChamaTipo DEF Iniciar, TipoGerar, Estados, Tipos
<1>2. CASE MontarMensagens(g)
  <2>1. Anteriores \in Seq(Numeros)
    BY DEF TypeOK, Anteriores
  <2>2. user_context \in UserContexts /\ Len(turnos) \in 0..MaxTurnos
    BY EngineAssumption DEF TypeOK
  <2>3. troca' \in [Ids -> Exchange]
    BY <1>0, <1>2, <2>1, <2>2, Zenon DEF MontarMensagens, Exchange
  <2>4. QED
    BY <1>0, <1>2, <2>3, PassaTipo DEF MontarMensagens, TipoGerar, Estados
<1>3. CASE Pedaco(g)
  <2>1. ASSUME NEW p \in Textos
        PROVE  /\ [troca[g] EXCEPT !.parcial = p, !.pedacos = @ + 1] \in Exchange
               /\ [[troca[g] EXCEPT !.parcial = p, !.pedacos = @ + 1]
                     EXCEPT !.ignored = TRUE] \in Exchange
               /\ [[troca[g] EXCEPT !.parcial = p, !.pedacos = @ + 1]
                     EXCEPT !.answer = p] \in Exchange
    <3> DEFINE lida == [troca[g] EXCEPT !.parcial = p, !.pedacos = @ + 1]
    <3>1. lida \in Exchange
      <4>1. [troca[g] EXCEPT !.parcial = p] \in Exchange
        BY <1>0, Zenon DEF Exchange
      <4>2. troca[g].pedacos + 1 \in Nat
        <5>1. troca[g].pedacos \in Nat
          BY <1>0, Zenon DEF Exchange
        <5>2. QED
          BY <5>1
      <4>3. ASSUME NEW e \in Exchange, NEW n \in Nat
            PROVE  [e EXCEPT !.pedacos = n] \in Exchange
        BY Zenon DEF Exchange
      <4>4. QED
        BY <4>1, <4>2, <4>3
    <3> HIDE DEF lida
    <3>2. [lida EXCEPT !.ignored = TRUE] \in Exchange
      BY <3>1, Zenon DEF Exchange
    <3>3. [lida EXCEPT !.answer = p] \in Exchange
      BY <3>1, Zenon DEF Exchange
    <3>4. QED
      BY <3>1, <3>2, <3>3 DEF lida
  <2>2. Continuacoes(troca[g].parcial) \subseteq Textos
    BY <1>0, Zenon DEF Continuacoes, Exchange
  <2>3. troca' \in [Ids -> Exchange]
    <3>1. CASE UNCHANGED troca
      BY <1>0, <3>1
    <3>2. CASE \E t \in Exchange : troca' = [troca EXCEPT ![g] = t]
      BY <1>0, <3>2
    <3>3. QED
      BY <1>3, <2>1, <2>2, <3>1, <3>2, Zenon DEF Pedaco
  <2>4. estado' \in [Ids -> Estados]
    BY <1>0, <1>3, Zenon DEF Pedaco, Estados
  <2>5. QED
    BY <1>0, <1>3, <2>3, <2>4, Zenon DEF Pedaco, TipoGerar
<1>4. CASE Emitir(g)
  BY <1>0, <1>4, PassaTipo, ChamaTipo DEF Emitir, TipoGerar, Estados, Tipos
<1>5. CASE FimDoStream(g)
  <2>1. estado' \in [Ids -> Estados]
    BY <1>5, PassaTipo DEF FimDoStream, Estados
  <2>2. CASE UNCHANGED <<troca, chamadas>>
    BY <1>0, <2>1, <2>2 DEF TipoGerar
  <2>3. CASE troca' = [troca EXCEPT ![g].error = TRUE] /\ Chama("error", g)
    <3>1. troca' \in [Ids -> Exchange]
      BY <1>0, <2>3, Zenon DEF Exchange
    <3>2. QED
      BY <2>1, <2>3, <3>1, ChamaTipo DEF TipoGerar, Tipos
  <2>4. QED
    BY <1>5, <2>2, <2>3 DEF FimDoStream
<1>6. CASE Falha(g)
  BY <1>0, <1>6, PassaTipo DEF Falha, TipoGerar, Estados
<1>7. CASE Avisar(g)
  <2>1. troca' \in [Ids -> Exchange]
    BY <1>0, <1>7, Zenon DEF Avisar, Exchange
  <2>2. QED
    BY <1>7, <2>1, PassaTipo, ChamaTipo DEF Avisar, TipoGerar, Estados, Tipos
<1>8. CASE Final(g)
  BY <1>0, <1>8, PassaTipo DEF Final, TipoGerar, Estados
<1>9. CASE Concluir(g)
  BY <1>0, <1>9, PassaTipo, ChamaTipo DEF Concluir, Saiu, TipoGerar, Estados, Tipos
<1>10. QED
  BY <1>1, <1>2, <1>3, <1>4, <1>5, <1>6, <1>7, <1>8, <1>9 DEF Gerar

LEMMA TypeOKStep == TypeOK /\ [Next]_vars => TypeOK'
<1> SUFFICES ASSUME TypeOK, [Next]_vars PROVE TypeOK'
  OBVIOUS
<1> USE EngineAssumption
<1>0. TipoFala /\ TipoConfig /\ TipoRelogio /\ TipoMotor /\ TipoGerar
  BY TypeOKPartes
<1>a. fala' = fala => TipoFala'
  BY <1>0 DEF fala, TipoFala
<1>b. config' = config => TipoConfig'
  BY <1>0, Zenon DEF config, TipoConfig
<1>c. relogio' = relogio => TipoRelogio'
  BY <1>0 DEF relogio, TipoRelogio
<1>d. UNCHANGED <<ids, geracao_atual, chamador>> => TipoMotor'
  BY <1>0 DEF TipoMotor
<1>e. UNCHANGED <<estado, troca, chamadas>> => TipoGerar'
  BY <1>0 DEF TipoGerar
<1>f. TipoFala' /\ TipoConfig' /\ TipoRelogio' /\ TipoMotor' /\ TipoGerar' => TypeOK'
  BY Zenon DEF TypeOK, TipoFala, TipoConfig, TipoRelogio, TipoMotor, TipoGerar
<1>1. ASSUME NEW t \in Turnos, Ingest(t) PROVE TypeOK'
  <2>1. Len(turnos) \in Nat /\ Len(turnos') = Len(turnos) + 1 /\ turnos' \in Seq(Turnos)
        /\ Len(turnos') \in Numeros
    BY <1>0, <1>1 DEF Ingest, TipoFala, Numeros
  <2>2. TipoFala'
    BY <1>0, <1>1, <2>1, AcrescentaTipo DEF Ingest, TipoFala, Numeros
  <2>3. TipoMotor'
    BY <1>0, <1>1, <2>1 DEF Ingest, TipoMotor, Fases, Chamadores, Numeros
  <2>4. QED
    BY <1>1, <1>b, <1>c, <1>e, <1>f, <2>2, <2>3 DEF Ingest
<1>2. CASE Decidir
  <2>1. TipoRelogio'
    BY <1>0, <1>2 DEF Decidir, TipoRelogio
  <2>2. TipoMotor'
    BY <1>0, <1>2 DEF Decidir, TipoMotor, Fases, Chamadores, Livre
  <2>3. QED
    BY <1>2, <1>a, <1>b, <1>e, <1>f, <2>1, <2>2 DEF Decidir
<1>3. CASE AnswerLastTurn
  <2>1. TipoMotor'
    BY <1>0, <1>3 DEF AnswerLastTurn, TipoMotor, TipoFala, Fases, Chamadores
  <2>2. QED
    BY <1>3, <1>a, <1>b, <1>c, <1>e, <1>f, <2>1 DEF AnswerLastTurn
<1>4. ASSUME NEW c \in Chamadores, Criar(c) PROVE TypeOK'
  <2>1. ids \in Ids /\ ids' = ids + 1 /\ geracao_atual' = geracao_atual
    BY <1>0, <1>4 DEF Criar, TipoMotor, Ids, ProximoId
  <2>2. chamador[c] \in [fase: Fases, pergunta: 0..MaxTurnos, auto: BOOLEAN,
                         id: 0..MaxTrocas]
    BY <1>0 DEF TipoMotor
  <2>3. chamador' = [chamador EXCEPT ![c] = [@ EXCEPT !.fase = "publicar", !.id = ids]]
    BY <1>4 DEF Criar
  <2>4. TipoMotor'
    <3>1. ids' \in 1..(MaxTrocas + 1)
      BY <2>1 DEF Ids
    <3>2. chamador' \in [Chamadores -> [fase: Fases, pergunta: 0..MaxTurnos,
                                        auto: BOOLEAN, id: 0..MaxTrocas]]
      <4> DEFINE Lugar == [fase: Fases, pergunta: 0..MaxTurnos, auto: BOOLEAN,
                           id: 0..MaxTrocas]
      <4>1. [chamador[c] EXCEPT !.fase = "publicar", !.id = ids] \in Lugar
        <5>1. "publicar" \in Fases /\ ids \in 0..MaxTrocas
          BY <2>1 DEF Fases, Ids
        <5>2. QED
          BY <2>2, <5>1
      <4>2. chamador \in [Chamadores -> Lugar]
        BY <1>0 DEF TipoMotor
      <4> HIDE DEF Lugar
      <4>3. chamador' \in [Chamadores -> Lugar]
        BY <2>3, <4>1, <4>2
      <4>4. QED
        BY <4>3 DEF Lugar
    <3>3. QED
      BY <1>0, <2>1, <3>1, <3>2 DEF TipoMotor
  <2>5. TipoGerar'
    <3>1. troca' = [troca EXCEPT ![ids] = [@ EXCEPT !.pergunta = chamador[c].pergunta,
                                                    !.auto = chamador[c].auto]]
      BY <1>4 DEF Criar
    <3>2. troca' \in [Ids -> Exchange]
      <4>1. chamador[c].pergunta \in 0..MaxTurnos /\ chamador[c].auto \in BOOLEAN
        BY <2>2
      <4>2. troca[ids] \in Exchange /\ troca \in [Ids -> Exchange]
        BY <1>0, <2>1 DEF TipoGerar
      <4>3. [troca[ids] EXCEPT !.pergunta = chamador[c].pergunta, !.auto = chamador[c].auto]
              \in Exchange
        BY <4>1, <4>2, Zenon DEF Exchange
      <4>4. QED
        BY <2>1, <3>1, <4>2, <4>3
    <3>3. QED
      BY <1>0, <1>4, <3>2 DEF Criar, TipoGerar
  <2>6. QED
    BY <1>4, <1>a, <1>b, <1>c, <1>f, <2>4, <2>5 DEF Criar
<1>5. ASSUME NEW c \in Chamadores, Publicar(c) PROVE TypeOK'
  <2>1. TipoMotor'
    BY <1>0, <1>5 DEF Publicar, TipoMotor, Livre, Fases, Ids
  <2>2. TipoGerar'
    BY <1>0, <1>5 DEF Publicar, TipoGerar, Estados
  <2>3. QED
    BY <1>5, <1>a, <1>b, <1>c, <1>f, <2>1, <2>2 DEF Publicar
<1>6. CASE Cancel
  <2>1. TipoMotor'
    BY <1>0, <1>6 DEF Cancel, TipoMotor
  <2>2. QED
    BY <1>6, <1>a, <1>b, <1>c, <1>e, <1>f, <2>1 DEF Cancel
<1>7. ASSUME NEW b \in BOOLEAN, SetAutoAnswer(b) PROVE TypeOK'
  <2>1. auto_answer' = b /\ user_context' = user_context
    BY <1>7, Zenon DEF SetAutoAnswer
  <2>2. TipoConfig'
    BY <1>0, <2>1, Zenon DEF TipoConfig
  <2>3. QED
    BY <1>7, <1>a, <1>c, <1>d, <1>e, <1>f, <2>2 DEF SetAutoAnswer
<1>8. ASSUME NEW u \in UserContexts, UpdateUserContext(u) PROVE TypeOK'
  <2>1. auto_answer' = auto_answer /\ user_context' = u
    BY <1>8, Zenon DEF UpdateUserContext
  <2>2. TipoConfig'
    BY <1>0, <2>1, Zenon DEF TipoConfig
  <2>3. QED
    BY <1>8, <1>a, <1>c, <1>d, <1>e, <1>f, <2>2 DEF UpdateUserContext
<1>9. CASE Tick
  <2>1. TipoRelogio'
    BY <1>0, <1>9 DEF Tick, TipoRelogio
  <2>2. QED
    BY <1>9, <1>a, <1>b, <1>d, <1>e, <1>f, <2>1 DEF Tick
<1>10. ASSUME NEW g \in Ids, Gerar(g) PROVE TypeOK'
  <2>1. UNCHANGED motor
    BY <1>10, Zenon DEF Gerar, Iniciar, MontarMensagens, Pedaco, Emitir, FimDoStream,
                 Falha, Avisar, Final, Concluir
  <2>2. TipoGerar'
    BY <1>10, GerarTipo
  <2>3. QED
    BY <1>a, <1>b, <1>c, <1>d, <1>f, <2>1, <2>2 DEF motor
<1>11. CASE UNCHANGED vars
  BY <1>11, <1>a, <1>b, <1>c, <1>d, <1>e, <1>f DEF vars
<1>12. QED
  BY <1>1, <1>2, <1>3, <1>4, <1>5, <1>6, <1>7, <1>8, <1>9, <1>10, <1>11
     DEF Next, DoChamador

\* Type correctness, in particular that _historico never holds more than
\* context_turns turns and that _geracao_atual is a real exchange or none.
THEOREM TypeCorrectness == Spec => []TypeOK
BY TypeOKInit, TypeOKStep, PTL DEF Spec

-----------------------------------------------------------------------------
(* An id is published once.                                                *)

\* The ids the counter has not given out, and those a caller is about to
\* publish, belong to no generation thread and are not the live exchange.
IdsUnicos ==
    /\ \A g \in Ids : g >= ids => estado[g] = "nenhum"
    /\ \A g \in Ids : estado[g] = "nenhum" => geracao_atual # g
    /\ \A c \in Chamadores : chamador[c].fase = "publicar" =>
          /\ chamador[c].id \in Ids
          /\ chamador[c].id < ids
          /\ estado[chamador[c].id] = "nenhum"
          /\ \A d \in Chamadores : chamador[d].fase = "publicar"
                                  /\ chamador[d].id = chamador[c].id => c = d

\* A generation thread never goes back to having no state.
LEMMA GerarSegue ==
    ASSUME TypeOK, NEW g \in Ids, Gerar(g)
    PROVE  /\ UNCHANGED motor
           /\ estado[g] # "nenhum" /\ estado'[g] # "nenhum"
           /\ \A h \in Ids : h # g => estado'[h] = estado[h]
<1>1. UNCHANGED motor
  BY Zenon DEF Gerar, Iniciar, MontarMensagens, Pedaco, Emitir, FimDoStream,
         Falha, Avisar, Final, Concluir
<1>2. ASSUME NEW de \in Estados \ {"nenhum"}, NEW para \in Estados \ {"nenhum"},
             Passa(g, de, para)
      PROVE  /\ estado[g] # "nenhum" /\ estado'[g] # "nenhum"
             /\ \A h \in Ids : h # g => estado'[h] = estado[h]
  BY <1>2 DEF Passa, TypeOK
<1>3. CASE Pedaco(g)
  BY <1>1, <1>3, Zenon DEF Pedaco, TypeOK
<1>4. CASE ~Pedaco(g)
  BY <1>1, <1>2, <1>4 DEF Gerar, Iniciar, MontarMensagens, Emitir, FimDoStream,
                          Falha, Avisar, Final, Concluir, Saiu, Estados
<1>5. QED
  BY <1>3, <1>4

LEMMA IdsUnicosInit == Init => IdsUnicos
<1> SUFFICES ASSUME Init PROVE IdsUnicos
  OBVIOUS
<1>1. \A g \in Ids : estado[g] = "nenhum" /\ geracao_atual # g
  BY DEF Init, Ids
<1>2. \A c \in Chamadores : chamador[c].fase = "livre"
  BY DEF Init, Livre
<1>3. QED
  BY <1>1, <1>2 DEF IdsUnicos

LEMMA IdsUnicosStep == TypeOK /\ IdsUnicos /\ [Next]_vars => IdsUnicos'
<1> SUFFICES ASSUME TypeOK, IdsUnicos, [Next]_vars PROVE IdsUnicos'
  OBVIOUS
<1> USE EngineAssumption
<1>0. /\ ids \in Nat /\ geracao_atual \in Ids \cup {0}
      /\ estado \in [Ids -> Estados]
      /\ chamador \in [Chamadores -> [fase: Fases, pergunta: 0..MaxTurnos,
                                      auto: BOOLEAN, id: 0..MaxTrocas]]
  BY DEF TypeOK
\* The actions that only move a caller, but not to "publicar".
<1>1. ASSUME UNCHANGED <<ids, geracao_atual, estado>>,
             \A c \in Chamadores : \/ chamador'[c] = chamador[c]
                                  \/ chamador'[c].fase # "publicar"
      PROVE  IdsUnicos'
  BY <1>1 DEF IdsUnicos
<1>2. ASSUME NEW t \in Turnos, Ingest(t) PROVE IdsUnicos'
  BY <1>0, <1>1, <1>2 DEF Ingest
<1>3. CASE Decidir
  <2>1. UNCHANGED <<ids, geracao_atual, estado>>
    BY <1>3 DEF Decidir
  <2>2. \/ chamador' = [chamador EXCEPT ![WORKER] = [@ EXCEPT !.fase = "criar"]]
        \/ chamador' = [chamador EXCEPT ![WORKER] = Livre]
    BY <1>3 DEF Decidir
  <2>3. QED
    BY <1>0, <1>1, <2>1, <2>2 DEF Livre
<1>4. CASE AnswerLastTurn
  BY <1>0, <1>1, <1>4 DEF AnswerLastTurn
<1>5. ASSUME NEW c \in Chamadores, Criar(c) PROVE IdsUnicos'
  <2>1. /\ ids \in Ids /\ ids' = ids + 1
        /\ UNCHANGED <<geracao_atual, estado>>
        /\ chamador[c].fase = "criar"
        /\ chamador' = [chamador EXCEPT ![c] = [@ EXCEPT !.fase = "publicar", !.id = ids]]
    BY <1>0, <1>5 DEF Criar, ProximoId, TypeOK, Ids
  <2>2. /\ chamador'[c].fase = "publicar" /\ chamador'[c].id = ids
        /\ \A d \in Chamadores : d # c => chamador'[d] = chamador[d]
    BY <1>0, <2>1
  <2>3. estado[ids] = "nenhum"
    BY <1>0, <2>1 DEF IdsUnicos
  <2>4. \A d \in Chamadores : (d # c /\ chamador'[d].fase = "publicar")
                              => chamador'[d].id < ids
    BY <2>2 DEF IdsUnicos
  <2>5. \A g \in Ids : g >= ids' => estado'[g] = "nenhum"
    BY <1>0, <2>1 DEF IdsUnicos, Ids
  <2>6. \A g \in Ids : estado'[g] = "nenhum" => geracao_atual' # g
    BY <2>1 DEF IdsUnicos
  <2>7. ASSUME NEW d \in Chamadores, chamador'[d].fase = "publicar"
        PROVE  /\ chamador'[d].id \in Ids
               /\ chamador'[d].id < ids'
               /\ estado'[chamador'[d].id] = "nenhum"
               /\ \A e \in Chamadores : chamador'[e].fase = "publicar"
                                  /\ chamador'[e].id = chamador'[d].id => d = e
    <3>1. CASE d = c
      BY <1>0, <2>1, <2>2, <2>3, <2>4, <3>1
    <3>2. CASE d # c
      <4>1. chamador'[d] = chamador[d] /\ chamador[d].id < ids /\ chamador[d].id \in Ids
            /\ estado[chamador[d].id] = "nenhum"
        BY <2>2, <2>7, <3>2 DEF IdsUnicos
      <4>2. \A e \in Chamadores \ {c} : chamador'[e].fase = "publicar"
                                  /\ chamador'[e].id = chamador'[d].id => d = e
        BY <2>2, <2>7, <3>2 DEF IdsUnicos
      <4>3. chamador'[c].id # chamador'[d].id
        BY <1>0, <2>2, <4>1 DEF Ids
      <4>4. QED
        BY <1>0, <2>1, <4>1, <4>2, <4>3 DEF Ids
    <3>3. QED
      BY <3>1, <3>2
  <2>8. QED
    BY <2>5, <2>6, <2>7, Zenon DEF IdsUnicos
<1>6. ASSUME NEW c \in Chamadores, Publicar(c) PROVE IdsUnicos'
  <2> DEFINE g == chamador[c].id
  <2>1. /\ g \in Ids /\ g < ids /\ ids' = ids /\ geracao_atual' = g
        /\ estado' = [estado EXCEPT ![g] = "iniciar"]
        /\ chamador' = [chamador EXCEPT ![c] = Livre]
    BY <1>6 DEF Publicar, IdsUnicos
  <2>2. \A h \in Ids : estado'[h] = IF h = g THEN "iniciar" ELSE estado[h]
    BY <1>0, <2>1
  <2>3. \A d \in Chamadores : chamador'[d].fase = "publicar"
                  => d # c /\ chamador'[d] = chamador[d] /\ chamador[d].id # g
    BY <1>0, <1>6, <2>1 DEF Livre, Publicar, IdsUnicos
  <2>4. \A h \in Ids : h >= ids' => estado'[h] = "nenhum"
    BY <1>0, <2>1, <2>2 DEF IdsUnicos, Ids
  <2>5. \A h \in Ids : estado'[h] = "nenhum" => geracao_atual' # h
    BY <2>1, <2>2
  <2>6. QED
    BY <2>1, <2>2, <2>3, <2>4, <2>5 DEF IdsUnicos
<1>7. CASE Cancel
  <2>1. geracao_atual' = 0 /\ UNCHANGED <<ids, estado, chamador>>
    BY <1>7 DEF Cancel
  <2>2. QED
    BY <2>1 DEF IdsUnicos, Ids
<1>8. CASE Tick \/ (\E b \in BOOLEAN : SetAutoAnswer(b))
           \/ (\E u \in UserContexts : UpdateUserContext(u)) \/ UNCHANGED vars
  <2>1. UNCHANGED <<ids, geracao_atual, estado, chamador>>
    BY <1>8 DEF Tick, SetAutoAnswer, UpdateUserContext, vars
  <2>2. QED
    BY <1>1, <2>1
<1>9. ASSUME NEW g \in Ids, Gerar(g) PROVE IdsUnicos'
  <2>1. UNCHANGED <<ids, geracao_atual, chamador>>
    BY <1>9, GerarSegue DEF motor
  <2>2. \A h \in Ids : estado'[h] = "nenhum" <=> estado[h] = "nenhum"
    BY <1>9, GerarSegue
  <2>3. QED
    BY <2>1, <2>2 DEF IdsUnicos
<1>10. QED
  BY <1>2, <1>3, <1>4, <1>5, <1>6, <1>7, <1>8, <1>9 DEF Next, DoChamador

\* An exchange that is not live does not become live again.
LEMMA NaoRessuscitaPasso ==
    TypeOK /\ IdsUnicos /\ [Next]_vars
    => \A g \in Ids : (estado[g] # "nenhum" /\ geracao_atual # g) => geracao_atual' # g
<1> SUFFICES ASSUME TypeOK, IdsUnicos, [Next]_vars, NEW g \in Ids,
                    estado[g] # "nenhum", geracao_atual # g
             PROVE  geracao_atual' # g
  OBVIOUS
<1>1. ASSUME NEW c \in Chamadores, Publicar(c) PROVE geracao_atual' # g
  BY <1>1 DEF Publicar, IdsUnicos
<1>2. CASE Cancel
  BY <1>2 DEF Cancel, Ids
<1>3. ASSUME NEW h \in Ids, Gerar(h) PROVE geracao_atual' # g
  BY <1>3, GerarSegue DEF motor
<1>4. CASE UNCHANGED geracao_atual
  BY <1>4
<1>5. QED
  BY <1>1, <1>2, <1>3, <1>4, Zenon DEF Next, DoChamador, Ingest, Decidir, AnswerLastTurn, Criar,
       SetAutoAnswer, UpdateUserContext, Tick, vars

\* Supersede is for good.
THEOREM NoResurrection == Spec => NaoRessuscita
<1>1. Init => TypeOK /\ IdsUnicos
  BY TypeOKInit, IdsUnicosInit
<1>2. TypeOK /\ IdsUnicos /\ [Next]_vars => (TypeOK /\ IdsUnicos)'
  BY TypeOKStep, IdsUnicosStep
<1>3. TypeOK /\ IdsUnicos /\ [Next]_vars =>
        [\A g \in Ids : (estado[g] # "nenhum" /\ geracao_atual # g)
                        => geracao_atual' # g]_vars
  BY NaoRessuscitaPasso
<1>4. QED
  BY <1>1, <1>2, <1>3, PTL DEF Spec, NaoRessuscita

-----------------------------------------------------------------------------
(* What the window is told.                                                *)

\* Where a generation thread is, given a call it has made.  One that called
\* back stale is past every check that could still let it paint.
Coerente(e) ==
    LET onde == estado[e.troca]
    IN  /\ onde \notin {"nenhum", "iniciar"}
        /\ e.tipo = "done" => onde = "fim"
        /\ e.tipo = "error" => onde \in {"final", "concluir", "fim"}
        /\ (~e.vigente /\ e.tipo # "start")
             => onde \in {"lendo", "final", "fim"} /\ geracao_atual # e.troca

LogCoerente == \A i \in 1..Len(chamadas) : Coerente(chamadas[i])

Avisado == LogCoerente /\ OrdemDasChamadas /\ ObsoletaNaoVolta

LEMMA AvisadoInit == Init => Avisado
  BY DEF Init, Avisado, LogCoerente, OrdemDasChamadas, ObsoletaNaoVolta

\* A step that makes no call.
LEMMA SemChamada ==
    ASSUME TypeOK, IdsUnicos, Avisado, [Next]_vars, UNCHANGED chamadas,
           NEW g \in Ids,
           \A h \in Ids : h # g => estado'[h] = estado[h],
           \A i \in 1..Len(chamadas) :
               chamadas[i].troca = g =>
                 LET e == chamadas[i]
                 IN  /\ estado'[g] \notin {"nenhum", "iniciar"}
                     /\ e.tipo = "done" => estado'[g] = "fim"
                     /\ e.tipo = "error" => estado'[g] \in {"final", "concluir", "fim"}
                     /\ (~e.vigente /\ e.tipo # "start")
                          => estado'[g] \in {"lendo", "final", "fim"}
    PROVE  Avisado'
<1>1. ASSUME NEW i \in 1..Len(chamadas) PROVE Coerente(chamadas[i])'
  <2> DEFINE e == chamadas[i]
  <2>1. e \in Chamada /\ e.troca \in Ids
    <3>1. chamadas \in Seq(Chamada)
      BY DEF TypeOK
    <3>2. e \in Chamada
      BY <3>1
    <3>3. QED
      BY <3>2 DEF Chamada
  <2>2. Coerente(e)
    BY DEF Avisado, LogCoerente
  <2>3. geracao_atual # e.troca => geracao_atual' # e.troca
    BY <2>1, <2>2, NaoRessuscitaPasso DEF Coerente
  <2>4. chamadas'[i] = e
    OBVIOUS
  <2>5. CASE e.troca = g
    BY <2>2, <2>3, <2>4, <2>5 DEF Coerente
  <2>6. CASE e.troca # g
    BY <2>1, <2>2, <2>3, <2>4, <2>6 DEF Coerente
  <2>7. QED
    BY <2>5, <2>6
<1>2. QED
  BY <1>1 DEF Avisado, LogCoerente, OrdemDasChamadas, ObsoletaNaoVolta

\* A step that makes the call `tipo` of g, and moves g from one place to another.
LEMMA ComChamada ==
    ASSUME TypeOK, IdsUnicos, Avisado, [Next]_vars,
           NEW g \in Ids, NEW tipo \in Tipos, NEW de, NEW para \in Estados,
           Passa(g, de, para), UNCHANGED geracao_atual,
           Len(chamadas') = Len(chamadas) + 1,
           \A i \in 1..Len(chamadas) : chamadas'[i] = chamadas[i],
           chamadas'[Len(chamadas) + 1]
             = [tipo |-> tipo, troca |-> g, texto |-> troca[g].answer,
                vigente |-> geracao_atual = g],
           \/ tipo = "start" /\ de = "iniciar" /\ para = "montar"
           \/ tipo = "chunk" /\ de = "emitir" /\ para = "lendo"
           \/ tipo = "error" /\ de \in {"lendo", "avisar"} /\ para = "final"
           \/ tipo = "done" /\ de = "concluir" /\ para = "fim"
    PROVE  Avisado'
<1>0. /\ estado[g] = de /\ estado'[g] = para
      /\ \A h \in Ids : h # g => estado'[h] = estado[h]
  BY DEF Passa, TypeOK
<1>1. Len(chamadas) \in Nat /\ \A i \in 1..Len(chamadas) : chamadas[i].troca \in Ids
  <2>1. chamadas \in Seq(Chamada)
    BY DEF TypeOK
  <2>2. \A i \in 1..Len(chamadas) : chamadas[i] \in Chamada
    BY <2>1
  <2>3. QED
    BY <2>1, <2>2 DEF Chamada
<1>a. PICK n \in Nat : n = Len(chamadas) + 1 /\ n = Len(chamadas')
  BY <1>1
<1>2. chamadas'[n].tipo = tipo /\ chamadas'[n].troca = g
  BY <1>a
<1>b. chamadas'[n].vigente <=> (geracao_atual = g)
  <2>1. chamadas'[n].vigente = (geracao_atual = g)
    BY <1>a
  <2>2. QED
    BY <2>1, Zenon
<1>3. \A i \in 1..n : i \in 1..Len(chamadas) \/ i = n
  BY <1>1, <1>a
\* What the earlier calls of g allow.
<1>4. ASSUME NEW i \in 1..Len(chamadas), chamadas[i].troca = g
      PROVE  /\ tipo # "start"
             /\ chamadas[i].tipo # "done"
             /\ chamadas[i].tipo = "error" => tipo = "done"
             /\ (~chamadas[i].vigente /\ chamadas[i].tipo # "start") => tipo = "error"
             /\ Coerente(chamadas[i])'
  <2>1. Coerente(chamadas[i])
    BY DEF Avisado, LogCoerente
  <2>2. chamadas'[i] = chamadas[i]
    OBVIOUS
  <2>3. /\ tipo # "start"
        /\ chamadas[i].tipo # "done"
        /\ chamadas[i].tipo = "error" => tipo = "done"
        /\ (~chamadas[i].vigente /\ chamadas[i].tipo # "start") => tipo = "error"
    BY <1>0, <1>4, <2>1 DEF Coerente
  <2>4. QED
    BY <1>0, <1>4, <2>1, <2>2, <2>3 DEF Coerente
<1>5. ASSUME NEW i \in 1..Len(chamadas), chamadas[i].troca # g
      PROVE  Coerente(chamadas[i])'
  <2>1. Coerente(chamadas[i]) /\ chamadas'[i] = chamadas[i]
    BY DEF Avisado, LogCoerente
  <2>2. QED
    BY <1>0, <1>1, <1>5, <2>1 DEF Coerente
<1>6. LogCoerente'
  <2>1. Coerente(chamadas[n])'
    BY <1>0, <1>2, <1>b DEF Coerente
  <2>2. QED
    BY <1>3, <1>4, <1>5, <1>a, <2>1 DEF LogCoerente
<1>7. OrdemDasChamadas'
  <2> SUFFICES ASSUME NEW i \in 1..n, NEW j \in 1..n, i < j,
                      chamadas'[i].troca = chamadas'[j].troca
               PROVE  /\ chamadas'[j].tipo # "start"
                      /\ chamadas'[i].tipo # "done"
                      /\ chamadas'[i].tipo = "error" => chamadas'[j].tipo = "done"
    BY <1>a DEF OrdemDasChamadas
  <2>1. i \in 1..Len(chamadas)
    BY <1>1, <1>3, <1>a
  <2>2. CASE j \in 1..Len(chamadas)
    BY <2>1, <2>2 DEF Avisado, OrdemDasChamadas
  <2>3. CASE j = n
    BY <1>2, <1>4, <2>1, <2>3
  <2>4. QED
    BY <1>3, <2>2, <2>3
<1>8. ObsoletaNaoVolta'
  <2> SUFFICES ASSUME NEW i \in 1..n, NEW j \in 1..n, i < j,
                      chamadas'[i].troca = chamadas'[j].troca,
                      ~chamadas'[i].vigente, chamadas'[i].tipo # "start"
               PROVE  chamadas'[j].tipo = "error"
    BY <1>a DEF ObsoletaNaoVolta
  <2>1. i \in 1..Len(chamadas)
    BY <1>1, <1>3, <1>a
  <2>2. CASE j \in 1..Len(chamadas)
    BY <2>1, <2>2 DEF Avisado, ObsoletaNaoVolta
  <2>3. CASE j = n
    BY <1>2, <1>4, <2>1, <2>3
  <2>4. QED
    BY <1>3, <2>2, <2>3
<1>9. QED
  BY <1>6, <1>7, <1>8 DEF Avisado

\* Chama appends to the log.
LEMMA ChamaAnexa ==
    ASSUME TypeOK, NEW g \in Ids, NEW tipo \in Tipos, Chama(tipo, g)
    PROVE  /\ Len(chamadas') = Len(chamadas) + 1
           /\ \A i \in 1..Len(chamadas) : chamadas'[i] = chamadas[i]
           /\ chamadas'[Len(chamadas) + 1]
                = [tipo |-> tipo, troca |-> g, texto |-> troca[g].answer,
                   vigente |-> geracao_atual = g]
<1> DEFINE nova == [tipo |-> tipo, troca |-> g, texto |-> troca[g].answer,
                    vigente |-> geracao_atual = g]
<1>1. chamadas \in Seq(Chamada) /\ chamadas' = Append(chamadas, nova)
  BY DEF TypeOK, Chama
<1> HIDE DEF nova
<1>2. /\ Len(chamadas') = Len(chamadas) + 1
      /\ \A i \in 1..Len(chamadas) : chamadas'[i] = chamadas[i]
      /\ chamadas'[Len(chamadas) + 1] = nova
  BY <1>1
<1>3. QED
  BY <1>2 DEF nova

LEMMA AvisadoStep == TypeOK /\ IdsUnicos /\ Avisado /\ [Next]_vars => Avisado'
<1> SUFFICES ASSUME TypeOK, IdsUnicos, Avisado, [Next]_vars PROVE Avisado'
  OBVIOUS
<1>0. /\ estado \in [Ids -> Estados] /\ chamadas \in Seq(Chamada)
      /\ Len(chamadas) \in Nat
  BY DEF TypeOK
<1>a. \A i \in 1..Len(chamadas) : Coerente(chamadas[i])
  BY DEF Avisado, LogCoerente
\* The caller actions but one touch neither the log nor a generation thread.
<1>1. CASE UNCHANGED <<chamadas, estado>>
  <2>1. CASE Ids = {}
    <3>1. chamadas = <<>>
      BY <1>0, <2>1 DEF Chamada
    <3>2. QED
      BY <1>1, <3>1 DEF Avisado, LogCoerente, OrdemDasChamadas, ObsoletaNaoVolta
  <2>2. CASE Ids # {}
    <3>1. PICK g \in Ids : TRUE
      BY <2>2
    <3>2. \A i \in 1..Len(chamadas) :
             chamadas[i].troca = g =>
                 LET e == chamadas[i]
                 IN  /\ estado'[g] \notin {"nenhum", "iniciar"}
                     /\ e.tipo = "done" => estado'[g] = "fim"
                     /\ e.tipo = "error" => estado'[g] \in {"final", "concluir", "fim"}
                     /\ (~e.vigente /\ e.tipo # "start")
                          => estado'[g] \in {"lendo", "final", "fim"}
      BY <1>1, <1>a DEF Coerente
    <3>3. QED
      BY <1>1, <3>2, SemChamada
  <2>3. QED
    BY <2>1, <2>2
<1>2. ASSUME NEW c \in Chamadores, Publicar(c) PROVE Avisado'
  <2> DEFINE g == chamador[c].id
  <2>1. /\ g \in Ids /\ estado[g] = "nenhum" /\ UNCHANGED chamadas
        /\ \A h \in Ids : h # g => estado'[h] = estado[h]
    BY <1>0, <1>2 DEF Publicar, IdsUnicos
  <2>2. \A i \in 1..Len(chamadas) : chamadas[i].troca # g
    BY <1>a, <2>1 DEF Coerente
  <2>3. PICK k \in Ids : k = g
    BY <2>1
  <2> HIDE DEF g
  <2>4. QED
    BY <2>1, <2>2, <2>3, SemChamada
<1>3. ASSUME NEW g \in Ids, Gerar(g) PROVE Avisado'
  <2>1. /\ UNCHANGED <<geracao_atual, motor>>
        /\ \A h \in Ids : h # g => estado'[h] = estado[h]
    BY <1>3, GerarSegue DEF motor
  <2>2. CASE Iniciar(g)
    BY <2>1, <2>2, ComChamada, ChamaAnexa DEF Iniciar, Tipos, Estados
  <2>3. CASE Emitir(g)
    BY <2>1, <2>3, ComChamada, ChamaAnexa DEF Emitir, Tipos, Estados
  <2>4. CASE Avisar(g)
    <3>1. Passa(g, "avisar", "final") /\ Chama("error", g)
      BY <2>4 DEF Avisar
    <3>2. QED
      BY <2>1, <3>1, ComChamada, ChamaAnexa DEF Tipos, Estados
  <2>5. CASE Concluir(g)
    BY <2>1, <2>5, ComChamada, ChamaAnexa DEF Concluir, Saiu, Tipos, Estados
  <2>6. CASE FimDoStream(g) /\ Chama("error", g)
    <3>1. Passa(g, "lendo", "final")
      BY <2>6 DEF FimDoStream
    <3>2. QED
      BY <2>1, <2>6, <3>1, ComChamada, ChamaAnexa DEF Tipos, Estados
  \* The steps that make no call leave "lendo", "final" or "montar".
  <2>7. ASSUME UNCHANGED chamadas,
               \/ estado[g] = "lendo" /\ estado'[g] \in {"lendo", "final", "fim"}
               \/ estado[g] = "lendo" /\ estado'[g] \in {"emitir", "avisar", "concluir"}
                  /\ geracao_atual = g
               \/ estado[g] = "final" /\ estado'[g] = "fim"
               \/ estado[g] = "final" /\ estado'[g] = "concluir" /\ geracao_atual = g
               \/ estado[g] = "montar" /\ estado'[g] = "lendo"
        PROVE  Avisado'
    <3>1. ASSUME NEW i \in 1..Len(chamadas), chamadas[i].troca = g
          PROVE  LET e == chamadas[i]
                 IN  /\ estado'[g] \notin {"nenhum", "iniciar"}
                     /\ e.tipo = "done" => estado'[g] = "fim"
                     /\ e.tipo = "error" => estado'[g] \in {"final", "concluir", "fim"}
                     /\ (~e.vigente /\ e.tipo # "start")
                          => estado'[g] \in {"lendo", "final", "fim"}
      <4>1. Coerente(chamadas[i])
        BY <1>a
      <4>2. QED
        BY <2>7, <3>1, <4>1 DEF Coerente
    <3>2. QED
      BY <2>1, <2>7, <3>1, SemChamada
  <2>8. CASE MontarMensagens(g)
    BY <1>0, <2>7, <2>8 DEF MontarMensagens, Passa
  <2>9. CASE Pedaco(g)
    BY <1>0, <2>7, <2>9, Zenon DEF Pedaco, Vigente
  <2>10. CASE FimDoStream(g) /\ UNCHANGED chamadas
    BY <1>0, <2>7, <2>10 DEF FimDoStream, Passa
  <2>11. CASE Falha(g)
    BY <1>0, <2>7, <2>11 DEF Falha, Passa, Vigente
  <2>12. CASE Final(g)
    BY <1>0, <2>7, <2>12 DEF Final, Passa, Vigente
  <2>13. FimDoStream(g) => UNCHANGED chamadas \/ Chama("error", g)
    BY DEF FimDoStream
  <2>14. QED
    BY <1>3, <2>2, <2>3, <2>4, <2>5, <2>6, <2>8, <2>9, <2>10, <2>11, <2>12, <2>13
       DEF Gerar
<1>4. QED
  BY <1>1, <1>2, <1>3, Zenon DEF Next, DoChamador, Ingest, Decidir, AnswerLastTurn, Criar, Cancel,
       SetAutoAnswer, UpdateUserContext, Tick, vars

LEMMA AvisadoSempre == Spec => [](TypeOK /\ IdsUnicos /\ Avisado)
<1>1. Init => TypeOK /\ IdsUnicos /\ Avisado
  BY TypeOKInit, IdsUnicosInit, AvisadoInit
<1>2. TypeOK /\ IdsUnicos /\ Avisado /\ [Next]_vars => (TypeOK /\ IdsUnicos /\ Avisado)'
  BY TypeOKStep, IdsUnicosStep, AvisadoStep
<1>3. QED
  BY <1>1, <1>2, PTL DEF Spec

\* Supersede: an exchange that has made a stale call paints no text and does not
\* conclude any more.
THEOREM SupersedeSticks == Spec => []ObsoletaNaoVolta
<1>1. Avisado => ObsoletaNaoVolta
  BY DEF Avisado
<1>2. QED
  BY <1>1, AvisadoSempre, PTL

\* The window is told of an exchange in order: one start first, at most one
\* error, done last.
THEOREM CallsInOrder == Spec => []OrdemDasChamadas
<1>1. Avisado => OrdemDasChamadas
  BY DEF Avisado
<1>2. QED
  BY <1>1, AvisadoSempre, PTL

-----------------------------------------------------------------------------
(* The context of a prompt.                                                *)

\* _historico holds the newest turns, one after another.
Consecutivos ==
    \A i \in 1..Len(historico) : historico[i] = Len(turnos) - Len(historico) + i

SoDoPassado ==
    \A g \in Ids : \A i \in 1..Len(troca[g].anteriores) :
        troca[g].anteriores[i] < troca[g].visto

LEMMA AcrescentaConsecutivos ==
    ASSUME NEW h \in Seq(Numeros), NEW n \in Nat, n + 1 \in Numeros,
           \A i \in 1..Len(h) : h[i] = n - Len(h) + i
    PROVE  LET H == Acrescenta(h, n + 1)
           IN  \A i \in 1..Len(H) : H[i] = (n + 1) - Len(H) + i
<1> DEFINE longo == Append(h, n + 1)
<1>1. /\ longo \in Seq(Numeros) /\ Len(h) \in Nat /\ Len(longo) = Len(h) + 1
      /\ \A i \in 1..Len(h) : longo[i] = h[i]
      /\ longo[Len(h) + 1] = n + 1
  BY AppendProperties, LenProperties
<1> HIDE DEF longo
<1>2. \A i \in 1..Len(longo) : longo[i] = (n + 1) - Len(longo) + i
  <2> TAKE i \in 1..Len(longo)
  <2>1. CASE i \in 1..Len(h)
    <3>1. longo[i] = n - Len(h) + i
      BY <1>1, <2>1
    <3> QED
      BY <1>1, <3>1
  <2>2. CASE i = Len(h) + 1
    BY <1>1, <2>2
  <2> QED
    BY <1>1, <2>1, <2>2
<1>3. longo # <<>>
  BY <1>1, EmptySeq
<1>4. /\ Tail(longo) \in Seq(Numeros)
      /\ Len(Tail(longo)) = Len(longo) - 1
      /\ \A i \in 1..Len(Tail(longo)) : Tail(longo)[i] = longo[i + 1]
  BY <1>1, <1>3, HeadTailProperties
<1>6. Len(longo) \in Nat /\ Len(Tail(longo)) \in Nat
  BY <1>1, <1>4, LenProperties
<1>5. \A i \in 1..Len(Tail(longo)) : Tail(longo)[i] = (n + 1) - Len(Tail(longo)) + i
  <2> TAKE i \in 1..Len(Tail(longo))
  <2>1. i \in Nat /\ i + 1 \in 1..Len(longo)
    BY <1>1, <1>4
  <2>2. Tail(longo)[i] = (n + 1) - Len(longo) + (i + 1)
    BY <1>2, <1>4, <2>1
  <2> DEFINE k == Len(longo)
             l == Len(Tail(longo))
  <2>3. k \in Nat /\ l \in Nat /\ l = k - 1
    BY <1>4, <1>6
  <2>4. Tail(longo)[i] = (n + 1) - k + (i + 1)
    BY <2>2
  <2> HIDE DEF k, l
  <2>5. Tail(longo)[i] = (n + 1) - l + i
    BY <2>1, <2>3, <2>4
  <2> QED
    BY <2>5 DEF l
<1> QED
  BY <1>2, <1>5 DEF Acrescenta, longo

\* What MontarMensagens takes from it is older than the newest turn.
LEMMA AnterioresPassados ==
    ASSUME TypeOK, Consecutivos
    PROVE  /\ Anteriores \in Seq(Numeros)
           /\ \A i \in 1..Len(Anteriores) : Anteriores[i] < Len(turnos)
<1>1. historico \in Seq(Numeros) /\ Len(turnos) \in Nat
  BY DEF TypeOK
<1>2. Len(historico) \in Nat
  BY <1>1
<1>3. Anteriores \in Seq(Numeros)
  BY <1>1 DEF Anteriores
<1>4. CASE Len(historico) = 0
  <2>1. Len(Anteriores) = 0
    BY <1>1, <1>4 DEF Anteriores
  <2> QED
    BY <1>3, <2>1
<1>5. CASE Len(historico) > 0
  <2> DEFINE m == Len(historico) - 1
  <2>1. m \in 0..Len(historico)
    BY <1>2, <1>5
  <2>2. /\ Len(SubSeq(historico, 1, m)) = m
        /\ \A i \in 1..m : SubSeq(historico, 1, m)[i] = historico[i]
    <3>1. \A i \in 1..m : historico[i] \in Numeros
      BY <1>1, <2>1, ElementOfSeq
    <3>2. m \in Int /\ m \in Nat /\ 1 \in Int
      BY <2>1
    <3> HIDE DEF m
    <3>3. /\ Len(SubSeq(historico, 1, m)) = IF 1 <= m THEN m - 1 + 1 ELSE 0
          /\ \A i \in 1..(m - 1 + 1) : SubSeq(historico, 1, m)[i] = historico[1 + i - 1]
      BY <3>1, <3>2, SubSeqProperties
    <3> QED
      BY <3>2, <3>3
  <2>3. \A i \in 1..m : historico[i] < Len(turnos)
    BY <1>1, <1>2, <1>5 DEF Consecutivos
  <2> QED
    BY <1>3, <2>2, <2>3 DEF Anteriores
<1> QED
  BY <1>2, <1>3, <1>4, <1>5

LEMMA ContextoInit == Init => Consecutivos /\ SoDoPassado
<1> SUFFICES ASSUME Init PROVE Consecutivos /\ SoDoPassado
  OBVIOUS
<1>1. historico = <<>> /\ \A g \in Ids : troca[g].anteriores = <<>>
  BY Zenon DEF Init, SemTroca
<1>2. Len(<<>>) = 0
  BY EmptySeq
<1> QED
  BY <1>1, <1>2 DEF Consecutivos, SoDoPassado

\* What a step of a generation thread may write of the exchanges.
LEMMA GerarEscreve ==
    ASSUME TypeOK, NEW h \in Ids, Gerar(h)
    PROVE  /\ \A g \in Ids \ {h} : troca'[g] = troca[g]
           /\ troca'[h].auto = troca[h].auto
           /\ MontarMensagens(h) \/ ( /\ troca'[h].anteriores = troca[h].anteriores
                                      /\ troca'[h].visto = troca[h].visto )
           /\ Pedaco(h) \/ ( /\ troca'[h].parcial = troca[h].parcial
                             /\ troca'[h].ignored = troca[h].ignored )
<1>0. troca \in [Ids -> Exchange] /\ troca[h] \in Exchange
  BY DEF TypeOK
<1>1. CASE UNCHANGED troca
  BY <1>1
<1>2. CASE MontarMensagens(h)
  BY <1>0, <1>2, Zenon DEF MontarMensagens, Exchange
<1>3. CASE Pedaco(h)
  <2>1. ASSUME NEW e, troca' = [troca EXCEPT ![h] = e],
               e.anteriores = troca[h].anteriores, e.visto = troca[h].visto,
               e.auto = troca[h].auto
        PROVE  /\ \A g \in Ids \ {h} : troca'[g] = troca[g]
               /\ troca'[h].auto = troca[h].auto
               /\ troca'[h].anteriores = troca[h].anteriores
               /\ troca'[h].visto = troca[h].visto
    BY <1>0, <2>1
  <2>2. CASE ~UNCHANGED troca
    <3>1. PICK p \in Continuacoes(troca[h].parcial) :
             LET lida == [troca[h] EXCEPT !.parcial = p, !.pedacos = troca[h].pedacos + 1]
             IN  \/ troca' = [troca EXCEPT ![h] = lida]
                 \/ troca' = [troca EXCEPT ![h] = [lida EXCEPT !.ignored = TRUE]]
                 \/ troca' = [troca EXCEPT ![h] = [lida EXCEPT !.answer = p]]
      BY <1>3, <2>2, Zenon DEF Pedaco
    <3> DEFINE lida == [troca[h] EXCEPT !.parcial = p, !.pedacos = troca[h].pedacos + 1]
               ign == [lida EXCEPT !.ignored = TRUE]
               resp == [lida EXCEPT !.answer = p]
    <3>2. /\ lida.anteriores = troca[h].anteriores /\ lida.visto = troca[h].visto
          /\ lida.auto = troca[h].auto
      BY <1>0, Zenon DEF Exchange
    <3>3. /\ ign.anteriores = troca[h].anteriores /\ ign.visto = troca[h].visto
          /\ ign.auto = troca[h].auto
      BY <1>0, Zenon DEF Exchange
    <3>4. /\ resp.anteriores = troca[h].anteriores /\ resp.visto = troca[h].visto
          /\ resp.auto = troca[h].auto
      BY <1>0, Zenon DEF Exchange
    <3>5. \/ troca' = [troca EXCEPT ![h] = lida]
          \/ troca' = [troca EXCEPT ![h] = ign]
          \/ troca' = [troca EXCEPT ![h] = resp]
      BY <3>1
    <3> HIDE DEF lida, ign, resp
    <3> QED
      BY <1>3, <2>1, <3>2, <3>3, <3>4, <3>5
  <2> QED
    BY <1>1, <2>2
<1>4. CASE troca' = [troca EXCEPT ![h].error = TRUE]
  BY <1>0, <1>4, Zenon DEF Exchange
<1> QED
  BY <1>1, <1>2, <1>3, <1>4 DEF Gerar, Iniciar, Emitir, FimDoStream, Falha, Avisar,
     Final, Concluir

\* _responder writes the fields of the new exchange, and only those.
LEMMA CriarEscreve ==
    ASSUME TypeOK, NEW c \in Chamadores, Criar(c)
    PROVE  /\ ids \in Ids
           /\ \A g \in Ids \ {ids} : troca'[g] = troca[g]
           /\ troca'[ids].auto = chamador[c].auto
           /\ troca'[ids].anteriores = troca[ids].anteriores
           /\ troca'[ids].visto = troca[ids].visto
           /\ troca'[ids].parcial = troca[ids].parcial
           /\ troca'[ids].ignored = troca[ids].ignored
           /\ troca'[ids].answer = troca[ids].answer
           /\ troca'[ids].error = troca[ids].error
<1> DEFINE e == [troca[ids] EXCEPT !.pergunta = chamador[c].pergunta,
                                   !.auto = chamador[c].auto]
<1>1. ids \in Ids /\ troca' = [troca EXCEPT ![ids] = e]
  BY DEF Criar, Ids, TypeOK
<1>2. troca \in [Ids -> Exchange] /\ troca[ids] \in Exchange
  BY <1>1 DEF TypeOK
<1>3. /\ e.auto = chamador[c].auto
      /\ e.anteriores = troca[ids].anteriores /\ e.visto = troca[ids].visto
      /\ e.parcial = troca[ids].parcial /\ e.ignored = troca[ids].ignored
      /\ e.answer = troca[ids].answer /\ e.error = troca[ids].error
  BY <1>2, Zenon DEF Exchange
<1> HIDE DEF e
<1> QED
  BY <1>1, <1>2, <1>3

\* Only MontarMensagens writes what a prompt holds.
LEMMA AnterioresFicam ==
    ASSUME TypeOK, [Next]_vars, NEW g \in Ids, ~MontarMensagens(g)
    PROVE  /\ troca'[g].anteriores = troca[g].anteriores
           /\ troca'[g].visto = troca[g].visto
<1>1. CASE UNCHANGED troca
  BY <1>1
<1>2. ASSUME NEW c \in Chamadores, Criar(c)
      PROVE  /\ troca'[g].anteriores = troca[g].anteriores
             /\ troca'[g].visto = troca[g].visto
  BY <1>2, CriarEscreve
<1>3. ASSUME NEW h \in Ids, Gerar(h)
      PROVE  /\ troca'[g].anteriores = troca[g].anteriores
             /\ troca'[g].visto = troca[g].visto
  BY <1>3, GerarEscreve
<1> QED
  BY <1>1, <1>2, <1>3 DEF Next, DoChamador, Ingest, Decidir, AnswerLastTurn, Publicar,
     Cancel, SetAutoAnswer, UpdateUserContext, Tick, vars

LEMMA ContextoStep ==
    TypeOK /\ Consecutivos /\ SoDoPassado /\ [Next]_vars => (Consecutivos /\ SoDoPassado)'
<1> SUFFICES ASSUME TypeOK, Consecutivos, SoDoPassado, [Next]_vars
             PROVE  Consecutivos' /\ SoDoPassado'
  OBVIOUS
<1>1. Consecutivos'
  <2>1. ASSUME NEW t \in Turnos, Ingest(t) PROVE Consecutivos'
    <3> DEFINE n == Len(turnos)
    <3>1. /\ historico \in Seq(Numeros) /\ n \in Nat /\ n < MaxTurnos
          /\ Len(turnos') = n + 1
      BY <2>1 DEF Ingest, TypeOK
    <3>2. n + 1 \in Numeros
      BY <3>1, EngineAssumption DEF Numeros
    <3>3. historico' = Acrescenta(historico, n + 1)
      BY <2>1, <3>1 DEF Ingest
    <3>4. \A i \in 1..Len(historico) : historico[i] = n - Len(historico) + i
      BY DEF Consecutivos
    <3> HIDE DEF n
    <3> QED
      BY <3>1, <3>2, <3>3, <3>4, AcrescentaConsecutivos DEF Consecutivos
  <2>2. CASE UNCHANGED <<historico, turnos>>
    BY <2>2 DEF Consecutivos
  <2>3. ASSUME NEW g \in Ids, Gerar(g) PROVE UNCHANGED <<historico, turnos>>
    BY <2>3, GerarSegue DEF motor, fala
  <2> QED
    BY <2>1, <2>2, <2>3, Zenon DEF Next, DoChamador, Decidir, AnswerLastTurn, Criar, Publicar,
       Cancel, SetAutoAnswer, UpdateUserContext, Tick, vars, fala
<1>2. SoDoPassado'
  <2> SUFFICES ASSUME NEW g \in Ids, NEW i \in 1..Len(troca'[g].anteriores)
               PROVE  troca'[g].anteriores[i] < troca'[g].visto
    BY DEF SoDoPassado
  <2>1. CASE MontarMensagens(g)
    <3>1. troca'[g].anteriores = Anteriores /\ troca'[g].visto = Len(turnos)
      BY <2>1, Zenon DEF MontarMensagens, TypeOK, Exchange
    <3> QED
      BY <3>1, AnterioresPassados
  <2>2. CASE ~MontarMensagens(g)
    BY <2>2, AnterioresFicam DEF SoDoPassado
  <2> QED
    BY <2>1, <2>2
<1> QED
  BY <1>1, <1>2

\* The context that _montar_mensagens takes from _historico was heard before the
\* newest turn of that moment; the question is in it only if someone spoke since.
THEOREM ContextIsPast == Spec => []ContextoSoDoPassado
<1>1. Init => TypeOK /\ Consecutivos /\ SoDoPassado
  BY TypeOKInit, ContextoInit
<1>2. TypeOK /\ Consecutivos /\ SoDoPassado /\ [Next]_vars
        => (TypeOK /\ Consecutivos /\ SoDoPassado)'
  BY TypeOKStep, ContextoStep
<1>3. SoDoPassado => ContextoSoDoPassado
  BY DEF SoDoPassado, ContextoSoDoPassado
<1> QED
  BY <1>1, <1>2, <1>3, PTL DEF Spec

-----------------------------------------------------------------------------
(* The quota.                                                              *)

\* The automatic answers, the one about to be created (0) among them.
Automaticas ==
    {g \in Ids : troca[g].auto} \cup (IF chamador[WORKER].fase = "criar" THEN {0} ELSE {})

\* Every answer since boot has moved _ultima_resposta on by a cooldown.
Cota ==
    /\ \A g \in Ids : g >= ids => ~troca[g].auto
    /\ chamador[WORKER].fase \in {"decidir", "criar"} => chamador[WORKER].auto
    /\ chamador[UI].fase = "criar" => ~chamador[UI].auto
    /\ ultima_resposta <= agora
    /\ Cooldown * Cardinality(Automaticas) <= ultima_resposta

LEMMA Vezes ==
    ASSUME NEW c \in Nat, NEW k \in Nat
    PROVE  c * k \in Nat /\ c * (k + 1) = c * k + c
  OBVIOUS

LEMMA AutomaticasFinitas ==
    TypeOK => IsFiniteSet(Automaticas) /\ Cardinality(Automaticas) \in Nat
<1> SUFFICES ASSUME TypeOK
             PROVE  IsFiniteSet(Automaticas) /\ Cardinality(Automaticas) \in Nat
  OBVIOUS
<1>1. MaxTrocas \in Nat
  BY EngineAssumption
<1>2. IsFiniteSet(0..MaxTrocas)
  BY <1>1, FS_Interval
<1>3. Automaticas \subseteq 0..MaxTrocas
  BY <1>1 DEF Automaticas, Ids
<1>4. IsFiniteSet(Automaticas)
  BY <1>2, <1>3, FS_Subset
<1> QED
  BY <1>4, FS_CardinalityType

LEMMA CotaInit == Init => Cota
<1> SUFFICES ASSUME Init PROVE Cota
  OBVIOUS
<1>1. /\ \A g \in Ids : ~troca[g].auto
      /\ chamador[WORKER].fase = "livre" /\ chamador[UI].fase = "livre"
      /\ ultima_resposta = 0 /\ agora \in Nat
  <2>1. \A g \in Ids : ~troca[g].auto
    BY Zenon DEF Init, SemTroca
  <2>2. chamador[WORKER].fase = "livre" /\ chamador[UI].fase = "livre"
    BY DEF Init, Livre, Chamadores
  <2>3. ultima_resposta = 0 /\ agora \in Nat
    BY EngineAssumption DEF Init
  <2> QED
    BY <2>1, <2>2, <2>3
<1>2. Automaticas = {}
  BY <1>1 DEF Automaticas
<1>3. Cooldown * Cardinality(Automaticas) = 0
  BY <1>2, FS_EmptySet, EngineAssumption
<1> QED
  BY <1>1, <1>3 DEF Cota

LEMMA CotaStep == TypeOK /\ Cota /\ [Next]_vars => Cota'
<1> SUFFICES ASSUME TypeOK, Cota, [Next]_vars PROVE Cota'
  OBVIOUS
<1>0. /\ chamador \in [Chamadores -> [fase: Fases, pergunta: 0..MaxTurnos,
                                      auto: BOOLEAN, id: 0..MaxTrocas]]
      /\ WORKER \in Chamadores /\ UI \in Chamadores /\ WORKER # UI
      /\ Chamadores = {WORKER, UI}
      /\ ids \in Nat /\ agora \in Nat /\ ultima_resposta \in Nat /\ Cooldown \in Nat
  BY EngineAssumption DEF TypeOK, Chamadores, WORKER, UI
\* The steps that neither create an answer nor decide on one.
<1>1. ASSUME UNCHANGED <<ids, ultima_resposta>>, agora' >= agora,
             \A g \in Ids : troca'[g].auto = troca[g].auto,
             chamador'[WORKER].fase = "criar" <=> chamador[WORKER].fase = "criar",
             chamador'[WORKER].fase \in {"decidir", "criar"} => chamador'[WORKER].auto,
             chamador'[UI].fase = "criar" => ~chamador'[UI].auto,
             agora' \in Nat
      PROVE  Cota'
  <2>1. Automaticas' = Automaticas
    BY <1>1 DEF Automaticas
  <2>2. \A g \in Ids : g >= ids' => ~troca'[g].auto
    BY <1>1 DEF Cota
  <2>3. ultima_resposta' <= agora'
    BY <1>0, <1>1 DEF Cota
  <2>4. Cooldown * Cardinality(Automaticas') <= ultima_resposta'
    BY <1>1, <2>1 DEF Cota
  <2> QED
    BY <1>1, <2>2, <2>3, <2>4 DEF Cota
<1>2. ASSUME NEW t \in Turnos, Ingest(t) PROVE Cota'
  <2>1. /\ UNCHANGED <<ids, ultima_resposta, agora, troca>>
        /\ chamador[WORKER].fase = "livre"
        /\ chamador'[WORKER].fase = "decidir" /\ chamador'[WORKER].auto
        /\ chamador'[UI] = chamador[UI]
    BY <1>0, <1>2 DEF Ingest, relogio
  <2> QED
    BY <1>0, <1>1, <2>1 DEF Cota
<1>3. CASE Decidir
  <2> DEFINE c == chamador[WORKER]
             responde == /\ turnos[c.pergunta].pergunta
                         /\ ~turnos[c.pergunta].voce
                         /\ PodeResponderAgora
  <2>1. /\ c.fase = "decidir" /\ c.auto
        /\ UNCHANGED <<ids, agora, troca>>
        /\ chamador' = [chamador EXCEPT ![WORKER] =
                           IF responde THEN [c EXCEPT !.fase = "criar"] ELSE Livre]
        /\ ultima_resposta' = IF responde /\ Cooldown > 0 THEN agora ELSE ultima_resposta
    BY <1>3 DEF Decidir, Cota
  <2>2. chamador'[UI] = chamador[UI]
    BY <1>0, <2>1
  <2>3. CASE ~responde
    <3>1. chamador'[WORKER] = Livre /\ ultima_resposta' = ultima_resposta
      BY <1>0, <2>1, <2>3
    <3> QED
      BY <1>0, <1>1, <2>1, <2>2, <3>1 DEF Livre, Cota
  <2>4. CASE responde
    <3>1. chamador'[WORKER].fase = "criar" /\ chamador'[WORKER].auto
      BY <1>0, <2>1, <2>4
    <3>2. /\ Cooldown > 0 => ultima_resposta' = agora /\ agora - ultima_resposta >= Cooldown
          /\ Cooldown = 0 => ultima_resposta' = ultima_resposta
      BY <1>0, <2>1, <2>4 DEF PodeResponderAgora
    <3> HIDE DEF responde
    <3>3. 0 \notin Automaticas /\ Automaticas' = Automaticas \cup {0}
      BY <2>1, <3>1 DEF Automaticas, Ids
    <3>4. Cardinality(Automaticas') = Cardinality(Automaticas) + 1
      BY <3>3, AutomaticasFinitas, FS_AddElement
    <3> DEFINE k == Cardinality(Automaticas)
    <3>5. k \in Nat /\ Cooldown * k <= ultima_resposta /\ ultima_resposta <= agora
      BY AutomaticasFinitas DEF Cota
    <3>6. Cooldown * Cardinality(Automaticas') = Cooldown * (k + 1)
      BY <3>4
    <3> HIDE DEF k
    <3>7. Cooldown * (k + 1) = Cooldown * k + Cooldown /\ Cooldown * k \in Nat
      BY <1>0, <3>5, Vezes
    <3>8. Cooldown * Cardinality(Automaticas') <= ultima_resposta'
      <4> DEFINE x == Cooldown * k
                 y == Cooldown * (k + 1)
      <4>1. x \in Nat /\ y = x + Cooldown /\ x <= ultima_resposta
        BY <3>5, <3>7
      <4>2. Cooldown * Cardinality(Automaticas') = y
        BY <3>6
      <4> HIDE DEF x, y
      <4> QED
        BY <1>0, <3>2, <4>1, <4>2
    <3>9. ultima_resposta' <= agora'
      BY <1>0, <2>1, <3>2, <3>5
    <3> QED
      BY <2>1, <2>2, <3>1, <3>8, <3>9 DEF Cota
  <2> QED
    BY <2>3, <2>4
<1>4. CASE AnswerLastTurn
  <2>1. /\ UNCHANGED <<ids, ultima_resposta, agora, troca>>
        /\ ~chamador'[UI].auto
        /\ chamador'[WORKER] = chamador[WORKER]
    BY <1>0, <1>4 DEF AnswerLastTurn, relogio
  <2> QED
    BY <1>0, <1>1, <2>1 DEF Cota
<1>5. CASE Criar(UI)
  <2>1. /\ ids' = ids + 1 /\ UNCHANGED <<ultima_resposta, agora>>
        /\ chamador[UI].fase = "criar" /\ chamador'[UI].fase = "publicar"
        /\ chamador'[WORKER] = chamador[WORKER]
    BY <1>0, <1>5 DEF Criar, ProximoId, relogio
  <2>2. \A g \in Ids : troca'[g].auto <=> troca[g].auto
    BY <1>0, <1>5, <2>1, CriarEscreve DEF Cota
  <2>3. Automaticas' = Automaticas
    BY <2>1, <2>2 DEF Automaticas
  <2>4. \A g \in Ids : g >= ids' => ~troca'[g].auto
    BY <1>0, <2>1, <2>2 DEF Cota, Ids
  <2> QED
    BY <2>1, <2>3, <2>4 DEF Cota
<1>6. CASE Criar(WORKER)
  <2>1. /\ ids' = ids + 1 /\ UNCHANGED <<ultima_resposta, agora>>
        /\ chamador[WORKER].fase = "criar" /\ chamador'[WORKER].fase = "publicar"
        /\ chamador'[UI] = chamador[UI]
    BY <1>0, <1>6 DEF Criar, ProximoId, relogio
  <2>2. /\ ids \in Ids /\ troca'[ids].auto
        /\ \A g \in Ids \ {ids} : troca'[g] = troca[g]
        /\ ~troca[ids].auto
    BY <1>0, <1>6, <2>1, CriarEscreve DEF Cota
  <2>3. /\ 0 \in Automaticas /\ ids \notin Automaticas /\ ids # 0
        /\ Automaticas' = (Automaticas \ {0}) \cup {ids}
    BY <2>1, <2>2 DEF Automaticas, Ids
  <2>4. Cardinality(Automaticas') = Cardinality(Automaticas)
    <3>1. IsFiniteSet(Automaticas) /\ Cardinality(Automaticas) \in Nat
      BY AutomaticasFinitas
    <3>2. /\ IsFiniteSet(Automaticas \ {0})
          /\ Cardinality(Automaticas \ {0}) = Cardinality(Automaticas) - 1
      BY <2>3, <3>1, FS_RemoveElement
    <3>3. Cardinality((Automaticas \ {0}) \cup {ids}) = Cardinality(Automaticas \ {0}) + 1
      BY <2>3, <3>2, FS_AddElement
    <3> QED
      BY <2>3, <3>1, <3>2, <3>3
  <2>5. \A g \in Ids : g >= ids' => ~troca'[g].auto
    BY <1>0, <2>1, <2>2 DEF Cota, Ids
  <2> QED
    BY <2>1, <2>4, <2>5 DEF Cota
<1>7. ASSUME NEW c \in Chamadores, Publicar(c) PROVE Cota'
  <2>1. /\ UNCHANGED <<ids, ultima_resposta, agora, troca>>
        /\ chamador[c].fase = "publicar"
        /\ chamador' = [chamador EXCEPT ![c] = Livre]
    BY <1>7 DEF Publicar, relogio
  <2>2. \A d \in Chamadores : chamador'[d] = chamador[d]
                              \/ (chamador[d].fase = "publicar" /\ chamador'[d].fase = "livre")
    BY <1>0, <2>1 DEF Livre
  <2> QED
    BY <1>0, <1>1, <2>1, <2>2 DEF Cota
<1>8. ASSUME UNCHANGED <<ids, ultima_resposta, troca, chamador>>,
             agora' = agora \/ agora' = agora + 1
      PROVE  Cota'
  BY <1>0, <1>1, <1>8 DEF Cota
<1>9. ASSUME NEW g \in Ids, Gerar(g) PROVE Cota'
  <2>1. UNCHANGED <<ids, ultima_resposta, agora, chamador>>
    BY <1>9, GerarSegue DEF motor, relogio
  <2>2. \A h \in Ids : troca'[h].auto = troca[h].auto
    BY <1>9, GerarEscreve
  <2> QED
    BY <1>0, <1>1, <2>1, <2>2 DEF Cota
<1>10. ASSUME NEW c \in Chamadores, Criar(c) PROVE Cota'
  BY <1>0, <1>5, <1>6, <1>10
<1> QED
  BY <1>2, <1>3, <1>4, <1>7, <1>8, <1>9, <1>10 DEF Next, DoChamador, Cancel,
     SetAutoAnswer, UpdateUserContext, Tick, vars, relogio

\* _pode_responder_agora, read and write of _ultima_resposta, keeps the automatic
\* answers, the one about to be created included, to one per cooldown_s since boot.
THEOREM QuotaRespected == Spec => []CotaLimitada
<1>1. Init => TypeOK /\ Cota
  BY TypeOKInit, CotaInit
<1>2. TypeOK /\ Cota /\ [Next]_vars => (TypeOK /\ Cota)'
  BY TypeOKStep, CotaStep
<1>3. TypeOK /\ Cota => CotaLimitada
  <2> SUFFICES ASSUME TypeOK, Cota PROVE CotaLimitada
    OBVIOUS
  <2> DEFINE x == Cooldown * Cardinality(Automaticas)
  <2>1. Cooldown \in Nat /\ Cardinality(Automaticas) \in Nat
    BY AutomaticasFinitas, EngineAssumption
  <2>2. x \in Nat
    BY <2>1, Vezes
  <2>3. x <= ultima_resposta /\ ultima_resposta <= agora
    BY DEF Cota
  <2>4. ultima_resposta \in Nat /\ agora \in Nat
    BY EngineAssumption DEF TypeOK
  <2> HIDE DEF x
  <2>5. x <= agora
    BY <2>2, <2>3, <2>4
  <2> QED
    BY <2>5 DEF x, CotaLimitada, Automaticas
<1> QED
  BY <1>1, <1>2, <1>3, PTL DEF Spec

-----------------------------------------------------------------------------
(* The marker.                                                             *)

\* Exchange g has painted, or is about to.
Mostra(g) ==
    \/ estado[g] = "emitir"
    \/ \E i \in 1..Len(chamadas) : chamadas[i].troca = g /\ chamadas[i].tipo = "chunk"

\* Text that is not the marker and can never become it, unless it opened with blanks.
NaoEMarca(t) ==
    \/ t.parcial.brancos > 0
    \/ t.parcial.resto /\ t.parcial.marca < TamMarcador /\ ~t.ignored

SoTexto ==
    \A g \in Ids :
        /\ Mostra(g) => NaoEMarca(troca[g])
        /\ estado[g] \in {"nenhum", "iniciar", "montar", "lendo", "emitir"}
             => ~troca[g].ignored

\* Once it is painted, the text only grows: the filter never swallows it.
LEMMA ContinuaTexto ==
    ASSUME NEW q \in Textos, NEW p \in Continuacoes(q),
           q.brancos > 0 \/ (q.resto /\ q.marca < TamMarcador)
    PROVE  p.brancos > 0 \/ (p.resto /\ p.marca < TamMarcador)
<1>1. CASE q.resto
  BY <1>1 DEF Continuacoes
<1>2. CASE ~q.resto
  <2>1. q.brancos > 0 /\ p.brancos >= q.brancos /\ p \in Textos
    BY <1>2 DEF Continuacoes
  <2>2. q.brancos \in Nat /\ p.brancos \in Nat
    BY <2>1, EngineAssumption DEF Textos
  <2> QED
    BY <2>1, <2>2
<1> QED
  BY <1>1, <1>2

\* What is painted at first is no marker.
LEMMA EmiteTexto ==
    ASSUME NEW p \in Textos, ~Segura(p), ~EhMarcador(p)
    PROVE  p.brancos > 0 \/ (p.resto /\ p.marca < TamMarcador)
<1>1. p.brancos \in Nat /\ p.marca \in 0..TamMarcador /\ TamMarcador \in Nat
  BY EngineAssumption DEF Textos
<1>2. p.marca < TamMarcador
  BY <1>1 DEF EhMarcador
<1>3. p.resto \/ p.brancos + p.marca >= TamMarcador
  BY <1>1 DEF Segura
<1>4. p.brancos + p.marca >= TamMarcador => p.brancos > 0
  BY <1>1, <1>2
<1> QED
  BY <1>2, <1>3, <1>4

LEMMA SoTextoPedaco ==
    ASSUME TypeOK, SoTexto, NEW g \in Ids, Pedaco(g)
    PROVE  /\ Mostra(g)' => NaoEMarca(troca'[g])
           /\ estado'[g] \in {"nenhum", "iniciar", "montar", "lendo", "emitir"}
                => ~troca'[g].ignored
<1>0. /\ estado \in [Ids -> Estados] /\ troca \in [Ids -> Exchange] /\ troca[g] \in Exchange
      /\ troca[g].parcial \in Textos
  BY Zenon DEF TypeOK, Exchange
<1>1. chamadas' = chamadas /\ estado[g] = "lendo" /\ ~troca[g].ignored
  BY Zenon DEF Pedaco, SoTexto
<1>2. CASE estado' = [estado EXCEPT ![g] = "fim"] /\ UNCHANGED troca
  <2>1. Mostra(g)' => Mostra(g)
    BY <1>0, <1>1, <1>2 DEF Mostra
  <2> QED
    BY <1>0, <1>2, <2>1 DEF SoTexto
<1>3. ASSUME NEW p \in Continuacoes(troca[g].parcial),
             LET lida == [troca[g] EXCEPT !.parcial = p, !.pedacos = @ + 1]
             IN  \/ /\ Segura(p)
                    /\ troca' = [troca EXCEPT ![g] = lida]
                    /\ UNCHANGED estado
                 \/ /\ ~Segura(p)
                    /\ EhMarcador(p)
                    /\ troca' = [troca EXCEPT ![g] = [lida EXCEPT !.ignored = TRUE]]
                    /\ estado' = [estado EXCEPT ![g] = "concluir"]
                 \/ /\ ~Segura(p)
                    /\ ~EhMarcador(p)
                    /\ troca' = [troca EXCEPT ![g] = [lida EXCEPT !.answer = p]]
                    /\ estado' = [estado EXCEPT ![g] = "emitir"]
      PROVE  /\ Mostra(g)' => NaoEMarca(troca'[g])
             /\ estado'[g] \in {"nenhum", "iniciar", "montar", "lendo", "emitir"}
                  => ~troca'[g].ignored
  <2> DEFINE lida == [troca[g] EXCEPT !.parcial = p, !.pedacos = troca[g].pedacos + 1]
             ign == [lida EXCEPT !.ignored = TRUE]
             resp == [lida EXCEPT !.answer = p]
  <2>1. /\ lida.parcial = p /\ ~lida.ignored
        /\ ign.parcial = p
        /\ resp.parcial = p /\ ~resp.ignored
    BY <1>0, <1>1, Zenon DEF Exchange
  <2>2. p \in Textos
    BY <1>0 DEF Continuacoes
  <2>3. Mostra(g) => p.brancos > 0 \/ (p.resto /\ p.marca < TamMarcador)
    BY <1>0, ContinuaTexto DEF SoTexto, NaoEMarca
  <2>4. \/ Segura(p) /\ troca' = [troca EXCEPT ![g] = lida] /\ UNCHANGED estado
        \/ /\ EhMarcador(p)
           /\ troca' = [troca EXCEPT ![g] = ign]
           /\ estado' = [estado EXCEPT ![g] = "concluir"]
        \/ /\ ~Segura(p) /\ ~EhMarcador(p)
           /\ troca' = [troca EXCEPT ![g] = resp]
           /\ estado' = [estado EXCEPT ![g] = "emitir"]
    BY <1>3
  <2> HIDE DEF lida, ign, resp
  <2>5. CASE Segura(p) /\ troca' = [troca EXCEPT ![g] = lida] /\ UNCHANGED estado
    <3>1. Mostra(g)' => Mostra(g)
      BY <1>1, <2>5 DEF Mostra
    <3>2. troca'[g] = lida
      BY <1>0, <2>5
    <3> QED
      BY <2>1, <2>3, <3>1, <3>2 DEF NaoEMarca
  <2>6. CASE /\ EhMarcador(p)
             /\ troca' = [troca EXCEPT ![g] = ign]
             /\ estado' = [estado EXCEPT ![g] = "concluir"]
    <3>1. Mostra(g)' => Mostra(g)
      BY <1>0, <1>1, <2>6 DEF Mostra
    <3>2. troca'[g] = ign /\ estado'[g] = "concluir"
      BY <1>0, <2>6
    <3>3. ~(p.marca < TamMarcador)
      BY <2>6, EngineAssumption DEF EhMarcador
    <3> QED
      BY <2>1, <2>3, <3>1, <3>2, <3>3 DEF NaoEMarca
  <2>7. CASE /\ ~Segura(p) /\ ~EhMarcador(p)
             /\ troca' = [troca EXCEPT ![g] = resp]
             /\ estado' = [estado EXCEPT ![g] = "emitir"]
    <3>1. troca'[g] = resp
      BY <1>0, <2>7
    <3> QED
      BY <2>1, <2>2, <2>7, <3>1, EmiteTexto DEF NaoEMarca
  <2> QED
    BY <2>4, <2>5, <2>6, <2>7
<1> QED
  BY <1>2, <1>3, Zenon DEF Pedaco

LEMMA SoTextoInit == Init => SoTexto
<1> SUFFICES ASSUME Init PROVE SoTexto
  OBVIOUS
<1>1. Len(<<>>) = 0
  BY EmptySeq
<1>2. chamadas = <<>> /\ estado = [g \in Ids |-> "nenhum"] /\ troca = [g \in Ids |-> SemTroca]
  BY DEF Init
<1>3. ~SemTroca.ignored
  BY DEF SemTroca
<1>4. ASSUME NEW g \in Ids PROVE ~Mostra(g) /\ ~troca[g].ignored
  <2>1. estado[g] = "nenhum" /\ troca[g] = SemTroca
    BY <1>2
  <2>2. 1..Len(chamadas) = {}
    BY <1>1, <1>2
  <2> QED
    BY <1>3, <2>1, <2>2 DEF Mostra
<1> QED
  BY <1>4 DEF SoTexto

\* A call of one exchange is no call of another.
LEMMA ChamadaDoOutro ==
    ASSUME TypeOK, NEW g \in Ids, NEW h \in Ids, NEW tipo \in Tipos, Chama(tipo, h),
           g # h \/ tipo # "chunk",
           NEW i \in 1..Len(chamadas'), chamadas'[i].troca = g, chamadas'[i].tipo = "chunk"
    PROVE  \E j \in 1..Len(chamadas) : chamadas[j].troca = g /\ chamadas[j].tipo = "chunk"
<1> DEFINE n == Len(chamadas)
<1>1. /\ n \in Nat /\ Len(chamadas') = n + 1
      /\ \A j \in 1..n : chamadas'[j] = chamadas[j]
      /\ chamadas'[n + 1].troca = h /\ chamadas'[n + 1].tipo = tipo
  <2>1. chamadas \in Seq(Chamada)
    BY DEF TypeOK
  <2>2. n \in Nat
    BY <2>1, LenProperties
  <2>3. /\ Len(chamadas') = n + 1
        /\ \A j \in 1..n : chamadas'[j] = chamadas[j]
        /\ chamadas'[n + 1] = [tipo |-> tipo, troca |-> h, texto |-> troca[h].answer,
                               vigente |-> geracao_atual = h]
    BY ChamaAnexa
  <2> QED
    BY <2>2, <2>3
<1> HIDE DEF n
<1>2. i \in 1..n \/ i = n + 1
  BY <1>1
<1>3. i # n + 1
  BY <1>1
<1>4. i \in 1..n /\ chamadas'[i] = chamadas[i]
  BY <1>1, <1>2, <1>3
<1> QED
  BY <1>4 DEF n

LEMMA SoTextoStep == TypeOK /\ IdsUnicos /\ SoTexto /\ [Next]_vars => SoTexto'
<1> SUFFICES ASSUME TypeOK, IdsUnicos, SoTexto, [Next]_vars PROVE SoTexto'
  OBVIOUS
<1>0. /\ estado \in [Ids -> Estados] /\ troca \in [Ids -> Exchange]
  BY DEF TypeOK
<1> DEFINE SemIgnorar(x) == x \in {"nenhum", "iniciar", "montar", "lendo", "emitir"}
\* An exchange that is not touched by a chunk, nor paints.
<1>1. ASSUME NEW g \in Ids,
             troca'[g].parcial = troca[g].parcial, troca'[g].ignored = troca[g].ignored,
             Mostra(g)' => Mostra(g),
             SemIgnorar(estado'[g]) => SemIgnorar(estado[g])
      PROVE  /\ Mostra(g)' => NaoEMarca(troca'[g])
             /\ SemIgnorar(estado'[g]) => ~troca'[g].ignored
  BY <1>1 DEF SoTexto, NaoEMarca
<1>2. CASE UNCHANGED <<estado, troca, chamadas>>
  BY <1>2 DEF SoTexto, NaoEMarca, Mostra
<1>3. ASSUME NEW c \in Chamadores, Criar(c) PROVE SoTexto'
  <2>1. UNCHANGED <<estado, chamadas>>
    BY <1>3 DEF Criar
  <2>2. \A g \in Ids : /\ troca'[g].parcial = troca[g].parcial
                       /\ troca'[g].ignored = troca[g].ignored
    BY <1>3, CriarEscreve
  <2> QED
    BY <2>1, <2>2 DEF SoTexto, NaoEMarca, Mostra
<1>4. ASSUME NEW c \in Chamadores, Publicar(c) PROVE SoTexto'
  <2>1. /\ UNCHANGED <<troca, chamadas>>
        /\ chamador[c].id \in Ids /\ estado[chamador[c].id] = "nenhum"
        /\ estado' = [estado EXCEPT ![chamador[c].id] = "iniciar"]
    BY <1>4 DEF Publicar, IdsUnicos
  <2>2. ASSUME NEW g \in Ids
        PROVE  /\ Mostra(g)' => NaoEMarca(troca'[g])
               /\ SemIgnorar(estado'[g]) => ~troca'[g].ignored
    <3>1. estado'[g] = estado[g] \/ (estado[g] = "nenhum" /\ estado'[g] = "iniciar")
      BY <1>0, <2>1
    <3>2. Mostra(g)' => Mostra(g)
      BY <2>1, <3>1 DEF Mostra
    <3> QED
      BY <1>1, <2>1, <3>1, <3>2
  <2> QED
    BY <2>2 DEF SoTexto
<1>5. ASSUME NEW h \in Ids, Gerar(h), NEW g \in Ids
      PROVE  /\ Mostra(g)' => NaoEMarca(troca'[g])
             /\ SemIgnorar(estado'[g]) => ~troca'[g].ignored
  <2>1. CASE g = h /\ Pedaco(h)
    BY <2>1, SoTextoPedaco
  <2>2. CASE ~(g = h /\ Pedaco(h))
    <3>1. /\ troca'[g].parcial = troca[g].parcial
          /\ troca'[g].ignored = troca[g].ignored
      BY <1>5, <2>2, GerarEscreve
    <3>2. g # h => estado'[g] = estado[g]
      BY <1>5, GerarSegue
    <3>3. estado'[g] = "emitir" => estado[g] = "emitir"
      BY <1>0, <1>5, <2>2, <3>2 DEF Gerar, Iniciar, MontarMensagens, Emitir, FimDoStream,
         Falha, Avisar, Final, Concluir, Passa, Saiu
    <3>4. SemIgnorar(estado'[g]) => SemIgnorar(estado[g])
      BY <1>0, <1>5, <2>2, <3>2 DEF Gerar, Iniciar, MontarMensagens, Emitir, FimDoStream,
         Falha, Avisar, Final, Concluir, Passa, Saiu
    <3>5. ASSUME NEW i \in 1..Len(chamadas'),
                 chamadas'[i].troca = g, chamadas'[i].tipo = "chunk"
          PROVE  Mostra(g)
      <4>1. CASE UNCHANGED chamadas
        BY <3>5, <4>1 DEF Mostra
      <4>2. ASSUME NEW tipo \in Tipos \ {"chunk"}, Chama(tipo, h) PROVE Mostra(g)
        BY <3>5, <4>2, ChamadaDoOutro DEF Mostra
      <4>3. CASE Emitir(h)
        <5>1. estado[h] = "emitir" /\ Chama("chunk", h)
          BY <4>3 DEF Emitir, Passa
        <5>2. CASE g = h
          BY <5>1, <5>2 DEF Mostra
        <5>3. CASE g # h
          BY <3>5, <5>1, <5>3, ChamadaDoOutro DEF Mostra, Tipos
        <5> QED
          BY <5>2, <5>3
      <4> QED
        BY <1>5, <4>1, <4>2, <4>3, Zenon DEF Gerar, Iniciar, MontarMensagens, Pedaco, FimDoStream,
           Falha, Avisar, Final, Concluir, Tipos
    <3>6. Mostra(g)' => Mostra(g)
      BY <3>3, <3>5 DEF Mostra
    <3> QED
      BY <1>1, <3>1, <3>4, <3>6
  <2> QED
    BY <2>1, <2>2
<1>6. ASSUME NEW h \in Ids, Gerar(h) PROVE SoTexto'
  BY <1>5, <1>6 DEF SoTexto
<1> QED
  BY <1>2, <1>3, <1>4, <1>6 DEF Next, DoChamador, Ingest, Decidir, AnswerLastTurn, Cancel,
     SetAutoAnswer, UpdateUserContext, Tick, vars

\* _gerar holds back what may still become the marker: an answer that is ignored
\* and opened with no blank never painted a chunk.
THEOREM MarkerNeverShown == Spec => []MarcadorNaoPisca
<1>1. Init => TypeOK /\ IdsUnicos /\ SoTexto
  BY TypeOKInit, IdsUnicosInit, SoTextoInit
<1>2. TypeOK /\ IdsUnicos /\ SoTexto /\ [Next]_vars => (TypeOK /\ IdsUnicos /\ SoTexto)'
  BY TypeOKStep, IdsUnicosStep, SoTextoStep
<1>3. TypeOK /\ SoTexto => MarcadorNaoPisca
  <2> SUFFICES ASSUME TypeOK, SoTexto, NEW i \in 1..Len(chamadas),
                      troca[chamadas[i].troca].ignored,
                      troca[chamadas[i].troca].parcial.brancos = 0,
                      chamadas[i].tipo = "chunk"
               PROVE  FALSE
    BY DEF MarcadorNaoPisca
  <2>1. chamadas[i].troca \in Ids
    <3>1. chamadas \in Seq(Chamada)
      BY DEF TypeOK
    <3>2. chamadas[i] \in Chamada
      BY <3>1
    <3> QED
      BY <3>2 DEF Chamada
  <2>2. Mostra(chamadas[i].troca)
    BY <2>1 DEF Mostra
  <2> QED
    BY <2>1, <2>2 DEF SoTexto, NaoEMarca
<1> QED
  BY <1>1, <1>2, <1>3, PTL DEF Spec

-----------------------------------------------------------------------------
(* What the box of the window shows once all is quiet.                     *)

ComDesfecho(g) == troca[g].error \/ troca[g].ignored \/ ~EmBranco(troca[g].answer)

\* Where a generation thread is, what it has told of itself and what it holds:
\* one that concludes has something to conclude with, and one that is over while
\* still the live exchange has said so.
Desfecho(g) ==
    /\ estado[g] \in {"nenhum", "iniciar"} => troca[g].answer = SemTexto
    /\ estado[g] \notin {"nenhum", "iniciar"}
         => \E i \in 1..Len(chamadas) : chamadas[i].troca = g
    /\ (estado[g] = "concluir" \/ (estado[g] = "final" /\ geracao_atual = g))
         => ComDesfecho(g)
    /\ (estado[g] = "fim" /\ geracao_atual = g)
         => \E i \in 1..Len(chamadas) : chamadas[i].troca = g /\ chamadas[i].tipo = "done"

\* The last call of an exchange still says what the Exchange holds, unless the
\* next chunk is already in and not yet painted.
EmDia(g, e) ==
    /\ e.tipo = "start" /\ estado[g] # "emitir" => troca[g].answer = SemTexto
    /\ e.tipo = "chunk" /\ estado[g] # "emitir" => troca[g].answer = e.texto
    /\ e.tipo = "error" => troca[g].error

UltimaEmDia(g) ==
    \A i \in 1..Len(chamadas) :
        ( /\ chamadas[i].troca = g
          /\ \A k \in 1..Len(chamadas) : k > i => chamadas[k].troca # g )
        => EmDia(g, chamadas[i])

\* An exchange that concluded with a text painted the whole of it just before.
FimFiel(g) ==
    \A i, j \in 1..Len(chamadas) :
        ( /\ i < j /\ chamadas[i].troca = g /\ chamadas[j].troca = g
          /\ \A k \in 1..Len(chamadas) : i < k /\ k < j => chamadas[k].troca # g
          /\ chamadas[j].tipo = "done" )
        => \/ troca[g].error \/ troca[g].ignored
           \/ chamadas[i].tipo = "chunk" /\ chamadas[i].texto = troca[g].answer

ComInicio(g) ==
    \A j \in 1..Len(chamadas) :
        (chamadas[j].troca = g /\ chamadas[j].tipo # "start")
        => \E i \in 1..Len(chamadas) : i < j /\ chamadas[i].troca = g

Conta(g) == Desfecho(g) /\ UltimaEmDia(g) /\ FimFiel(g) /\ ComInicio(g)

ContaInv == TypeOK /\ IdsUnicos /\ Avisado /\ \A g \in Ids : Conta(g)

\* A step keeps what an exchange ends with.
MesmoFim(g) ==
    /\ troca'[g].answer = troca[g].answer
    /\ troca'[g].error <=> troca[g].error
    /\ troca'[g].ignored <=> troca[g].ignored

LEMMA ContaInit == Init => ContaInv
<1> SUFFICES ASSUME Init PROVE ContaInv
  OBVIOUS
<1>1. TypeOK /\ IdsUnicos /\ Avisado
  BY TypeOKInit, IdsUnicosInit, AvisadoInit
<1>2. /\ Len(chamadas) = 0
      /\ \A g \in Ids : estado[g] = "nenhum" /\ troca[g].answer = SemTexto
  BY Zenon DEF Init, SemTroca
<1>3. ASSUME NEW g \in Ids PROVE Conta(g)
  <2>1. Desfecho(g)
    BY <1>2 DEF Desfecho
  <2>2. UltimaEmDia(g) /\ FimFiel(g) /\ ComInicio(g)
    BY <1>2 DEF UltimaEmDia, FimFiel, ComInicio
  <2> QED
    BY <2>1, <2>2 DEF Conta
<1> QED
  BY <1>1, <1>3 DEF ContaInv

\* The log holds calls of real exchanges.
LEMMA ChamadasTipo ==
    ASSUME TypeOK
    PROVE  /\ Len(chamadas) \in Nat
           /\ \A i \in 1..Len(chamadas) : /\ chamadas[i].troca \in Ids
                                          /\ chamadas[i].tipo \in Tipos
<1>1. chamadas \in Seq(Chamada)
  BY DEF TypeOK
<1>2. \A i \in 1..Len(chamadas) : chamadas[i] \in Chamada
  BY <1>1
<1> QED
  BY <1>1, <1>2 DEF Chamada

\* A step of others: it may call, but not for g.
LEMMA ContaAlheia ==
    ASSUME TypeOK, IdsUnicos, NEW g \in Ids, Conta(g), [Next]_vars,
           estado'[g] = estado[g], MesmoFim(g),
           NEW n \in Nat, n = Len(chamadas), NEW m \in Nat, m = Len(chamadas'), n <= m,
           \A i \in 1..n : chamadas'[i] = chamadas[i],
           \A i \in 1..m : i > n => chamadas'[i].troca # g
    PROVE  Conta(g)'
<1>1. \A i \in 1..m : chamadas'[i].troca = g => i \in 1..n
  OBVIOUS
<1>2. \A i \in 1..n : i \in 1..m
  OBVIOUS
<1>3. ComDesfecho(g) => ComDesfecho(g)'
  BY DEF ComDesfecho, MesmoFim
<1>4. Desfecho(g)'
  <2>1. estado[g] # "nenhum" /\ geracao_atual' = g => geracao_atual = g
    BY NaoRessuscitaPasso
  <2>2. estado[g] \notin {"nenhum", "iniciar"}
          => \E i \in 1..m : chamadas'[i].troca = g
    <3> SUFFICES ASSUME estado[g] \notin {"nenhum", "iniciar"}
                 PROVE  \E i \in 1..m : chamadas'[i].troca = g
      OBVIOUS
    <3>1. PICK i \in 1..n : chamadas[i].troca = g
      BY DEF Conta, Desfecho
    <3> QED
      BY <1>2, <3>1
  <2>3. (estado[g] = "fim" /\ geracao_atual = g)
          => \E i \in 1..m : chamadas'[i].troca = g /\ chamadas'[i].tipo = "done"
    <3> SUFFICES ASSUME estado[g] = "fim", geracao_atual = g
                 PROVE  \E i \in 1..m : chamadas'[i].troca = g /\ chamadas'[i].tipo = "done"
      OBVIOUS
    <3>1. PICK i \in 1..n : chamadas[i].troca = g /\ chamadas[i].tipo = "done"
      BY DEF Conta, Desfecho
    <3> QED
      BY <1>2, <3>1
  <2>4. estado[g] \in {"nenhum", "iniciar"} => troca'[g].answer = SemTexto
    BY DEF Conta, Desfecho, MesmoFim
  <2>5. (estado[g] = "concluir" \/ (estado[g] = "final" /\ geracao_atual = g))
         => ComDesfecho(g)
    BY DEF Conta, Desfecho
  <2> QED
    BY <1>3, <2>1, <2>2, <2>3, <2>4, <2>5 DEF Desfecho
<1>5. UltimaEmDia(g)'
  <2> SUFFICES ASSUME NEW i \in 1..m, chamadas'[i].troca = g,
                      \A k \in 1..m : k > i => chamadas'[k].troca # g
               PROVE  EmDia(g, chamadas[i])'
    BY DEF UltimaEmDia
  <2>1. i \in 1..n /\ chamadas'[i] = chamadas[i]
    BY <1>1
  <2>2. EmDia(g, chamadas[i])
    BY <1>2, <2>1 DEF Conta, UltimaEmDia
  <2> QED
    BY <2>1, <2>2 DEF EmDia, MesmoFim
<1>6. FimFiel(g)'
  <2> SUFFICES ASSUME NEW i \in 1..m, NEW j \in 1..m, i < j,
                      chamadas'[i].troca = g, chamadas'[j].troca = g,
                      \A k \in 1..m : i < k /\ k < j => chamadas'[k].troca # g,
                      chamadas'[j].tipo = "done"
               PROVE  \/ troca'[g].error \/ troca'[g].ignored
                      \/ chamadas'[i].tipo = "chunk" /\ chamadas'[i].texto = troca'[g].answer
    BY DEF FimFiel
  <2>1. i \in 1..n /\ j \in 1..n /\ chamadas'[i] = chamadas[i] /\ chamadas'[j] = chamadas[j]
    BY <1>1
  <2>2. \A k \in 1..n : i < k /\ k < j => chamadas[k].troca # g
    BY <1>2
  <2>3. \/ troca[g].error \/ troca[g].ignored
        \/ chamadas[i].tipo = "chunk" /\ chamadas[i].texto = troca[g].answer
    BY <2>1, <2>2 DEF Conta, FimFiel
  <2> QED
    BY <2>1, <2>3 DEF MesmoFim
<1>7. ComInicio(g)'
  <2> SUFFICES ASSUME NEW j \in 1..m, chamadas'[j].troca = g, chamadas'[j].tipo # "start"
               PROVE  \E i \in 1..m : i < j /\ chamadas'[i].troca = g
    BY DEF ComInicio
  <2>1. j \in 1..n /\ chamadas'[j] = chamadas[j]
    BY <1>1
  <2>2. PICK i \in 1..n : i < j /\ chamadas[i].troca = g
    BY <2>1 DEF Conta, ComInicio
  <2> QED
    BY <1>2, <2>2
<1> QED
  BY <1>4, <1>5, <1>6, <1>7 DEF Conta

\* A step of g itself that makes no call.
LEMMA ContaCalada ==
    ASSUME TypeOK, IdsUnicos, Avisado, NEW g \in Ids, Conta(g), UNCHANGED chamadas,
           estado[g] # "fim", Desfecho(g)',
           \A i \in 1..Len(chamadas) :
               chamadas[i].troca = g /\ EmDia(g, chamadas[i]) => EmDia(g, chamadas[i])'
    PROVE  Conta(g)'
<1>1. UltimaEmDia(g)'
  BY DEF Conta, UltimaEmDia
<1>2. \A j \in 1..Len(chamadas) : chamadas[j].troca = g => chamadas[j].tipo # "done"
  BY DEF Avisado, LogCoerente, Coerente
<1>3. FimFiel(g)'
  BY <1>2 DEF FimFiel
<1>4. ComInicio(g)'
  BY DEF Conta, ComInicio
<1> QED
  BY <1>1, <1>3, <1>4 DEF Conta

\* A step of g itself that calls.
LEMMA ContaChamada ==
    ASSUME TypeOK, IdsUnicos, Avisado, NEW g \in Ids, Conta(g), NEW tipo \in Tipos,
           Chama(tipo, g), estado[g] # "fim",
           tipo # "start" => estado[g] \notin {"nenhum", "iniciar"},
           tipo = "done" => estado[g] = "concluir" /\ MesmoFim(g),
           tipo = "start" => troca'[g].answer = SemTexto,
           tipo = "chunk" => troca'[g].answer = troca[g].answer,
           tipo = "error" => troca'[g].error,
           estado'[g] \notin {"nenhum", "iniciar"},
           estado'[g] = "concluir" \/ estado'[g] = "final" => ComDesfecho(g)',
           estado'[g] = "fim" => tipo = "done"
    PROVE  Conta(g)'
<1>1. PICK n \in Nat : n = Len(chamadas)
  BY ChamadasTipo
<1>2. PICK m \in Nat : m = n + 1
  BY <1>1
<1>3. /\ Len(chamadas') = m
      /\ \A i \in 1..n : chamadas'[i] = chamadas[i]
      /\ chamadas'[m].tipo = tipo /\ chamadas'[m].troca = g
      /\ chamadas'[m].texto = troca[g].answer
  <2>1. /\ Len(chamadas') = Len(chamadas) + 1
        /\ \A i \in 1..Len(chamadas) : chamadas'[i] = chamadas[i]
        /\ chamadas'[Len(chamadas) + 1]
             = [tipo |-> tipo, troca |-> g, texto |-> troca[g].answer,
                vigente |-> geracao_atual = g]
    BY ChamaAnexa
  <2>2. chamadas'[m] = [tipo |-> tipo, troca |-> g, texto |-> troca[g].answer,
                        vigente |-> geracao_atual = g]
    BY <1>1, <1>2, <2>1
  <2> QED
    BY <1>1, <1>2, <2>1, <2>2
<1>4. m \in 1..m /\ \A i \in 1..m : i \in 1..n \/ i = m
  BY <1>2
<1>5. \A i \in 1..n : i \in 1..m /\ i < m
  BY <1>2
<1>6. \A j \in 1..n : chamadas[j].troca = g => chamadas[j].tipo # "done"
  BY <1>1 DEF Avisado, LogCoerente, Coerente
<1>7. Desfecho(g)'
  BY <1>3, <1>4 DEF Desfecho
<1>8. UltimaEmDia(g)'
  <2> SUFFICES ASSUME NEW i \in 1..m, chamadas'[i].troca = g,
                      \A k \in 1..m : k > i => chamadas'[k].troca # g
               PROVE  EmDia(g, chamadas[i])'
    BY <1>3 DEF UltimaEmDia
  <2>1. i = m
    BY <1>3, <1>4, <1>5
  <2> QED
    BY <1>3, <2>1 DEF EmDia
<1>9. FimFiel(g)'
  <2> SUFFICES ASSUME NEW i \in 1..m, NEW j \in 1..m, i < j,
                      chamadas'[i].troca = g, chamadas'[j].troca = g,
                      \A k \in 1..m : i < k /\ k < j => chamadas'[k].troca # g,
                      chamadas'[j].tipo = "done"
               PROVE  \/ troca'[g].error \/ troca'[g].ignored
                      \/ chamadas'[i].tipo = "chunk" /\ chamadas'[i].texto = troca'[g].answer
    BY <1>3 DEF FimFiel
  <2>1. j = m
    BY <1>3, <1>4, <1>6
  <2>2. i \in 1..n /\ chamadas'[i] = chamadas[i] /\ tipo = "done"
    BY <1>3, <1>4, <2>1
  <2>3. \A k \in 1..n : k > i => chamadas[k].troca # g
    BY <1>3, <1>5, <2>1
  <2>4. EmDia(g, chamadas[i])
    BY <1>1, <2>2, <2>3 DEF Conta, UltimaEmDia
  <2>5. ComDesfecho(g)
    BY <2>2 DEF Conta, Desfecho
  <2>6. chamadas[i].tipo \in Tipos /\ chamadas[i].tipo # "done"
    BY <1>1, <1>6, <2>2, ChamadasTipo
  <2>7. chamadas[i].tipo # "start" \/ troca[g].error \/ troca[g].ignored
    BY <2>2, <2>4, <2>5 DEF EmDia, ComDesfecho, EmBranco, SemTexto
  <2> QED
    BY <2>2, <2>4, <2>6, <2>7 DEF EmDia, MesmoFim, Tipos
<1>10. ComInicio(g)'
  <2> SUFFICES ASSUME NEW j \in 1..m, chamadas'[j].troca = g, chamadas'[j].tipo # "start"
               PROVE  \E i \in 1..m : i < j /\ chamadas'[i].troca = g
    BY <1>3 DEF ComInicio
  <2>1. CASE j \in 1..n
    <3>1. PICK i \in 1..n : i < j /\ chamadas[i].troca = g
      BY <1>1, <1>3, <2>1 DEF Conta, ComInicio
    <3> QED
      BY <1>3, <1>5, <3>1
  <2>2. CASE j = m
    <3>1. PICK i \in 1..n : chamadas[i].troca = g
      BY <1>1, <1>3, <2>2 DEF Conta, Desfecho
    <3> QED
      BY <1>3, <1>5, <2>2, <3>1
  <2> QED
    BY <1>4, <2>1, <2>2
<1> QED
  BY <1>7, <1>8, <1>9, <1>10 DEF Conta

\* What a chunk makes of the Exchange, and where it takes the thread.
LEMMA PedacoFim ==
    ASSUME TypeOK, NEW g \in Ids, Pedaco(g)
    PROVE  /\ estado[g] = "lendo"
           /\ troca'[g].error <=> troca[g].error
           /\ \/ estado'[g] = "fim" /\ geracao_atual # g /\ MesmoFim(g)
              \/ estado'[g] = "lendo" /\ MesmoFim(g)
              \/ estado'[g] = "concluir" /\ troca'[g].answer = troca[g].answer
                                         /\ troca'[g].ignored
              \/ estado'[g] = "emitir"
<1>0. /\ estado \in [Ids -> Estados] /\ troca \in [Ids -> Exchange]
      /\ troca[g] \in Exchange /\ estado[g] = "lendo"
  BY Zenon DEF TypeOK, Pedaco
<1>1. CASE ~Vigente(g)
  BY <1>0, <1>1, Zenon DEF Pedaco, Vigente, MesmoFim
<1>2. CASE Vigente(g)
  <2>1. PICK p \in Continuacoes(troca[g].parcial) :
           LET lida == [troca[g] EXCEPT !.parcial = p, !.pedacos = troca[g].pedacos + 1]
           IN  \/ troca' = [troca EXCEPT ![g] = lida] /\ UNCHANGED estado
               \/ /\ troca' = [troca EXCEPT ![g] = [lida EXCEPT !.ignored = TRUE]]
                  /\ estado' = [estado EXCEPT ![g] = "concluir"]
               \/ /\ troca' = [troca EXCEPT ![g] = [lida EXCEPT !.answer = p]]
                  /\ estado' = [estado EXCEPT ![g] = "emitir"]
    BY <1>2, Zenon DEF Pedaco
  <2> DEFINE lida == [troca[g] EXCEPT !.parcial = p, !.pedacos = troca[g].pedacos + 1]
             ign == [lida EXCEPT !.ignored = TRUE]
             resp == [lida EXCEPT !.answer = p]
  <2>2. /\ lida.answer = troca[g].answer /\ lida.error = troca[g].error
        /\ lida.ignored = troca[g].ignored
    BY <1>0, Zenon DEF Exchange
  <2>3. ign.answer = troca[g].answer /\ ign.error = troca[g].error /\ ign.ignored = TRUE
    BY <1>0, Zenon DEF Exchange
  <2>4. resp.error = troca[g].error
    BY <1>0, Zenon DEF Exchange
  <2>5. \/ troca' = [troca EXCEPT ![g] = lida] /\ UNCHANGED estado
        \/ troca' = [troca EXCEPT ![g] = ign] /\ estado' = [estado EXCEPT ![g] = "concluir"]
        \/ troca' = [troca EXCEPT ![g] = resp] /\ estado' = [estado EXCEPT ![g] = "emitir"]
    BY <2>1
  <2> HIDE DEF lida, ign, resp
  <2>6. \/ troca'[g] = lida /\ estado'[g] = "lendo"
        \/ troca'[g] = ign /\ estado'[g] = "concluir"
        \/ troca'[g] = resp /\ estado'[g] = "emitir"
    BY <1>0, <2>5
  <2> QED
    BY <1>0, <2>2, <2>3, <2>4, <2>6, Zenon DEF MesmoFim
<1> QED
  BY <1>1, <1>2

\* One callback at most, and of the exchange of the thread.
LEMMA GerarChama ==
    ASSUME NEW g \in Ids, Gerar(g)
    PROVE  UNCHANGED chamadas \/ \E tipo \in Tipos : Chama(tipo, g)
BY Zenon DEF Gerar, Iniciar, MontarMensagens, Pedaco, Emitir, FimDoStream, Falha, Avisar,
       Final, Concluir, Tipos

\* What an exchange ends with is written by its own thread only, and not after it
\* is over.
LEMMA FimParado ==
    ASSUME TypeOK, [Next]_vars, NEW g \in Ids, ~Gerar(g) \/ estado[g] = "fim"
    PROVE  MesmoFim(g)
<1>0. estado[g] = "fim" => ~Gerar(g)
  BY DEF Gerar, Iniciar, MontarMensagens, Pedaco, Emitir, FimDoStream, Falha, Avisar,
         Final, Concluir, Passa
<1>1. CASE UNCHANGED troca
  BY <1>1 DEF MesmoFim
<1>2. ASSUME NEW c \in Chamadores, Criar(c) PROVE MesmoFim(g)
  BY <1>2, CriarEscreve DEF MesmoFim
<1>3. ASSUME NEW h \in Ids, Gerar(h) PROVE MesmoFim(g)
  BY <1>0, <1>3, GerarEscreve DEF MesmoFim
<1> QED
  BY <1>1, <1>2, <1>3 DEF Next, DoChamador, Ingest, Decidir, AnswerLastTurn, Publicar,
     Cancel, SetAutoAnswer, UpdateUserContext, Tick, vars

LEMMA ContaGerar ==
    ASSUME TypeOK, IdsUnicos, Avisado, NEW g \in Ids, Conta(g), Gerar(g)
    PROVE  Conta(g)'
<1>0. /\ estado \in [Ids -> Estados] /\ troca \in [Ids -> Exchange]
      /\ troca[g] \in Exchange /\ Desfecho(g) /\ geracao_atual' = geracao_atual
  BY GerarSegue DEF TypeOK, Conta, motor
\* The steps that make no call and touch nothing of the end.
<1>1. ASSUME UNCHANGED chamadas, MesmoFim(g),
             estado[g] \in {"montar", "lendo", "final"},
             estado'[g] \in {"lendo", "avisar", "final", "concluir", "fim"},
             estado'[g] = "concluir" => estado[g] = "final" /\ geracao_atual = g,
             estado'[g] = "final" => geracao_atual # g \/ ComDesfecho(g),
             estado'[g] = "fim" => geracao_atual # g
      PROVE  Conta(g)'
  <2>1. ComDesfecho(g) => ComDesfecho(g)'
    BY <1>1 DEF ComDesfecho, MesmoFim
  <2>2. Desfecho(g)'
    BY <1>0, <1>1, <2>1 DEF Desfecho
  <2>3. ASSUME NEW i \in 1..Len(chamadas), EmDia(g, chamadas[i])
        PROVE  EmDia(g, chamadas[i])'
    BY <1>1, <2>3 DEF EmDia, MesmoFim
  <2> QED
    BY <1>1, <2>2, <2>3, ContaCalada
<1>2. ASSUME UNCHANGED troca PROVE MesmoFim(g)
  BY <1>2 DEF MesmoFim
\* The two ways a failure is told.
<1>3. ASSUME Chama("error", g), estado[g] \in {"lendo", "avisar"}, estado'[g] = "final",
             troca' = [troca EXCEPT ![g].error = TRUE]
      PROVE  Conta(g)'
  <2>1. troca'[g].error
    BY <1>0, <1>3, Zenon DEF Exchange
  <2>2. ComDesfecho(g)'
    BY <2>1 DEF ComDesfecho
  <2> QED
    BY <1>3, <2>1, <2>2, ContaChamada DEF Tipos
<1>4. CASE Iniciar(g)
  <2>1. /\ estado[g] = "iniciar" /\ estado'[g] = "montar" /\ Chama("start", g)
        /\ troca' = troca
    BY <1>0, <1>4 DEF Iniciar, Passa
  <2>2. troca'[g].answer = SemTexto
    BY <1>0, <2>1 DEF Desfecho
  <2> QED
    BY <2>1, <2>2, ContaChamada DEF Tipos
<1>5. CASE MontarMensagens(g)
  <2>1. estado[g] = "montar" /\ estado'[g] = "lendo" /\ UNCHANGED chamadas
    BY <1>0, <1>5 DEF MontarMensagens, Passa
  <2>2. MesmoFim(g)
    BY <1>0, <1>5, Zenon DEF MontarMensagens, MesmoFim, Exchange
  <2> QED
    BY <1>1, <2>1, <2>2
<1>6. CASE Pedaco(g)
  <2>1. UNCHANGED chamadas
    BY <1>6, Zenon DEF Pedaco
  <2>2. CASE estado'[g] \in {"fim", "lendo"}
    BY <1>1, <1>6, <2>1, <2>2, PedacoFim
  <2>3. CASE estado'[g] \in {"concluir", "emitir"}
    <3>1. /\ estado[g] = "lendo" /\ (troca'[g].error <=> troca[g].error)
          /\ estado'[g] = "concluir"
               => troca'[g].answer = troca[g].answer /\ troca'[g].ignored
      BY <1>6, <2>3, PedacoFim
    <3>2. estado'[g] = "concluir" => ComDesfecho(g)'
      BY <3>1 DEF ComDesfecho
    <3>3. Desfecho(g)'
      BY <1>0, <2>1, <2>3, <3>1, <3>2 DEF Desfecho
    <3>4. ASSUME NEW i \in 1..Len(chamadas), EmDia(g, chamadas[i])
          PROVE  EmDia(g, chamadas[i])'
      BY <2>1, <2>3, <3>1, <3>4 DEF EmDia
    <3> QED
      BY <2>1, <3>1, <3>3, <3>4, ContaCalada
  <2> QED
    BY <1>6, <2>2, <2>3, PedacoFim
<1>7. CASE Emitir(g)
  <2>1. /\ estado[g] = "emitir" /\ estado'[g] = "lendo" /\ Chama("chunk", g)
        /\ troca' = troca
    BY <1>0, <1>7 DEF Emitir, Passa
  <2> QED
    BY <2>1, ContaChamada DEF Tipos
<1>8. CASE FimDoStream(g)
  <2>1. estado[g] = "lendo" /\ estado'[g] = "final"
    BY <1>0, <1>8 DEF FimDoStream, Passa
  <2>2. CASE EmBranco(troca[g].answer) /\ ~troca[g].ignored
    BY <1>3, <1>8, <2>1, <2>2 DEF FimDoStream
  <2>3. CASE ~(EmBranco(troca[g].answer) /\ ~troca[g].ignored)
    <3>1. UNCHANGED <<troca, chamadas>> /\ ComDesfecho(g)
      BY <1>8, <2>3 DEF FimDoStream, ComDesfecho
    <3> QED
      BY <1>1, <1>2, <2>1, <3>1
  <2> QED
    BY <2>2, <2>3
<1>9. CASE Falha(g)
  <2>1. /\ estado[g] = "lendo" /\ UNCHANGED <<troca, chamadas>>
        /\ \/ geracao_atual = g /\ estado'[g] = "avisar"
           \/ geracao_atual # g /\ estado'[g] = "final"
    BY <1>0, <1>9 DEF Falha, Passa, Vigente
  <2> QED
    BY <1>1, <1>2, <2>1
<1>10. CASE Avisar(g)
  <2>1. estado[g] = "avisar" /\ estado'[g] = "final"
    BY <1>0, <1>10 DEF Avisar, Passa
  <2> QED
    BY <1>3, <1>10, <2>1 DEF Avisar
<1>11. CASE Final(g)
  <2>1. /\ estado[g] = "final" /\ UNCHANGED <<troca, chamadas>>
        /\ \/ geracao_atual = g /\ estado'[g] = "concluir"
           \/ geracao_atual # g /\ estado'[g] = "fim"
    BY <1>0, <1>11 DEF Final, Passa, Vigente
  <2> QED
    BY <1>1, <1>2, <2>1
<1>12. CASE Concluir(g)
  <2>1. /\ estado[g] = "concluir" /\ estado'[g] = "fim" /\ Chama("done", g)
        /\ UNCHANGED troca
    BY <1>0, <1>12 DEF Concluir, Passa, Saiu
  <2> QED
    BY <1>2, <2>1, ContaChamada DEF Tipos
<1> QED
  BY <1>4, <1>5, <1>6, <1>7, <1>8, <1>9, <1>10, <1>11, <1>12 DEF Gerar

LEMMA ContaStep == ContaInv /\ [Next]_vars => ContaInv'
<1> SUFFICES ASSUME ContaInv, [Next]_vars PROVE ContaInv'
  OBVIOUS
<1>0. /\ TypeOK /\ IdsUnicos /\ Avisado /\ estado \in [Ids -> Estados]
      /\ \A g \in Ids : Conta(g)
  BY DEF ContaInv, TypeOK
<1>1. TypeOK' /\ IdsUnicos' /\ Avisado'
  BY <1>0, TypeOKStep, IdsUnicosStep, AvisadoStep
<1>2. ASSUME NEW g \in Ids PROVE Conta(g)'
  <2>1. Conta(g)
    BY <1>0
  <2>2. PICK n \in Nat : n = Len(chamadas)
    BY <1>0, ChamadasTipo
  <2>3. CASE UNCHANGED chamadas /\ estado'[g] = estado[g] /\ ~Gerar(g)
    <3>1. MesmoFim(g)
      BY <1>0, <2>3, FimParado
    <3>2. /\ n = Len(chamadas') /\ \A i \in 1..n : chamadas'[i] = chamadas[i]
          /\ \A i \in 1..n : i > n => chamadas'[i].troca # g
          /\ n <= n
      BY <2>2, <2>3
    <3> QED
      BY <1>0, <2>1, <2>2, <2>3, <3>1, <3>2, ContaAlheia
  <2>4. ASSUME NEW c \in Chamadores, Publicar(c), chamador[c].id = g PROVE Conta(g)'
    <3>1. /\ estado[g] = "nenhum" /\ estado'[g] = "iniciar" /\ troca' = troca
          /\ UNCHANGED chamadas
      BY <1>0, <2>4 DEF Publicar, IdsUnicos
    <3>2. \A i \in 1..Len(chamadas) : chamadas[i].troca # g
      BY <1>0, <3>1 DEF Avisado, LogCoerente, Coerente
    <3>3. Desfecho(g)'
      BY <2>1, <3>1 DEF Conta, Desfecho
    <3> QED
      BY <1>0, <2>1, <3>1, <3>2, <3>3, ContaCalada
  <2>5. ASSUME NEW c \in Chamadores, Publicar(c), chamador[c].id # g, ~Gerar(g)
        PROVE  Conta(g)'
    BY <1>0, <2>3, <2>5 DEF Publicar, IdsUnicos
  <2>6. ASSUME NEW h \in Ids, h # g, Gerar(h), ~Gerar(g) PROVE Conta(g)'
    <3>1. estado'[g] = estado[g] /\ MesmoFim(g)
      BY <1>0, <2>6, GerarSegue, FimParado
    <3>2. ASSUME NEW tipo \in Tipos, Chama(tipo, h) PROVE Conta(g)'
      <4>1. PICK m \in Nat : m = n + 1
        BY <2>2
      <4>2. /\ Len(chamadas') = m /\ \A i \in 1..n : chamadas'[i] = chamadas[i]
            /\ chamadas'[m] = [tipo |-> tipo, troca |-> h, texto |-> troca[h].answer,
                               vigente |-> geracao_atual = h]
        BY <1>0, <2>2, <3>2, <4>1, ChamaAnexa
      <4>3. chamadas'[m].troca # g
        BY <2>6, <4>2
      <4>4. \A i \in 1..m : i > n => chamadas'[i].troca # g
        BY <4>1, <4>3
      <4>5. n <= m
        BY <4>1
      <4> QED
        BY <1>0, <2>1, <2>2, <3>1, <4>2, <4>4, <4>5, ContaAlheia
    <3> QED
      BY <2>3, <2>6, <3>1, <3>2, GerarChama
  <2>7. CASE Gerar(g)
    BY <1>0, <2>1, <2>7, ContaGerar
  <2>8. CASE UNCHANGED <<estado, chamadas>> /\ ~Gerar(g)
    BY <2>3, <2>8
  <2> QED
    BY <2>4, <2>5, <2>6, <2>7, <2>8, Zenon DEF Next, DoChamador, Ingest, Decidir, AnswerLastTurn,
       Criar, Cancel, SetAutoAnswer, UpdateUserContext, Tick, vars
<1> QED
  BY <1>1, <1>2 DEF ContaInv

\* g is the exchange of the last callback the Tk loop ran, and since its first one
\* the loop ran no other's.
Corrido(g) ==
    /\ lidas > 0 /\ chamadas[lidas].troca = g
    /\ \A i, j \in 1..lidas : chamadas[i].troca = g /\ i < j => chamadas[j].troca = g

\* The box shows what that callback said.
Reflete(g, e) ==
    /\ e.tipo = "start" => caixa = Consultando(g)
    /\ e.tipo = "chunk" => caixa = Resposta(g, e.texto)
    /\ e.tipo = "done"  => caixa = Esperado(g)

\* The box reflects g, or is not of any exchange: it was rebuilt since.
CaixaDe(g) ==
    Corrido(g) => \/ caixa.troca = 0
                  \/ caixa.troca = g /\ Reflete(g, chamadas[lidas])

JanelaInv ==
    /\ lidas \in 0..Len(chamadas)
    /\ tela \in {"copilot", "config"}
    /\ tela = "config" => caixa = SemCaixa
    /\ \A g \in Ids : CaixaDe(g)

\* A step of the window is a step of the engine, or leaves it alone.
LEMMA WNextNext == [WNext]_todas => [Next]_vars
BY DEF WNext, todas, DoMotor, DoUsuario, Despachar, MostrarConfiguracao, Voltar, Salvar,
       Next, DoChamador

\* The log only grows.
LEMMA LogCresce ==
    ASSUME TypeOK, [Next]_vars
    PROVE  /\ Len(chamadas) <= Len(chamadas')
           /\ \A i \in 1..Len(chamadas) : chamadas'[i] = chamadas[i]
<1>1. Len(chamadas) \in Nat
  BY ChamadasTipo
<1>2. CASE UNCHANGED chamadas
  BY <1>1, <1>2
<1>3. ASSUME NEW g \in Ids, NEW tipo \in Tipos, Chama(tipo, g)
      PROVE  /\ Len(chamadas) <= Len(chamadas')
             /\ \A i \in 1..Len(chamadas) : chamadas'[i] = chamadas[i]
  <2>1. /\ Len(chamadas') = Len(chamadas) + 1
        /\ \A i \in 1..Len(chamadas) : chamadas'[i] = chamadas[i]
    BY <1>3, ChamaAnexa
  <2> QED
    BY <1>1, <2>1
<1>4. ASSUME NEW g \in Ids, Gerar(g)
      PROVE  /\ Len(chamadas) <= Len(chamadas')
             /\ \A i \in 1..Len(chamadas) : chamadas'[i] = chamadas[i]
  BY <1>2, <1>3, <1>4, GerarChama
<1> QED
  BY <1>2, <1>4, Zenon DEF Next, DoChamador, Ingest, Decidir, AnswerLastTurn, Criar, Publicar,
     Cancel, SetAutoAnswer, UpdateUserContext, Tick, vars

\* What the engine does leaves what was read of the log, and the outcome of an
\* exchange that has concluded.
LEMMA CaixaFica ==
    ASSUME ContaInv, [Next]_vars, UNCHANGED janela, lidas \in 0..Len(chamadas),
           NEW g \in Ids, CaixaDe(g)
    PROVE  CaixaDe(g)'
<1>0. TypeOK /\ Avisado /\ Len(chamadas) \in Nat
  BY ChamadasTipo DEF ContaInv
<1>1. /\ lidas' = lidas /\ caixa' = caixa
      /\ \A i \in 1..lidas : chamadas'[i] = chamadas[i]
  BY <1>0, LogCresce DEF janela
<1>2. SUFFICES ASSUME Corrido(g)'
               PROVE  \/ caixa.troca = 0
                      \/ caixa.troca = g /\ Reflete(g, chamadas[lidas])'
  BY <1>1 DEF CaixaDe
<1>3. lidas \in 1..lidas /\ lidas \in 1..Len(chamadas) /\ chamadas'[lidas] = chamadas[lidas]
  BY <1>0, <1>1, <1>2 DEF Corrido
<1>4. Corrido(g)
  BY <1>1, <1>2, <1>3 DEF Corrido
<1>5. CASE caixa.troca = 0
  BY <1>5
<1>6. CASE caixa.troca = g /\ Reflete(g, chamadas[lidas])
  <2>1. chamadas[lidas].tipo = "done" => Esperado(g)' = Esperado(g)
    <3> SUFFICES ASSUME chamadas[lidas].tipo = "done" PROVE Esperado(g)' = Esperado(g)
      OBVIOUS
    <3>1. estado[g] = "fim"
      BY <1>0, <1>3, <1>4 DEF Corrido, Avisado, LogCoerente, Coerente
    <3>2. MesmoFim(g)
      BY <1>0, <3>1, FimParado
    <3> QED
      BY <3>2, Zenon DEF Esperado, Traco, Placeholder, Resposta, MesmoFim
  <2> QED
    BY <1>1, <1>3, <1>6, <2>1 DEF Reflete, Consultando, Resposta
<1> QED
  BY <1>4, <1>5, <1>6 DEF CaixaDe

\* The Tk loop runs one more callback.
LEMMA CaixaDespachar ==
    ASSUME ContaInv, JanelaInv, Despachar, NEW g \in Ids
    PROVE  CaixaDe(g)'
<1>0. /\ TypeOK /\ Conta(g) /\ Len(chamadas) \in Nat
      /\ chamadas' = chamadas /\ troca' = troca
  BY ChamadasTipo DEF ContaInv, Despachar, vars
<1>1. PICK n \in Nat : n = lidas
  BY <1>0 DEF JanelaInv
<1>2. PICK m \in Nat : m = n + 1 /\ lidas' = m /\ m \in 1..Len(chamadas)
  BY <1>0, <1>1 DEF Despachar
<1>3. \A i \in 1..m : i \in 1..n \/ i = m
  BY <1>2
<1>a. \A i \in 1..n : i \in 1..m /\ i \in 1..Len(chamadas) /\ i < m
  BY <1>0, <1>2
<1> DEFINE e == chamadas[m]
<1>4. SUFFICES ASSUME e.troca = g,
                      \A i, j \in 1..m : chamadas[i].troca = g /\ i < j
                                          => chamadas[j].troca = g
               PROVE  \/ caixa'.troca = 0
                      \/ caixa'.troca = g /\ Reflete(g, e)'
  BY <1>0, <1>2 DEF CaixaDe, Corrido
\* If g had called before, its last call was the last one read.
<1>5. ASSUME NEW i \in 1..n, chamadas[i].troca = g
      PROVE  n \in 1..n /\ chamadas[n].troca = g /\ Corrido(g)
  <2>1. n \in 1..n /\ m \in 1..m
    BY <1>2
  <2>2. chamadas[n].troca = g
    <3>1. i = n \/ i < n
      BY <1>1
    <3> QED
      BY <1>4, <1>5, <1>a, <2>1, <3>1
  <2>3. \A a, b \in 1..n : chamadas[a].troca = g /\ a < b => chamadas[b].troca = g
    BY <1>4, <1>a
  <2> QED
    BY <1>1, <2>1, <2>2, <2>3 DEF Corrido
<1>6. e.tipo \in Tipos
  BY <1>0, <1>2, ChamadasTipo
<1>7. CASE tela # "copilot"
  BY <1>7 DEF Despachar, JanelaInv, SemCaixa
<1>8. CASE tela = "copilot" /\ e.tipo = "start"
  <2>1. caixa' = Consultando(g)
    BY <1>1, <1>2, <1>4, <1>8 DEF Despachar, Efeito
  <2> QED
    BY <1>0, <1>8, <2>1 DEF Reflete, Consultando
<1>9. CASE tela = "copilot" /\ e.tipo = "chunk"
  <2>1. caixa' = Resposta(g, e.texto)
    BY <1>1, <1>2, <1>4, <1>9 DEF Despachar, Efeito
  <2> QED
    BY <1>0, <1>9, <2>1 DEF Reflete, Resposta
<1>10. CASE tela = "copilot" /\ e.tipo \in {"error", "done"}
  <2>1. PICK i \in 1..n : chamadas[i].troca = g
    <3>1. PICK i \in 1..Len(chamadas) : i < m /\ chamadas[i].troca = g
      BY <1>0, <1>2, <1>4, <1>10 DEF ComInicio, Conta
    <3>2. i \in 1..n
      BY <1>2, <3>1
    <3> QED
      BY <3>1, <3>2
  <2>2. /\ n \in 1..n /\ chamadas[n].troca = g
        /\ \/ caixa.troca = 0
           \/ caixa.troca = g /\ Reflete(g, chamadas[n])
    BY <1>1, <1>5, <2>1 DEF JanelaInv, CaixaDe
  <2>3. CASE e.tipo = "error"
    <3>1. caixa' = caixa
      BY <1>1, <1>2, <1>10, <2>3 DEF Despachar, Efeito
    <3> QED
      BY <1>0, <2>2, <2>3, <3>1 DEF Reflete
  <2>4. CASE e.tipo = "done"
    <3>1. caixa' = FinishAnswer(g, caixa)
      BY <1>1, <1>2, <1>4, <1>10, <2>4 DEF Despachar, Efeito
    <3>2. SUFFICES \/ caixa'.troca = 0
                   \/ caixa' = Esperado(g)
      <4>1. Esperado(g)' = Esperado(g) /\ Esperado(g).troca = g
        BY <1>0 DEF Esperado, Traco, Placeholder, Resposta
      <4> QED
        BY <1>0, <2>4, <4>1 DEF Reflete
    <3>3. CASE troca[g].error \/ troca[g].ignored
      BY <3>1, <3>3 DEF FinishAnswer, Esperado
    <3>4. CASE ~troca[g].error /\ ~troca[g].ignored
      <4>1. caixa' = caixa /\ Esperado(g) = Resposta(g, troca[g].answer)
        BY <3>1, <3>4 DEF FinishAnswer, Esperado
      <4>2. \A k \in 1..Len(chamadas) : n < k /\ k < m => chamadas[k].troca # g
        BY <1>2
      <4>3. chamadas[n].tipo = "chunk" /\ chamadas[n].texto = troca[g].answer
        BY <1>0, <1>2, <1>4, <1>a, <2>2, <2>4, <3>4, <4>2 DEF Conta, FimFiel
      <4> QED
        BY <2>2, <4>1, <4>3 DEF Reflete
    <3> QED
      BY <3>3, <3>4
  <2> QED
    BY <1>10, <2>3, <2>4
<1> QED
  BY <1>6, <1>7, <1>8, <1>9, <1>10 DEF Tipos

LEMMA JanelaInit == WInit => JanelaInv
<1> SUFFICES ASSUME WInit PROVE JanelaInv
  OBVIOUS
<1>1. lidas = 0 /\ Len(chamadas) = 0 /\ tela = "copilot"
  BY DEF WInit, Init
<1>2. \A g \in Ids : CaixaDe(g)
  BY <1>1 DEF CaixaDe, Corrido
<1> QED
  BY <1>1, <1>2 DEF JanelaInv

LEMMA JanelaStep == ContaInv /\ JanelaInv /\ [WNext]_todas => JanelaInv'
<1> SUFFICES ASSUME ContaInv, JanelaInv, [WNext]_todas PROVE JanelaInv'
  OBVIOUS
<1>0. /\ TypeOK /\ [Next]_vars /\ Len(chamadas) \in Nat
      /\ lidas \in 0..Len(chamadas) /\ \A g \in Ids : CaixaDe(g)
  BY WNextNext, ChamadasTipo DEF ContaInv, JanelaInv
<1>1. Len(chamadas') \in Nat /\ Len(chamadas) <= Len(chamadas')
  BY <1>0, LogCresce, TypeOKStep DEF TypeOK
<1>2. CASE UNCHANGED janela
  <2>1. \A g \in Ids : CaixaDe(g)'
    BY <1>0, <1>2, CaixaFica
  <2> QED
    BY <1>0, <1>1, <1>2, <2>1 DEF JanelaInv, janela
<1>3. CASE Despachar
  <2>1. \A g \in Ids : CaixaDe(g)'
    BY <1>3, CaixaDespachar
  <2>2. lidas' \in 0..Len(chamadas') /\ tela' = tela
    BY <1>0, <1>3 DEF Despachar, vars
  <2>3. tela = "config" => caixa' = caixa
    BY <1>3 DEF Despachar
  <2> QED
    BY <2>1, <2>2, <2>3 DEF JanelaInv
\* A box just built, or none.
<1>4. ASSUME lidas' = lidas, tela' \in {"copilot", "config"},
             tela' = "config" => caixa' = SemCaixa, caixa'.troca = 0
      PROVE  JanelaInv'
  BY <1>0, <1>1, <1>4 DEF JanelaInv, CaixaDe
<1>5. CASE MostrarConfiguracao \/ Voltar \/ \E u \in UserContexts : Salvar(u)
  BY <1>4, <1>5 DEF MostrarConfiguracao, Voltar, Salvar, SemCaixa, Placeholder
<1> QED
  BY <1>2, <1>3, <1>5 DEF WNext, DoMotor, DoUsuario, todas

LEMMA CaixaCerta == ContaInv /\ JanelaInv => CaixaDaVigente
<1> SUFFICES ASSUME ContaInv, JanelaInv, NEW g \in Ids, Quieto, geracao_atual = g,
                    SemAtraso(g), caixa.troca # 0
             PROVE  caixa = Esperado(g)
  BY DEF CaixaDaVigente
<1>0. /\ TypeOK /\ IdsUnicos /\ Avisado /\ Conta(g) /\ lidas = Len(chamadas)
      /\ Len(chamadas) \in Nat
  BY ChamadasTipo DEF ContaInv, Quieto
<1>1. estado[g] = "fim"
  BY <1>0 DEF Quieto, IdsUnicos
<1>2. PICK i \in 1..lidas : chamadas[i].troca = g /\ chamadas[i].tipo = "done"
  BY <1>0, <1>1 DEF Conta, Desfecho
<1>3. lidas \in 1..lidas
  BY <1>0, <1>2
\* Nothing of g follows its "done", and nothing of others follows g.
<1>4. i = lidas
  <2> SUFFICES ASSUME i < lidas PROVE FALSE
    BY <1>0, <1>2
  <2>1. chamadas[lidas].troca = g
    BY <1>0, <1>2, <1>3 DEF SemAtraso
  <2> QED
    BY <1>0, <1>2, <1>3, <2>1 DEF Avisado, OrdemDasChamadas
<1>5. Corrido(g)
  BY <1>0, <1>2, <1>3, <1>4 DEF Corrido, SemAtraso
<1>6. caixa.troca = g /\ Reflete(g, chamadas[lidas])
  BY <1>5 DEF JanelaInv, CaixaDe
<1> QED
  BY <1>2, <1>4, <1>6 DEF Reflete

\* Through supersede, cancel, failures and screens rebuilt under the callbacks: once
\* all is quiet, the box shows the outcome of the exchange that is live.
THEOREM BoxOfTheLive == WSpec => []CaixaDaVigente
<1>1. WInit => ContaInv /\ JanelaInv
  BY ContaInit, JanelaInit DEF WInit
<1>2. ContaInv /\ JanelaInv /\ [WNext]_todas => (ContaInv /\ JanelaInv)'
  BY ContaStep, JanelaStep, WNextNext
<1> QED
  BY <1>1, <1>2, CaixaCerta, PTL DEF WSpec

-----------------------------------------------------------------------------
(* The client of the LLM: stream_reply of llm/openai_compat.py, for every  *)
(* number of attempts, every ceiling on a wait and whatever a Retry-After  *)
(* carries.                                                                *)

Motivos == {"nenhum", "completo", "abandonado", "escapou"} \cup DaRede \cup Status

UmSono == [pedido : Int, dormido : Int]

TiposDoCliente ==
    /\ fase \in FasesDoCliente
    /\ tentativa \in 0..(MaxTentativas - 1)
    /\ status \in Status
    /\ linhas \in Nat
    /\ pedacos \in Nat
    /\ motivo \in Motivos
    /\ texto \in Seq((0..(MaxTentativas - 1)) \X Nat)
    /\ recebidos \in Seq(Status)
    /\ esperas \in Seq(UmSono)

\* Text comes only from the last request: once there is some, no other follows.
TextoDaUltima ==
    /\ motivo = "nenhum" <=> fase # "fim"
    /\ Len(texto) = pedacos
    /\ \A i \in 1..Len(texto) : texto[i] = <<tentativa, i>>
    /\ texto # <<>> => fase \in {"linhas", "entregue", "fim"}

\* One response for each request that is over, all of them but the last refused
\* by the quota per minute.
Recebidos ==
    /\ fase \in {"criado", "pedir"} => Len(recebidos) = tentativa
    /\ fase \in {"corpo", "dormir", "linhas", "entregue"}
            => Len(recebidos) = tentativa + 1
    /\ Len(recebidos) \in {tentativa, tentativa + 1}
    /\ \A i \in 1..tentativa : recebidos[i] = "minuto"
    /\ fase \in {"corpo", "dormir"} => recebidos[tentativa + 1] = status

\* A sleep within the ceiling, and below it as long as was asked for.
Respeita(espera) ==
    /\ espera.dormido <= EsperaMaxima
    /\ espera.dormido < EsperaMaxima => espera.dormido >= espera.pedido

\* One sleep for each request that was repeated, or is about to be.
Sonos ==
    /\ fase = "dormir" => /\ status = "minuto"
                          /\ tentativa + 1 < MaxTentativas
    /\ Len(esperas) = IF fase = "dormir" THEN tentativa + 1 ELSE tentativa
    /\ \A i \in 1..Len(esperas) : Respeita(esperas[i])

ClienteInv == TiposDoCliente /\ TextoDaUltima /\ Recebidos /\ Sonos

-----------------------------------------------------------------------------
\* Whoever asks, the sleep is within the ceiling, and below it as long as was asked for.
LEMMA EsperaTemTeto ==
    ASSUME tentativa \in 0..(MaxTentativas - 1), NEW prazo \in Prazos
    PROVE  LET espera == EsperaDo429(prazo) IN
           /\ prazo \in Int /\ espera \in Int
           /\ espera <= EsperaMaxima
           /\ espera < EsperaMaxima => espera >= prazo
<1>1. prazo \in Int
  <2>1. CASE prazo \in RetryAfter
    BY <2>1, OpenAICompatAssumption
  <2>2. CASE prazo = Backoff
    <3>1. tentativa \in 0..MaxTentativas
      BY OpenAICompatAssumption
    <3>2. 2^tentativa \in Nat
      BY <3>1, OpenAICompatAssumption
    <3>3. QED
      BY <2>2, <3>2 DEF Backoff
  <2>3. QED
    BY <2>1, <2>2 DEF Prazos
<1>2. QED
  BY <1>1, OpenAICompatAssumption DEF EsperaDo429

LEMMA ComecaBem == ClienteInit => ClienteInv
<1> SUFFICES ASSUME ClienteInit
             PROVE  ClienteInv
  OBVIOUS
<1>1. TiposDoCliente
  BY OpenAICompatAssumption DEF ClienteInit, TiposDoCliente, FasesDoCliente, Status, Motivos
<1>2. TextoDaUltima
  BY DEF ClienteInit, TextoDaUltima
<1>3. Recebidos
  BY DEF ClienteInit, Recebidos
<1>4. Sonos
  BY OpenAICompatAssumption DEF ClienteInit, Sonos
<1>5. QED
  BY <1>1, <1>2, <1>3, <1>4 DEF ClienteInv

\* Every end leaves all but the place and the reason as it was.
LEMMA AcabarPreserva ==
    ASSUME ClienteInv, NEW m \in Motivos \ {"nenhum"}, Acabar(m), fase # "dormir"
    PROVE  ClienteInv'
BY DEF ClienteInv, TiposDoCliente, TextoDaUltima, Recebidos, Sonos, FasesDoCliente, Acabar, historia

LEMMA PassoPreserva == ClienteInv /\ [ClienteNext]_clienteVars => ClienteInv'
<1> SUFFICES ASSUME ClienteInv, [ClienteNext]_clienteVars
             PROVE  ClienteInv'
  OBVIOUS
<1> USE DEF ClienteInv
<1>1. CASE Proximo
  BY <1>1 DEF Proximo, TiposDoCliente, TextoDaUltima, Recebidos, Sonos, FasesDoCliente, historia
<1>2. CASE Abandonar
  BY <1>2, AcabarPreserva DEF Abandonar, Motivos
<1>3. ASSUME NEW s \in Status, Responder(s)
      PROVE  ClienteInv'
  <2>1. TiposDoCliente'
    BY <1>3 DEF Responder, TiposDoCliente, FasesDoCliente
  <2>2. TextoDaUltima'
    BY <1>3 DEF Responder, TextoDaUltima
  <2>3. Recebidos'
    BY <1>3 DEF Responder, Recebidos, TiposDoCliente
  <2>4. Sonos'
    BY <1>3 DEF Responder, Sonos
  <2>5. QED
    BY <2>1, <2>2, <2>3, <2>4
<1>4. CASE PedidoInvalido
  BY <1>4, AcabarPreserva DEF PedidoInvalido, Motivos
<1>5. CASE LinhaDeTexto
  <2>1. TiposDoCliente'
    BY <1>5 DEF LinhaDeTexto, UmaLinha, TiposDoCliente, FasesDoCliente
  <2>2. TextoDaUltima'
    <3>1. /\ Len(texto') = pedacos'
          /\ \A i \in 1..Len(texto') : texto'[i] = <<tentativa, i>>
      <4>1. /\ texto \in Seq((0..(MaxTentativas - 1)) \X Nat) /\ pedacos \in Nat
            /\ Len(texto) = pedacos
            /\ \A i \in 1..Len(texto) : texto[i] = <<tentativa, i>>
            /\ texto' = Append(texto, <<tentativa, pedacos + 1>>)
            /\ pedacos' = pedacos + 1
        BY <1>5 DEF LinhaDeTexto, UmaLinha, TextoDaUltima, TiposDoCliente
      <4>2. QED
        BY <4>1
    <3>2. QED
      BY <1>5, <3>1 DEF LinhaDeTexto, UmaLinha, TextoDaUltima
  <2>3. Recebidos'
    BY <1>5 DEF LinhaDeTexto, UmaLinha, Recebidos
  <2>4. Sonos'
    BY <1>5 DEF LinhaDeTexto, UmaLinha, Sonos
  <2>5. QED
    BY <2>1, <2>2, <2>3, <2>4
<1>6. CASE LinhaSemTexto
  <2>1. TiposDoCliente'
    BY <1>6 DEF LinhaSemTexto, UmaLinha, TiposDoCliente
  <2>2. TextoDaUltima'
    BY <1>6 DEF LinhaSemTexto, UmaLinha, TextoDaUltima
  <2>3. Recebidos'
    BY <1>6 DEF LinhaSemTexto, UmaLinha, Recebidos
  <2>4. Sonos'
    BY <1>6 DEF LinhaSemTexto, UmaLinha, Sonos
  <2>5. QED
    BY <2>1, <2>2, <2>3, <2>4
<1>7. CASE LinhaEstranha
  <2>1. TiposDoCliente'
    BY <1>7 DEF LinhaEstranha, UmaLinha, TiposDoCliente, FasesDoCliente, Motivos
  <2>2. TextoDaUltima'
    BY <1>7 DEF LinhaEstranha, UmaLinha, TextoDaUltima
  <2>3. Recebidos'
    BY <1>7 DEF LinhaEstranha, UmaLinha, Recebidos
  <2>4. Sonos'
    BY <1>7 DEF LinhaEstranha, UmaLinha, Sonos
  <2>5. QED
    BY <2>1, <2>2, <2>3, <2>4
<1>8. CASE FimDasLinhas
  BY <1>8, AcabarPreserva DEF FimDasLinhas, Motivos
<1>9. ASSUME NEW m \in DaRede, Quebra(m)
      PROVE  ClienteInv'
  BY <1>9, AcabarPreserva DEF Quebra, Motivos, DaRede
<1>10. ASSUME NEW prazo \in Prazos, Esperar(prazo)
       PROVE  ClienteInv'
  <2> DEFINE espera == EsperaDo429(prazo)
             nova   == [pedido |-> prazo, dormido |-> espera]
  <2>1. CASE espera < 0
    BY <1>10, <2>1, AcabarPreserva DEF Esperar, Motivos
  <2>2. CASE ~(espera < 0)
    <3>1. /\ nova \in UmSono
          /\ Respeita(nova)
      BY EsperaTemTeto DEF TiposDoCliente, UmSono, Respeita
    <3>2. /\ fase = "corpo" /\ fase' = "dormir" /\ status = "minuto"
          /\ tentativa + 1 < MaxTentativas
          /\ esperas' = Append(esperas, nova)
          /\ UNCHANGED <<tentativa, status, linhas, pedacos, motivo, texto, recebidos>>
      BY <1>10, <2>2, OpenAICompatAssumption
         DEF Esperar, ExisteOutra, ValeEsperar, TiposDoCliente
    <3> HIDE DEF nova
    <3>3. TiposDoCliente'
      BY <3>1, <3>2 DEF TiposDoCliente, FasesDoCliente
    <3>4. TextoDaUltima'
      BY <3>2 DEF TextoDaUltima
    <3>5. Recebidos'
      BY <3>2 DEF Recebidos
    <3>6. Sonos'
      <4>1. Len(esperas') = tentativa + 1
        BY <3>2 DEF Sonos, TiposDoCliente
      <4>2. ASSUME NEW i \in 1..Len(esperas')
            PROVE  Respeita(esperas'[i])
        <5>1. esperas'[i] = IF i <= Len(esperas) THEN esperas[i] ELSE nova
          BY <3>1, <3>2 DEF TiposDoCliente
        <5>2. i <= Len(esperas) => i \in 1..Len(esperas)
          BY DEF TiposDoCliente
        <5>3. QED
          BY <3>1, <5>1, <5>2 DEF Sonos
      <4>3. QED
        BY <3>2, <4>1, <4>2 DEF Sonos, Respeita
    <3>7. QED
      BY <3>3, <3>4, <3>5, <3>6
  <2>3. QED
    BY <2>1, <2>2
<1>11. CASE Acordar
  <2>1. tentativa' \in 0..(MaxTentativas - 1)
    BY <1>11, OpenAICompatAssumption DEF Acordar, Sonos, TiposDoCliente
  <2>2. TiposDoCliente'
    BY <1>11, <2>1 DEF Acordar, TiposDoCliente, FasesDoCliente, historia
  <2>3. TextoDaUltima'
    BY <1>11 DEF Acordar, TextoDaUltima, TiposDoCliente, historia
  <2>4. Recebidos'
    BY <1>11 DEF Acordar, Recebidos, Sonos, TiposDoCliente, historia
  <2>5. Sonos'
    BY <1>11 DEF Acordar, Sonos, historia
  <2>6. QED
    BY <2>2, <2>3, <2>4, <2>5
<1>12. CASE Recusar
  <2>1. status \in Motivos \ {"nenhum"} /\ fase # "dormir" /\ Acabar(status)
    BY <1>12 DEF Recusar, TiposDoCliente, Status, Motivos
  <2>2. QED
    BY <2>1, AcabarPreserva
<1>13. CASE UNCHANGED clienteVars
  BY <1>13 DEF clienteVars, TiposDoCliente, TextoDaUltima, Recebidos, Sonos
<1>14. QED
  BY <1>1, <1>2, <1>3, <1>4, <1>5, <1>6, <1>7, <1>8, <1>9, <1>10, <1>11, <1>12, <1>13
     DEF ClienteNext, Provedor

\* The client's state is well formed, its text is that of its last request, and its
\* waits are counted by its attempts.
THEOREM ClienteInvariante == ClienteSpec => []ClienteInv
BY ComecaBem, PassoPreserva, PTL DEF ClienteSpec

LEMMA EsperaContada == ClienteInv => SoInsisteNoMinuto
<1> SUFFICES ASSUME ClienteInv
             PROVE  SoInsisteNoMinuto
  OBVIOUS
<1>1. /\ tentativa \in Nat /\ tentativa < MaxTentativas /\ MaxTentativas \in Nat
      /\ fase = "dormir" => tentativa + 1 < MaxTentativas
      /\ fase = "dormir" => recebidos[tentativa + 1] = "minuto"
  BY OpenAICompatAssumption DEF ClienteInv, TiposDoCliente, Recebidos, Sonos
<1>2. /\ Len(recebidos) \in {tentativa, tentativa + 1}
      /\ fase = "dormir" => Len(recebidos) = tentativa + 1
      /\ Len(esperas) = IF fase = "dormir" THEN tentativa + 1 ELSE tentativa
  BY DEF ClienteInv, Recebidos, Sonos
<1>3. /\ Len(recebidos) <= MaxTentativas
      /\ Len(esperas) < MaxTentativas
      /\ Len(esperas) \in {Len(recebidos) - 1, Len(recebidos)}
  BY <1>1, <1>2
<1>4. ASSUME NEW i \in 1..Len(esperas)
      PROVE  /\ recebidos[i] = "minuto"
             /\ Respeita(esperas[i])
  <2>1. i \in 1..tentativa \/ (fase = "dormir" /\ i = tentativa + 1)
    BY <1>1, <1>2
  <2>2. QED
    BY <1>1, <2>1 DEF ClienteInv, Recebidos, Sonos
<1>5. QED
  BY <1>3, <1>4 DEF SoInsisteNoMinuto, Respeita

\* However a provider answers, it is asked again only about the quota per minute, after
\* exactly one sleep, which the ceiling limits and which below it is as long as asked for.
THEOREM EsperaLimitada == ClienteSpec => []SoInsisteNoMinuto
BY ClienteInvariante, EsperaContada, PTL

-----------------------------------------------------------------------------
\* An end that is no end of the text is an error of the contract.
LEMMA FimNoContrato ==
    ASSUME ClienteInv, fase # "fim", NEW m \in Motivos \ {"nenhum"}, Acabar(m)
    PROVE  Contrato!Next
<1>1. Estado = "aberta"
  BY DEF ClienteInv, TextoDaUltima, Estado
<1>2. Estado' \in {"completa", "abandonada", "erro"}
  BY DEF Acabar, Estado
<1>3. texto' = texto
  BY DEF Acabar, historia
<1>4. Contrato!Terminar(Estado')
  BY <1>1, <1>3 DEF Contrato!Terminar
<1>5. QED
  BY <1>2, <1>4 DEF Contrato!Next, Contrato!Estados

LEMMA PassoDoContrato == ClienteInv /\ [ClienteNext]_clienteVars => [Contrato!Next]_(Contrato!vars)
<1> SUFFICES ASSUME ClienteInv, [ClienteNext]_clienteVars
             PROVE  Contrato!Next \/ UNCHANGED Contrato!vars
  OBVIOUS
<1>a. fase \in FasesDoCliente /\ status \in Status
  BY DEF ClienteInv, TiposDoCliente
<1>1. CASE texto' = texto /\ motivo' = motivo
  BY <1>1 DEF Contrato!vars, Estado
<1>2. CASE LinhaDeTexto
  <2>1. motivo = "nenhum" /\ motivo' = motivo
    BY <1>2 DEF LinhaDeTexto, UmaLinha, ClienteInv, TextoDaUltima
  <2>2. Estado = "aberta" /\ Estado' = Estado
    BY <2>1 DEF Estado
  <2>3. texto' = Append(texto, <<tentativa, Len(texto) + 1>>)
    BY <1>2 DEF LinhaDeTexto, UmaLinha, ClienteInv, TextoDaUltima
  <2>4. texto # <<>> => tentativa = texto[1][1]
    BY DEF ClienteInv, TextoDaUltima, TiposDoCliente
  <2>5. tentativa \in 0..(MaxTentativas - 1)
    BY DEF ClienteInv, TiposDoCliente
  <2>6. Contrato!Pedaco(tentativa)
    BY <2>2, <2>3, <2>4 DEF Contrato!Pedaco
  <2>7. QED
    BY <2>5, <2>6 DEF Contrato!Next
<1>3. ASSUME fase # "fim", NEW m \in Motivos \ {"nenhum"}, Acabar(m)
      PROVE  Contrato!Next
  BY <1>3, FimNoContrato
<1>4. CASE LinhaEstranha
  <2>1. Estado = "aberta" /\ Estado' = "erro" /\ texto' = texto
    BY <1>4 DEF LinhaEstranha, UmaLinha, ClienteInv, TextoDaUltima, Estado
  <2>2. Contrato!Terminar("erro")
    BY <2>1 DEF Contrato!Terminar
  <2>3. QED
    BY <2>2 DEF Contrato!Next, Contrato!Estados
<1>5. CASE Abandonar \/ PedidoInvalido \/ FimDasLinhas \/ Recusar
           \/ \E m \in DaRede : Quebra(m)
  <2>1. fase # "fim" /\ \E m \in Motivos \ {"nenhum"} : Acabar(m)
    BY <1>5, <1>a DEF Abandonar, PedidoInvalido, FimDasLinhas, Recusar, Quebra, Motivos,
                     DaRede, Status
  <2>2. QED
    BY <1>3, <2>1
<1>6. ASSUME NEW prazo \in Prazos, Esperar(prazo)
      PROVE  Contrato!Next \/ UNCHANGED Contrato!vars
  <2>1. CASE EsperaDo429(prazo) < 0
    BY <1>3, <1>6, <2>1 DEF Esperar, Motivos
  <2>2. CASE ~(EsperaDo429(prazo) < 0)
    BY <1>1, <1>6, <2>2 DEF Esperar
  <2>3. QED
    BY <2>1, <2>2
<1>7. CASE Proximo \/ Acordar \/ LinhaSemTexto \/ (\E s \in Status : Responder(s))
           \/ UNCHANGED clienteVars
  BY <1>1, <1>7 DEF Proximo, Acordar, LinhaSemTexto, UmaLinha, Responder, historia, clienteVars
<1>8. QED
  BY <1>2, <1>4, <1>5, <1>6, <1>7 DEF ClienteNext, Provedor

\* A provider that refuses, hangs or breaks off never makes the caller see text
\* of two answers, nor a piece twice, nor anything after the end.
THEOREM ContratoCumprido == ClienteSpec => CumpreContrato
<1>1. ClienteInit => Contrato!Init
  BY DEF ClienteInit, Contrato!Init, Estado
<1>2. QED
  BY <1>1, PassoDoContrato, ClienteInvariante, PTL
     DEF ClienteSpec, CumpreContrato, Contrato!Spec
=============================================================================
