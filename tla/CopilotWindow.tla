--------------------------- MODULE CopilotWindow ---------------------------
(***************************************************************************)
(* The floating window of ui/copilot_window.py on top of the engine.       *)
(*                                                                         *)
(* Every callback of the engine is posted with after(0, ...), so the       *)
(* window sees the log `chamadas` in order, one entry at a time, between   *)
(* two actions of the user.  The module follows the answer box; the        *)
(* transcription box is `turnos`, and labels and the footer are left out.  *)
(***************************************************************************)
EXTENDS CopilotEngine

VARIABLES
    lidas,   \* how many of the posted callbacks the Tk loop has run
    tela,    \* the screen built by mostrar_copilot or mostrar_configuracao
    caixa    \* _box_resposta: what it shows, and the exchange that wrote it

janela == <<lidas, tela, caixa>>
todas  == <<vars, janela>>

SemCaixa        == [tipo |-> "nenhuma", troca |-> 0, texto |-> SemTexto]
Placeholder(g)  == [tipo |-> "placeholder", troca |-> g, texto |-> SemTexto]
Consultando(g)  == [tipo |-> "consultando", troca |-> g, texto |-> SemTexto]
Traco(g)        == [tipo |-> "traco", troca |-> g, texto |-> SemTexto]
Resposta(g, t)  == [tipo |-> "resposta", troca |-> g, texto |-> t]

WInit == Init /\ lidas = 0 /\ tela = "copilot" /\ caixa = Placeholder(0)

\* _finish_answer: a failure and a swallowed answer take "Consultando..." away;
\* otherwise the box already holds the text of the last chunk.
\* (variant) a failure leaves the box as it is.
FimSemTraco(g, atual) == IF troca[g].ignored THEN Placeholder(g) ELSE atual
FinishAnswer(g, atual) ==
    IF troca[g].error THEN Traco(g)
    ELSE IF troca[g].ignored THEN Placeholder(g)
    ELSE atual

\* What one posted callback does to the box: _start_answer, _set_answer,
\* show_error (footer only) and _finish_answer.
Efeito(e, atual) ==
    CASE e.tipo = "start" -> Consultando(e.troca)
      [] e.tipo = "chunk" -> Resposta(e.troca, e.texto)
      [] e.tipo = "error" -> atual
      [] e.tipo = "done"  -> FinishAnswer(e.troca, atual)

\* The Tk loop runs the next posted callback.  On the settings screen the box
\* has been destroyed: the handler raises and its effect is lost.
Despachar ==
    /\ chamador[UI].fase = "livre"
    /\ lidas < Len(chamadas)
    /\ lidas' = lidas + 1
    /\ caixa' = IF tela = "copilot" THEN Efeito(chamadas[lidas + 1], caixa) ELSE caixa
    /\ UNCHANGED <<vars, tela>>

MostrarConfiguracao ==
    /\ chamador[UI].fase = "livre"
    /\ tela = "copilot"
    /\ tela' = "config"
    /\ caixa' = SemCaixa
    /\ UNCHANGED <<vars, lidas>>

\* mostrar_copilot builds a new box, from the back button ...
Voltar ==
    /\ chamador[UI].fase = "livre"
    /\ tela = "config"
    /\ tela' = "copilot"
    /\ caixa' = Placeholder(0)
    /\ UNCHANGED <<vars, lidas>>

\* ... and from _salvar, which also hands the settings to the engine.
Salvar(u) ==
    /\ tela = "config"
    /\ UpdateUserContext(u)
    /\ tela' = "copilot"
    /\ caixa' = Placeholder(0)
    /\ UNCHANGED lidas

\* The buttons and switches exist on the main screen only.
DoUsuario ==
    /\ tela = "copilot"
    /\ \/ AnswerLastTurn
       \/ Cancel
       \/ \E b \in BOOLEAN : SetAutoAnswer(b)
       \/ \E u \in UserContexts : UpdateUserContext(u)
    /\ UNCHANGED janela

DoMotor ==
    /\ \/ \E t \in Turnos : Ingest(t)
       \/ Decidir
       \/ \E c \in Chamadores : Criar(c) \/ Publicar(c)
       \/ Tick
       \/ \E g \in Ids : Gerar(g)
    /\ UNCHANGED janela

WNext ==
    \/ DoMotor
    \/ DoUsuario
    \/ Despachar
    \/ MostrarConfiguracao
    \/ Voltar
    \/ \E u \in UserContexts : Salvar(u)

WSpec == WInit /\ [][WNext]_todas

\* The Tk loop keeps running what is posted to it.
WFairSpec == WSpec /\ Justica /\ WF_todas(Despachar)

-----------------------------------------------------------------------------
\* Nothing runs and nothing is posted.
Quieto ==
    /\ \A c \in Chamadores : chamador[c].fase = "livre"
    /\ \A g \in Ids : estado[g] \in {"nenhum", "fim"}
    /\ lidas = Len(chamadas)

\* No other exchange called back once g had started.
SemAtraso(g) ==
    \A i, j \in 1..Len(chamadas) :
        (chamadas[i].troca = g /\ i < j) => chamadas[j].troca = g

\* How the box must end up for g.
Esperado(g) ==
    IF troca[g].error THEN Traco(g)
    ELSE IF troca[g].ignored THEN Placeholder(g)
    ELSE Resposta(g, troca[g].answer)

\* When all is quiet, the box holds the outcome of the live exchange (its whole
\* text, the dash of a failure, or the placeholder of a swallowed one), unless
\* an abandoned exchange called back in between or the screen was rebuilt.
CaixaDaVigente ==
    \A g \in Ids :
        (Quieto /\ geracao_atual = g /\ SemAtraso(g) /\ caixa.troca # 0)
        => caixa = Esperado(g)

\* While an exchange is live, its "Consultando..." gives way to an outcome.
EsperaTermina ==
    \A g \in Ids :
        (caixa = Consultando(g)) ~> (caixa # Consultando(g) \/ geracao_atual # g)
=============================================================================
