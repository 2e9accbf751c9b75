-------------------------- MODULE OpenAICompatClient --------------------------
(***************************************************************************)
(* llm/openai_compat.py: one call of stream_reply.  It is a generator: its *)
(* code runs while the caller waits for the next piece, stands still at    *)
(* each yield, and is closed there by a caller who has had enough.  A 429  *)
(* of the quota per minute is waited out and asked again.                  *)
(*                                                                         *)
(* The provider and httpx are external: a response may be anything below,  *)
(* come late or break off anywhere.  Time is counted in half seconds.      *)
(* The request's content and the wording of the errors are left out; check *)
(* is one request that keeps no state.                                     *)
(*                                                                         *)
(* A definition marked (variant) is the next one with a mistake in it; no  *)
(* action uses it.                                                         *)
(***************************************************************************)
EXTENDS Integers, Sequences

CONSTANTS
    MaxTentativas,   \* MAX_TENTATIVAS_429
    EsperaMaxima,    \* ESPERA_MAXIMA_429
    RetryAfter,      \* numbers a Retry-After may carry; nan behaves as one below 0
    MaxLinhas        \* bound: lines of one response

ASSUME OpenAICompatAssumption ==
    /\ MaxTentativas \in Nat \ {0}
    /\ EsperaMaxima \in Nat
    /\ RetryAfter \subseteq Int
    /\ MaxLinhas \in Nat
    /\ \A n \in 0..MaxTentativas : 2^n \in Nat   \* the provers know nothing of ^

VARIABLES
    fase,        \* where the generator is
    tentativa,   \* tentativa
    status,      \* r.status_code, a 429 told apart by what its body says
    linhas,      \* lines of this response so far
    pedacos,     \* those of them that carried text
    motivo,      \* how it has ended
    texto,       \* history: what was yielded, as <<tentativa, place>>
    recebidos,   \* history: the status of every response
    esperas      \* history: every sleep, with what was asked for

clienteVars == <<fase, tentativa, status, linhas, pedacos, motivo, texto, recebidos, esperas>>

FasesDoCliente == {"criado", "pedir", "corpo", "dormir", "linhas", "entregue", "fim"}
Status == {"ok", "minuto", "diaria", "erro"}
DaRede == {"timeout", "conexao", "rede"}    \* each becomes an LLMError

ClienteInit ==
    /\ fase = "criado"
    /\ tentativa = 0
    /\ status = "ok"
    /\ linhas = 0
    /\ pedacos = 0
    /\ motivo = "nenhum"
    /\ texto = <<>>
    /\ recebidos = <<>>
    /\ esperas = <<>>

historia == <<texto, recebidos, esperas>>

Acabar(m) ==
    /\ fase' = "fim"
    /\ motivo' = m
    /\ UNCHANGED <<tentativa, status, linhas, pedacos, historia>>

-----------------------------------------------------------------------------
(* The caller.                                                             *)

\* It asks for the next piece ...
Proximo ==
    /\ \/ fase = "criado" /\ fase' = "pedir"
       \/ fase = "entregue" /\ fase' = "linhas"
    /\ UNCHANGED <<tentativa, status, linhas, pedacos, motivo, historia>>

\* ... or stops iterating: what is open is closed.
Abandonar ==
    /\ fase \in {"criado", "entregue"}
    /\ Acabar("abandonado")

-----------------------------------------------------------------------------
(* The provider.                                                           *)

\* The head of a response.
Responder(s) ==
    /\ fase = "pedir"
    /\ status' = s
    /\ recebidos' = Append(recebidos, s)
    /\ fase' = IF s = "ok" THEN "linhas" ELSE "corpo"
    /\ UNCHANGED <<tentativa, linhas, pedacos, motivo, texto, esperas>>

\* The request cannot even be made (a URL, a key that no header may hold): what is
\* raised is none of httpx.HTTPError.
PedidoInvalido == fase = "pedir" /\ Acabar("escapou")

\* (variant) a network that fails is one more reason to try again.
QuebraEInsiste(m) ==
    /\ fase \in {"pedir", "corpo", "linhas"}
    /\ m \in DaRede
    /\ IF tentativa < MaxTentativas - 1
         THEN /\ fase' = "pedir"
              /\ tentativa' = tentativa + 1
              /\ UNCHANGED <<status, linhas, pedacos, motivo, historia>>
         ELSE Acabar(m)

\* The connection, the body or the stream breaks off.
Quebra(m) ==
    /\ fase \in {"pedir", "corpo", "linhas"}
    /\ m \in DaRede
    /\ Acabar(m)

UmaLinha ==
    /\ fase = "linhas"
    /\ linhas < MaxLinhas
    /\ linhas' = linhas + 1
    /\ UNCHANGED <<tentativa, status, recebidos, esperas>>

\* _parse_sse finds text: the generator stops at the yield.
LinhaDeTexto ==
    /\ UmaLinha
    /\ pedacos' = pedacos + 1
    /\ texto' = Append(texto, <<tentativa, pedacos'>>)
    /\ fase' = "entregue"
    /\ UNCHANGED motivo

\* A comment, an empty line, broken JSON, an event without text.
LinhaSemTexto ==
    /\ UmaLinha
    /\ UNCHANGED <<fase, motivo, pedacos, texto>>

\* JSON of another form: .get or an index raises, and nothing here catches it.
LinhaEstranha ==
    /\ UmaLinha
    /\ fase' = "fim"
    /\ motivo' = "escapou"
    /\ UNCHANGED <<pedacos, texto>>

\* [DONE], or the stream just ends: the two are told apart by nobody.
FimDasLinhas == fase = "linhas" /\ Acabar("completo")

-----------------------------------------------------------------------------
(* The generator, after reading the body of an error.                      *)

ExisteOutra == tentativa < MaxTentativas - 1

\* (variant) any 429 is waited out.
Todo429 == status \in {"minuto", "diaria"}
ValeEsperar == status = "minuto"

\* How long a wait is asked to be: by the provider's Retry-After or, if there is none or
\* it is no number, by the backoff.
Backoff == 3 * 2^tentativa
Prazos == RetryAfter \cup {Backoff}

\* _espera_do_429.  The ceiling is on what the provider asks for too, which its
\* docstring does not say.
\* (variant) the header is not read.
SoBackoff(prazo) == Backoff
EsperaDo429(prazo) == IF prazo < EsperaMaxima THEN prazo ELSE EsperaMaxima

\* ... and sleeps; a negative time makes sleep raise a ValueError.
Esperar(prazo) ==
    LET espera == EsperaDo429(prazo) IN
    /\ fase = "corpo"
    /\ ExisteOutra /\ ValeEsperar
    /\ IF espera < 0 THEN Acabar("escapou")
       ELSE /\ fase' = "dormir"
            /\ esperas' = Append(esperas, [pedido |-> prazo, dormido |-> espera])
            /\ UNCHANGED <<tentativa, status, linhas, pedacos, motivo, texto, recebidos>>

Acordar ==
    /\ fase = "dormir"
    /\ fase' = "pedir"
    /\ tentativa' = tentativa + 1
    /\ UNCHANGED <<status, linhas, pedacos, motivo, historia>>

\* _erro_http, for a 429 that is not waited out and for the other errors.
Recusar ==
    /\ fase = "corpo"
    /\ ~(ExisteOutra /\ ValeEsperar)
    /\ Acabar(status)

-----------------------------------------------------------------------------
Provedor ==
    \/ \E s \in Status : Responder(s)
    \/ PedidoInvalido
    \/ LinhaDeTexto \/ LinhaSemTexto \/ LinhaEstranha
    \/ FimDasLinhas

ClienteNext ==
    \/ Proximo \/ Abandonar
    \/ Provedor
    \/ \E m \in DaRede : Quebra(m)
    \/ \E prazo \in Prazos : Esperar(prazo)
    \/ Acordar \/ Recusar

ClienteSpec == ClienteInit /\ [][ClienteNext]_clienteVars

\* (variant) httpx.Timeout(None).
SemLimite == {}
TimeoutDeLeitura == {"timeout"}

\* The provider owes nothing; httpx gives up on it in TIMEOUT_CONEXAO or in
\* TIMEOUT_LEITURA, and the generator's own steps are taken.
ClienteFairSpec ==
    /\ ClienteSpec
    /\ WF_clienteVars(\E m \in TimeoutDeLeitura : Quebra(m))
    /\ WF_clienteVars(Acordar)

-----------------------------------------------------------------------------
\* The iterator as its caller sees it.
Estado == CASE motivo = "nenhum"     -> "aberta"
            [] motivo = "completo"   -> "completa"
            [] motivo = "abandonado" -> "abandonada"
            [] OTHER                 -> "erro"

Contrato == INSTANCE LLMClient WITH Respostas <- 0..(MaxTentativas - 1),
                                    texto <- texto, estado <- Estado

\* Whatever is asked again, waited out or broken off, the caller gets the pieces
\* of one answer, in order and none of them twice.
CumpreContrato == Contrato!Spec

\* Only the quota per minute is asked about again, never more than MaxTentativas
\* times in all.  Between a refusal and the next request there is one sleep, and after
\* the last refusal none that no request follows.  No sleep is longer than EsperaMaxima,
\* whoever asked for it ("poucas tentativas e curtas", openai_compat.py:28), and below
\* that ceiling none ends before the time asked for.
SoInsisteNoMinuto ==
    /\ Len(recebidos) <= MaxTentativas
    /\ Len(esperas) < MaxTentativas
    /\ Len(esperas) \in {Len(recebidos) - 1, Len(recebidos)}
    /\ \A i \in 1..Len(esperas) :
           /\ recebidos[i] = "minuto"
           /\ esperas[i].dormido <= EsperaMaxima
           /\ esperas[i].dormido < EsperaMaxima => esperas[i].dormido >= esperas[i].pedido

\* Who waits for a piece, whatever the generator is about, gets one, or the end, or an
\* error, though the provider may never send anything.
SempreResponde == fase \in {"pedir", "corpo", "dormir", "linhas"} ~> fase \in {"entregue", "fim"}
=============================================================================
