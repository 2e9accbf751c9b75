------------------------------ MODULE LLMClient ------------------------------
(***************************************************************************)
(* What llm/base.py promises the engine of stream_reply: the pieces of one *)
(* answer, in order and each of them once; then the end, or an error, or   *)
(* the caller stops asking.  Nothing comes after that.                     *)
(*                                                                         *)
(* A piece is the answer it belongs to and its place in it.                *)
(***************************************************************************)
EXTENDS Integers, Sequences

CONSTANT Respostas   \* the answers a provider may generate for one question

VARIABLES
    texto,    \* pieces handed to the caller
    estado    \* of the iterator

vars == <<texto, estado>>

Estados == {"aberta", "completa", "erro", "abandonada"}

Init ==
    /\ texto = <<>>
    /\ estado = "aberta"

\* The next piece of the answer that has begun, or the first of any.
Pedaco(r) ==
    /\ estado = "aberta"
    /\ texto # <<>> => r = texto[1][1]
    /\ texto' = Append(texto, <<r, Len(texto) + 1>>)
    /\ UNCHANGED estado

Terminar(fim) ==
    /\ estado = "aberta"
    /\ estado' = fim
    /\ UNCHANGED texto

Next ==
    \/ \E r \in Respostas : Pedaco(r)
    \/ \E fim \in Estados \ {"aberta"} : Terminar(fim)

Spec == Init /\ [][Next]_vars
=============================================================================
