-------------------------- MODULE MCCopilotEngine --------------------------
(* Instances of CopilotEngine for TLC.                                     *)
EXTENDS CopilotEngine

\* Nobody touches the window: only the conversation, the clock and the answers.
SemUsuario == [][/\ Next
                 /\ UNCHANGED <<config, chamador[UI]>>
                 /\ geracao_atual' = 0 => geracao_atual = 0]_vars
SpecSemUsuario == Init /\ SemUsuario
=============================================================================
