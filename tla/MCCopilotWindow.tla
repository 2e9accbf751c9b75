-------------------------- MODULE MCCopilotWindow --------------------------
(* Instances of CopilotWindow for TLC.                                     *)
EXTENDS CopilotWindow

\* The settings are left alone: the settings screen rebuilds the box and so can
\* only end a wait, and the two switches of config have no part in one.
SemAjustes == [][WNext /\ UNCHANGED <<config, tela>>]_todas
FairSpecSemAjustes == WInit /\ SemAjustes /\ Justica /\ WF_todas(Despachar)
=============================================================================
