------------------------- MODULE MCSessionProcessor -------------------------
(* Instances of SessionProcessor for TLC.                                  *)
EXTENDS SessionProcessor

\* Every run but the first is of a short recording.
OutrasCurtas == [][Next /\ \A r \in Execucoes \ {1} : execucao'[r].total <= 1]_vars
FairSpecOutrasCurtas ==
    Init /\ OutrasCurtas /\ \A r \in Execucoes : WF_vars(Executar(r))
=============================================================================
