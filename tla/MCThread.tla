------------------------------ MODULE MCThread ------------------------------
(* LuvThread for every set of risks; the child waits up to MaxWaits times. *)
EXTENDS LuvThread

AllRisks == SUBSET Risk
=============================================================================
