------------------------------ MODULE MCServer ------------------------------
(* LuvServer with Main and two fibers that accept, for every set of risks. *)
EXTENDS LuvServer

AllRisks == SUBSET {"share", "again"}
=============================================================================
