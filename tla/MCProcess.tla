----------------------------- MODULE MCProcess -----------------------------
(* LuvProcess with Main, one fiber and one process, for every single risk. *)
EXTENDS LuvProcess

OneRisk == {{}} \cup {{r} : r \in Risk}
=============================================================================
