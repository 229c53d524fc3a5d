------------------------------- MODULE MCSched -------------------------------
(* LuvSched on small sets of fibers and objects; the configurations differ *)
(* in the risks the program takes.                                         *)
EXTENDS LuvSched
=============================================================================
