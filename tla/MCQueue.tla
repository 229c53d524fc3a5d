------------------------------- MODULE MCQueue -------------------------------
(* NgxQueue with two queues that pass three nodes around. *)
EXTENDS NgxQueue
=============================================================================
