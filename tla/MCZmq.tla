------------------------------- MODULE MCZmq -------------------------------
(* LuvZmq with Main and one fiber on one socket.  A risk only adds          *)
(* behaviours, so the sets of risks are: none, and those of which a property*)
(* admits no larger one.                                                    *)
EXTENDS LuvZmq

Some == {"share", "duplex", "fail"}
AllRisks == {{}, {"fail"}, {"close", "fail"}, Some, Some \cup {"close"}}
=============================================================================
