------------------------------- MODULE MCNet -------------------------------
(* LuvNet with Main and one fiber on one stream; the resolver may fail. *)
EXTENDS LuvNet

NetCases == {{}, {"fail"}}
=============================================================================
