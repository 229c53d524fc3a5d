------------------------------ MODULE MCStream ------------------------------
(* LuvStream with Main and one fiber on one stream, for no risk, for every *)
(* single one and for all of them.                                         *)
EXTENDS LuvStream

StreamRisk == Risk \ {"fail"}
OneRiskOrAll == {{}, StreamRisk} \cup {{r} : r \in StreamRisk}
=============================================================================
