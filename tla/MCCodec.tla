------------------------------ MODULE MCCodec ------------------------------
(* LuvCodec for every heap of up to three objects in one value, of up to   *)
(* two in three values, and small ones with risks.                         *)
EXTENDS LuvCodec

MCCases == {<<1, 1, {}>>, <<2, 1, {}>>, <<3, 1, {}>>, <<1, 3, {}>>, <<2, 3, {}>>,
            <<2, 2, {"hook"}>>, <<2, 1, {"nil"}>>}
=============================================================================
