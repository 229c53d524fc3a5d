------------------------------- MODULE MCBuf -------------------------------
(* LuvBuf at the sizes where the buffer grows and where an integer takes   *)
(* one byte more.                                                          *)
EXTENDS LuvBuf

MCLens == {1, 7, 123, 128, 300}
MCValues == {0, 1, 127, 128, 129, 16383, 16384, 2097151, 2097152, 268435455,
             268435456, 2147483647}
=============================================================================
