----------------------------- MODULE MCLogLine ------------------------------
(* LogLine with integers at the boundaries of their number of digits and of *)
(* 16 bits.                                                                 *)
EXTENDS LogLine

MCInteger == {-32768, -10, -9, 0, 9, 10, 32767}
=============================================================================
