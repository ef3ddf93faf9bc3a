-------------------------- MODULE MCTcpConnection ---------------------------
(* TcpConnection with messages of two cells, which write() can split, from   *)
(* the loop's thread, and of one cell from the others.                       *)
EXTENDS TcpConnection

MCMsgLen == [s \in Sender |-> IF s = Loop THEN 2 ELSE 1]
=============================================================================
