------------------------------ MODULE MCTcpServer ------------------------------
(* TcpServer with a pool of up to two IO loops. *)
EXTENDS TcpServer

CONSTANTS l1, l2

MCThreads == <<l1, l2>>
=============================================================================
