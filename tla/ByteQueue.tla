------------------------------- MODULE ByteQueue -------------------------------
(***************************************************************************)
(* What a Buffer promises: the bytes put in come out once and in order.    *)
(* last is what the latest call was given or returned, so that the caller  *)
(* sees the same bytes here and in an implementation.                      *)
(***************************************************************************)
EXTENDS Sequences, Naturals

CONSTANT Data           \* the byte strings put in at a time

VARIABLES content, last, failed

Init == content = <<>> /\ last = <<>> /\ failed = FALSE

Put(d) ==
    /\ content' = content \o d
    /\ last' = d
    /\ UNCHANGED failed

Take(n) ==
    /\ last' = SubSeq(content, 1, n)
    /\ content' = SubSeq(content, n + 1, Len(content))
    /\ UNCHANGED failed

\* After a failed read nothing is promised any more.
Fail == failed' = TRUE /\ content' = <<>> /\ UNCHANGED last

Next == \/ \E d \in Data : Put(d)
        \/ \E n \in 0 .. Len(content) : Take(n)
        \/ Fail

Spec == Init /\ [][Next]_<<content, last, failed>>
=============================================================================
