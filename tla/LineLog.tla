-------------------------------- MODULE LineLog --------------------------------
(***************************************************************************)
(* What AsyncLogging promises: lines reach the file in the order in which  *)
(* they were appended, and none is passed over.  Lines come in batches,    *)
(* and the last ones may never come.                                       *)
(***************************************************************************)
EXTENDS Sequences, Naturals

CONSTANT Line

VARIABLES
    pending,            \* appended and not in the file, oldest first
    written             \* the lines in the file, by their first appearance

Init == pending = <<>> /\ written = <<>>

Put(l) == pending' = Append(pending, l) /\ UNCHANGED written

Write(n) ==
    /\ written' = written \o SubSeq(pending, 1, n)
    /\ pending' = SubSeq(pending, n + 1, Len(pending))

Next == \/ \E l \in Line : Put(l)
        \/ \E n \in 1 .. Len(pending) : Write(n)

Spec == Init /\ [][Next]_<<pending, written>>
=============================================================================
