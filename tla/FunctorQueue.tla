---------------------------- MODULE FunctorQueue ----------------------------
(***************************************************************************)
(* What an EventLoop promises to the threads that hand it work, and the    *)
(* workers of a ThreadPool together: one FIFO queue.  A functor is queued  *)
(* once, and their execution begins in the order in which they were        *)
(* queued.  Nothing is said about mutexes, batches, wakeups or workers:    *)
(* they are how modules EventLoop and ThreadPool keep the promise.         *)
(***************************************************************************)
EXTENDS Sequences, Functions

CONSTANT Functor        \* the functors ever queued

VARIABLES
    queue,              \* queued and not yet executed, oldest first
    executed            \* the functors whose execution has begun, in order

vars == <<queue, executed>>

Init == /\ queue = <<>>
        /\ executed = <<>>

Enqueue(f) == /\ f \notin Range(executed \o queue)
              /\ queue' = Append(queue, f)
              /\ UNCHANGED executed

Execute == /\ queue # <<>>
           /\ executed' = Append(executed, Head(queue))
           /\ queue' = Tail(queue)

Next == Execute \/ \E f \in Functor : Enqueue(f)

Spec == Init /\ [][Next]_vars
=============================================================================
