--------------------------- MODULE EventLoopProofs --------------------------
(***************************************************************************)
(* Proofs about EventLoop and the EventLoopThread that runs it, for every  *)
(* set of functors and of other threads.                                   *)
(***************************************************************************)
EXTENDS EventLoopThread, SequenceTheorems, TLAPS

(***************************************************************************)
(* Facts about sequences the steps below need.                             *)
(***************************************************************************)
\* Appending to the shared vector appends to the whole queue.
LEMMA AppendToQueue ==
    ASSUME NEW S, NEW b \in Seq(S), NEW p \in Seq(S), NEW f \in S
    PROVE  b \o Append(p, f) = Append(b \o p, f)
<1>1. Append(p, f) = p \o <<f>> /\ Append(b \o p, f) = (b \o p) \o <<f>>
  BY AppendIsConcat, ConcatProperties
<1>2. <<f>> \in Seq(S)
  OBVIOUS
<1>. QED
  BY <1>1, <1>2, ConcatAssociative

\* Taking the head of the batch takes the head of the whole queue.
LEMMA HeadOfQueue ==
    ASSUME NEW S, NEW b \in Seq(S), b # <<>>, NEW p \in Seq(S)
    PROVE  /\ b \o p # <<>>
           /\ Head(b \o p) = Head(b)
           /\ Tail(b \o p) = Tail(b) \o p
<1>1. /\ b \o p \in Seq(S)
      /\ Len(b \o p) = Len(b) + Len(p)
      /\ \A i \in 1 .. Len(b) + Len(p) :
            (b \o p)[i] = IF i <= Len(b) THEN b[i] ELSE p[i - Len(b)]
  BY ConcatProperties
<1>2. Len(b) \in Nat \ {0} /\ Len(p) \in Nat
  BY EmptySeq, LenProperties
<1>3. b \o p # <<>>
  BY <1>1, <1>2, EmptySeq
<1>4. Head(b \o p) = Head(b)
  BY <1>1, <1>2
<1>5. /\ Tail(b) \in Seq(S)
      /\ Len(Tail(b)) = Len(b) - 1
      /\ \A i \in 1 .. Len(Tail(b)) : Tail(b)[i] = b[i + 1]
      /\ Tail(b \o p) \in Seq(S)
      /\ Len(Tail(b \o p)) = Len(b \o p) - 1
      /\ \A i \in 1 .. Len(Tail(b \o p)) : Tail(b \o p)[i] = (b \o p)[i + 1]
  BY <1>1, <1>3, HeadTailProperties
<1>6. /\ Tail(b) \o p \in Seq(S)
      /\ Len(Tail(b) \o p) = Len(b) - 1 + Len(p)
      /\ \A i \in 1 .. Len(b) - 1 + Len(p) : (Tail(b) \o p)[i] =
            IF i <= Len(b) - 1 THEN Tail(b)[i] ELSE p[i - (Len(b) - 1)]
  BY <1>5, ConcatProperties
<1>7. ASSUME NEW i \in 1 .. Len(b) - 1 + Len(p)
      PROVE  Tail(b \o p)[i] = (Tail(b) \o p)[i]
  <2>1. Tail(b \o p)[i] = (b \o p)[i + 1]
    BY <1>1, <1>2, <1>5
  <2>2. (b \o p)[i + 1] = IF i + 1 <= Len(b) THEN b[i + 1] ELSE p[i + 1 - Len(b)]
    BY <1>1, <1>2
  <2>3. i <= Len(b) - 1 => Tail(b)[i] = b[i + 1]
    BY <1>2, <1>5
  <2>4. i - (Len(b) - 1) = i + 1 - Len(b)
    BY <1>2
  <2>. QED
    BY <1>2, <1>6, <2>1, <2>2, <2>3, <2>4
<1>8. Tail(b \o p) = Tail(b) \o p
  BY <1>1, <1>2, <1>5, <1>6, <1>7, SeqEqual
<1>. QED
  BY <1>3, <1>4, <1>8

(***************************************************************************)
(* Type correctness.                                                       *)
(***************************************************************************)
LEMMA TypeInit == Init => TypeOK
<1> SUFFICES ASSUME Init PROVE TypeOK
  OBVIOUS
<1>1. <<>> \in Seq(Functor)
  BY EmptySeq
<1>2. callerPc \in [Thread -> {"idle", "wakeup"}]
  BY DEF Init
<1>. QED
  BY <1>1, <1>2, EventLoopAssumption DEF Init, TypeOK, LoopPc, Channel

LEMMA TypeStep == TypeOK /\ [Next]_vars => TypeOK'
<1> SUFFICES ASSUME TypeOK, [Next]_vars PROVE TypeOK'
  OBVIOUS
<1> USE DEF TypeOK, flags, batch, poller_, loopVars, callerVars
<1>1. ASSUME NEW t \in Thread, NEW f \in Functor, QueueInLoop(t, f) PROVE TypeOK'
  BY <1>1, AppendProperties DEF QueueInLoop
<1>2. ASSUME NEW t \in Thread, Wakeup(t) PROVE TypeOK'
  BY <1>2 DEF Wakeup
<1>3. ASSUME NEW t \in Thread, Quit(t) PROVE TypeOK'
  BY <1>3 DEF Quit
<1>4. ASSUME NEW f \in Functor, OwnQueueInLoop(f) PROVE TypeOK'
  BY <1>4, AppendProperties DEF OwnQueueInLoop
<1>5. CASE OwnQuit
  BY <1>5 DEF OwnQuit
<1>6. CASE EnterLoop
  BY <1>6 DEF EnterLoop, LoopPc
<1>7. CASE TestQuit
  BY <1>7 DEF TestQuit, LoopPc
<1>8. ASSUME NEW ready \in SUBSET Channel, PollReturn(ready) PROVE TypeOK'
  BY <1>8 DEF PollReturn, LoopPc
<1>9. CASE PollTimeout
  BY <1>9 DEF PollTimeout, LoopPc
<1>10. CASE HandleRead
  BY <1>10 DEF HandleRead
<1>11. CASE HandleIo
  BY <1>11 DEF HandleIo, LoopPc
<1>12. CASE BeginPending
  BY <1>12 DEF BeginPending, LoopPc
<1>13. CASE SwapPending
  BY <1>13 DEF SwapPending, LoopPc
<1>14. CASE RunFunctor
  BY <1>14, HeadTailProperties, AppendProperties DEF RunFunctor, LoopPc
<1>15. CASE CallbackReturn
  BY <1>15 DEF CallbackReturn, LoopPc
<1>16. CASE EndPending
  BY <1>16 DEF EndPending, LoopPc
<1>17. CASE UNCHANGED vars
  BY <1>17 DEF vars
<1>18. QED
  BY <1>1, <1>2, <1>3, <1>4, <1>5, <1>6, <1>7, <1>8, <1>9, <1>10, <1>11,
     <1>12, <1>13, <1>14, <1>15, <1>16, <1>17 DEF Next, LoopThread, Caller

\* Every reachable state of the loop is of the declared type.
THEOREM TypeCorrect == Spec => []TypeOK
  BY TypeInit, TypeStep, PTL DEF Spec

(***************************************************************************)
(* No lost wakeup.                                                         *)
(***************************************************************************)
LEMMA WakeupInvInit == Init => WakeupInv
<1>1. Init => TypeOK
  BY TypeInit
<1>2. Init => Range(pendingFunctors_) \subseteq early
  BY DEF Init, Range
<1>. QED
  BY <1>1, <1>2 DEF Init, WakeupInv, BatchOnlyWhileRunning, FlagMarksPending,
                    WorkAnnounced

LEMMA WakeupInvStep == WakeupInv /\ [Next]_vars => WakeupInv'
<1> SUFFICES ASSUME WakeupInv, [Next]_vars PROVE WakeupInv'
  OBVIOUS
<1>0. TypeOK'
  BY TypeStep DEF WakeupInv
<1> USE DEF WakeupInv, TypeOK, BatchOnlyWhileRunning, FlagMarksPending,
            WorkAnnounced, Announced, flags, batch, poller_, loopVars,
            callerVars
\* A push by another thread: that thread is about to write to the eventfd.
<1>1. ASSUME NEW t \in Thread, NEW f \in Functor, QueueInLoop(t, f)
      PROVE  WakeupInv'
  <2>1. callerPc'[t] = "wakeup"
    BY <1>1 DEF QueueInLoop
  <2>. QED
    BY <1>0, <1>1, <2>1 DEF QueueInLoop
\* The write itself: the eventfd is readable.
<1>2. ASSUME NEW t \in Thread, Wakeup(t) PROVE WakeupInv'
  <2>1. wakeupFd_' > 0
    BY <1>2 DEF Wakeup
  <2>. QED
    BY <1>0, <1>2, <2>1 DEF Wakeup
<1>3. ASSUME NEW t \in Thread, Quit(t) PROVE WakeupInv'
  BY <1>0, <1>3 DEF Quit
\* A push by the loop's own thread: early before loop(), announced from a
\* functor, and from a handler it needs no announcement.
<1>4. ASSUME NEW f \in Functor, OwnQueueInLoop(f) PROVE WakeupInv'
  <2>1. CASE loopPc = "created"
    <3>1. pendingFunctors_' = Append(pendingFunctors_, f) /\ early' = early \union {f}
      BY <1>4, <2>1 DEF OwnQueueInLoop
    <3>2. Range(pendingFunctors_') \subseteq Range(pendingFunctors_) \union {f}
      BY <3>1, AppendProperties DEF Range
    <3>. QED
      BY <1>0, <1>4, <2>1, <3>1, <3>2 DEF OwnQueueInLoop
  <2>2. CASE loopPc = "io"
    BY <1>0, <1>4, <2>2 DEF OwnQueueInLoop
  <2>3. CASE loopPc = "body"
    <3>1. wakeupFd_' > 0
      BY <1>4, <2>3 DEF OwnQueueInLoop
    <3>. QED
      BY <1>0, <1>4, <2>3, <3>1 DEF OwnQueueInLoop
  <2>. QED
    BY <1>4, <2>1, <2>2, <2>3 DEF OwnQueueInLoop, InCallback
<1>5. CASE OwnQuit
  BY <1>0, <1>5 DEF OwnQuit
<1>6. CASE EnterLoop
  BY <1>0, <1>6 DEF EnterLoop
<1>7. CASE TestQuit
  BY <1>0, <1>7 DEF TestQuit
<1>8. ASSUME NEW ready \in SUBSET Channel, PollReturn(ready) PROVE WakeupInv'
  BY <1>0, <1>8 DEF PollReturn
<1>9. CASE PollTimeout
  BY <1>0, <1>9 DEF PollTimeout
<1>10. CASE HandleRead
  BY <1>0, <1>10 DEF HandleRead
<1>11. CASE HandleIo
  BY <1>0, <1>11 DEF HandleIo
<1>12. CASE BeginPending
  BY <1>0, <1>12 DEF BeginPending
\* The swap empties the shared vector, because the batch was empty.
<1>13. CASE SwapPending
  <2>1. pendingFunctors_' = <<>>
    BY <1>13 DEF SwapPending
  <2>2. Range(pendingFunctors_') \subseteq early'
    BY <2>1 DEF Range
  <2>. QED
    BY <1>0, <1>13, <2>2 DEF SwapPending
<1>14. CASE RunFunctor
  BY <1>0, <1>14 DEF RunFunctor
<1>15. CASE CallbackReturn
  BY <1>0, <1>15 DEF CallbackReturn
<1>16. CASE EndPending
  BY <1>0, <1>16 DEF EndPending
<1>17. CASE UNCHANGED vars
  BY <1>0, <1>17 DEF vars
<1>18. QED
  BY <1>1, <1>2, <1>3, <1>4, <1>5, <1>6, <1>7, <1>8, <1>9, <1>10, <1>11,
     <1>12, <1>13, <1>14, <1>15, <1>16, <1>17 DEF Next, LoopThread, Caller

\* The inductive invariant behind NoLostWakeup.
THEOREM WakeupInvariant == Spec => []WakeupInv
  BY WakeupInvInit, WakeupInvStep, PTL DEF Spec

\* While the loop's thread is in epoll_wait, work it was told of always comes
\* with a readable eventfd or with a caller about to make it readable.
THEOREM NoWakeupIsLost == Spec => []NoLostWakeup
<1>1. WakeupInv => NoLostWakeup
  BY DEF WakeupInv, WorkAnnounced, NoLostWakeup
<1>. QED
  BY <1>1, WakeupInvariant, PTL

(***************************************************************************)
(* Implementation of the FIFO queue.                                       *)
(***************************************************************************)
LEMMA PromiseInit == Init => Promise!Init
<1>1. Init => Queue = <<>> \o <<>> /\ executed = <<>>
  BY DEF Init, Queue
<1>2. <<>> \o <<>> = <<>>
  BY ConcatEmptySeq, EmptySeq
<1>. QED
  BY <1>1, <1>2 DEF Promise!Init

\* A push appends to the queue, running a functor takes its head, and every
\* other step leaves the queue as it is: the swap moves the boundary between
\* the batch and the shared vector.
LEMMA PromiseStep == WakeupInv /\ [Next]_vars => [Promise!Next]_(Promise!vars)
<1> SUFFICES ASSUME WakeupInv, [Next]_vars PROVE [Promise!Next]_(Promise!vars)
  OBVIOUS
<1>0. /\ functors \in Seq(Functor) /\ pendingFunctors_ \in Seq(Functor)
      /\ loopPc \notin {"run", "body"} => functors = <<>>
  BY DEF WakeupInv, TypeOK, BatchOnlyWhileRunning
<1> USE DEF Promise!Next, Promise!vars, flags, batch, poller_, loopVars, callerVars
<1>1. ASSUME NEW t \in Thread, NEW f \in Functor, QueueInLoop(t, f)
      PROVE  Promise!Next
  <2>1. Queue' = Append(Queue, f)
    BY <1>0, <1>1, AppendToQueue DEF Queue, QueueInLoop
  <2>2. f \notin Range(executed \o Queue) /\ executed' = executed
    BY <1>1 DEF QueueInLoop
  <2>3. Promise!Enqueue(f)
    BY <2>1, <2>2 DEF Promise!Enqueue, Range, Promise!Range
  <2>. QED
    BY <2>3
<1>2. ASSUME NEW f \in Functor, OwnQueueInLoop(f) PROVE Promise!Next
  <2>1. Queue' = Append(Queue, f)
    BY <1>0, <1>2, AppendToQueue DEF Queue, OwnQueueInLoop
  <2>2. f \notin Range(executed \o Queue) /\ executed' = executed
    BY <1>2 DEF OwnQueueInLoop
  <2>3. Promise!Enqueue(f)
    BY <2>1, <2>2 DEF Promise!Enqueue, Range, Promise!Range
  <2>. QED
    BY <2>3
<1>3. CASE RunFunctor
  <2>1. /\ Queue # <<>>
        /\ Head(Queue) = Head(functors)
        /\ Tail(Queue) = Tail(functors) \o pendingFunctors_
    BY <1>0, <1>3, HeadOfQueue DEF Queue, RunFunctor
  <2>2. Queue' = Tail(functors) \o pendingFunctors_
    BY <1>3 DEF Queue, RunFunctor
  <2>. QED
    BY <1>3, <2>1, <2>2 DEF RunFunctor, Promise!Execute
<1>4. CASE SwapPending
  <2>1. functors = <<>> /\ functors' = pendingFunctors_ /\ pendingFunctors_' = <<>>
    BY <1>0, <1>4 DEF SwapPending
  <2>2. Queue' = Queue
    BY <1>0, <2>1, ConcatEmptySeq DEF Queue
  <2>. QED
    BY <1>4, <2>2 DEF SwapPending
<1>5. ASSUME UNCHANGED <<functors, pendingFunctors_, executed>>
      PROVE  UNCHANGED Promise!vars
  BY <1>5 DEF Queue
<1>6. ASSUME NEW t \in Thread, Wakeup(t) \/ Quit(t)
      PROVE  UNCHANGED <<functors, pendingFunctors_, executed>>
  BY <1>6 DEF Wakeup, Quit
<1>7. ASSUME NEW ready \in SUBSET Channel, PollReturn(ready)
      PROVE  UNCHANGED <<functors, pendingFunctors_, executed>>
  BY <1>7 DEF PollReturn
<1>8. ASSUME \/ OwnQuit \/ EnterLoop \/ TestQuit \/ PollTimeout \/ HandleRead
             \/ HandleIo \/ BeginPending \/ CallbackReturn \/ EndPending
             \/ UNCHANGED vars
      PROVE  UNCHANGED <<functors, pendingFunctors_, executed>>
  BY <1>8 DEF OwnQuit, EnterLoop, TestQuit, PollTimeout, HandleRead, HandleIo,
              BeginPending, CallbackReturn, EndPending, vars
<1>. QED
  BY <1>1, <1>2, <1>3, <1>4, <1>5, <1>6, <1>7, <1>8 DEF Next, LoopThread, Caller

\* The event loop implements the FIFO queue: whatever the interleaving of its
\* callers, functors run once each and in the order they were queued.
THEOREM FunctorsRunInOrder == Spec => FunctorsInOrder
  BY WakeupInvariant, PromiseInit, PromiseStep, PTL DEF Spec, FunctorsInOrder, Promise!Spec

(***************************************************************************)
(* EventLoopThread.                                                        *)
(***************************************************************************)
\* The loop's code leaves loop() only when it finds quit_ set.
LEMMA LoopEndsByQuit ==
    ASSUME LoopThread
    PROVE  loopPc' = "done" => quit_
  BY DEF LoopThread, OwnQueueInLoop, OwnQuit, InCallback,
         EnterLoop, TestQuit, PollReturn, PollTimeout,
         HandleRead, HandleIo, BeginPending, SwapPending,
         RunFunctor, CallbackReturn, EndPending, loopVars

\* Other threads do not move the loop's thread.
LEMMA CallerLeavesLoop ==
    ASSUME NEW t \in Thread, Caller(t)
    PROVE  loopPc' = loopPc
  BY DEF Caller, Wakeup, Quit, QueueInLoop, loopVars

LEMMA ThreadInvInit == ThreadInit => ThreadInv
  BY DEF ThreadInit, Init, ThreadInv, ThreadTypeOK, OwnerPc, ThreadPc, LoopPointer,
         LoopProgress, OwnerProgress, QuitsLiveLoop, DestroyedIsDone

LEMMA ThreadInvStep == ThreadInv /\ [ThreadNext]_allVars => ThreadInv'
<1> SUFFICES ASSUME ThreadInv, [ThreadNext]_allVars PROVE ThreadInv'
  OBVIOUS
<1> USE DEF ThreadInv, ThreadTypeOK, OwnerPc, ThreadPc, LoopPointer, LoopProgress,
            OwnerProgress, QuitsLiveLoop, DestroyedIsDone, vars, flags, loopVars,
            callerVars, restVars, threadVars, histVars
\* The owner.
<1>1. CASE StartLoop
  BY <1>1 DEF StartLoop
<1>2. CASE Started
  BY <1>2 DEF Started
<1>3. CASE TestLoop
  BY <1>3 DEF TestLoop
<1>4. CASE SpuriousWakeup
  BY <1>4 DEF SpuriousWakeup
<1>5. CASE Destroy
  BY <1>5 DEF Destroy
\* Without loop_ the thread never began or has left loop(), which it did
\* because the application called quit().
<1>6. CASE FindLoop
  BY <1>6 DEF FindLoop
<1>7. CASE QuitLoop
  BY <1>7 DEF QuitLoop
<1>8. CASE Join
  BY <1>8 DEF Join
\* The thread.
<1>9. CASE Post
  BY <1>9 DEF Post
<1>10. CASE Publish
  BY <1>10 DEF Publish
<1>11. CASE RunLoop(LoopThread)
  <2>1. loopPc' = "done" => quit_
    BY <1>11, LoopEndsByQuit DEF RunLoop
  <2>. QED
    BY <1>11, <2>1 DEF RunLoop
<1>12. ASSUME NEW t \in Thread, UseLoop(t) PROVE ThreadInv'
  <2>1. loopPc' = loopPc
    BY <1>12, CallerLeavesLoop DEF UseLoop
  <2>. QED
    BY <1>12, <2>1 DEF UseLoop
<1>13. CASE ClearLoop
  BY <1>13 DEF ClearLoop
<1>14. CASE EndThread
  BY <1>14 DEF EndThread
<1>15. CASE UNCHANGED allVars
  BY <1>15 DEF allVars
<1>. QED
  BY <1>1, <1>2, <1>3, <1>4, <1>5, <1>6, <1>7, <1>8, <1>9, <1>10, <1>11, <1>12,
     <1>13, <1>14, <1>15 DEF ThreadNext, OwnerStep, ThreadStep

\* The inductive invariant of the start and the end of a loop's thread.
THEOREM ThreadInvariant == ThreadSafetySpec => []ThreadInv
  BY ThreadInvInit, ThreadInvStep, PTL DEF ThreadSafetySpec

\* The destructor uses a loop that is gone only if the application stopped
\* that loop, and it ended while the destructor ran.
THEOREM LiveLoopIsQuit == ThreadSafetySpec => []QuitsLiveLoop
<1>1. ThreadInv => QuitsLiveLoop
  BY DEF ThreadInv
<1>. QED
  BY <1>1, ThreadInvariant, PTL

\* After the destructor the thread is over, but for the mutex of a loop that
\* the application stopped.
THEOREM NothingOutlivesTheObject == ThreadSafetySpec => []DestroyedIsDone
<1>1. ThreadInv => DestroyedIsDone
  BY DEF ThreadInv
<1>. QED
  BY <1>1, ThreadInvariant, PTL
\* A step of the whole is one of the loop, or the destructor's quit(), or none
\* that the loop sees.
LEMMA ThreadStepsOfLoop ==
    [ThreadNext]_allVars => [Next]_vars \/ (UNCHANGED restVars /\ quit_' = TRUE)
<1> SUFFICES ASSUME [ThreadNext]_allVars
             PROVE  [Next]_vars \/ (UNCHANGED restVars /\ quit_' = TRUE)
  OBVIOUS
<1>1. CASE StartLoop \/ SpuriousWakeup \/ Destroy \/ ThreadStep \/ UNCHANGED allVars
  BY <1>1 DEF StartLoop, SpuriousWakeup, Destroy, ThreadStep, Post, Publish, ClearLoop,
              EndThread, allVars
<1>2. CASE Started \/ TestLoop \/ FindLoop \/ Join
  BY <1>2 DEF Started, TestLoop, FindLoop, Join
<1>3. CASE QuitLoop
  BY <1>3 DEF QuitLoop, restVars, vars, flags, batch, poller_, loopVars, callerVars
<1>4. CASE RunLoop(LoopThread)
  BY <1>4 DEF RunLoop, Next
<1>5. ASSUME NEW t \in Thread, UseLoop(t) PROVE Next
  BY <1>5 DEF UseLoop, Next
<1>. QED
  BY <1>1, <1>2, <1>3, <1>4, <1>5 DEF ThreadNext, OwnerStep

\* What the loop promises holds of the loop in an EventLoopThread, through
\* startLoop(), callback_ and a destructor whose quit() comes at any moment.
THEOREM LoopOfThreadKeepsPromise == ThreadSafetySpec => []NoLostWakeup /\ FunctorsInOrder
<1>1. ASSUME WakeupInv, UNCHANGED restVars, quit_' = TRUE
      PROVE  WakeupInv' /\ UNCHANGED Promise!vars
  <2>1. WakeupInv'
    BY <1>1 DEF WakeupInv, TypeOK, BatchOnlyWhileRunning, FlagMarksPending, WorkAnnounced,
                Announced, restVars, Channel
  <2>2. UNCHANGED Promise!vars
    BY <1>1 DEF Promise!vars, Queue, restVars
  <2>. QED
    BY <2>1, <2>2
<1>2. WakeupInv /\ [ThreadNext]_allVars => WakeupInv'
  BY <1>1, ThreadStepsOfLoop, WakeupInvStep
<1>3. WakeupInv /\ [ThreadNext]_allVars => [Promise!Next]_(Promise!vars)
  BY <1>1, ThreadStepsOfLoop, PromiseStep
<1>4. ThreadInit => WakeupInv /\ Promise!Init
  BY WakeupInvInit, PromiseInit DEF ThreadInit
<1>5. WakeupInv => NoLostWakeup
  BY DEF WakeupInv, WorkAnnounced, NoLostWakeup
<1>. QED
  BY <1>2, <1>3, <1>4, <1>5, PTL DEF ThreadSafetySpec, FunctorsInOrder, Promise!Spec
=============================================================================
