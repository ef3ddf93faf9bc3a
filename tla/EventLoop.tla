----------------------------- MODULE EventLoop ------------------------------
(***************************************************************************)
(* One EventLoop: the thread that runs loop(), and other threads that hand *)
(* it functors with queueInLoop() or stop it with quit().                  *)
(*                                                                         *)
(* The shared state is the vector pendingFunctors_ (under mutex_), the     *)
(* eventfd wakeupFd_ that makes epoll_wait return, and three atomic        *)
(* flags.  A critical section is one step.  A caller may be preempted      *)
(* between its push and its write to the eventfd, and between any two      *)
(* calls; the loop's thread between any two statements of loop() and       *)
(* doPendingFunctors().  Callbacks (functors, channel handlers, the thread *)
(* initialisation callback) are the application's code: each may call      *)
(* queueInLoop() and quit() any number of times before it returns.         *)
(*                                                                         *)
(* Every submission is a functor of its own, so a functor is queued at     *)
(* most once; quit() is not repeated while quit_ is set.  These two keep   *)
(* the eventfd counter finite.                                             *)
(***************************************************************************)
EXTENDS Naturals, Sequences, Functions, FiniteSets

CONSTANTS
    Functor,            \* the functors ever queued
    Thread,             \* the threads other than the loop's own
    kInitEventListSize  \* of EpollPoller

ASSUME EventLoopAssumption == kInitEventListSize \in Nat \ {0}

VARIABLES
    looping_, quit_, callingPendingFunctors_,
    pendingFunctors_,   \* queued functors, guarded by mutex_
    functors,           \* doPendingFunctors' local vector: rest of the batch
    executed,           \* history: functors whose execution has begun
    wakeupFd_,          \* the counter of the eventfd
    activateChannels,   \* channels epoll_wait reported and not yet handled
    events_,            \* size of EpollPoller's array of events
    early,              \* history: queued by the loop's thread before loop()
    loopPc,             \* where the loop's thread is
    callerPc            \* where each other thread is

flags == <<looping_, quit_, callingPendingFunctors_>>
batch == <<functors, executed>>
poller_ == <<activateChannels, events_>>
loopVars == <<flags, batch, poller_, loopPc>>
callerVars == <<pendingFunctors_, wakeupFd_, early, callerPc>>
vars == <<loopVars, callerVars>>

\* "wakeup" is wakeupChannel_, "io" any other channel of the loop.
Channel == {"wakeup", "io"}

LoopPc == {"created", "test", "poll", "handle", "io", "swap", "run", "body", "done"}

\* Where the loop's thread is inside code of the application.
InCallback == loopPc \in {"created", "io", "body"}

\* What the loop still owes: the rest of its batch, then the shared vector.
Queue == functors \o pendingFunctors_

TypeOK ==
    /\ looping_ \in BOOLEAN
    /\ quit_ \in BOOLEAN
    /\ callingPendingFunctors_ \in BOOLEAN
    /\ pendingFunctors_ \in Seq(Functor)
    /\ functors \in Seq(Functor)
    /\ executed \in Seq(Functor)
    /\ wakeupFd_ \in Nat
    /\ activateChannels \subseteq Channel
    /\ events_ \in Nat \ {0}
    /\ early \subseteq Functor
    /\ loopPc \in LoopPc
    /\ callerPc \in [Thread -> {"idle", "wakeup"}]

Init ==
    /\ looping_ = FALSE
    /\ quit_ = FALSE
    /\ callingPendingFunctors_ = FALSE
    /\ pendingFunctors_ = <<>>
    /\ functors = <<>>
    /\ executed = <<>>
    /\ wakeupFd_ = 0
    /\ activateChannels = {}
    /\ events_ = kInitEventListSize
    /\ early = {}
    /\ loopPc = "created"
    /\ callerPc = [t \in Thread |-> "idle"]

-----------------------------------------------------------------------------
(* Faulty variants of actions below, none of them part of the              *)
(* specification: each is a mistake this code invites, and refutes one of  *)
(* the properties at the end.                                              *)

\* queueInLoop without "|| callingPendingFunctors_".
OwnQueueWithoutWakeup(f) ==
    /\ InCallback
    /\ f \notin Range(executed \o Queue)
    /\ pendingFunctors_' = Append(pendingFunctors_, f)
    /\ early' = IF loopPc = "created" THEN early \union {f} ELSE early
    /\ UNCHANGED <<loopVars, wakeupFd_, callerPc>>

\* The batch is copied instead of swapped.
CopyPending ==
    /\ loopPc = "swap"
    /\ functors' = pendingFunctors_
    /\ loopPc' = "run"
    /\ UNCHANGED <<flags, callerVars, executed, poller_>>

\* A poll that times out is retried at once.
TimeoutPollsAgain ==
    /\ loopPc = "poll"
    /\ wakeupFd_ = 0
    /\ UNCHANGED vars

-----------------------------------------------------------------------------
(* Other threads.                                                          *)

\* queueInLoop, or runInLoop, called by t: the push under mutex_ ...
QueueInLoop(t, f) ==
    /\ callerPc[t] = "idle"
    /\ f \notin Range(executed \o Queue)
    /\ pendingFunctors_' = Append(pendingFunctors_, f)
    /\ callerPc' = [callerPc EXCEPT ![t] = "wakeup"]
    /\ UNCHANGED <<loopVars, wakeupFd_, early>>

\* ... then, as t is not the loop's thread, the write to the eventfd.
Wakeup(t) ==
    /\ callerPc[t] = "wakeup"
    /\ wakeupFd_' = wakeupFd_ + 1
    /\ callerPc' = [callerPc EXCEPT ![t] = "idle"]
    /\ UNCHANGED <<loopVars, pendingFunctors_, early>>

\* quit() by t sets the flag; the code writes to the eventfd only when the
\* caller IS the loop's thread, so nothing wakes the loop.
Quit(t) ==
    /\ callerPc[t] = "idle"
    /\ ~quit_
    /\ quit_' = TRUE
    /\ UNCHANGED <<callerVars, batch, looping_, callingPendingFunctors_,
                   poller_, loopPc>>

-----------------------------------------------------------------------------
(* The loop's thread inside a callback.                                    *)

\* queueInLoop from the loop's thread: push, and a wakeup only while the
\* loop is calling pending functors.
OwnQueueInLoop(f) ==
    /\ InCallback
    /\ f \notin Range(executed \o Queue)
    /\ pendingFunctors_' = Append(pendingFunctors_, f)
    /\ wakeupFd_' = IF callingPendingFunctors_ THEN wakeupFd_ + 1 ELSE wakeupFd_
    /\ early' = IF loopPc = "created" THEN early \union {f} ELSE early
    /\ UNCHANGED <<loopVars, callerPc>>

OwnQuit ==
    /\ InCallback
    /\ ~quit_
    /\ quit_' = TRUE
    /\ wakeupFd_' = wakeupFd_ + 1
    /\ UNCHANGED <<batch, looping_, callingPendingFunctors_,
                   poller_, loopPc, pendingFunctors_, early, callerPc>>

-----------------------------------------------------------------------------
(* loop() and doPendingFunctors().                                         *)

EnterLoop ==
    /\ loopPc = "created"
    /\ looping_' = TRUE
    /\ quit_' = FALSE
    /\ loopPc' = "test"
    /\ UNCHANGED <<callerVars, batch, callingPendingFunctors_,
                   poller_>>

\* while(!quit_) ... looping_ = false
TestQuit ==
    /\ loopPc = "test"
    /\ loopPc' = IF quit_ THEN "done" ELSE "poll"
    /\ looping_' = IF quit_ THEN FALSE ELSE looping_
    /\ activateChannels' = {}
    /\ UNCHANGED <<events_, callerVars, batch, quit_, callingPendingFunctors_>>

\* epoll_wait returns because at least one channel is ready.  It reports at
\* most events_.size() of them, so a busy loop may not see the eventfd in
\* this round even though it is readable; an array that was filled is doubled.
PollReturn(ready) ==
    /\ loopPc = "poll"
    /\ ready # {} /\ Cardinality(ready) <= events_
    /\ "wakeup" \in ready => wakeupFd_ > 0
    /\ activateChannels' = ready
    /\ events_' = IF Cardinality(ready) = events_ THEN 2 * events_ ELSE events_
    /\ loopPc' = "handle"
    /\ UNCHANGED <<flags, callerVars, batch>>

\* epoll_wait returns with nothing ready: after kPollTimeMs, or because of a
\* signal.  (poll() keeps that -1 in a size_t, takes it for events, and reads
\* none of them, as fillActiveChannels counts in an int.)
PollTimeout ==
    /\ loopPc = "poll"
    /\ wakeupFd_ = 0
    /\ loopPc' = "handle"
    /\ UNCHANGED <<flags, callerVars, batch, poller_>>

\* The wakeup channel's handler: reading an eventfd resets its counter.
HandleRead ==
    /\ loopPc = "handle"
    /\ "wakeup" \in activateChannels
    /\ wakeupFd_' = 0
    /\ activateChannels' = activateChannels \ {"wakeup"}
    /\ UNCHANGED <<events_, flags, batch, loopPc, pendingFunctors_, early, callerPc>>

\* Another channel's handler starts: it runs application code.
HandleIo ==
    /\ loopPc = "handle"
    /\ "io" \in activateChannels
    /\ activateChannels' = activateChannels \ {"io"}
    /\ loopPc' = "io"
    /\ UNCHANGED <<events_, flags, callerVars, batch>>

\* All active channels are handled: doPendingFunctors announces itself ...
BeginPending ==
    /\ loopPc = "handle"
    /\ activateChannels = {}
    /\ callingPendingFunctors_' = TRUE
    /\ loopPc' = "swap"
    /\ UNCHANGED <<callerVars, batch, looping_, quit_, poller_>>

\* ... takes the whole vector under mutex_ ...
SwapPending ==
    /\ loopPc = "swap"
    /\ functors' = pendingFunctors_
    /\ pendingFunctors_' = functors
    /\ loopPc' = "run"
    /\ UNCHANGED <<flags, executed, poller_, wakeupFd_, early,
                   callerPc>>

\* ... calls the functors one after the other ...
RunFunctor ==
    /\ loopPc = "run"
    /\ functors # <<>>
    /\ executed' = Append(executed, Head(functors))
    /\ functors' = Tail(functors)
    /\ loopPc' = "body"
    /\ UNCHANGED <<flags, callerVars, poller_>>

\* (a functor or a handler returns)
CallbackReturn ==
    /\ loopPc \in {"io", "body"}
    /\ loopPc' = IF loopPc = "io" THEN "handle" ELSE "run"
    /\ UNCHANGED <<flags, callerVars, batch, poller_>>

\* ... and goes back to the test of the while loop.
EndPending ==
    /\ loopPc = "run"
    /\ functors = <<>>
    /\ callingPendingFunctors_' = FALSE
    /\ loopPc' = "test"
    /\ UNCHANGED <<callerVars, batch, looping_, quit_, poller_>>

-----------------------------------------------------------------------------
Caller(t) == Wakeup(t) \/ Quit(t) \/ \E f \in Functor : QueueInLoop(t, f)

\* What the loop's thread does without waiting for anything but the eventfd.
LoopStep ==
    \/ TestQuit \/ (\E ready \in SUBSET Channel : PollReturn(ready) /\ wakeupFd_ > 0)
    \/ HandleRead \/ HandleIo \/ BeginPending \/ SwapPending \/ RunFunctor
    \/ CallbackReturn \/ EndPending

\* All of its steps.
LoopThread ==
    \/ \E f \in Functor : OwnQueueInLoop(f)
    \/ OwnQuit
    \/ EnterLoop
    \/ TestQuit
    \/ \E ready \in SUBSET Channel : PollReturn(ready)
    \/ PollTimeout
    \/ HandleRead \/ HandleIo
    \/ BeginPending \/ SwapPending \/ RunFunctor \/ CallbackReturn \/ EndPending

Next == LoopThread \/ \E t \in Thread : Caller(t)

\* Threads are scheduled, callbacks return, and a thread that pushed goes on
\* to write to the eventfd.  No channel but the eventfd ever becomes ready
\* for sure, and epoll_wait need not time out.
Fairness == /\ WF_vars(EnterLoop)
            /\ WF_vars(LoopStep)
            /\ \A t \in Thread : WF_vars(Wakeup(t))

Spec == Init /\ [][Next]_vars /\ Fairness

-----------------------------------------------------------------------------
(* Properties.                                                             *)

\* A write to the eventfd was made, or its caller is about to make it.
Announced == wakeupFd_ > 0 \/ \E t \in Thread : callerPc[t] = "wakeup"

\* The loop's thread never goes to sleep on work it was told of: while it is
\* in epoll_wait and pendingFunctors_ holds a functor, the eventfd is readable
\* or about to be.  The exception is a functor the loop's own thread queued
\* before loop(), for which queueInLoop writes nothing.
NoLostWakeup ==
    loopPc = "poll" /\ ~(Range(pendingFunctors_) \subseteq early) => Announced

\* NoLostWakeup and what makes it inductive: the local batch is empty outside
\* the loop over it, the flag tells exactly where doPendingFunctors runs, and
\* from the swap on, through the test of quit_ and into epoll_wait, whatever
\* pendingFunctors_ holds was announced.  (While handlers run nothing need be
\* announced: doPendingFunctors comes next.)
BatchOnlyWhileRunning == loopPc \notin {"run", "body"} => functors = <<>>
FlagMarksPending ==
    callingPendingFunctors_ <=> loopPc \in {"swap", "run", "body"}
WorkAnnounced ==
    loopPc \notin {"handle", "io", "swap"}
        /\ ~(Range(pendingFunctors_) \subseteq early) => Announced
WakeupInv == TypeOK /\ BatchOnlyWhileRunning /\ FlagMarksPending /\ WorkAnnounced

\* Whatever the batches, the wakeups and the interleaving, the loop is one
\* FIFO queue (module FunctorQueue): nothing is lost, repeated or reordered.
Promise == INSTANCE FunctorQueue WITH queue <- Queue

FunctorsInOrder == Promise!Spec

\* The 10 s timeout of epoll_wait, for what relies on it.
Timed == WF_vars(PollTimeout)

\* A functor some thread queued is executed, unless the loop ends first, and
\* for that the loop needs no timeout; with the timeout even a functor queued
\* before loop() runs.
QueuedFunctorsRun ==
    /\ \A f \in Functor : (f \in Range(Queue) /\ f \notin early)
                              ~> (f \in Range(executed) \/ loopPc = "done")
    /\ Timed => \A f \in Functor : (f \in Range(Queue))
                                       ~> (f \in Range(executed) \/ loopPc = "done")

\* A quit() made once loop() has started ends the loop, but only because
\* epoll_wait times out: quit() from another thread writes no wakeup.
QuitEndsLoop == Timed => ((quit_ /\ loopPc # "created") ~> (loopPc = "done"))
=============================================================================
