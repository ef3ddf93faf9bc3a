--------------------------- MODULE EventLoopThread --------------------------
(***************************************************************************)
(* An EventLoopThread with the EventLoop it runs: the owner that calls     *)
(* startLoop() and later destroys the object, the thread that startLoop()  *)
(* starts, and other threads of the application that use the loop while it *)
(* runs.  EventLoopThreadPool::start creates one of these per IO loop.     *)
(*                                                                         *)
(* The loop is all of module EventLoop; here its steps are taken only      *)
(* where threadFunc takes them.  loop_ is written under mutex_, which      *)
(* startLoop() takes and the destructor does not.  The owner destroys the  *)
(* object before startLoop() or after it returned.                         *)
(***************************************************************************)
EXTENDS EventLoop

VARIABLES
    loop_,              \* whether the pointer is set
    ownerPc,            \* where the owner is
    threadPc,           \* where the thread is
    foundPc,            \* history: where the destructor found the thread
    asked,              \* history: the application called quit()
    forgotten           \* history: the destructor's quit() was undone by loop()

\* The loop's state but quit_.
restVars == <<looping_, callingPendingFunctors_, pendingFunctors_, functors, executed,
              wakeupFd_, activateChannels, events_, early, loopPc, callerPc>>
threadVars == <<loop_, ownerPc, threadPc, foundPc>>
histVars == <<asked, forgotten>>
allVars == <<vars, threadVars, histVars>>

\* "starting" is Thread::start, "testing" and "waiting" the loop on cond_;
\* "deleting", "quitting" and "joining" are the destructor, "lost" its quit()
\* on a loop that is gone.
OwnerPc == {"new", "starting", "testing", "waiting", "using",
            "deleting", "quitting", "joining", "deleted", "lost"}
ThreadPc == {"none", "begin", "callback", "loop", "unlock", "ended"}

ThreadTypeOK ==
    /\ loop_ \in BOOLEAN
    /\ ownerPc \in OwnerPc
    /\ threadPc \in ThreadPc
    /\ foundPc \in ThreadPc
    /\ asked \in BOOLEAN
    /\ forgotten \in BOOLEAN

ThreadInit ==
    /\ Init
    /\ loop_ = FALSE
    /\ ownerPc = "new"
    /\ threadPc = "none"
    /\ foundPc = "none"
    /\ asked = FALSE
    /\ forgotten = FALSE

-----------------------------------------------------------------------------
(* Faulty variants, none of them part of the specification.                *)

PublishQuietly ==                   \* no notify_one()
    /\ threadPc = "callback"
    /\ threadPc' = "loop"
    /\ loop_' = TRUE
    /\ UNCHANGED <<vars, ownerPc, foundPc, histVars>>
LeaveLoopSet ==                     \* no loop_ = nullptr
    /\ threadPc = "loop" /\ loopPc = "done"
    /\ threadPc' = "unlock"
    /\ UNCHANGED <<vars, loop_, ownerPc, foundPc, histVars>>
JoinIsQuit ==                       \* no join()
    /\ ownerPc = "joining"
    /\ ownerPc' = "deleted"
    /\ UNCHANGED <<vars, loop_, threadPc, foundPc, histVars>>
JoinBeforeQuit ==                   \* join() first
    /\ ownerPc = "quitting" /\ loop_
    /\ ownerPc' = "joining"
    /\ UNCHANGED <<vars, loop_, threadPc, foundPc, histVars>>

-----------------------------------------------------------------------------
(* The owner.                                                              *)

\* startLoop() starts the thread ...
StartLoop ==
    /\ ownerPc = "new"
    /\ ownerPc' = "starting"
    /\ threadPc' = "begin"
    /\ UNCHANGED <<vars, loop_, foundPc, histVars>>

\* ... waits until it has posted its tid ...
Started ==
    /\ ownerPc = "starting"
    /\ threadPc # "begin"
    /\ ownerPc' = "testing"
    /\ UNCHANGED <<vars, loop_, threadPc, foundPc, histVars>>

\* ... and then, under mutex_, until loop_ is set.
TestLoop ==
    /\ ownerPc = "testing"
    /\ threadPc # "unlock"
    /\ ownerPc' = IF loop_ THEN "using" ELSE "waiting"
    /\ UNCHANGED <<vars, loop_, threadPc, foundPc, histVars>>

SpuriousWakeup ==
    /\ ownerPc = "waiting"
    /\ ownerPc' = "testing"
    /\ UNCHANGED <<vars, loop_, threadPc, foundPc, histVars>>

\* The destructor sets exiting_, which nothing reads, tests loop_ without the
\* mutex, and leaves a thread it did not join to detach().
Destroy ==
    /\ ownerPc \in {"new", "using"}
    /\ ownerPc' = "deleting"
    /\ foundPc' = threadPc
    /\ UNCHANGED <<vars, loop_, threadPc, histVars>>

FindLoop ==
    /\ ownerPc = "deleting"
    /\ ownerPc' = IF loop_ THEN "quitting" ELSE "deleted"
    /\ UNCHANGED <<vars, loop_, threadPc, foundPc, histVars>>

\* loop_ -> quit(), of another thread than the loop's.  The pointer is read
\* again or kept from the test, as the compiler likes: once the thread has
\* cleared it, the one is null and the other good only until threadFunc ends.
QuitLoop ==
    /\ ownerPc = "quitting"
    /\ \/ /\ threadPc # "ended"
          /\ quit_' = TRUE
          /\ ownerPc' = "joining"
       \/ /\ ~loop_ \/ threadPc = "ended"
          /\ ownerPc' = "lost"
          /\ UNCHANGED quit_
    /\ UNCHANGED <<restVars, loop_, threadPc, foundPc, histVars>>

Join ==
    /\ ownerPc = "joining"
    /\ threadPc = "ended"
    /\ ownerPc' = "deleted"
    /\ UNCHANGED <<vars, loop_, threadPc, foundPc, histVars>>

-----------------------------------------------------------------------------
(* The thread.                                                             *)

\* The thread posts its tid and constructs its loop.
Post ==
    /\ threadPc = "begin"
    /\ threadPc' = "callback"
    /\ UNCHANGED <<vars, loop_, ownerPc, foundPc, histVars>>

\* callback_ has returned: under mutex_, loop_ is set and the owner notified.
Publish ==
    /\ threadPc = "callback"
    /\ threadPc' = "loop"
    /\ loop_' = TRUE
    /\ ownerPc' = IF ownerPc = "waiting" THEN "testing" ELSE ownerPc
    /\ UNCHANGED <<vars, foundPc, histVars>>

\* A step of the loop's code: until Publish that of callback_, from then on
\* that of loop().
RunLoop(step) ==
    /\ step
    /\ \/ threadPc = "callback" /\ loopPc' = "created"
       \/ threadPc = "loop" /\ loopPc' # "created"
    /\ asked' = (asked \/ (quit_' /\ ~quit_))
    /\ forgotten' = (forgotten \/ (quit_ /\ ~quit_' /\ ownerPc = "joining"))
    /\ UNCHANGED threadVars

\* Another thread of the application calls quit() or queueInLoop().
UseLoop(t) ==
    /\ threadPc \in {"callback", "loop"}
    /\ Caller(t)
    /\ asked' = (asked \/ (quit_' /\ ~quit_))
    /\ UNCHANGED <<threadVars, forgotten>>

\* loop() has returned: under mutex_, loop_ is cleared ...
ClearLoop ==
    /\ threadPc = "loop" /\ loopPc = "done"
    /\ threadPc' = "unlock"
    /\ loop_' = FALSE
    /\ UNCHANGED <<vars, ownerPc, foundPc, histVars>>

\* ... then the mutex is released and the loop destroyed.
EndThread ==
    /\ threadPc = "unlock"
    /\ threadPc' = "ended"
    /\ UNCHANGED <<vars, loop_, ownerPc, foundPc, histVars>>

-----------------------------------------------------------------------------
OwnerStep == Started \/ TestLoop \/ FindLoop \/ QuitLoop \/ Join
ThreadStep == Post \/ Publish \/ ClearLoop \/ EndThread

ThreadNext ==
    \/ StartLoop \/ SpuriousWakeup \/ Destroy \/ OwnerStep
    \/ ThreadStep
    \/ RunLoop(LoopThread)
    \/ \E t \in Thread : UseLoop(t)

ThreadSafetySpec == ThreadInit /\ [][ThreadNext]_allVars

\* Threads are scheduled, callbacks return, and epoll_wait times out.  Nobody
\* has to destroy the object or to stop the loop, and cond_ wakes nobody
\* without reason.
ThreadFairness ==
    /\ WF_allVars(OwnerStep) /\ WF_allVars(ThreadStep)
    /\ WF_allVars(RunLoop(EnterLoop \/ LoopStep))
    /\ WF_allVars(RunLoop(PollTimeout))

ThreadSpec == ThreadSafetySpec /\ ThreadFairness

-----------------------------------------------------------------------------
(* Properties.                                                             *)

\* The destructor calls quit() on a loop that is gone only if the application
\* stopped the loop itself, and the thread left it while the destructor ran:
\* a thread that ended before is never found running.
QuitsLiveLoop == ownerPc = "lost" => asked /\ foundPc = "loop"

\* The object is not destroyed under its thread: when the destructor is done
\* the thread has ended or never began.  If the application stopped the loop
\* itself, the thread may still be about to release mutex_, which is gone.
DestroyedIsDone ==
    ownerPc = "deleted" =>
        threadPc \in {"none", "ended"} \/ (asked /\ threadPc = "unlock")

\* The two and what makes them inductive: loop_ is set exactly while the
\* thread is in loop(), which only an application's quit() or the destructor's
\* ends, and the destructor finds the thread not before Publish, if at all.
LoopPointer == loop_ <=> threadPc = "loop"
LoopProgress ==
    /\ threadPc \in {"none", "begin", "callback"} => loopPc # "done"
    /\ threadPc \in {"unlock", "ended"} => loopPc = "done"
    /\ quit_ \/ loopPc = "done" => asked \/ ownerPc \in {"joining", "deleted"}
OwnerProgress ==
    /\ ownerPc = "new" => threadPc = "none"
    /\ ownerPc \in {"starting", "testing", "waiting"} => threadPc # "none"
    /\ threadPc \in {"begin", "callback"} => ownerPc \in {"starting", "testing", "waiting"}
    /\ ownerPc = "deleting" /\ threadPc = "loop" => foundPc = "loop"
    /\ ownerPc = "quitting" => foundPc = "loop" /\ threadPc # "none"
    /\ ownerPc \in {"using", "joining"} => threadPc # "none"
ThreadInv ==
    ThreadTypeOK /\ LoopPointer /\ LoopProgress /\ OwnerProgress
        /\ QuitsLiveLoop /\ DestroyedIsDone

\* startLoop() returns, unless the thread has left loop() before the owner
\* looked: loop_ is null again then, and nobody will notify.
LoopStarts ==
    (ownerPc = "starting") ~> (ownerPc = "using" \/ threadPc \in {"unlock", "ended"})

\* The destructor returns, although quit() wakes nobody and races with the
\* loop's end, unless its quit() came before loop() had begun and was undone.
DestructorReturns ==
    (ownerPc = "deleting") ~> (ownerPc \in {"deleted", "lost"} \/ forgotten)
=============================================================================
