------------------------------- MODULE ThreadPool -------------------------------
(***************************************************************************)
(* ThreadPool and the Thread objects it starts.  One thread, the owner,    *)
(* makes, starts and destroys the pool; any thread adds tasks, the pool's  *)
(* own included.                                                           *)
(*                                                                         *)
(* Nothing in the code sets running_ to true: start() leaves it false.  A  *)
(* worker that finds the queue empty therefore ends, and no worker ever    *)
(* waits on cond_; the wait and its notifications are here all the same.   *)
(***************************************************************************)
EXTENDS Naturals, SequencesExt

CONSTANTS
    MaxThreads,         \* bound on setThreadSize()
    Task,               \* the tasks ever added
    Throws,             \* those that end with an exception
    None                \* no task

ASSUME PoolAssumption ==
    /\ MaxThreads \in Nat
    /\ Throws \subseteq Task
    /\ None \notin Task

VARIABLES
    running_, threadSize_,
    queue_,             \* guarded by mutex_
    threads_,           \* how many of threads_ exist
    owner,              \* where the owner is: in start(), in ~ThreadPool(), or in neither
    pc,                 \* where each worker is
    task,               \* the task each worker runs
    added,              \* history: tasks given to add()
    early,              \* history: those among them given before start()
    done,               \* history: tasks taken from the queue, in this order
    failed              \* history: workers ended by an exception

poolVars == <<running_, threadSize_, threads_, owner>>
history == <<added, early, failed>>
vars == <<poolVars, queue_, pc, task, done, history>>

Worker == 1 .. MaxThreads
Alive(w) == pc[w] \notin {"none", "ended"}

TypeOK ==
    /\ running_ \in BOOLEAN
    /\ threadSize_ \in 0 .. MaxThreads /\ threads_ \in 0 .. threadSize_
    /\ queue_ \in Seq(Task) /\ done \in Seq(Task)
    /\ owner \in {"new", "start", "sem", "idle", "join", "gone"}
    /\ pc \in [Worker -> {"none", "created", "init", "lock", "waiting", "run", "ended"}]
    /\ task \in [Worker -> Task \union {None}]
    /\ early \subseteq added /\ added \subseteq Task
    /\ failed \subseteq {w \in Worker : pc[w] = "ended"}

\* The constructor leaves threadSize_ uninitialized; setThreadSize() is part of it here.
Init ==
    /\ running_ = FALSE
    /\ threadSize_ \in 0 .. MaxThreads
    /\ threads_ = 0
    /\ queue_ = <<>>
    /\ owner = "new"
    /\ pc = [w \in Worker |-> "none"]
    /\ task = [w \in Worker |-> None]
    /\ added = {} /\ early = {} /\ done = <<>> /\ failed = {}

-----------------------------------------------------------------------------
(* The owner.                                                              *)

Start ==
    /\ owner = "new"
    /\ running_' = FALSE
    /\ owner' = "start"
    /\ early' = added
    /\ UNCHANGED <<threadSize_, threads_, queue_, pc, task, added, done, failed>>

\* Thread::start() makes a thread and waits for it to post sem.
StartThread ==
    /\ owner = "start" /\ threads_ < threadSize_
    /\ threads_' = threads_ + 1
    /\ pc' = [pc EXCEPT ![threads_ + 1] = "created"]
    /\ owner' = "sem"
    /\ UNCHANGED <<running_, threadSize_, queue_, task, done, history>>

\* With no thread, threadInitCallback_ runs here, in the owner.
StartReturns ==
    /\ owner = "start" /\ threads_ = threadSize_
    /\ owner' = "idle"
    /\ UNCHANGED <<running_, threadSize_, threads_, queue_, pc, task, done, history>>

\* notify_all
WokenAll == [w \in Worker |-> IF pc[w] = "waiting" THEN "lock" ELSE pc[w]]
Stop ==
    /\ owner \in {"new", "idle"}
    /\ running_' = FALSE
    /\ pc' = WokenAll
    /\ UNCHANGED <<threadSize_, threads_, owner, queue_, task, done, history>>

\* ~ThreadPool: stop(), then a join() of each thread.
Destroy ==
    /\ owner \in {"new", "idle"}
    /\ running_' = FALSE
    /\ pc' = WokenAll
    /\ owner' = "join"
    /\ UNCHANGED <<threadSize_, threads_, queue_, task, done, history>>

JoinedFirst ==                      \* a faulty variant: one join() only
    /\ owner = "join"
    /\ threads_ > 0 => ~Alive(1)
    /\ owner' = "gone"
    /\ UNCHANGED <<running_, threadSize_, threads_, queue_, pc, task, done, history>>

\* The order of the joins does not matter: the last one returns when all ended.
Joined ==
    /\ owner = "join"
    /\ \A w \in 1 .. threads_ : ~Alive(w)
    /\ owner' = "gone"
    /\ UNCHANGED <<running_, threadSize_, threads_, queue_, pc, task, done, history>>

-----------------------------------------------------------------------------
(* Any thread.  Once the owner destroys the pool only its own tasks still  *)
(* can add one.                                                            *)

\* notify_one: of the waiting workers, one goes on.
WokenOne(p) ==
    IF \E w \in Worker : pc[w] = "waiting"
      THEN \E w \in Worker : pc[w] = "waiting" /\ p = [pc EXCEPT ![w] = "lock"]
      ELSE p = pc

Add(t) ==
    /\ t \notin added
    /\ owner \notin {"join", "gone"} \/ \E w \in Worker : pc[w] = "run"
    /\ added' = added \union {t}
    /\ queue_' = Append(queue_, t)
    /\ WokenOne(pc')
    /\ UNCHANGED <<poolVars, task, done, early, failed>>

-----------------------------------------------------------------------------
(* The workers: Thread's lambda around runInThread.                        *)

Post(w) ==
    /\ pc[w] = "created"
    /\ pc' = [pc EXCEPT ![w] = "init"]
    /\ owner' = "start"
    /\ UNCHANGED <<running_, threadSize_, threads_, queue_, task, done, history>>

\* The catch block is around the loop: an exception ends the worker.
Throw(w) ==
    /\ pc' = [pc EXCEPT ![w] = "ended"]
    /\ failed' = failed \union {w}

InitCallback(w) ==
    /\ pc[w] = "init"
    /\ \/ pc' = [pc EXCEPT ![w] = "lock"] /\ UNCHANGED failed
       \/ Throw(w)
    /\ UNCHANGED <<poolVars, queue_, task, done, added, early>>

\* Worker w takes t and leaves rest in the queue.
Begin(w, t, rest) ==
    /\ queue_' = rest
    /\ done' = Append(done, t)
    /\ task' = [task EXCEPT ![w] = t]
    /\ pc' = [pc EXCEPT ![w] = "run"]

\* Worker w finds the queue empty.
Leave(w) ==
    /\ pc' = [pc EXCEPT ![w] = IF running_ THEN "waiting" ELSE "ended"]
    /\ UNCHANGED <<queue_, task, done>>

\* Faulty variants.
TestRunningFirst(w) ==              \* running_ is tested before the queue
    /\ pc[w] = "lock"
    /\ IF queue_ = <<>> \/ ~running_ THEN Leave(w) ELSE Begin(w, Head(queue_), Tail(queue_))
    /\ UNCHANGED <<poolVars, history>>
TakeLast(w) ==
    /\ pc[w] = "lock"
    /\ IF queue_ = <<>> THEN Leave(w) ELSE Begin(w, Last(queue_), Front(queue_))
    /\ UNCHANGED <<poolVars, history>>
WaitAnyway(w) ==                    \* running_ is not tested
    /\ pc[w] = "lock"
    /\ IF queue_ = <<>>
         THEN pc' = [pc EXCEPT ![w] = "waiting"] /\ UNCHANGED <<queue_, task, done>>
         ELSE Begin(w, Head(queue_), Tail(queue_))
    /\ UNCHANGED <<poolVars, history>>

Take(w) ==
    /\ pc[w] = "lock"
    /\ IF queue_ = <<>> THEN Leave(w) ELSE Begin(w, Head(queue_), Tail(queue_))
    /\ UNCHANGED <<poolVars, history>>

\* A task that is a null function is one that returns at once.
Run(w) ==
    /\ pc[w] = "run"
    /\ IF task[w] \in Throws
         THEN Throw(w)
         ELSE pc' = [pc EXCEPT ![w] = "lock"] /\ UNCHANGED failed
    /\ UNCHANGED <<poolVars, queue_, task, done, added, early>>

-----------------------------------------------------------------------------
OwnerStep == StartThread \/ StartReturns \/ Joined
WorkerStep(w) == Post(w) \/ InitCallback(w) \/ Take(w) \/ Run(w)

Next ==
    \/ Start \/ StartThread \/ StartReturns \/ Stop \/ Destroy \/ Joined
    \/ \E t \in Task : Add(t)
    \/ \E w \in Worker : Post(w) \/ InitCallback(w) \/ Take(w) \/ Run(w)

\* Every thread is scheduled, and tasks and the init callback return or throw.
Spec ==
    /\ Init /\ [][Next]_vars
    /\ WF_vars(OwnerStep) /\ \A w \in Worker : WF_vars(WorkerStep(w))

-----------------------------------------------------------------------------
(* Properties.                                                             *)

\* The workers together are a FIFO queue of tasks: none is taken twice, lost
\* between two workers or overtaken, whoever adds and however workers end.
Tasks == INSTANCE FunctorQueue WITH Functor <- Task, queue <- queue_, executed <- done
TasksInOrder == Tasks!Spec

\* Tasks given before start() are taken, although running_ is false, unless
\* every worker has been ended by an exception: a worker does not leave the
\* queue to others who may have ended before it.
EarlyTasksRun ==
    \A t \in Task :
        (t \in early /\ threadSize_ > 0)
            ~> (Contains(done, t) \/ failed = 1 .. threadSize_)

\* When ~ThreadPool returns no thread uses the pool, each task that was taken has
\* ended, and what was given before start() is done: the destructor cuts nothing
\* off, unless exceptions ended every worker.
DestroyedPoolIsDone ==
    owner = "gone" =>
        /\ \A w \in Worker : ~Alive(w)
        /\ threadSize_ > 0 /\ failed # 1 .. threadSize_ => \A t \in early : Contains(done, t)

\* The inductive invariant behind it.  A worker leaves, other than by an
\* exception, only when it has seen the queue empty, and then all that was given
\* before start() has been taken; and ~ThreadPool joins as many threads as start()
\* has made, all of them or none.
TasksKept == added = {t \in Task : Contains(done, t) \/ Contains(queue_, t)}
LeftEmpty ==
    \A w \in Worker : pc[w] = "ended" /\ w \notin failed => \A t \in early : Contains(done, t)
WorkersStarted ==
    /\ \A w \in Worker : pc[w] = "none" <=> w > threads_
    /\ \A w \in Worker : pc[w] = "created" => owner = "sem" /\ w = threads_
    /\ ~running_ /\ \A w \in Worker : pc[w] # "waiting"
OwnerProgress ==
    /\ owner = "new" => threads_ = 0 /\ early = {}
    /\ owner = "idle" => threads_ = threadSize_
    /\ owner \in {"join", "gone"} => threads_ = threadSize_ \/ early = {}
    /\ owner = "gone" => \A w \in Worker : ~Alive(w)
PoolInv == TypeOK /\ TasksKept /\ LeftEmpty /\ WorkersStarted /\ OwnerProgress

\* start() and ~ThreadPool return, whatever the workers do.
PoolEnds == owner \in {"start", "sem", "join"} ~> owner \in {"idle", "gone"}
=============================================================================
