--------------------------- MODULE ThreadPoolProofs ---------------------------
(***************************************************************************)
(* Proofs about ThreadPool, for every number of workers and set of tasks.  *)
(***************************************************************************)
EXTENDS ThreadPool, SequenceTheorems, TLAPS

(***************************************************************************)
(* The queue.                                                              *)
(***************************************************************************)
LEMMA ContainsNothing == \A t : ~Contains(<<>>, t)
  BY DEF Contains

LEMMA ContainsAppend ==
    ASSUME NEW S, NEW s \in Seq(S), NEW x \in S, NEW t
    PROVE  Contains(Append(s, x), t) <=> Contains(s, t) \/ x = t
<1>1. Len(Append(s, x)) = Len(s) + 1 /\ Len(s) \in Nat
  OBVIOUS
<1>2. \A i \in 1 .. Len(s) : Append(s, x)[i] = s[i]
  OBVIOUS
<1>3. Append(s, x)[Len(s) + 1] = x
  OBVIOUS
<1>4. ASSUME Contains(Append(s, x), t) PROVE Contains(s, t) \/ x = t
  <2>1. PICK i \in 1 .. Len(s) + 1 : Append(s, x)[i] = t
    BY <1>1, <1>4 DEF Contains
  <2>2. CASE i = Len(s) + 1
    BY <1>3, <2>1, <2>2
  <2>3. CASE i \in 1 .. Len(s)
    BY <1>2, <2>1, <2>3 DEF Contains
  <2>. QED
    BY <1>1, <2>2, <2>3
<1>5. ASSUME Contains(s, t) PROVE Contains(Append(s, x), t)
  <2>1. PICK i \in 1 .. Len(s) : s[i] = t
    BY <1>5 DEF Contains
  <2>2. Append(s, x)[i] = t /\ i \in 1 .. Len(Append(s, x))
    BY <1>1, <1>2, <2>1
  <2>. QED
    BY <2>2 DEF Contains
<1>6. ASSUME x = t PROVE Contains(Append(s, x), t)
  BY <1>1, <1>3, <1>6 DEF Contains
<1>. QED
  BY <1>4, <1>5, <1>6

LEMMA ContainsHead ==
    ASSUME NEW S, NEW s \in Seq(S), s # <<>>, NEW t
    PROVE  Contains(s, t) <=> Head(s) = t \/ Contains(Tail(s), t)
<1>1. Len(s) \in Nat /\ Len(s) > 0 /\ Len(Tail(s)) = Len(s) - 1
  BY EmptySeq
<1>2. Head(s) = s[1]
  OBVIOUS
<1>3. \A i \in 1 .. Len(s) - 1 : Tail(s)[i] = s[i + 1]
  BY <1>1
<1>4. ASSUME Contains(s, t) PROVE Head(s) = t \/ Contains(Tail(s), t)
  <2>1. PICK i \in 1 .. Len(s) : s[i] = t
    BY <1>4 DEF Contains
  <2>2. CASE i = 1
    BY <1>2, <2>1, <2>2
  <2>3. CASE i # 1
    <3>1. i - 1 \in 1 .. Len(s) - 1 /\ (i - 1) + 1 = i
      BY <1>1, <2>3
    <3>2. Tail(s)[i - 1] = t
      BY <1>3, <2>1, <3>1
    <3>. QED
      BY <1>1, <3>1, <3>2 DEF Contains
  <2>. QED
    BY <2>2, <2>3
<1>5. ASSUME Head(s) = t PROVE Contains(s, t)
  BY <1>1, <1>2, <1>5 DEF Contains
<1>6. ASSUME Contains(Tail(s), t) PROVE Contains(s, t)
  <2>1. PICK i \in 1 .. Len(s) - 1 : Tail(s)[i] = t
    BY <1>1, <1>6 DEF Contains
  <2>2. s[i + 1] = t /\ i + 1 \in 1 .. Len(s)
    BY <1>1, <1>3, <2>1
  <2>. QED
    BY <2>2 DEF Contains
<1>. QED
  BY <1>4, <1>5, <1>6

(***************************************************************************)
(* The inductive invariant.                                                *)
(***************************************************************************)
LEMMA PoolInvInit == Init => PoolInv
<1> SUFFICES ASSUME Init PROVE PoolInv
  OBVIOUS
<1>1. TypeOK
  <2>1. threadSize_ \in 0 .. MaxThreads /\ threads_ \in 0 .. threadSize_
    BY PoolAssumption DEF Init
  <2>2. <<>> \in Seq(Task) /\ pc \in [Worker -> {"none"}] /\ task \in [Worker -> {None}]
    BY DEF Init
  <2>. QED
    BY <2>1, <2>2 DEF Init, TypeOK
<1>2. TasksKept /\ LeftEmpty
  BY ContainsNothing DEF Init, TasksKept, LeftEmpty
<1>3. WorkersStarted
  BY PoolAssumption DEF Init, WorkersStarted, Worker
<1>4. OwnerProgress
  BY DEF Init, OwnerProgress
<1>. QED
  BY <1>1, <1>2, <1>3, <1>4 DEF PoolInv

\* Nobody waits, so a notification changes nothing.
LEMMA NobodyIsWoken ==
    ASSUME PoolInv
    PROVE  WokenAll = pc /\ \A p : WokenOne(p) => p = pc
<1>1. WokenAll = [w \in Worker |-> pc[w]]
  BY DEF WokenAll, PoolInv, WorkersStarted
<1>. QED
  BY <1>1 DEF WokenOne, PoolInv, WorkersStarted, TypeOK

LEMMA PoolInvStep == PoolInv /\ [Next]_vars => PoolInv'
<1> SUFFICES ASSUME PoolInv, [Next]_vars PROVE PoolInv'
  OBVIOUS
<1> USE PoolAssumption DEF PoolInv, TypeOK, WorkersStarted, OwnerProgress, Worker, Alive,
                           poolVars, history
<1>1. CASE Start
  <2>1. \A w \in Worker : pc[w] = "none"
    BY <1>1 DEF Start
  <2>2. LeftEmpty' /\ TasksKept'
    BY <1>1, <2>1 DEF Start, TasksKept, LeftEmpty
  <2>. QED
    BY <1>1, <2>1, <2>2 DEF Start
<1>2. CASE StartThread
  <2>1. threads_ + 1 \in Worker /\ pc[threads_ + 1] = "none"
    BY <1>2 DEF StartThread
  <2>2. TypeOK'
    BY <1>2, <2>1 DEF StartThread
  <2>3. LeftEmpty' /\ TasksKept'
    BY <1>2, <2>1 DEF StartThread, TasksKept, LeftEmpty
  <2>4. WorkersStarted'
    BY <1>2, <2>1 DEF StartThread
  <2>. QED
    BY <1>2, <2>2, <2>3, <2>4 DEF StartThread
<1>3. CASE StartReturns
  BY <1>3 DEF StartReturns, TasksKept, LeftEmpty
<1>4. CASE Stop
  BY <1>4, NobodyIsWoken DEF Stop, TasksKept, LeftEmpty
<1>5. CASE Destroy
  BY <1>5, NobodyIsWoken DEF Destroy, TasksKept, LeftEmpty
<1>6. CASE Joined
  BY <1>6 DEF Joined, TasksKept, LeftEmpty
<1>7. ASSUME NEW t \in Task, Add(t) PROVE PoolInv'
  <2>1. pc' = pc
    BY <1>7, NobodyIsWoken DEF Add
  <2>2. \A u : Contains(queue_', u) <=> Contains(queue_, u) \/ t = u
    BY <1>7, ContainsAppend DEF Add
  <2>3. TasksKept'
    BY <1>7, <2>2 DEF Add, TasksKept
  <2>. QED
    BY <1>7, <2>1, <2>3 DEF Add, LeftEmpty
<1>8. ASSUME NEW w \in Worker, Post(w) PROVE PoolInv'
  BY <1>8 DEF Post, TasksKept, LeftEmpty
<1>9. ASSUME NEW w \in Worker, InitCallback(w) PROVE PoolInv'
  <2>1. CASE Throw(w)
    BY <1>9, <2>1 DEF InitCallback, Throw, TasksKept, LeftEmpty
  <2>2. CASE pc' = [pc EXCEPT ![w] = "lock"] /\ UNCHANGED failed
    BY <1>9, <2>2 DEF InitCallback, TasksKept, LeftEmpty
  <2>. QED
    BY <1>9, <2>1, <2>2 DEF InitCallback
\* A worker takes the oldest task, or finds the queue empty: then every task
\* that was given has been taken.
<1>10. ASSUME NEW w \in Worker, Take(w) PROVE PoolInv'
  <2>1. CASE queue_ = <<>>
    <3>1. \A t \in added : Contains(done, t)
      BY <2>1, ContainsNothing DEF TasksKept
    <3>. QED
      BY <1>10, <2>1, <3>1 DEF Take, Leave, TasksKept, LeftEmpty
  <2>2. CASE queue_ # <<>>
    <3>1. Begin(w, Head(queue_), Tail(queue_))
      BY <1>10, <2>2 DEF Take
    <3>2. Head(queue_) \in Task /\ Tail(queue_) \in Seq(Task)
      BY <2>2, HeadTailProperties
    <3>3. \A u : Contains(done', u) <=> Contains(done, u) \/ Head(queue_) = u
      BY <3>1, <3>2, ContainsAppend DEF Begin
    <3>4. \A u : Contains(queue_, u) <=> Head(queue_) = u \/ Contains(queue_', u)
      BY <2>2, <3>1, ContainsHead DEF Begin
    <3>5. TasksKept'
      BY <1>10, <3>3, <3>4 DEF Take, TasksKept
    <3>6. LeftEmpty'
      BY <1>10, <3>1, <3>3 DEF Take, Begin, LeftEmpty
    <3>. QED
      BY <1>10, <3>1, <3>2, <3>5, <3>6 DEF Take, Begin
  <2>. QED
    BY <2>1, <2>2
<1>11. ASSUME NEW w \in Worker, Run(w) PROVE PoolInv'
  <2>1. CASE Throw(w)
    BY <1>11, <2>1 DEF Run, Throw, TasksKept, LeftEmpty
  <2>2. CASE pc' = [pc EXCEPT ![w] = "lock"] /\ UNCHANGED failed
    BY <1>11, <2>2 DEF Run, TasksKept, LeftEmpty
  <2>. QED
    BY <1>11, <2>1, <2>2 DEF Run
<1>12. CASE UNCHANGED vars
  BY <1>12 DEF vars, TasksKept, LeftEmpty
<1>. QED
  BY <1>1, <1>2, <1>3, <1>4, <1>5, <1>6, <1>7, <1>8, <1>9, <1>10, <1>11, <1>12 DEF Next

\* A worker leaves only a queue that holds no early task, and as many workers are
\* joined as were started.
THEOREM PoolInvariant == Spec => []PoolInv
  BY PoolInvInit, PoolInvStep, PTL DEF Spec

\* Types of the pool's state, for every number of workers.
THEOREM TypeCorrect == Spec => []TypeOK
<1>1. PoolInv => TypeOK
  BY DEF PoolInv
<1>. QED
  BY <1>1, PoolInvariant, PTL

\* When ~ThreadPool returns every worker has ended, and every task given before
\* start() is done, unless there is no worker or exceptions ended them all.
LEMMA JoinedIsDone == PoolInv => DestroyedPoolIsDone
<1> SUFFICES ASSUME PoolInv, owner = "gone"
             PROVE  /\ \A w \in Worker : ~Alive(w)
                    /\ threadSize_ > 0 /\ failed # 1 .. threadSize_
                         => \A t \in early : Contains(done, t)
  BY DEF DestroyedPoolIsDone
<1>1. \A w \in Worker : ~Alive(w)
  BY DEF PoolInv, OwnerProgress
<1>2. CASE early = {}
  BY <1>1, <1>2
<1>3. CASE threads_ = threadSize_
  <2>1. \A w \in 1 .. threadSize_ : w \in Worker /\ pc[w] = "ended"
    BY <1>1, <1>3, PoolAssumption DEF PoolInv, TypeOK, WorkersStarted, Worker, Alive
  <2>2. failed \subseteq 1 .. threadSize_
    BY <1>3, PoolAssumption DEF PoolInv, TypeOK, WorkersStarted, Worker
  <2>. QED
    BY <1>1, <2>1, <2>2 DEF PoolInv, LeftEmpty
<1>. QED
  BY <1>2, <1>3 DEF PoolInv, OwnerProgress

\* The destructor cuts nothing off, however many workers and tasks there are.
THEOREM PoolIsDone == Spec => []DestroyedPoolIsDone
  BY PoolInvariant, JoinedIsDone, PTL

(***************************************************************************)
(* Implementation of the FIFO queue.                                       *)
(***************************************************************************)
LEMMA TasksInit == Init => Tasks!Init
  BY DEF Init, Tasks!Init

LEMMA TasksStep == PoolInv /\ [Next]_vars => [Tasks!Next]_(Tasks!vars)
<1> SUFFICES ASSUME PoolInv, [Next]_vars PROVE [Tasks!Next]_(Tasks!vars)
  OBVIOUS
<1> USE DEF Tasks!Next, Tasks!vars, poolVars, history
\* A task that was not given before is neither queued nor taken.
<1>1. ASSUME NEW t \in Task, Add(t) PROVE Tasks!Next
  <2>1. ~Contains(done, t) /\ ~Contains(queue_, t)
    BY <1>1 DEF Add, PoolInv, TasksKept
  <2>2. done \in Seq(Task) /\ queue_ \in Seq(Task)
    BY DEF PoolInv, TypeOK
  <2>3. ASSUME NEW i \in DOMAIN (done \o queue_), (done \o queue_)[i] = t PROVE FALSE
    <3>1. i \in 1 .. Len(done) + Len(queue_)
      BY <2>2, <2>3
    <3>2. CASE i \in 1 .. Len(done)
      BY <2>1, <2>2, <2>3, <3>2 DEF Contains
    <3>3. CASE i \notin 1 .. Len(done)
      <4>1. i - Len(done) \in 1 .. Len(queue_) /\ queue_[i - Len(done)] = t
        BY <2>2, <2>3, <3>1, <3>3
      <4>. QED
        BY <2>1, <4>1 DEF Contains
    <3>. QED
      BY <3>2, <3>3
  <2>4. Tasks!Enqueue(t)
    BY <1>1, <2>3 DEF Add, Tasks!Enqueue, Tasks!Range
  <2>. QED
    BY <2>4
<1>2. ASSUME NEW w \in Worker, Take(w) PROVE [Tasks!Next]_(Tasks!vars)
  BY <1>2 DEF Take, Leave, Begin, Tasks!Execute
<1>3. ASSUME NEW w \in Worker, Post(w) \/ InitCallback(w) \/ Run(w)
      PROVE  UNCHANGED Tasks!vars
  BY <1>3 DEF Post, InitCallback, Run, Throw
<1>4. ASSUME \/ Start \/ StartThread \/ StartReturns \/ Stop \/ Destroy \/ Joined
             \/ UNCHANGED vars
      PROVE  UNCHANGED Tasks!vars
  BY <1>4 DEF Start, StartThread, StartReturns, Stop, Destroy, Joined, vars
<1>. QED
  BY <1>1, <1>2, <1>3, <1>4 DEF Next

\* The workers together implement the FIFO queue, whoever adds tasks and however
\* workers end.
THEOREM TasksRunInOrder == Spec => TasksInOrder
  BY PoolInvariant, TasksInit, TasksStep, PTL DEF Spec, TasksInOrder, Tasks!Spec
=============================================================================
