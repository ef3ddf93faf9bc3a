------------------------------- MODULE TcpServer -------------------------------
(***************************************************************************)
(* A TcpServer: its Acceptor and its connections_ in the base loop, its    *)
(* thread pool of IO loops, and the life of every connection across them,  *)
(* from accept() to the last shared_ptr.  What happens on a connection     *)
(* while it lives is module TcpConnection.                                 *)
(*                                                                         *)
(* A loop polls, handles the active channels one by one, then runs the     *)
(* functors queued until then; that it wakes up for a queued functor is    *)
(* shown of module EventLoop.  Connections are numbered as nextConnId_     *)
(* numbers them.  The server is destroyed by the base loop's thread, while *)
(* that is in no callback of the loop.                                     *)
(***************************************************************************)
EXTENDS Integers, FiniteSets, Sequences

CONSTANTS
    Base,               \* loop_, and its thread
    Threads,            \* the IO loops the pool may start, a sequence
    Starter,            \* the application's threads that call start()
    MaxFds,             \* sockets the process may have open, for connections
    User,               \* threads that call send() or shutdown() on connections of
                        \* loops that are not theirs
    MaxInputs           \* bound on the clients and the calls of User together

Loop == {Base} \union {Threads[i] : i \in DOMAIN Threads}

ASSUME ServerAssumption ==
    /\ Threads \in Seq(Loop) /\ \A i \in DOMAIN Threads : Threads[i] # Base
    /\ MaxInputs \in Nat /\ MaxFds \in Nat \ {0}

Conn == 1 .. MaxInputs
Acceptor == 0           \* its channel

VARIABLES
    server,             \* "up", "dying" (in ~TcpServer) or "gone"
    started_, pc,       \* start() has been called, and where each thread is in it
    listening,          \* the acceptor's channel is registered
    numThreads_,        \* of threadPool_, with the next two
    loops_, next_,
    backlog,            \* clients not accepted yet
    nextConnId_,
    connections_,
    conn,               \* per connection: its loop, state, channel and history
    closed,             \* connections whose client closed
    caller,             \* where each thread of User is in a call, and on which connection
    calls,              \* history: their calls so far
    at,                 \* per loop: "poll", "events" or "functors"
    active,             \* activeChannels_ still unhandled, per loop
    queue,              \* pendingFunctors_, per loop
    batch, ran,         \* doPendingFunctors' vector, and how many of it ran
    deadCall            \* a member of the destroyed server, or of a freed connection,
                        \* was called

connVars == <<connections_, conn>>
startVars == <<started_, pc, numThreads_, loops_>>
acceptVars == <<next_, backlog, nextConnId_>>
outerVars == <<closed, caller, calls>>
loopVars == <<at, active, batch, ran>>
vars == <<server, startVars, listening, acceptVars, connVars, outerVars, loopVars, queue,
          deadCall>>

Functor == [op : {"listen"}, c : {Acceptor}]
              \union [op : {"established", "remove", "destroyed"}, c : Conn]
              \union [op : {"send", "shutdown"}, c : Conn]
F(op, c) == [op |-> op, c |-> c]

State == {"none", "connecting", "connected", "disconnecting", "disconnected"}
Connection == [loop : Loop, state : State, registered : BOOLEAN, readded : BOOLEAN,
               ups : Nat, downs : Nat, removed : Nat]

\* Nowhere in a call; in send() or shutdown(), after the test of state_; in
\* shutdown(), after the assignment.
Idle == [op |-> "idle", c |-> Acceptor]
In(op, c) == [op |-> op, c |-> c]
Call == {Idle} \union [op : {"send", "setState", "shutdown"}, c : Conn]

TypeOK ==
    /\ server \in {"up", "dying", "gone"}
    /\ started_ \in BOOLEAN
    /\ pc \in [Starter -> {"idle", "pool", "listen"}]
    /\ listening \in BOOLEAN
    /\ numThreads_ \in 0 .. Len(Threads)
    /\ loops_ \in Seq(Loop)
    /\ next_ \in Nat /\ (next_ = 0 \/ next_ < Len(loops_))
    /\ backlog \in 0 .. MaxInputs
    /\ nextConnId_ \in 1 .. MaxInputs + 1
    /\ connections_ \subseteq 1 .. nextConnId_ - 1
    /\ conn \in [Conn -> Connection]
    /\ closed \subseteq 1 .. nextConnId_ - 1
    /\ caller \in [User -> Call]
    /\ calls \in Nat
    /\ at \in [Loop -> {"poll", "events", "functors"}]
    /\ active \in [Loop -> SUBSET (Conn \union {Acceptor})]
    /\ queue \in [Loop -> Seq(Functor)]
    /\ batch \in [Loop -> Seq(Functor)]
    /\ ran \in [Loop -> Nat] /\ \A l \in Loop : ran[l] <= Len(batch[l])
    /\ deadCall \in BOOLEAN

Init ==
    /\ server = "up" /\ started_ = FALSE /\ pc = [t \in Starter |-> "idle"]
    /\ listening = FALSE
    /\ numThreads_ = 0 /\ loops_ = <<>> /\ next_ = 0
    /\ backlog = 0 /\ nextConnId_ = 1 /\ connections_ = {}
    /\ conn = [c \in Conn |-> [loop |-> Base, state |-> "none", registered |-> FALSE,
                               readded |-> FALSE, ups |-> 0, downs |-> 0,
                               removed |-> 0]]
    /\ closed = {} /\ caller = [u \in User |-> Idle] /\ calls = 0
    /\ at = [l \in Loop |-> "poll"] /\ active = [l \in Loop |-> {}]
    /\ queue = [l \in Loop |-> <<>>]
    /\ batch = [l \in Loop |-> <<>>] /\ ran = [l \in Loop |-> 0]
    /\ deadCall = FALSE

-----------------------------------------------------------------------------
(* shared_ptrs: in connections_; bound in functors, which the vector of a  *)
(* batch keeps until all of it has run (send() and shutdown() bind a raw   *)
(* this); and of a user during its call.                                   *)

Binds(functors, c) ==
    \E i \in DOMAIN functors :
        functors[i].c = c /\ functors[i].op \notin {"send", "shutdown"}
Held(c) ==
    \/ c \in connections_
    \/ \E l \in Loop : Binds(queue[l], c) \/ Binds(batch[l], c)
    \/ \E u \in User : caller[u].c = c
Freed(c) == conn[c].state # "none" /\ ~Held(c)
OpenFds == Cardinality({c \in Conn : conn[c].state # "none" /\ Held(c)})

\* What connectionEstablished, handleClose and connectDestroyed do to the
\* connection r.
Established(r) == [r EXCEPT !.state = "connected", !.registered = TRUE, !.ups = @ + 1]
Down(r) == [r EXCEPT !.state = "disconnected", !.registered = FALSE, !.downs = @ + 1]
Destroyed(r) ==
    LET d == IF r.state = "connected" THEN Down(r) ELSE r
    IN  [d EXCEPT !.registered = FALSE, !.removed = @ + 1]

Push(q, l, f) == [q EXCEPT ![l] = Append(@, f)]

-----------------------------------------------------------------------------
(* start(), by several threads.  Of the counter started_ it tests whether it *)
(* was 0.                                                                  *)

Free(t) == t = Base => at[Base] = "poll" /\ server = "up"

SetThreadNum(n) ==
    /\ server = "up" /\ ~started_
    /\ numThreads_' = n
    /\ UNCHANGED <<server, started_, pc, loops_, listening, acceptVars, connVars, outerVars,
                   loopVars, queue, deadCall>>

StartTwice(t) ==                \* a faulty variant: every call starts the pool
    /\ server = "up" /\ pc[t] = "idle" /\ Free(t)
    /\ started_' = TRUE
    /\ pc' = [pc EXCEPT ![t] = "pool"]
    /\ UNCHANGED <<server, numThreads_, loops_, listening, acceptVars, connVars, outerVars,
                   loopVars, queue, deadCall>>

Start(t) ==
    /\ server = "up" /\ pc[t] = "idle" /\ Free(t)
    /\ started_' = TRUE
    /\ pc' = [pc EXCEPT ![t] = IF started_ THEN "idle" ELSE "pool"]
    /\ UNCHANGED <<server, numThreads_, loops_, listening, acceptVars, connVars, outerVars,
                   loopVars, queue, deadCall>>

StartPool(t) ==
    /\ pc[t] = "pool"
    /\ loops_' = loops_ \o SubSeq(Threads, 1, numThreads_)
    /\ pc' = [pc EXCEPT ![t] = "listen"]
    /\ UNCHANGED <<server, started_, numThreads_, listening, acceptVars, connVars, outerVars,
                   loopVars, queue, deadCall>>

StartListening(t) ==
    /\ pc[t] = "listen"
    /\ pc' = [pc EXCEPT ![t] = "idle"]
    /\ IF t = Base THEN listening' = TRUE /\ UNCHANGED queue
       ELSE queue' = Push(queue, Base, F("listen", Acceptor)) /\ UNCHANGED listening
    /\ UNCHANGED <<server, started_, numThreads_, loops_, acceptVars, connVars, outerVars,
                   loopVars, deadCall>>

-----------------------------------------------------------------------------
(* The channels of a loop.                                                 *)

\* The loop's thread is in loop(), not in start() or ~TcpServer.
Runs(l) ==
    l = Base => server # "dying" /\ (Base \in Starter => pc[Base] = "idle")

Ready(l) ==
    {c \in closed : conn[c].loop = l /\ conn[c].registered /\ ~conn[c].readded}
        \union (IF l = Base /\ listening /\ backlog > 0 THEN {Acceptor} ELSE {})

\* A channel that sendInLoop registered again may ask for EPOLLOUT alone, and is out
\* again when handleWrite has no more to write: its close need not be reported.
\* The descriptor of a freed connection is closed, which takes it out of epoll.
MayReport(l) ==
    {c \in closed : conn[c].loop = l /\ conn[c].registered /\ conn[c].readded /\ Held(c)}

\* epoll_wait, which queued functors end as well as events.
Poll(l) ==
    /\ Runs(l) /\ at[l] = "poll"
    /\ \E reported \in SUBSET MayReport(l) :
          /\ Ready(l) # {} \/ reported # {} \/ queue[l] # <<>>
          /\ active' = [active EXCEPT ![l] = Ready(l) \union reported]
    /\ at' = [at EXCEPT ![l] = "events"]
    /\ UNCHANGED <<server, startVars, listening, acceptVars, connVars, outerVars, batch, ran,
                   queue, deadCall>>

\* EventLoopThreadPool::getNextLoop.
NextLoop == IF loops_ = <<>> THEN Base ELSE loops_[next_ + 1]

Advance ==
    next_' = IF loops_ = <<>> THEN next_
             ELSE IF next_ + 1 >= Len(loops_) THEN 0 ELSE next_ + 1

\* newConnection makes c; connectionEstablished runs in c's own loop.
Create(c) ==
    LET r == [conn[c] EXCEPT !.loop = NextLoop, !.state = "connecting"]
    IN  IF NextLoop = Base
          THEN conn' = [conn EXCEPT ![c] = Established(r)] /\ UNCHANGED queue
          ELSE /\ conn' = [conn EXCEPT ![c] = r]
               /\ queue' = Push(queue, NextLoop, F("established", c))

ForgetConnection(c) ==          \* a faulty variant: connections_ misses c
    Advance /\ nextConnId_' = c + 1 /\ Create(c) /\ UNCHANGED connections_

NewConnection(c) ==
    /\ Advance
    /\ nextConnId_' = c + 1
    /\ connections_' = connections_ \union {c}
    /\ Create(c)

\* Acceptor::handleRead: one client, or nothing when accept() fails.
AcceptOne ==
    IF OpenFds < MaxFds
      THEN backlog' = backlog - 1 /\ NewConnection(nextConnId_)
      ELSE UNCHANGED <<acceptVars, connVars, queue>>

\* A faulty variant: a failing accept() disables the acceptor's channel.
HandleAcceptGivesUp ==
    /\ Runs(Base) /\ at[Base] = "events" /\ Acceptor \in active[Base]
    /\ active' = [active EXCEPT ![Base] = @ \ {Acceptor}]
    /\ AcceptOne
    /\ listening' = (OpenFds < MaxFds)
    /\ UNCHANGED <<server, startVars, outerVars, at, batch, ran, deadCall>>

HandleAccept ==
    /\ Runs(Base) /\ at[Base] = "events" /\ Acceptor \in active[Base]
    /\ active' = [active EXCEPT ![Base] = @ \ {Acceptor}]
    /\ AcceptOne
    /\ UNCHANGED <<server, startVars, listening, outerVars, at, batch, ran, deadCall>>

\* removeConnection, called in c's loop l while the server lives.
Remove(l, c) ==
    IF l = Base
      THEN /\ connections_' = connections_ \ {c}
           /\ queue' = Push(queue, conn[c].loop, F("destroyed", c))
      ELSE /\ queue' = Push(queue, Base, F("remove", c))
           /\ UNCHANGED connections_

HandleClose(l, c) ==
    /\ Runs(l) /\ at[l] = "events" /\ c \in active[l] /\ c # Acceptor
    /\ active' = [active EXCEPT ![l] = @ \ {c}]
    /\ deadCall' = (server = "gone" \/ Freed(c))
    /\ conn' = IF Freed(c) THEN conn ELSE [conn EXCEPT ![c] = Down(@)]
    /\ IF deadCall' THEN UNCHANGED <<connections_, queue>> ELSE Remove(l, c)
    /\ UNCHANGED <<server, startVars, listening, acceptVars, outerVars, at, batch, ran>>

-----------------------------------------------------------------------------
(* send() and shutdown().  In a callback in the connection's own loop they *)
(* are one step, as nothing else there can change state_ in between (and   *)
(* the half-close of shutdownInLoop changes nothing here).  Another thread *)
(* tests state_, then, with every loop running in between, assigns it and  *)
(* queues a functor.                                                       *)

OwnShutdown(c) ==
    /\ conn[c].state = "connected" /\ Runs(conn[c].loop)
    /\ conn' = [conn EXCEPT ![c].state = "disconnecting"]
    /\ UNCHANGED <<server, startVars, listening, acceptVars, connections_, outerVars,
                   loopVars, queue, deadCall>>

\* A user holds the connection it calls, and finds it connected.
BeginCall(u, c, op) ==
    /\ caller[u] = Idle /\ backlog + nextConnId_ + calls <= MaxInputs
    /\ Held(c) /\ conn[c].state = "connected"
    /\ caller' = [caller EXCEPT ![u] = In(op, c)]
    /\ calls' = calls + 1
    /\ UNCHANGED <<server, startVars, listening, acceptVars, connVars, closed, loopVars,
                   queue, deadCall>>
CallSend(u, c) == BeginCall(u, c, "send")
CallShutdown(u, c) == BeginCall(u, c, "setState")

\* The assignment comes whatever became of the connection: one that is down is
\* revived, as nothing tests for kConnected again.
SetDisconnecting(u, c) ==
    /\ caller[u] = In("setState", c)
    /\ conn' = [conn EXCEPT ![c].state = "disconnecting"]
    /\ caller' = [caller EXCEPT ![u] = In("shutdown", c)]
    /\ UNCHANGED <<server, startVars, listening, acceptVars, connections_, closed, calls,
                   loopVars, queue, deadCall>>

EndCall(u, c, op) ==
    /\ caller[u] = In(op, c)
    /\ queue' = Push(queue, conn[c].loop, F(op, c))
    /\ caller' = [caller EXCEPT ![u] = Idle]
    /\ UNCHANGED <<server, startVars, listening, acceptVars, connVars, closed, calls,
                   loopVars, deadCall>>
PushSend(u, c) == EndCall(u, c, "send")
PushShutdown(u, c) == EndCall(u, c, "shutdown")

-----------------------------------------------------------------------------
(* The functors of a loop.                                                 *)

SwapPending(l) ==
    /\ Runs(l) /\ at[l] = "events" /\ active[l] = {}
    /\ batch' = [batch EXCEPT ![l] = queue[l]]
    /\ queue' = [queue EXCEPT ![l] = <<>>]
    /\ at' = [at EXCEPT ![l] = IF queue[l] = <<>> THEN "poll" ELSE "functors"]
    /\ UNCHANGED <<server, startVars, listening, acceptVars, connVars, outerVars, active, ran,
                   deadCall>>

RunFunctor(l, f) ==
    /\ Runs(l) /\ at[l] = "functors"
    /\ ran[l] < Len(batch[l]) /\ batch[l][ran[l] + 1] = f
    /\ ran' = [ran EXCEPT ![l] = @ + 1]
    /\ UNCHANGED <<at, active, batch>>

EndBatch(l) ==
    /\ Runs(l) /\ at[l] = "functors" /\ ran[l] = Len(batch[l])
    /\ batch' = [batch EXCEPT ![l] = <<>>]
    /\ ran' = [ran EXCEPT ![l] = 0]
    /\ at' = [at EXCEPT ![l] = "poll"]
    /\ UNCHANGED <<server, startVars, listening, acceptVars, connVars, outerVars, active, queue,
                   deadCall>>

\* Acceptor::listen, through the pointer that start() bound.
Listen ==
    /\ RunFunctor(Base, F("listen", Acceptor))
    /\ listening' = (server = "up")
    /\ deadCall' = (server = "gone")
    /\ UNCHANGED <<server, startVars, acceptVars, connVars, outerVars, queue>>

ConnectionEstablished(l, c) ==
    /\ RunFunctor(l, F("established", c))
    /\ conn' = [conn EXCEPT ![c] = Established(@)]
    /\ UNCHANGED <<server, startVars, listening, acceptVars, connections_, outerVars, queue,
                   deadCall>>

RemoveAndForget(c) ==           \* a faulty variant: no connectDestroyed for c
    /\ RunFunctor(Base, F("remove", c))
    /\ deadCall' = (server = "gone")
    /\ connections_' = connections_ \ {c}
    /\ UNCHANGED <<server, startVars, listening, acceptVars, conn, outerVars, queue>>

RemoveConnectionInLoop(c) ==
    /\ RunFunctor(Base, F("remove", c))
    /\ deadCall' = (server = "gone")
    /\ connections_' = connections_ \ {c}
    /\ queue' = IF server = "gone" THEN queue
                ELSE Push(queue, conn[c].loop, F("destroyed", c))
    /\ UNCHANGED <<server, startVars, listening, acceptVars, conn, outerVars>>

ConnectDestroyed(l, c) ==
    /\ RunFunctor(l, F("destroyed", c))
    /\ conn' = [conn EXCEPT ![c] = Destroyed(@)]
    /\ UNCHANGED <<server, startVars, listening, acceptVars, connections_, outerVars, queue,
                   deadCall>>

\* sendInLoop, through a raw this.  It writes to a connection that is not
\* kDisconnected, and asks for EPOLLOUT when output waits: that registers the channel
\* even if disableAll or remove has taken it out.
SendInLoop(l, c) ==
    /\ RunFunctor(l, F("send", c))
    /\ deadCall' = Freed(c)
    /\ \E waits \in BOOLEAN :
          conn' = IF Freed(c) \/ conn[c].state = "disconnected" \/ ~waits THEN conn
                  ELSE [conn EXCEPT ![c].registered = TRUE,
                                    ![c].readded = @ \/ ~conn[c].registered]
    /\ UNCHANGED <<server, startVars, listening, acceptVars, connections_, outerVars, queue>>

\* shutdownInLoop, through a raw this: it half-closes the socket.
ShutdownInLoop(l, c) ==
    /\ RunFunctor(l, F("shutdown", c))
    /\ deadCall' = Freed(c)
    /\ UNCHANGED <<server, startVars, listening, acceptVars, connVars, outerVars, queue>>

-----------------------------------------------------------------------------
(* ~TcpServer, while the IO loops go on.                                   *)

BeginDestroy ==
    /\ server = "up" /\ at[Base] = "poll"
    /\ \A t \in Starter : pc[t] = "idle"
    /\ server' = "dying"
    /\ UNCHANGED <<startVars, listening, acceptVars, connVars, outerVars, loopVars, queue,
                   deadCall>>

\* A faulty variant: the connection is dropped without connectDestroyed.
DropConnection(c) ==
    /\ server = "dying" /\ c \in connections_
    /\ connections_' = connections_ \ {c}
    /\ UNCHANGED <<server, startVars, listening, acceptVars, conn, outerVars, loopVars, queue,
                   deadCall>>

DestroyConnection(c) ==
    /\ server = "dying" /\ c \in connections_
    /\ connections_' = connections_ \ {c}
    /\ IF conn[c].loop = Base
         THEN conn' = [conn EXCEPT ![c] = Destroyed(@)] /\ UNCHANGED queue
         ELSE queue' = Push(queue, conn[c].loop, F("destroyed", c)) /\ UNCHANGED conn
    /\ UNCHANGED <<server, startVars, listening, acceptVars, outerVars, loopVars, deadCall>>

EndDestroy ==
    /\ server = "dying" /\ connections_ = {}
    /\ server' = "gone"
    /\ listening' = FALSE
    /\ UNCHANGED <<startVars, acceptVars, connVars, outerVars, loopVars, queue, deadCall>>

-----------------------------------------------------------------------------
(* The clients.                                                            *)

ClientConnects ==
    /\ listening
    /\ backlog + nextConnId_ + calls <= MaxInputs
    /\ backlog' = backlog + 1
    /\ UNCHANGED <<server, startVars, listening, next_, nextConnId_, connVars, outerVars,
                   loopVars, queue, deadCall>>

ClientCloses(c) ==
    /\ c < nextConnId_ /\ c \notin closed
    /\ closed' = closed \union {c}
    /\ UNCHANGED <<server, startVars, listening, acceptVars, connVars, caller, calls,
                   loopVars, queue, deadCall>>

-----------------------------------------------------------------------------
\* Every step of loop(), of start(), of ~TcpServer and inside a user's call.  After a
\* call on a destroyed object anything may happen: the model stops.
LoopStep(l) ==
    /\ ~deadCall
    /\ \/ Poll(l)
       \/ l = Base /\ HandleAccept
       \/ \E c \in Conn : HandleClose(l, c)
       \/ SwapPending(l)
       \/ l = Base /\ Listen
       \/ \E c \in Conn : ConnectionEstablished(l, c)
       \/ l = Base /\ \E c \in Conn : RemoveConnectionInLoop(c)
       \/ \E c \in Conn : ConnectDestroyed(l, c)
       \/ \E c \in Conn : SendInLoop(l, c)
       \/ \E c \in Conn : ShutdownInLoop(l, c)
       \/ EndBatch(l)
StartStep(t) == ~deadCall /\ (StartPool(t) \/ StartListening(t))
DestroyStep == ~deadCall /\ ((\E c \in Conn : DestroyConnection(c)) \/ EndDestroy)
UserStep(u) ==
    /\ ~deadCall
    /\ \E c \in Conn : SetDisconnecting(u, c) \/ PushSend(u, c) \/ PushShutdown(u, c)
Environment ==
    /\ ~deadCall
    /\ \/ \E n \in 0 .. Len(Threads) : SetThreadNum(n)
       \/ \E t \in Starter : Start(t)
       \/ \E c \in Conn : OwnShutdown(c)
       \/ \E u \in User, c \in Conn : CallSend(u, c) \/ CallShutdown(u, c)
       \/ BeginDestroy
       \/ ClientConnects
       \/ \E c \in Conn : ClientCloses(c)

Next ==
    \/ \E l \in Loop : LoopStep(l)
    \/ \E t \in Starter : StartStep(t)
    \/ DestroyStep
    \/ \E u \in User : UserStep(u)
    \/ Environment

\* Every thread goes on with loop(), start(), ~TcpServer, send() or shutdown().
Fairness ==
    /\ \A l \in Loop : WF_vars(LoopStep(l))
    /\ \A t \in Starter : WF_vars(StartStep(t))
    /\ WF_vars(DestroyStep)
    /\ \A u \in User : WF_vars(UserStep(u))

Spec == Init /\ [][Next]_vars /\ Fairness

-----------------------------------------------------------------------------
(* Safety.                                                                 *)

\* A Channel lives in its connection: while epoll knows it, or a loop still has
\* it among its active channels, someone holds the connection (TcpServer's
\* connections_ and the functors bound with a shared_ptr see to that).  A late
\* sendInLoop, though, registers a channel again that no one may hold for long.
ChannelsAreAlive ==
    \A c \in Conn :
        ~conn[c].readded /\ (conn[c].registered \/ \E l \in Loop : c \in active[l])
            => Held(c)

\* Whichever of the client, the server and its destructor ends a connection
\* first, and whichever threads send on it or shut it down: its user sees "up"
\* before "down", "up" once and, unless a late sendInLoop registered the channel
\* again, "down" once; and it is freed only after both and after connectDestroyed,
\* which but for such a sendInLoop came once and left the channel out of the poller.
\* Only a connection that its user shut down and ~TcpServer destroys ends without a
\* "down": connectDestroyed tests for kConnected.
EndsProperly ==
    \A c \in Conn :
        /\ conn[c].ups <= 1
        /\ conn[c].downs > 0 => conn[c].ups = 1
        /\ ~conn[c].readded => conn[c].downs <= 1
        /\ Freed(c) =>
              /\ conn[c].removed > 0
              /\ ~conn[c].readded => conn[c].removed = 1 /\ ~conn[c].registered
              /\ \/ conn[c].downs > 0
                 \/ conn[c].state = "disconnecting" /\ server # "up"

\* However many threads call start(), the pool is started once, and before the
\* first client can be accepted.
PoolStartedOnce ==
    /\ Len(loops_) <= numThreads_
    /\ nextConnId_ > 1 => Len(loops_) = numThreads_

-----------------------------------------------------------------------------
(* The inductive invariant behind ChannelsAreAlive and PoolStartedOnce.    *)

\* Functors of loop l that have not run, oldest first.
Todo(l) == SubSeq(batch[l], ran[l] + 1, Len(batch[l])) \o queue[l]
Has(functors, f) == \E i \in DOMAIN functors : functors[i] = f
\* g is in functors, after every f.
Follows(functors, f, g) ==
    \E j \in DOMAIN functors :
        functors[j] = g /\ \A i \in DOMAIN functors : functors[i] = f => i < j

\* What a loop does in each phase, and a server that is going or gone.
Phases ==
    /\ \A l \in Loop : at[l] # "events" => active[l] = {}
    /\ \A l \in Loop : at[l] # "functors" => batch[l] = <<>> /\ ran[l] = 0
    /\ server = "dying" => at[Base] = "poll"
    /\ server = "gone" =>
          ~listening /\ connections_ = {} /\ Acceptor \notin active[Base]
    /\ \A t \in Starter : pc[t] \in {"pool", "listen"} => server = "up"
    /\ Acceptor \in active[Base] => backlog > 0
    /\ backlog + nextConnId_ + calls <= MaxInputs + 1

\* A connection's channel and functors are in its own loop, and only connections
\* that were established are called.
InOwnLoop ==
    /\ \A c \in Conn : conn[c].registered \/ conn[c].state # "none" => c < nextConnId_
    /\ \A l \in Loop : \A c \in active[l] :
          c # Acceptor => conn[c].registered /\ conn[c].loop = l
    /\ \A l \in Loop, c \in Conn :
          /\ Has(Todo(l), F("established", c)) =>
                c < nextConnId_ /\ conn[c].loop = l /\ l # Base
          /\ Has(Todo(l), F("destroyed", c)) => c < nextConnId_ /\ conn[c].loop = l
          /\ Has(Todo(l), F("remove", c)) => c < nextConnId_
          /\ Has(Todo(l), F("send", c)) =>
                c < nextConnId_ /\ conn[c].loop = l /\ conn[c].state # "connecting"
    /\ \A u \in User, c \in Conn : caller[u].c = c =>
          c < nextConnId_ /\ conn[c].state # "connecting"

\* A connection that connections_ has lost, and whose channel is registered or
\* will be, has connectDestroyed before it, after connectionEstablished (but for a
\* late sendInLoop).
Kept(c) ==
    LET todo == Todo(conn[c].loop)
    IN  ~conn[c].readded /\ (conn[c].registered \/ Has(todo, F("established", c))) =>
            \/ c \in connections_
            \/ Follows(todo, F("established", c), F("destroyed", c))
NotForgotten == \A c \in Conn : Kept(c)

\* Of the threads that call start() one gets past its test, and what the
\* acceptor hands out comes after it has filled the pool.
Opened ==
    \/ listening \/ Acceptor \in active[Base] \/ nextConnId_ > 1
    \/ Has(Todo(Base), F("listen", Acceptor))
    \/ \E t \in Starter : pc[t] = "listen"
StartedOnce ==
    /\ ~started_ => loops_ = <<>> /\ ~Opened /\ \A t \in Starter : pc[t] = "idle"
    /\ \A t, u \in Starter : pc[t] = "pool" /\ pc[u] \in {"pool", "listen"} => t = u
    /\ \A t \in Starter : pc[t] = "pool" => loops_ = <<>> /\ ~Opened
    /\ Opened => Len(loops_) = numThreads_
    /\ Len(loops_) <= numThreads_

ServerInv == TypeOK /\ Phases /\ InOwnLoop /\ NotForgotten /\ StartedOnce

\* What EndsProperly needs on top of it.  A connection is in connections_, or has
\* connectDestroyed before it, or behind it; its state tells whether its user saw
\* "up", and all there is to know of "down" until its user revives it; while the
\* server is up only handleClose takes it out of connections_.  Before a late
\* sendInLoop its channel is registered until it goes down, and no functor of the
\* server's for it is queued twice.
Lives(c) ==
    LET r == conn[c]
        before == Has(Todo(r.loop), F("destroyed", c))
    IN  /\ r.state = "none" <=> c >= nextConnId_
        /\ r.state = "connecting" <=> Has(Todo(r.loop), F("established", c))
        /\ r.state \in {"none", "connecting", "connected"} =>
              ~r.readded /\ r.downs = 0 /\ r.removed = 0
        /\ r.state = "connected" => r.registered
        /\ r.state = "disconnected" => r.downs > 0
        /\ r.ups = IF r.state \in {"none", "connecting"} THEN 0 ELSE 1
        /\ ~r.readded =>
              /\ r.downs <= 1 /\ r.removed <= 1
              /\ before => r.removed = 0
              /\ r.registered => /\ r.state \in {"connected", "disconnecting"}
                                 /\ r.downs = 0 /\ r.removed = 0
        /\ c \in connections_ => r.removed = 0 /\ ~before
        /\ c \in connections_ \/ before \/ r.removed > 0 \/ r.state = "none"
        /\ server = "up" => c \in connections_ \/ r.downs > 0 \/ r.state = "none"
        /\ Has(Todo(Base), F("remove", c)) =>
              r.downs > 0 /\ (server = "up" /\ ~r.readded => c \in connections_)
Once(functors, f) ==
    \A i, j \in DOMAIN functors : functors[i] = f /\ functors[j] = f => i = j
QueuedOnce ==
    \A l \in Loop, c \in Conn :
        /\ Once(Todo(l), F("established", c))
        /\ ~conn[c].readded =>
              Once(Todo(l), F("remove", c)) /\ Once(Todo(l), F("destroyed", c))
EndsInv == ServerInv /\ (\A c \in Conn : Lives(c)) /\ QueuedOnce

-----------------------------------------------------------------------------
(* Liveness.                                                               *)

\* A waiting client is accepted, unless the process is out of descriptors or the
\* server is destroyed; accept() failing for lack of descriptors (EMFILE) does
\* not make Acceptor::handleRead deaf.
ClientsAreAccepted == []<>(backlog = 0 \/ OpenFds = MaxFds \/ server # "up" \/ deadCall)

\* A connection whose client closed is destroyed and freed, and its descriptor
\* with it (unless ~TcpServer races with it and the close callback is called on
\* the dead server).
Finished(c) == conn[c].removed > 0 /\ Freed(c)
ClosedAreFreed == []<>(deadCall \/ \A c \in closed : Finished(c))

\* So are all connections of a destroyed server.
DestroyedServerLeavesNothing ==
    (server = "dying") ~> (deadCall \/ \A c \in 1 .. nextConnId_ - 1 : Finished(c))
=============================================================================
