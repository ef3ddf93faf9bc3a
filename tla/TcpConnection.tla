--------------------------- MODULE TcpConnection ----------------------------
(***************************************************************************)
(* One TcpConnection: the thread of its IO loop, the threads of the        *)
(* application that call send() and shutdown(), the kernel's socket with   *)
(* the peer behind it, and the TcpServer as far as it ends the connection. *)
(*                                                                         *)
(* The IO loop is the FIFO queue module FunctorQueue promises (and         *)
(* EventLoop implements), with channel events between functors.  A handler *)
(* is one step up to the application's callback it calls, and one step     *)
(* from there on: other threads only touch state_ and the queue, and their *)
(* calls are split at those accesses.                                      *)
(*                                                                         *)
(* Data is a sequence of cells; a message is named by its sender and by    *)
(* how many that sender sent before.  The application ignores SIGPIPE and  *)
(* keeps a reference to the connection while it uses it.                   *)
(***************************************************************************)
EXTENDS Integers, SequencesExt

CONSTANTS
    User,               \* the application's own threads
    Loop,               \* the loop's thread
    ShutdownCallers,    \* the threads that may call shutdown()
    MaxSends,           \* bound on the messages of one thread of User
    MaxOwnSends,        \* and of the loop's thread
    MsgLen,             \* cells in a message of each sender
    HighWaterMark,      \* highWaterMark_, in cells
    ReusesStrings       \* whether a caller frees its string before it is sent

Sender == User \union {Loop}

ASSUME ConnectionAssumption ==
    /\ Loop \notin User
    /\ ShutdownCallers \subseteq Sender
    /\ MaxSends \in Nat
    /\ MaxOwnSends \in 0 .. MaxSends
    /\ MsgLen \in [Sender -> Nat]
    /\ HighWaterMark \in Nat
    /\ ReusesStrings \in BOOLEAN

VARIABLES
    state_,             \* a StateE
    events_, index,     \* of channel_: interest, and registration with epoll
    outputBuffer_,      \* cells waiting to be written
    wire,               \* cells the kernel took
    accepted,           \* history: cells sendInLoop took responsibility for
    wrShut,             \* shutdown(fd, SHUT_WR) was done
    peer,               \* "open", "fin" (it stopped sending) or "reset"
    inbox,              \* unread data of the peer is in the socket
    soError,            \* the socket holds an error to be reported once
    queue,              \* functors queued in the loop
    revents_,           \* what epoll_wait reported and is still unhandled
    pc,                 \* "wait", the callback being run, or "crashed"
    server,             \* connections_ "has" it, "erased" it, server "gone"
    removing,           \* removeConnectionInLoop calls queued in the base loop
    userPc,             \* where each thread of User is inside a call
    nsent,              \* history: messages sent so far, per sender
    reused,             \* history: messages whose string was freed too soon
    revived,            \* history: shutdown() took state_ back from kDisconnected
    ups, downs,         \* history: calls of connectionCallback_
    destroyed           \* history: connectDestroyed has run

chanVars == <<events_, index>>
outVars == <<outputBuffer_, wire, accepted>>
histVars == <<ups, downs, destroyed>>
objVars == <<chanVars, outVars, histVars, wrShut, revents_, pc>>
netVars == <<peer, inbox, soError>>
serverVars == <<server, removing>>
userVars == <<userPc, nsent, reused, revived>>
envVars == <<serverVars, userVars, peer, inbox>>
vars == <<objVars, netVars, serverVars, userVars, state_, queue>>

\* enum StateE.
kDisconnected == 0
kConnecting == 1
kConnected == 2
kDisconnecting == 3

Message == [from : Sender, no : 1 .. MaxSends]
Cell == [m : Message, pos : Nat]        \* pos 0: memory of a freed string

\* The functors of this connection.
Call(op) == [op |-> op]
SendCall(m) == [op |-> "send", m |-> m]
Functor ==
    {Call(op) : op \in {"established", "shutdown", "complete", "highWater", "destroyed"}}
        \union {SendCall(m) : m \in Message}

\* "up", "closing" and "destroying" run connectionCallback_, "message" runs
\* messageCallback_, "notify" writeComplete- or highWaterMarkCallback_.
Callback == {"up", "message", "notify", "closing", "destroying"}

TypeOK ==
    /\ state_ \in 0 .. 3
    /\ events_ \subseteq {"read", "write"}
    /\ index \in {"kNew", "kAdded", "kDeleted"}
    /\ outputBuffer_ \in Seq(Cell)
    /\ wire \in Seq(Cell)
    /\ accepted \in Seq(Cell)
    /\ wrShut \in BOOLEAN
    /\ peer \in {"open", "fin", "reset"}
    /\ inbox \in BOOLEAN
    /\ soError \in BOOLEAN
    /\ queue \in Seq(Functor)
    /\ revents_ \subseteq {"hup", "in", "out"}
    /\ pc \in Callback \union {"wait", "crashed"}
    /\ server \in {"has", "erased", "gone"}
    /\ removing \in Nat
    /\ userPc \in [User -> {"idle", "send", "setState", "shutdown"}]
    /\ nsent \in [Sender -> 0 .. MaxSends]
    /\ reused \subseteq Message
    /\ revived \in BOOLEAN
    /\ ups \in Nat
    /\ downs \in Nat
    /\ destroyed \in BOOLEAN

\* As TcpServer::newConnection leaves it.
Init ==
    /\ state_ = kConnecting
    /\ events_ = {}
    /\ index = "kNew"
    /\ outputBuffer_ = <<>>
    /\ wire = <<>>
    /\ accepted = <<>>
    /\ wrShut = FALSE
    /\ peer = "open"
    /\ inbox = FALSE
    /\ soError = FALSE
    /\ queue = <<Call("established")>>
    /\ revents_ = {}
    /\ pc = "wait"
    /\ server = "has"
    /\ removing = 0
    /\ userPc = [u \in User |-> "idle"]
    /\ nsent = [s \in Sender |-> 0]
    /\ reused = {}
    /\ revived = FALSE
    /\ ups = 0
    /\ downs = 0
    /\ destroyed = FALSE

-----------------------------------------------------------------------------
(* The channel and the socket.                                             *)

isWriting == "write" \in events_

\* Faulty variants, none of them part of the specification: each is a mistake
\* this code invites, and refutes a property below.
UpdateWithoutAdd(events) ==         \* epoll_ctl MOD where ADD is due
    /\ events_' = events
    /\ index' = IF index = "kAdded" /\ events = {} THEN "kDeleted" ELSE index
WriteAlways == TRUE                 \* write() although output waits
NotifyAlways(drained, q) == Append(q, Call("complete"))
ShutdownInverted == wrShut' = (wrShut \/ isWriting)    \* half-close while output waits
PushSendFirst(u) ==                 \* the newest functor runs first
    /\ userPc[u] = "send"
    /\ queue' = <<SendCall([from |-> u, no |-> nsent[u]])>> \o queue
    /\ userPc' = [userPc EXCEPT ![u] = "idle"]
    /\ UNCHANGED <<objVars, netVars, serverVars, histVars, state_, nsent, reused, revived>>

\* Channel::update, through EpollPoller::updateChannel: an unregistered
\* channel is added whatever its events.
UpdateChannel(events) ==
    /\ events_' = events
    /\ index' = IF index = "kAdded" /\ events = {} THEN "kDeleted" ELSE "kAdded"

enableReading == UpdateChannel(events_ \union {"read"})
enableWriting == UpdateChannel(events_ \union {"write"})
disableWriting == UpdateChannel(events_ \ {"write"})
disableAll == UpdateChannel({})

\* Channel::remove.  (Its events_ stay; connectDestroyed has emptied them if it
\* had to say "down".)
remove == index' = "kNew"

\* Writing fails.
Broken == wrShut \/ peer = "reset"

\* How many of n cells write() may take; 0 of more than 0 is EWOULDBLOCK.
Taken(n) == IF Broken THEN {0} ELSE 0 .. n

\* write() at once only when nothing waits before it.
WriteDirectly == ~isWriting /\ outputBuffer_ = <<>>

\* queueInLoop of writeCompleteCallback_.
NotifyComplete(drained, q) == IF drained THEN Append(q, Call("complete")) ELSE q

\* The cells found at the address a functor or a caller passes for m.
Cells(m) == [i \in 1 .. MsgLen[m.from] |-> [m |-> m, pos |-> IF m \in reused THEN 0 ELSE i]]

-----------------------------------------------------------------------------
(* sendInLoop and shutdownInLoop, with q the functors queued before.       *)

\* sendInLoop buffers what the kernel did not take, and drops the message
\* when writing failed with EPIPE or ECONNRESET.  (An error the socket holds
\* may be another one, such as ETIMEDOUT.)
SendInLoop(data, q) ==
    \/ /\ state_ = kDisconnected
       /\ queue' = q
       /\ UNCHANGED <<chanVars, outVars, soError>>
    \/ /\ state_ # kDisconnected
       /\ LET direct == WriteDirectly
          IN  \E k \in IF direct THEN Taken(Len(data)) ELSE {0},
                 other \in IF soError THEN BOOLEAN ELSE {FALSE} :
                LET faultError == direct /\ Broken /\ ~other
                    remaining == IF faultError THEN <<>> ELSE SubSeq(data, k + 1, Len(data))
                    oldlen == Len(outputBuffer_)
                    newlen == oldlen + Len(remaining)
                IN  /\ wire' = wire \o SubSeq(data, 1, k)
                    /\ outputBuffer_' = outputBuffer_ \o remaining
                    /\ accepted' = IF faultError THEN accepted ELSE accepted \o data
                    /\ soError' = (soError /\ ~direct)
                    /\ IF remaining # <<>> /\ ~isWriting
                         THEN enableWriting
                         ELSE UNCHANGED chanVars
                    /\ queue' = NotifyComplete(direct /\ ~Broken /\ remaining = <<>>, q)
                         \o (IF /\ remaining # <<>>
                                /\ newlen >= HighWaterMark /\ oldlen < HighWaterMark
                               THEN <<Call("highWater")>> ELSE <<>>)

\* shutdownInLoop leaves the half-close to handleWrite while output waits.
ShutdownInLoop == wrShut' = (wrShut \/ ~isWriting)

-----------------------------------------------------------------------------
(* send() and shutdown() of another thread: the test of state_, then, with *)
(* other threads running in between, the assignment and the push.          *)

CallSend(u) ==
    /\ userPc[u] = "idle" /\ nsent[u] < MaxSends
    /\ state_ = kConnected
    /\ userPc' = [userPc EXCEPT ![u] = "send"]
    /\ nsent' = [nsent EXCEPT ![u] = @ + 1]
    /\ UNCHANGED <<objVars, netVars, serverVars, state_, queue, reused, revived>>

PushSend(u) ==
    /\ userPc[u] = "send"
    /\ queue' = Append(queue, SendCall([from |-> u, no |-> nsent[u]]))
    /\ userPc' = [userPc EXCEPT ![u] = "idle"]
    /\ UNCHANGED <<objVars, netVars, serverVars, state_, nsent, reused, revived>>

\* send(const std::string &) queues the address of the characters, so it is
\* the memory there when sendInLoop runs that is written: here the caller
\* frees or changes the string after send() returned.  send(Buffer *) queues
\* a copy.
ReuseString(u) ==
    /\ ReusesStrings
    /\ userPc[u] = "idle" /\ nsent[u] > 0
    /\ reused' = reused \union {[from |-> u, no |-> nsent[u]]}
    /\ UNCHANGED <<objVars, netVars, serverVars, state_, queue, userPc,
                   nsent, revived>>

CallShutdown(u) ==
    /\ u \in ShutdownCallers
    /\ userPc[u] = "idle"
    /\ state_ = kConnected
    /\ userPc' = [userPc EXCEPT ![u] = "setState"]
    /\ UNCHANGED <<objVars, netVars, serverVars, state_, queue, nsent,
                   reused, revived>>

SetDisconnecting(u) ==
    /\ userPc[u] = "setState"
    /\ state_' = kDisconnecting
    /\ revived' = (revived \/ state_ = kDisconnected)
    /\ userPc' = [userPc EXCEPT ![u] = "shutdown"]
    /\ UNCHANGED <<objVars, netVars, serverVars, queue, nsent, reused>>

PushShutdown(u) ==
    /\ userPc[u] = "shutdown"
    /\ queue' = Append(queue, Call("shutdown"))
    /\ userPc' = [userPc EXCEPT ![u] = "idle"]
    /\ UNCHANGED <<objVars, netVars, serverVars, state_, nsent, reused, revived>>

-----------------------------------------------------------------------------
(* The same from the loop's thread, inside a callback of this connection   *)
(* or between its handlers.                                                *)

OwnTurn == pc \in Callback \/ (pc = "wait" /\ revents_ = {})

OwnSend ==
    /\ OwnTurn /\ nsent[Loop] < MaxOwnSends
    /\ state_ = kConnected
    /\ nsent' = [nsent EXCEPT ![Loop] = @ + 1]
    /\ SendInLoop(Cells([from |-> Loop, no |-> nsent'[Loop]]), queue)
    /\ UNCHANGED <<serverVars, histVars, revents_, pc, state_, wrShut,
                   peer, inbox, userPc, reused, revived>>

OwnShutdown ==
    /\ Loop \in ShutdownCallers
    /\ OwnTurn
    /\ state_ = kConnected
    /\ state_' = kDisconnecting
    /\ ShutdownInLoop
    /\ UNCHANGED <<envVars, chanVars, outVars, histVars, revents_, pc,
                   soError, queue>>

-----------------------------------------------------------------------------
(* doPendingFunctors: the next functor of the loop.                        *)

NextFunctor(f) ==
    /\ pc = "wait" /\ revents_ = {}
    /\ queue # <<>> /\ Head(queue) = f

ConnectionEstablished ==
    /\ NextFunctor(Call("established"))
    /\ queue' = Tail(queue)
    /\ state_' = kConnected
    /\ enableReading
    /\ ups' = ups + 1
    /\ pc' = "up"
    /\ UNCHANGED <<envVars, outVars, wrShut, soError, revents_, downs,
                   destroyed>>

RunSend(m) ==
    /\ NextFunctor(SendCall(m))
    /\ SendInLoop(Cells(m), Tail(queue))
    /\ UNCHANGED <<envVars, histVars, revents_, pc, state_, wrShut>>

RunShutdown ==
    /\ NextFunctor(Call("shutdown"))
    /\ queue' = Tail(queue)
    /\ ShutdownInLoop
    /\ UNCHANGED <<envVars, chanVars, outVars, histVars, revents_, pc,
                   state_, soError>>

\* writeCompleteCallback_ or highWaterMarkCallback_.
RunNotify ==
    /\ NextFunctor(Call("complete")) \/ NextFunctor(Call("highWater"))
    /\ queue' = Tail(queue)
    /\ pc' = "notify"
    /\ UNCHANGED <<envVars, chanVars, outVars, histVars, state_, wrShut,
                   soError, revents_>>

\* A connection that is still connected is told it is down first.
ConnectDestroyed ==
    /\ NextFunctor(Call("destroyed"))
    /\ queue' = Tail(queue)
    /\ destroyed' = TRUE
    /\ IF state_ = kConnected
         THEN /\ state_' = kDisconnected
              /\ disableAll
              /\ downs' = downs + 1
              /\ pc' = "destroying"
         ELSE /\ remove
              /\ UNCHANGED <<state_, events_, downs, pc>>
    /\ UNCHANGED <<envVars, outVars, wrShut, soError, revents_, ups>>

-----------------------------------------------------------------------------
(* Channel events.                                                         *)

\* epoll_wait, level-triggered: EPOLLIN for data, end of stream or error,
\* EPOLLHUP once both directions are closed, EPOLLOUT when the kernel has
\* room.  handleEventWithGuard ignores EPOLLHUP beside EPOLLIN.
Poll(room) ==
    /\ pc = "wait" /\ revents_ = {}
    /\ index = "kAdded"
    /\ LET in == "read" \in events_ /\ (inbox \/ peer # "open")
           hup == peer = "reset" \/ (peer = "fin" /\ wrShut)
       IN  revents_' = (IF in THEN {"in"} ELSE IF hup THEN {"hup"} ELSE {})
                         \union (IF isWriting /\ (room \/ Broken) THEN {"out"} ELSE {})
    /\ revents_' # {}
    /\ UNCHANGED <<envVars, chanVars, outVars, histVars, state_, wrShut,
                   soError, queue, pc>>

CloseWithoutDisable ==                \* a faulty variant: no disableAll()
    /\ state_' = kDisconnected
    /\ UNCHANGED chanVars
    /\ downs' = downs + 1
    /\ pc' = "closing"

\* handleClose up to connectionCallback_.
BeginClose ==
    /\ state_' = kDisconnected
    /\ disableAll
    /\ downs' = downs + 1
    /\ pc' = "closing"

HandleHup ==
    /\ pc = "wait" /\ "hup" \in revents_
    /\ revents_' = revents_ \ {"hup"}
    /\ BeginClose
    /\ UNCHANGED <<envVars, outVars, wrShut, soError, queue, ups, destroyed>>

\* handleRead of data ...
HandleRead ==
    /\ pc = "wait" /\ "in" \in revents_
    /\ inbox
    /\ inbox' = FALSE
    /\ revents_' = revents_ \ {"in"}
    /\ pc' = "message"
    /\ UNCHANGED <<chanVars, outVars, serverVars, userVars, histVars,
                   state_, wrShut, peer, soError, queue>>

\* ... of the end of the stream ...
HandleReadEnd ==
    /\ pc = "wait" /\ "in" \in revents_
    /\ ~inbox /\ ~soError
    /\ revents_' = revents_ \ {"in"}
    /\ BeginClose
    /\ UNCHANGED <<envVars, outVars, wrShut, soError, queue, ups, destroyed>>

\* ... and of an error: readFd keeps the -1 of readv in a size_t and appends
\* 2^64 - 1 - writable bytes.  A std::copy that passes this on to memmove ends
\* the process; one that skips what it sees as a negative length gets as far as
\* handleError, which logs.  (What it leaves of the buffer is in module Buffer.)
HandleReadError ==
    /\ pc = "wait" /\ "in" \in revents_
    /\ ~inbox /\ soError
    /\ soError' = FALSE
    /\ revents_' = revents_ \ {"in"}
    /\ pc' \in {"wait", "crashed"}
    /\ UNCHANGED <<envVars, chanVars, outVars, histVars, state_, wrShut,
                   queue>>

\* C++'s !x of an integer.
Not(x) == IF x = 0 THEN 1 ELSE 0

HandleWrite ==
    /\ pc = "wait" /\ revents_ = {"out"}
    /\ revents_' = {}
    /\ \E n \in Taken(Len(outputBuffer_)) :
         /\ Broken \/ ~isWriting \/ n > 0
         /\ IF isWriting /\ n > 0
              THEN /\ wire' = wire \o SubSeq(outputBuffer_, 1, n)
                   /\ outputBuffer_' = SubSeq(outputBuffer_, n + 1, Len(outputBuffer_))
                   /\ IF outputBuffer_' = <<>>
                        THEN /\ disableWriting
                             /\ wrShut' = (wrShut \/ Not(state_) = kDisconnecting)
                        ELSE UNCHANGED <<chanVars, wrShut>>
                   /\ queue' = NotifyComplete(outputBuffer_' = <<>>, queue)
              ELSE UNCHANGED <<chanVars, wire, outputBuffer_, queue, wrShut>>
    /\ soError' = (soError /\ ~(isWriting /\ Broken))
    /\ UNCHANGED <<envVars, histVars, state_, accepted, pc>>

\* The callback returns, and its handler goes on: handleClose calls
\* closeCallback_, which is TcpServer::removeConnection, and connectDestroyed
\* takes the channel out of the poller.  (closeCallback_ of a server that is
\* gone is a call on a dead object; here it is lost.)
CallbackReturn ==
    /\ pc \in Callback
    /\ pc' = "wait"
    /\ removing' = IF pc = "closing" /\ server # "gone" THEN removing + 1 ELSE removing
    /\ IF pc = "destroying" THEN remove ELSE UNCHANGED index
    /\ UNCHANGED <<netVars, outVars, userVars, histVars, wrShut, state_,
                   events_, queue, revents_, server>>

-----------------------------------------------------------------------------
(* The base loop's thread.                                                 *)

RemoveConnectionInLoop ==
    /\ removing > 0 /\ server # "gone"
    /\ removing' = removing - 1
    /\ server' = "erased"
    /\ queue' = Append(queue, Call("destroyed"))
    /\ UNCHANGED <<objVars, netVars, userVars, state_>>

\* ~TcpServer, with the connection still in connections_.
DestroyServer ==
    /\ server = "has"
    /\ server' = "gone"
    /\ queue' = Append(queue, Call("destroyed"))
    /\ UNCHANGED <<objVars, netVars, userVars, state_, removing>>

-----------------------------------------------------------------------------
(* The peer.                                                               *)

PeerSends ==
    /\ peer = "open"
    /\ ~inbox
    /\ inbox' = TRUE
    /\ UNCHANGED <<objVars, serverVars, userVars, state_, peer, soError,
                   queue>>

\* It closes, or half-closes.
PeerFin ==
    /\ peer = "open"
    /\ peer' = "fin"
    /\ UNCHANGED <<objVars, serverVars, userVars, state_, inbox, soError,
                   queue>>

PeerReset ==
    /\ peer # "reset"
    /\ peer' = "reset"
    /\ soError' = TRUE
    /\ UNCHANGED <<objVars, serverVars, userVars, state_, inbox, queue>>

-----------------------------------------------------------------------------
UserStep(u) == CallSend(u) \/ PushSend(u) \/ ReuseString(u) \/ CallShutdown(u)
                  \/ SetDisconnecting(u) \/ PushShutdown(u)

RunFunctor == ConnectionEstablished \/ (\E m \in Message : RunSend(m))
                  \/ RunShutdown \/ RunNotify \/ ConnectDestroyed

HandleEvent == HandleHup \/ HandleRead \/ HandleReadEnd \/ HandleReadError
                  \/ HandleWrite

LoopStep == OwnSend \/ OwnShutdown \/ RunFunctor \/ HandleEvent \/ CallbackReturn
                \/ \E room \in BOOLEAN : Poll(room)

Next == /\ pc # "crashed"
        /\ \/ \E u \in User : UserStep(u)
           \/ LoopStep
           \/ RemoveConnectionInLoop \/ DestroyServer
           \/ PeerSends \/ PeerFin \/ PeerReset

SafetySpec == Init /\ [][Next]_vars

\* The loop runs every functor queued in it, however many events come between
\* (EventLoop's QueuedFunctorsRun), handlers run, callbacks return, and a
\* thread inside a call goes on with it.  epoll_wait reports what stays ready,
\* and as the peer keeps reading, a socket waiting for room gets some again and
\* again.  Nobody has to send, to shut down or to close.
Fairness ==
    /\ SF_vars(RunFunctor) /\ WF_vars(HandleEvent) /\ WF_vars(CallbackReturn)
    /\ WF_vars(\E room \in BOOLEAN : Poll(room))
    /\ SF_vars(Poll(TRUE))
    /\ WF_vars(RemoveConnectionInLoop)
    /\ \A u \in User : WF_vars(PushSend(u) \/ SetDisconnecting(u) \/ PushShutdown(u))

Spec == SafetySpec /\ Fairness

-----------------------------------------------------------------------------
(* Properties of every use.                                                *)

\* No byte is lost, doubled or reordered between a message's acceptance and
\* the wire, however write() splits it and whichever of direct write and
\* output buffer it goes through.
StreamIntact == wire \o outputBuffer_ = accepted

\* Output that waits is waited for: until the connection is down, the output
\* buffer is non-empty exactly when EPOLLOUT is asked for (more would leave
\* data unsent, less would spin the loop), and asking means being registered.
WriteInterest ==
    downs = 0 =>
        /\ outputBuffer_ # <<>> <=> isWriting
        /\ isWriting /\ ~destroyed => index = "kAdded"

\* The write side is never closed on accepted data while the connection is up.
HalfCloseAfterDrain == [][wrShut' /\ ~wrShut /\ downs = 0 => outputBuffer_' = <<>>]_vars

\* The inductive invariant behind the three: connectDestroyed counts the "down"
\* before it removes the channel, and a message is counted before it is queued.
OutputInv ==
    /\ TypeOK /\ StreamIntact /\ WriteInterest
    /\ pc = "destroying" => downs > 0
    /\ \A u \in User : userPc[u] = "send" => nsent[u] > 0

\* Everything the kernel was given precedes a write-complete notification:
\* one is queued only by a step that leaves no output waiting.
Completions == Cardinality({i \in DOMAIN queue : queue[i].op = "complete"})
CompleteWhenDrained == [][Completions' > Completions => outputBuffer_' = <<>>]_vars

-----------------------------------------------------------------------------
(* Properties that a shutdown() of another thread breaks when it finds the  *)
(* connection connected and handleClose runs before it assigns state_: a    *)
(* connection that was revived that way is excepted.                        *)

\* The application sees one "up", then at most one "down", and after "down"
\* the channel is never registered again, so no handler runs.
UpThenDownOnce ==
  ~revived =>
    /\ downs <= ups /\ downs <= 1
    /\ downs > 0 => index # "kAdded"

\* The messages of one sender reach the stream in the order it sent them, and
\* without a gap: the first cell accepted of it is the first one it sent, and
\* each one after that follows the one accepted of it before.  Not so once the
\* write side is closed and the socket holds an error other than ECONNRESET:
\* sendInLoop drops what fails with EPIPE, then buffers what fails with that
\* error.
Follows(d, c) ==
    /\ d.m.from = c.m.from
    /\ IF c.pos > 1 THEN d.m = c.m /\ d.pos = c.pos - 1
                    ELSE d.m.no = c.m.no - 1 /\ d.pos = MsgLen[c.m.from]
InOrderAt(i) ==
    LET c == accepted[i]
        NoneOfIt(j, k) == \A l \in j .. k : accepted[l].m.from # c.m.from
    IN  /\ c.m.no <= nsent[c.m.from] /\ c.pos \in 1 .. MsgLen[c.m.from]
        /\ \/ c.m.no = 1 /\ c.pos = 1 /\ NoneOfIt(1, i - 1)
           \/ \E j \in 1 .. i - 1 : Follows(accepted[j], c) /\ NoneOfIt(j + 1, i - 1)
SendersInOrder ==
    ~(wrShut /\ peer = "reset") /\ ~revived => \A i \in DOMAIN accepted : InOrderAt(i)

-----------------------------------------------------------------------------
(* Liveness.                                                               *)

Over == downs > 0 \/ destroyed \/ pc = "crashed"

\* Waiting output is written, unless the connection ends first.
OutputDrains == (outputBuffer_ # <<>>) ~> (outputBuffer_ = <<>> \/ Over)

\* shutdown() closes the write side in the end.
ShutdownHalfCloses == (state_ = kDisconnecting) ~> (wrShut \/ Over)

\* It does so at least while the kernel takes every write whole, so that
\* handleWrite has no part in it.
HalfClosesUnlessOutputWaits == [](outputBuffer_ = <<>>) => ShutdownHalfCloses

-----------------------------------------------------------------------------
(* What the comments promise and the code does not do.                     *)

\* A reset connection is an error to be handled, not the end of the process.
ResetIsHandled == pc # "crashed"

\* What is sent is what the caller passed, not what its memory holds later.
SentAsPassed == \A i \in DOMAIN wire : wire[i].pos # 0
=============================================================================
