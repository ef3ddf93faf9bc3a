------------------------ MODULE TcpConnectionProofs -------------------------
(***************************************************************************)
(* Proofs about TcpConnection, for every set of user threads, every number *)
(* and size of messages, and whichever threads call shutdown().            *)
(***************************************************************************)
EXTENDS TcpConnection, SequenceTheorems, FiniteSetTheorems, FunctionTheorems, TLAPS

(***************************************************************************)
(* Facts about the data the steps move.                                    *)
(***************************************************************************)
\* write() splits what it is offered into what it took and what remains.
LEMMA SplitAt ==
    ASSUME NEW S, NEW s \in Seq(S), NEW k \in 0 .. Len(s)
    PROVE  /\ SubSeq(s, 1, k) \in Seq(S)
           /\ SubSeq(s, k + 1, Len(s)) \in Seq(S)
           /\ SubSeq(s, 1, k) \o SubSeq(s, k + 1, Len(s)) = s
<1>1. Len(s) \in Nat /\ \A i \in 1 .. Len(s) : s[i] \in S
  BY LenProperties
<1>2. SubSeq(s, 1, k) \in Seq(S)
  BY <1>1, SubSeqProperties
<1>3. SubSeq(s, k + 1, Len(s)) \in Seq(S)
  BY <1>1, SubSeqProperties
<1>4. SubSeq(s, 1, k) \o SubSeq(s, k + 1, Len(s)) = SubSeq(s, 1, Len(s))
  <2>1. /\ 1 \in 1 .. Len(s) + 1
        /\ k \in 1 - 1 .. Len(s)
        /\ Len(s) \in k .. Len(s)
    BY <1>1
  <2>. QED
    BY <2>1, ConcatAdjacentSubSeq
<1>. QED
  BY <1>2, <1>3, <1>4, SubSeqFull

LEMMA CellsAssociate ==
    ASSUME NEW s \in Seq(Cell), NEW t \in Seq(Cell), NEW u \in Seq(Cell)
    PROVE  (s \o t) \o u = s \o (t \o u)
  BY ConcatAssociative

LEMMA TakenBounds == ASSUME NEW n \in Nat PROVE Taken(n) \subseteq 0 .. n
  BY DEF Taken

LEMMA FunctorsTyped ==
    /\ Call("established") \in Functor /\ Call("shutdown") \in Functor
    /\ Call("complete") \in Functor /\ Call("highWater") \in Functor
    /\ Call("destroyed") \in Functor
    /\ \A m \in Message : SendCall(m) \in Functor
  BY DEF Functor

LEMMA CellsTyped == ASSUME NEW m \in Message PROVE Cells(m) \in Seq(Cell)
<1>1. MsgLen[m.from] \in Nat
  BY ConnectionAssumption DEF Message
<1>2. \A i \in 1 .. MsgLen[m.from] : [m |-> m, pos |-> IF m \in reused THEN 0 ELSE i] \in Cell
  BY <1>1 DEF Cell
<1>. QED
  BY <1>1, <1>2 DEF Cells

LEMMA NextMessage ==
    ASSUME NEW s \in Sender, NEW n \in 0 .. MaxSends, n < MaxSends
    PROVE  [from |-> s, no |-> n + 1] \in Message
  BY ConnectionAssumption DEF Message

(***************************************************************************)
(* The data path: sendInLoop and the channel update it ends with.          *)
(***************************************************************************)
LEMMA UpdateTyped ==
    ASSUME NEW events \in SUBSET {"read", "write"}, UpdateChannel(events)
    PROVE  /\ events_' \in SUBSET {"read", "write"}
           /\ index' \in {"kNew", "kAdded", "kDeleted"}
           /\ events # {} => index' = "kAdded"
  BY DEF UpdateChannel

LEMMA NotifyTyped ==
    ASSUME NEW d \in BOOLEAN, NEW q \in Seq(Functor)
    PROVE  NotifyComplete(d, q) \in Seq(Functor)
  BY FunctorsTyped, AppendProperties DEF NotifyComplete

\* What sendInLoop does to the output: the types stay, the stream stays
\* intact, and EPOLLOUT is asked for exactly when something remains.
LEMMA SendInLoopOutput ==
    ASSUME TypeOK, StreamIntact,
           NEW data \in Seq(Cell), NEW q \in Seq(Functor), SendInLoop(data, q)
    PROVE  /\ outputBuffer_' \in Seq(Cell) /\ wire' \in Seq(Cell)
           /\ accepted' \in Seq(Cell)
           /\ events_' \subseteq {"read", "write"}
           /\ index' \in {"kNew", "kAdded", "kDeleted"}
           /\ soError' \in BOOLEAN
           /\ queue' \in Seq(Functor)
           /\ StreamIntact'
           /\ (outputBuffer_ # <<>> <=> isWriting)
                 => (outputBuffer_' # <<>> <=> isWriting')
           /\ (isWriting => index = "kAdded") => (isWriting' => index' = "kAdded")
<1>0. <<>> \in Seq(Cell) /\ Len(data) \in Nat
  BY EmptySeq, LenProperties
<1>1. CASE state_ = kDisconnected
  BY <1>1 DEF SendInLoop, chanVars, outVars, isWriting, TypeOK, StreamIntact
<1>2. CASE state_ # kDisconnected
  <2>0. /\ outputBuffer_ \in Seq(Cell) /\ wire \in Seq(Cell) /\ accepted \in Seq(Cell)
        /\ soError \in BOOLEAN
        /\ events_ \subseteq {"read", "write"} /\ index \in {"kNew", "kAdded", "kDeleted"}
        /\ wire \o outputBuffer_ = accepted
    BY DEF TypeOK, StreamIntact
  <2> DEFINE direct == WriteDirectly
             fault(other) == direct /\ Broken /\ ~other
             remaining(k, other) ==
                IF fault(other) THEN <<>> ELSE SubSeq(data, k + 1, Len(data))
  <2>1. PICK k \in IF direct THEN Taken(Len(data)) ELSE {0},
             other \in IF soError THEN BOOLEAN ELSE {FALSE} :
          /\ wire' = wire \o SubSeq(data, 1, k)
          /\ outputBuffer_' = outputBuffer_ \o remaining(k, other)
          /\ accepted' = IF fault(other) THEN accepted ELSE accepted \o data
          /\ soError' = (soError /\ ~direct)
          /\ IF remaining(k, other) # <<>> /\ ~isWriting
               THEN enableWriting ELSE UNCHANGED chanVars
          /\ queue' = NotifyComplete(direct /\ ~Broken /\ remaining(k, other) = <<>>, q)
               \o (IF /\ remaining(k, other) # <<>>
                      /\ Len(outputBuffer_) + Len(remaining(k, other)) >= HighWaterMark
                      /\ Len(outputBuffer_) < HighWaterMark
                     THEN <<Call("highWater")>> ELSE <<>>)
    BY <1>2 DEF SendInLoop
  <2> DEFINE faultError == fault(other)
             rest == remaining(k, other)
  <2>2. k \in 0 .. Len(data)
    BY <1>0, <2>1, TakenBounds
  <2>3. /\ SubSeq(data, 1, k) \in Seq(Cell)
        /\ SubSeq(data, k + 1, Len(data)) \in Seq(Cell)
        /\ SubSeq(data, 1, k) \o SubSeq(data, k + 1, Len(data)) = data
    BY <2>2, SplitAt
  <2>4. rest \in Seq(Cell)
    BY <1>0, <2>3
  <2>5. k = 0 => SubSeq(data, 1, k) = <<>> /\ SubSeq(data, k + 1, Len(data)) = data
    <3>1. SubSeq(data, 1, 0) = <<>>
      BY SubSeqEmpty
    <3>2. SubSeq(data, 0 + 1, Len(data)) = data
      BY SubSeqFull
    <3>. QED
      BY <3>1, <3>2
  <2>6. /\ outputBuffer_' \in Seq(Cell) /\ wire' \in Seq(Cell)
        /\ accepted' \in Seq(Cell) /\ soError' \in BOOLEAN
    BY <2>0, <2>1, <2>3, <2>4, ConcatProperties
  <2>7. queue' \in Seq(Functor)
    <3>1. <<Call("highWater")>> \in Seq(Functor) /\ <<>> \in Seq(Functor)
      BY FunctorsTyped
    <3>2. NotifyComplete(direct /\ ~Broken /\ rest = <<>>, q) \in Seq(Functor)
      BY NotifyTyped DEF WriteDirectly
    <3>. QED
      BY <2>1, <3>1, <3>2, ConcatProperties
  <2>8. events_' \subseteq {"read", "write"} /\ index' \in {"kNew", "kAdded", "kDeleted"}
    BY <2>0, <2>1, UpdateTyped DEF chanVars, enableWriting
  <2>9. StreamIntact'
    <3>1. CASE faultError
      <4>1. k = 0 /\ rest = <<>>
        BY <2>1, <3>1 DEF Taken
      <4>. QED
        BY <2>0, <2>1, <2>5, <3>1, <4>1, ConcatEmptySeq DEF StreamIntact
    <3>2. CASE direct /\ ~faultError
      <4>1. outputBuffer_ = <<>> /\ rest = SubSeq(data, k + 1, Len(data))
        BY <3>2 DEF WriteDirectly
      <4>2. outputBuffer_' = rest /\ accepted = wire
        BY <2>0, <2>1, <2>4, <4>1, ConcatEmptySeq
      <4>3. (wire \o SubSeq(data, 1, k)) \o rest = wire \o (SubSeq(data, 1, k) \o rest)
        <5>1. \A b \in Seq(Cell) : (wire \o SubSeq(data, 1, k)) \o b
                 = wire \o (SubSeq(data, 1, k) \o b)
          BY <2>0, <2>3, CellsAssociate
        <5>. QED
          BY <2>4, <5>1
      <4>4. wire' \o outputBuffer_' = wire \o (SubSeq(data, 1, k) \o rest)
        BY <2>1, <4>2, <4>3
      <4>. QED
        BY <2>1, <2>3, <3>2, <4>1, <4>2, <4>4 DEF StreamIntact
    <3>3. CASE ~direct
      <4>1. wire' = wire /\ outputBuffer_' = outputBuffer_ \o data
        BY <2>0, <2>1, <2>5, <3>3, ConcatEmptySeq
      <4>2. wire \o (outputBuffer_ \o data) = (wire \o outputBuffer_) \o data
        <5>1. \A b \in Seq(Cell) : (wire \o outputBuffer_) \o b = wire \o (outputBuffer_ \o b)
          BY <2>0, CellsAssociate
        <5>. QED
          BY <5>1
      <4>3. accepted' = accepted \o data
        BY <2>1, <3>3
      <4>4. wire \o outputBuffer_ = accepted
        BY <2>0
      <4>. QED
        BY <4>1, <4>2, <4>3, <4>4 DEF StreamIntact
    <3>. QED
      BY <3>1, <3>2, <3>3
  <2>10. outputBuffer_' = <<>> <=> outputBuffer_ = <<>> /\ rest = <<>>
    <3>1. Len(outputBuffer_') = Len(outputBuffer_) + Len(rest)
      BY <2>0, <2>1, <2>4, ConcatProperties
    <3>. QED
      BY <2>0, <2>1, <2>4, <2>6, <3>1, EmptySeq, LenProperties
  <2>11. /\ isWriting' <=> isWriting \/ rest # <<>>
         /\ (isWriting => index = "kAdded") => (isWriting' => index' = "kAdded")
    BY <2>1 DEF isWriting, chanVars, UpdateChannel, enableWriting
  <2>. QED
    BY <2>6, <2>7, <2>8, <2>9, <2>10, <2>11
<1>. QED
  BY <1>1, <1>2

\* What handleWrite does to the output: it moves a prefix of the buffer.
LEMMA HandleWriteOutput ==
    ASSUME TypeOK, StreamIntact, HandleWrite
    PROVE  /\ outputBuffer_' \in Seq(Cell) /\ wire' \in Seq(Cell)
           /\ events_' \subseteq {"read", "write"}
           /\ index' \in {"kNew", "kAdded", "kDeleted"}
           /\ queue' \in Seq(Functor)
           /\ wrShut' \in BOOLEAN /\ soError' \in BOOLEAN
           /\ StreamIntact'
           /\ (outputBuffer_ # <<>> <=> isWriting) => (outputBuffer_' # <<>> <=> isWriting')
           /\ (isWriting => index = "kAdded") => (isWriting' => index' = "kAdded")
           /\ wrShut' => wrShut \/ outputBuffer_' = <<>>
<1>0. /\ outputBuffer_ \in Seq(Cell) /\ wire \in Seq(Cell) /\ queue \in Seq(Functor)
      /\ events_ \subseteq {"read", "write"} /\ index \in {"kNew", "kAdded", "kDeleted"}
      /\ wrShut \in BOOLEAN /\ soError \in BOOLEAN
      /\ wire \o outputBuffer_ = accepted /\ accepted' = accepted
  BY DEF TypeOK, StreamIntact, HandleWrite
<1>1. Len(outputBuffer_) \in Nat
  BY <1>0, LenProperties
<1>2. PICK n \in Taken(Len(outputBuffer_)) :
        IF isWriting /\ n > 0
          THEN /\ wire' = wire \o SubSeq(outputBuffer_, 1, n)
               /\ outputBuffer_' = SubSeq(outputBuffer_, n + 1, Len(outputBuffer_))
               /\ IF outputBuffer_' = <<>>
                    THEN /\ disableWriting
                         /\ wrShut' = (wrShut \/ Not(state_) = kDisconnecting)
                    ELSE UNCHANGED <<chanVars, wrShut>>
               /\ queue' = NotifyComplete(outputBuffer_' = <<>>, queue)
          ELSE UNCHANGED <<chanVars, wire, outputBuffer_, queue, wrShut>>
  BY DEF HandleWrite
<1>3. soError' \in BOOLEAN
  BY <1>0 DEF HandleWrite
<1>4. CASE isWriting /\ n > 0
  <2>1. n \in 0 .. Len(outputBuffer_)
    BY <1>1, <1>2, TakenBounds
  <2>2. /\ SubSeq(outputBuffer_, 1, n) \in Seq(Cell)
        /\ SubSeq(outputBuffer_, n + 1, Len(outputBuffer_)) \in Seq(Cell)
        /\ SubSeq(outputBuffer_, 1, n) \o SubSeq(outputBuffer_, n + 1, Len(outputBuffer_))
              = outputBuffer_
    BY <1>0, <2>1, SplitAt
  <2>a. /\ wire' = wire \o SubSeq(outputBuffer_, 1, n)
        /\ outputBuffer_' = SubSeq(outputBuffer_, n + 1, Len(outputBuffer_))
    BY <1>2, <1>4
  <2>3. outputBuffer_' \in Seq(Cell) /\ wire' \in Seq(Cell)
    BY <1>0, <2>a, <2>2, ConcatProperties
  <2>4. (wire \o SubSeq(outputBuffer_, 1, n))
             \o SubSeq(outputBuffer_, n + 1, Len(outputBuffer_)) = wire \o outputBuffer_
    <3>1. \A b \in Seq(Cell) : (wire \o SubSeq(outputBuffer_, 1, n)) \o b
             = wire \o (SubSeq(outputBuffer_, 1, n) \o b)
      BY <1>0, <2>2, CellsAssociate
    <3>. QED
      BY <2>2, <3>1
  <2>5. StreamIntact'
    BY <1>0, <1>2, <1>4, <2>4 DEF StreamIntact
  <2>6. queue' \in Seq(Functor)
    BY <1>0, <1>2, <1>4, NotifyTyped
  <2>7. outputBuffer_ # <<>>
    <3>1. Len(outputBuffer_) > 0
      BY <1>1, <1>4, <2>1
    <3>. QED
      BY <3>1, EmptySeq
  <2>. QED
    BY <1>0, <1>2, <1>3, <1>4, <2>3, <2>5, <2>6, <2>7
       DEF UpdateChannel, disableWriting, chanVars, isWriting
<1>5. CASE ~(isWriting /\ n > 0)
  BY <1>0, <1>2, <1>3, <1>5 DEF chanVars, isWriting, StreamIntact
<1>. QED
  BY <1>4, <1>5

(***************************************************************************)
(* Type correctness.                                                       *)
(***************************************************************************)
LEMMA TypeInit == Init => TypeOK
<1> SUFFICES ASSUME Init PROVE TypeOK
  OBVIOUS
<1>1. /\ outputBuffer_ \in Seq(Cell) /\ wire \in Seq(Cell) /\ accepted \in Seq(Cell)
  BY EmptySeq DEF Init
<1>2. queue \in Seq(Functor)
  BY FunctorsTyped DEF Init
<1>3. /\ userPc \in [User -> {"idle", "send", "setState", "shutdown"}]
      /\ nsent \in [Sender -> 0 .. MaxSends]
  BY ConnectionAssumption DEF Init
<1>4. /\ state_ \in 0 .. 3 /\ removing \in Nat /\ ups \in Nat /\ downs \in Nat
      /\ events_ \subseteq {"read", "write"} /\ revents_ \subseteq {"hup", "in", "out"}
      /\ reused \subseteq Message
  BY DEF Init, kConnecting
<1>5. /\ index \in {"kNew", "kAdded", "kDeleted"} /\ peer \in {"open", "fin", "reset"}
      /\ pc \in Callback \union {"wait", "crashed"} /\ server \in {"has", "erased", "gone"}
      /\ wrShut \in BOOLEAN /\ inbox \in BOOLEAN /\ soError \in BOOLEAN
      /\ destroyed \in BOOLEAN /\ revived \in BOOLEAN
  BY DEF Init
<1>. QED
  BY <1>1, <1>2, <1>3, <1>4, <1>5 DEF TypeOK

LEMMA DestroyedTyped == TypeOK /\ ConnectDestroyed => TypeOK'
<1> SUFFICES ASSUME TypeOK, ConnectDestroyed PROVE TypeOK'
  OBVIOUS
<1> USE DEF objVars, netVars, serverVars, userVars, envVars, chanVars, outVars, histVars
<1>1. /\ events_' \subseteq {"read", "write"} /\ index' \in {"kNew", "kAdded", "kDeleted"}
      /\ state_' \in 0 .. 3 /\ downs' \in Nat /\ pc' \in Callback \union {"wait", "crashed"}
  <2>1. CASE state_ = kConnected
    BY <2>1 DEF ConnectDestroyed, UpdateChannel, disableAll, TypeOK, kDisconnected, Callback
  <2>2. CASE state_ # kConnected
    BY <2>2 DEF ConnectDestroyed, remove, TypeOK
  <2>. QED
    BY <2>1, <2>2
<1>2. queue' \in Seq(Functor)
  BY HeadTailProperties DEF ConnectDestroyed, NextFunctor, TypeOK
<1>3. /\ destroyed' = TRUE
      /\ UNCHANGED <<outputBuffer_, wire, accepted, wrShut, peer, inbox, soError, revents_,
                     server, removing, userPc, nsent, reused, revived, ups>>
  BY DEF ConnectDestroyed
<1>. QED
  BY <1>1, <1>2, <1>3 DEF TypeOK

LEMMA TypeStep == OutputInv /\ [Next]_vars => TypeOK'
<1> SUFFICES ASSUME OutputInv, [Next]_vars PROVE TypeOK'
  OBVIOUS
<1>0. /\ TypeOK /\ StreamIntact
      /\ \A u \in User : u \in Sender /\ (userPc[u] = "send" => nsent[u] > 0)
      /\ Loop \in Sender /\ MaxSends \in Nat /\ MaxOwnSends \in 0 .. MaxSends
  BY ConnectionAssumption DEF OutputInv, Sender
<1> USE <1>0 DEF Callback, objVars, netVars, serverVars, userVars, envVars, chanVars,
                 outVars, histVars, kDisconnected, kConnected, kDisconnecting
\* send() and shutdown() of another thread.
<1>1. ASSUME NEW u \in User, CallSend(u) PROVE TypeOK'
  <2>1. nsent' \in [Sender -> 0 .. MaxSends]
    BY <1>1 DEF CallSend, TypeOK
  <2>. QED
    BY <1>1, <2>1 DEF CallSend, TypeOK
<1>2. ASSUME NEW u \in User, PushSend(u) PROVE TypeOK'
  <2>1. [from |-> u, no |-> nsent[u]] \in Message
    BY <1>2 DEF PushSend, TypeOK, Message
  <2>2. queue' \in Seq(Functor)
    BY <1>2, <2>1, FunctorsTyped, AppendProperties DEF PushSend, TypeOK
  <2>. QED
    BY <1>2, <2>2 DEF PushSend, TypeOK
<1>3. ASSUME NEW u \in User, ReuseString(u) PROVE TypeOK'
  <2>1. [from |-> u, no |-> nsent[u]] \in Message
    BY <1>3 DEF ReuseString, TypeOK, Message
  <2>. QED
    BY <1>3, <2>1 DEF ReuseString, TypeOK
<1>4. ASSUME NEW u \in User, CallShutdown(u) PROVE TypeOK'
  BY <1>4 DEF CallShutdown, TypeOK
<1>5. ASSUME NEW u \in User, SetDisconnecting(u) PROVE TypeOK'
  BY <1>5 DEF SetDisconnecting, TypeOK
<1>6. ASSUME NEW u \in User, PushShutdown(u) PROVE TypeOK'
  BY <1>6, FunctorsTyped, AppendProperties DEF PushShutdown, TypeOK
\* The loop's thread.
<1>7. CASE OwnSend
  <2>1. nsent[Loop] \in 0 .. MaxSends /\ nsent'[Loop] = nsent[Loop] + 1
    BY <1>7 DEF OwnSend, TypeOK
  <2>2. nsent' \in [Sender -> 0 .. MaxSends]
    BY <1>7 DEF OwnSend, TypeOK
  <2>3. Cells([from |-> Loop, no |-> nsent'[Loop]]) \in Seq(Cell)
    BY <1>7, <2>1, NextMessage, CellsTyped DEF OwnSend
  <2>4. queue \in Seq(Functor)
    BY DEF TypeOK
  <2>. QED
    BY <1>7, <2>2, <2>3, <2>4, SendInLoopOutput DEF OwnSend, TypeOK
<1>8. ASSUME NEW m \in Message, RunSend(m) PROVE TypeOK'
  <2>1. Tail(queue) \in Seq(Functor)
    BY <1>8, HeadTailProperties DEF RunSend, NextFunctor, TypeOK
  <2>2. Cells(m) \in Seq(Cell)
    BY CellsTyped
  <2>3. SendInLoop(Cells(m), Tail(queue))
    BY <1>8 DEF RunSend
  <2>4. /\ outputBuffer_' \in Seq(Cell) /\ wire' \in Seq(Cell) /\ accepted' \in Seq(Cell)
        /\ events_' \subseteq {"read", "write"} /\ index' \in {"kNew", "kAdded", "kDeleted"}
        /\ soError' \in BOOLEAN /\ queue' \in Seq(Functor)
    BY <2>1, <2>2, <2>3, SendInLoopOutput
  <2>. QED
    BY <1>8, <2>4 DEF RunSend, TypeOK
<1>9. CASE HandleWrite
  BY <1>9, HandleWriteOutput DEF HandleWrite, TypeOK
<1>10. CASE OwnShutdown
  BY <1>10 DEF OwnShutdown, ShutdownInLoop, TypeOK
<1>11. CASE ConnectionEstablished
  BY <1>11, HeadTailProperties
     DEF ConnectionEstablished, NextFunctor, UpdateChannel, enableReading, TypeOK
<1>12. CASE RunShutdown
  BY <1>12, HeadTailProperties DEF RunShutdown, ShutdownInLoop, NextFunctor, TypeOK
<1>13. CASE RunNotify
  BY <1>13, HeadTailProperties DEF RunNotify, NextFunctor, TypeOK
<1>14. CASE ConnectDestroyed
  BY <1>0, <1>14, DestroyedTyped
<1>15. ASSUME NEW room \in BOOLEAN, Poll(room) PROVE TypeOK'
  BY <1>15 DEF Poll, TypeOK
<1>16. CASE HandleHup
  BY <1>16 DEF HandleHup, BeginClose, UpdateChannel, disableAll, TypeOK
<1>17. CASE HandleRead
  BY <1>17 DEF HandleRead, TypeOK
<1>18. CASE HandleReadEnd
  BY <1>18 DEF HandleReadEnd, BeginClose, UpdateChannel, disableAll, TypeOK
<1>19. CASE HandleReadError
  BY <1>19 DEF HandleReadError, TypeOK
<1>20. CASE CallbackReturn
  BY <1>20 DEF CallbackReturn, remove, TypeOK
\* The base loop and the peer.
<1>21. CASE RemoveConnectionInLoop
  BY <1>21, FunctorsTyped, AppendProperties DEF RemoveConnectionInLoop, TypeOK
<1>22. CASE DestroyServer
  BY <1>22, FunctorsTyped, AppendProperties DEF DestroyServer, TypeOK
<1>23. CASE PeerSends
  BY <1>23 DEF PeerSends, TypeOK
<1>24. CASE PeerFin
  BY <1>24 DEF PeerFin, TypeOK
<1>25. CASE PeerReset
  BY <1>25 DEF PeerReset, TypeOK
<1>26. CASE UNCHANGED vars
  BY <1>26 DEF vars, TypeOK
<1>27. QED
  BY <1>1, <1>2, <1>3, <1>4, <1>5, <1>6, <1>7, <1>8, <1>9, <1>10, <1>11, <1>12,
     <1>13, <1>14, <1>15, <1>16, <1>17, <1>18, <1>19, <1>20, <1>21, <1>22, <1>23,
     <1>24, <1>25, <1>26 DEF Next, UserStep, LoopStep, RunFunctor, HandleEvent

(***************************************************************************)
(* The output of a connection.                                             *)
(***************************************************************************)
LEMMA OutputInvInit == Init => OutputInv
<1> SUFFICES ASSUME Init PROVE OutputInv
  OBVIOUS
<1>1. wire \o outputBuffer_ = accepted
  <2>1. <<>> \o <<>> = <<>>
    BY EmptySeq, ConcatEmptySeq
  <2>. QED
    BY <2>1 DEF Init
<1>. QED
  BY <1>1, TypeInit DEF Init, OutputInv, StreamIntact, WriteInterest, isWriting

LEMMA OutputInvStep == OutputInv /\ [Next]_vars => OutputInv'
<1> SUFFICES ASSUME OutputInv, [Next]_vars PROVE OutputInv'
  OBVIOUS
<1>0. /\ TypeOK' /\ TypeOK /\ StreamIntact /\ downs \in Nat
      /\ userPc \in [User -> {"idle", "send", "setState", "shutdown"}]
      /\ nsent \in [Sender -> 0 .. MaxSends]
      /\ Loop \in Sender /\ \A u \in User : u \in Sender
      /\ MaxSends \in Nat /\ MaxOwnSends \in 0 .. MaxSends /\ queue \in Seq(Functor)
  BY TypeStep, ConnectionAssumption DEF OutputInv, TypeOK, Sender
<1> USE <1>0 DEF OutputInv, WriteInterest, isWriting, objVars, netVars,
                 serverVars, userVars, envVars, chanVars, outVars, histVars
\* Other threads leave the connection's data and channel alone.
<1>1. ASSUME NEW u \in User, CallSend(u) PROVE OutputInv'
  BY <1>1 DEF CallSend, StreamIntact
<1>2. ASSUME NEW u \in User,
             \/ PushSend(u) \/ ReuseString(u) \/ CallShutdown(u)
             \/ SetDisconnecting(u) \/ PushShutdown(u)
      PROVE  OutputInv'
  <2>1. CASE PushSend(u)
    BY <2>1 DEF PushSend, StreamIntact
  <2>2. CASE ReuseString(u)
    BY <2>2 DEF ReuseString, StreamIntact
  <2>3. CASE CallShutdown(u)
    BY <2>3 DEF CallShutdown, StreamIntact
  <2>4. CASE SetDisconnecting(u)
    BY <2>4 DEF SetDisconnecting, StreamIntact
  <2>5. CASE PushShutdown(u)
    BY <2>5 DEF PushShutdown, StreamIntact
  <2>. QED
    BY <1>2, <2>1, <2>2, <2>3, <2>4, <2>5
\* sendInLoop.
<1>3. CASE OwnSend
  <2>1. nsent[Loop] \in 0 .. MaxSends /\ nsent'[Loop] = nsent[Loop] + 1
    BY <1>3 DEF OwnSend
  <2>2. Cells([from |-> Loop, no |-> nsent'[Loop]]) \in Seq(Cell)
    BY <1>3, <2>1, NextMessage, CellsTyped DEF OwnSend
  <2>3. SendInLoop(Cells([from |-> Loop, no |-> nsent'[Loop]]), queue)
    BY <1>3 DEF OwnSend
  <2>4. /\ StreamIntact'
        /\ (outputBuffer_ # <<>> <=> isWriting)
              => (outputBuffer_' # <<>> <=> isWriting')
        /\ (isWriting => index = "kAdded") => (isWriting' => index' = "kAdded")
    BY <2>2, <2>3, SendInLoopOutput
  <2>5. \A u \in User : nsent'[u] = nsent[u]
    BY <1>3, ConnectionAssumption DEF OwnSend
  <2>. QED
    BY <1>3, <2>4, <2>5 DEF OwnSend
<1>4. ASSUME NEW m \in Message, RunSend(m) PROVE OutputInv'
  <2>1. Tail(queue) \in Seq(Functor)
    BY <1>4, HeadTailProperties DEF RunSend, NextFunctor
  <2>2. Cells(m) \in Seq(Cell) /\ SendInLoop(Cells(m), Tail(queue))
    BY <1>4, CellsTyped DEF RunSend
  <2>3. /\ StreamIntact'
        /\ (outputBuffer_ # <<>> <=> isWriting)
              => (outputBuffer_' # <<>> <=> isWriting')
        /\ (isWriting => index = "kAdded") => (isWriting' => index' = "kAdded")
    BY <2>1, <2>2, SendInLoopOutput
  <2>. QED
    BY <1>4, <2>3 DEF RunSend
<1>5. CASE HandleWrite
  <2>1. /\ StreamIntact'
        /\ (outputBuffer_ # <<>> <=> isWriting) => (outputBuffer_' # <<>> <=> isWriting')
        /\ (isWriting => index = "kAdded") => (isWriting' => index' = "kAdded")
        /\ wrShut' => wrShut \/ outputBuffer_' = <<>>
    BY <1>5, HandleWriteOutput
  <2>. QED
    BY <1>5, <2>1 DEF HandleWrite
\* shutdownInLoop closes only what has nothing to write.
<1>6. CASE OwnShutdown
  BY <1>6 DEF OwnShutdown, ShutdownInLoop, StreamIntact
<1>7. CASE RunShutdown
  BY <1>7 DEF RunShutdown, ShutdownInLoop, StreamIntact
\* Registration and closing.
<1>8. CASE ConnectionEstablished
  BY <1>8 DEF ConnectionEstablished, UpdateChannel, enableReading, StreamIntact
<1>9. CASE ConnectDestroyed
  <2>1. CASE state_ = kConnected
    BY <1>9, <2>1 DEF ConnectDestroyed, UpdateChannel, disableAll, remove, StreamIntact
  <2>2. CASE state_ # kConnected
    BY <1>9, <2>2 DEF ConnectDestroyed, remove, StreamIntact
  <2>. QED
    BY <2>1, <2>2
<1>10. CASE HandleHup
  BY <1>10 DEF HandleHup, BeginClose, UpdateChannel, disableAll, StreamIntact
<1>11. CASE HandleReadEnd
  BY <1>11 DEF HandleReadEnd, BeginClose, UpdateChannel, disableAll, StreamIntact
<1>12. CASE CallbackReturn
  BY <1>12 DEF CallbackReturn, remove, StreamIntact
<1>13. ASSUME NEW room \in BOOLEAN, Poll(room) PROVE OutputInv'
  BY <1>13 DEF Poll, StreamIntact
<1>14. CASE RunNotify \/ HandleRead \/ HandleReadError
  <2>1. CASE RunNotify
    BY <2>1 DEF RunNotify, StreamIntact
  <2>2. CASE HandleRead
    BY <2>2 DEF HandleRead, StreamIntact
  <2>3. CASE HandleReadError
    BY <2>3 DEF HandleReadError, StreamIntact
  <2>. QED
    BY <1>14, <2>1, <2>2, <2>3
<1>15. CASE RemoveConnectionInLoop \/ DestroyServer
  <2>1. CASE RemoveConnectionInLoop
    BY <2>1 DEF RemoveConnectionInLoop, StreamIntact
  <2>2. CASE DestroyServer
    BY <2>2 DEF DestroyServer, StreamIntact
  <2>. QED
    BY <1>15, <2>1, <2>2
<1>16. CASE PeerSends \/ PeerFin \/ PeerReset
  <2>1. CASE PeerSends
    BY <2>1 DEF PeerSends, StreamIntact
  <2>2. CASE PeerFin
    BY <2>2 DEF PeerFin, StreamIntact
  <2>3. CASE PeerReset
    BY <2>3 DEF PeerReset, StreamIntact
  <2>. QED
    BY <1>16, <2>1, <2>2, <2>3
<1>17. CASE UNCHANGED vars
  BY <1>17 DEF vars, StreamIntact
<1>18. QED
  BY <1>1, <1>2, <1>3, <1>4, <1>5, <1>6, <1>7, <1>8, <1>9, <1>10, <1>11, <1>12,
     <1>13, <1>14, <1>15, <1>16, <1>17
     DEF Next, UserStep, LoopStep, RunFunctor, HandleEvent

\* What the output path keeps, whoever sends and shuts down.
THEOREM OutputInvariant == SafetySpec => []OutputInv
  BY OutputInvInit, OutputInvStep, PTL DEF SafetySpec

\* Every reachable state of a connection is of the declared type.
THEOREM TypeCorrect == SafetySpec => []TypeOK
<1>1. OutputInv => TypeOK
  BY DEF OutputInv
<1>. QED
  BY <1>1, OutputInvariant, PTL

\* Whatever write() takes at a time and whichever thread sends, the wire and
\* the output buffer together hold what sendInLoop accepted, in order.
THEOREM StreamIsIntact == SafetySpec => []StreamIntact
<1>1. OutputInv => StreamIntact
  BY DEF OutputInv
<1>. QED
  BY <1>1, OutputInvariant, PTL

\* Until the connection is down, EPOLLOUT is asked for exactly while output
\* waits, and then the channel is registered.
THEOREM OutputIsWaitedFor == SafetySpec => []WriteInterest
<1>1. OutputInv => WriteInterest
  BY DEF OutputInv
<1>. QED
  BY <1>1, OutputInvariant, PTL

\* shutdownInLoop and handleWrite half-close only what has nothing to write;
\* no other step half-closes.
LEMMA HalfCloseStep ==
    OutputInv /\ [Next]_vars
        => [wrShut' /\ ~wrShut /\ downs = 0 => outputBuffer_' = <<>>]_vars
<1> SUFFICES ASSUME OutputInv, [Next]_vars, wrShut', ~wrShut, downs = 0
             PROVE  outputBuffer_' = <<>>
  OBVIOUS
<1> USE DEF objVars, netVars, serverVars, userVars, envVars, chanVars, outVars, histVars
<1>1. CASE OwnShutdown
  BY <1>1 DEF OwnShutdown, ShutdownInLoop, OutputInv, WriteInterest
<1>2. CASE RunShutdown
  BY <1>2 DEF RunShutdown, ShutdownInLoop, OutputInv, WriteInterest
<1>3. CASE HandleWrite
  BY <1>3, HandleWriteOutput DEF OutputInv
<1>4. ASSUME NEW u \in User, UserStep(u) PROVE FALSE
  BY <1>4 DEF UserStep, CallSend, PushSend, ReuseString, CallShutdown, SetDisconnecting,
              PushShutdown
<1>5. ~OwnSend /\ \A m \in Message : ~RunSend(m)
  BY DEF OwnSend, RunSend
<1>6. ~ConnectionEstablished /\ ~RunNotify /\ ~ConnectDestroyed
  BY DEF ConnectionEstablished, RunNotify, ConnectDestroyed
<1>7. ~HandleHup /\ ~HandleRead /\ ~HandleReadEnd /\ ~HandleReadError
  BY DEF HandleHup, HandleRead, HandleReadEnd, HandleReadError
<1>8. ~CallbackReturn /\ \A room \in BOOLEAN : ~Poll(room)
  BY DEF CallbackReturn, Poll
<1>9. /\ ~RemoveConnectionInLoop /\ ~DestroyServer /\ ~PeerSends /\ ~PeerFin /\ ~PeerReset
      /\ ~UNCHANGED vars
  BY DEF RemoveConnectionInLoop, DestroyServer, PeerSends, PeerFin, PeerReset, vars
<1>. QED
  BY <1>1, <1>2, <1>3, <1>4, <1>5, <1>6, <1>7, <1>8, <1>9
     DEF Next, LoopStep, RunFunctor, HandleEvent

\* shutdown(), from whichever thread, never cuts off accepted data.
THEOREM NothingIsCutOff == SafetySpec => HalfCloseAfterDrain
  BY OutputInvariant, HalfCloseStep, PTL DEF SafetySpec, HalfCloseAfterDrain

(***************************************************************************)
(* "up", then "down", each once.  The first functor is "established", and  *)
(* until it has run nothing else happens; a connected connection is        *)
(* registered for reading; what epoll_wait reports is of a registered      *)
(* channel; and after "down" the channel asks for nothing and no event is  *)
(* left to be handled.                                                     *)
(***************************************************************************)
UntilUp ==
    ups = 0 =>
        /\ state_ = kConnecting /\ index = "kNew" /\ revents_ = {}
        /\ pc = "wait" /\ downs = 0
        /\ \A u \in User : userPc[u] = "idle"
        /\ queue # <<>> /\ Head(queue) = Call("established")
UpOnce ==
    /\ ups <= 1
    /\ \A i \in DOMAIN queue : queue[i] = Call("established") => i = 1 /\ ups = 0
WhileConnected ==
    state_ = kConnected => /\ ups = 1 /\ downs = 0
                           /\ index = "kAdded" /\ "read" \in events_
EventsOfRegistered ==
    /\ revents_ # {} /\ downs = 0 => index = "kAdded"
    /\ ~({"hup", "in"} \subseteq revents_)
    /\ pc = "destroying" => revents_ = {} /\ downs > 0
AfterDown ==
    /\ downs <= 1
    /\ downs > 0 => /\ state_ = kDisconnected /\ events_ = {} /\ index # "kAdded"
                    /\ revents_ \subseteq {"out"}
UpDownInv ==
    ~revived => UntilUp /\ UpOnce /\ WhileConnected /\ EventsOfRegistered /\ AfterDown

\* What a step leaves of the queue: what it pushes comes behind the rest.
LEMMA QueueGrows ==
    ASSUME NEW q \in Seq(Functor), NEW r \in Seq(Functor)
    PROVE  /\ q \o r \in Seq(Functor)
           /\ \A i \in DOMAIN (q \o r) :
                 \/ i \in DOMAIN q /\ (q \o r)[i] = q[i]
                 \/ i - Len(q) \in DOMAIN r /\ (q \o r)[i] = r[i - Len(q)]
           /\ q # <<>> => q \o r # <<>> /\ Head(q \o r) = Head(q)
<1>1. /\ q \o r \in Seq(Functor) /\ Len(q \o r) = Len(q) + Len(r)
      /\ Len(q) \in Nat /\ Len(r) \in Nat
      /\ DOMAIN q = 1 .. Len(q) /\ DOMAIN r = 1 .. Len(r)
      /\ DOMAIN (q \o r) = 1 .. Len(q) + Len(r)
      /\ \A i \in 1 .. Len(q) + Len(r) :
            (q \o r)[i] = IF i <= Len(q) THEN q[i] ELSE r[i - Len(q)]
  BY ConcatProperties, LenProperties
<1>2. ASSUME q # <<>> PROVE q \o r # <<>> /\ Head(q \o r) = Head(q)
  <2>1. Len(q) > 0
    BY <1>2, EmptySeq
  <2>2. q \o r # <<>>
    BY <1>1, <2>1, EmptySeq
  <2>3. Head(q \o r) = (q \o r)[1] /\ Head(q) = q[1]
    BY <1>1, <1>2, <2>2
  <2>. QED
    BY <1>1, <2>1, <2>2, <2>3
<1>. QED
  BY <1>1, <1>2

LEMMA QueueAppends ==
    ASSUME NEW q \in Seq(Functor), NEW f \in Functor
    PROVE  /\ Append(q, f) \in Seq(Functor) /\ Append(q, f) # <<>>
           /\ Len(Append(q, f)) = Len(q) + 1
           /\ DOMAIN Append(q, f) = 1 .. Len(q) + 1 /\ DOMAIN q = 1 .. Len(q)
           /\ Append(q, f)[Len(q) + 1] = f
           /\ \A i \in 1 .. Len(q) : Append(q, f)[i] = q[i]
           /\ q # <<>> => Head(Append(q, f)) = Head(q)
  BY AppendProperties, LenProperties, HeadTailAppend

LEMMA QueueShrinks ==
    ASSUME NEW q \in Seq(Functor), q # <<>>
    PROVE  /\ Tail(q) \in Seq(Functor) /\ Head(q) = q[1]
           /\ Len(q) \in Nat \ {0}
           /\ DOMAIN q = 1 .. Len(q) /\ DOMAIN Tail(q) = 1 .. Len(q) - 1
           /\ \A i \in DOMAIN Tail(q) : i + 1 \in DOMAIN q /\ Tail(q)[i] = q[i + 1]
<1>1. Len(q) \in Nat \ {0} /\ DOMAIN q = 1 .. Len(q)
  BY EmptySeq, LenProperties
<1>2. /\ Tail(q) \in Seq(Functor) /\ Len(Tail(q)) = Len(q) - 1
      /\ \A i \in 1 .. Len(Tail(q)) : Tail(q)[i] = q[i + 1]
  BY HeadTailProperties
<1>3. DOMAIN Tail(q) = 1 .. Len(Tail(q))
  BY <1>2, LenProperties
<1>4. Head(q) = q[1]
  BY <1>1
<1>. QED
  BY <1>1, <1>2, <1>3, <1>4

LEMMA FunctorsAssociate ==
    ASSUME NEW q \in Seq(Functor), NEW r \in Seq(Functor), NEW t \in Seq(Functor)
    PROVE  (q \o r) \o t = q \o (r \o t)
  BY ConcatAssociative

\* sendInLoop pushes notifications only, and of the channel it only asks for
\* EPOLLOUT, unless the connection is down.
LEMMA SendInLoopQueue ==
    ASSUME TypeOK, NEW data \in Seq(Cell), NEW q \in Seq(Functor), SendInLoop(data, q)
    PROVE  \E r \in Seq(Functor) :
              /\ queue' = q \o r
              /\ \A i \in DOMAIN r : r[i] \in {Call("complete"), Call("highWater")}
<1>1. CASE state_ = kDisconnected
  <2>1. queue' = q /\ q \o <<>> = q /\ <<>> \in Seq(Functor)
    BY <1>1, ConcatEmptySeq, EmptySeq DEF SendInLoop
  <2>2. \A i \in DOMAIN <<>> : <<>>[i] \in {Call("complete"), Call("highWater")}
    OBVIOUS
  <2>. QED
    BY <2>1, <2>2
<1>2. CASE state_ # kDisconnected
  <2>1. PICK drained \in BOOLEAN, full \in BOOLEAN :
          queue' = NotifyComplete(drained, q) \o (IF full THEN <<Call("highWater")>> ELSE <<>>)
    BY <1>2 DEF SendInLoop, WriteDirectly
  <2> DEFINE c == IF drained THEN <<Call("complete")>> ELSE <<>>
             h == IF full THEN <<Call("highWater")>> ELSE <<>>
  <2>2. c \in Seq(Functor) /\ h \in Seq(Functor)
    BY FunctorsTyped
  <2>3. NotifyComplete(drained, q) = q \o c
    BY FunctorsTyped, AppendIsConcat, ConcatEmptySeq DEF NotifyComplete
  <2>4. queue' = (q \o c) \o h
    BY <2>1, <2>3
  <2> HIDE DEF c, h
  <2>5. q \o c \o h = q \o (c \o h) /\ c \o h \in Seq(Functor)
    BY <2>2, FunctorsAssociate, ConcatProperties
  <2>6. \A i \in DOMAIN (c \o h) : (c \o h)[i] \in {Call("complete"), Call("highWater")}
    <3>1. /\ DOMAIN c \subseteq {1} /\ (1 \in DOMAIN c => c[1] = Call("complete"))
          /\ DOMAIN h \subseteq {1} /\ (1 \in DOMAIN h => h[1] = Call("highWater"))
      BY DEF c, h
    <3>. QED
      BY <2>2, <3>1, QueueGrows
  <2>. QED
    BY <2>4, <2>5, <2>6
<1>. QED
  BY <1>1, <1>2

LEMMA SendInLoopChannel ==
    ASSUME NEW data, NEW q, SendInLoop(data, q)
    PROVE  /\ UNCHANGED chanVars \/ enableWriting
           /\ state_ = kDisconnected => UNCHANGED <<chanVars, accepted>>
<1>1. CASE state_ = kDisconnected
  BY <1>1 DEF SendInLoop, outVars, chanVars
<1>2. CASE state_ # kDisconnected
  BY <1>2 DEF SendInLoop, chanVars
<1>. QED
  BY <1>1, <1>2

\* What is pushed is never "established" ...
LEMMA PushKeepsUp ==
    ASSUME NEW q \in Seq(Functor), NEW n, NEW f \in Functor \ {Call("established")},
           \A i \in DOMAIN q : q[i] = Call("established") => i = 1 /\ n = 0
    PROVE  \A i \in DOMAIN Append(q, f) :
              Append(q, f)[i] = Call("established") => i = 1 /\ n = 0
  BY QueueAppends

LEMMA PushesKeepUp ==
    ASSUME NEW q \in Seq(Functor), NEW n, NEW r \in Seq(Functor),
           \A i \in DOMAIN q : q[i] = Call("established") => i = 1 /\ n = 0,
           \A i \in DOMAIN r : r[i] \in {Call("complete"), Call("highWater")}
    PROVE  \A i \in DOMAIN (q \o r) : (q \o r)[i] = Call("established") => i = 1 /\ n = 0
<1>1. Call("established") \notin {Call("complete"), Call("highWater")}
  BY DEF Call
<1>. QED
  BY <1>1, QueueGrows

\* ... and none is left when a functor has been taken.
LEMMA PopLeavesNoUp ==
    ASSUME NEW q \in Seq(Functor), q # <<>>, NEW n,
           \A i \in DOMAIN q : q[i] = Call("established") => i = 1 /\ n = 0
    PROVE  \A i \in DOMAIN Tail(q) : Tail(q)[i] # Call("established")
  BY QueueShrinks

LEMMA FunctorsDiffer ==
    /\ Call("established") \notin {Call("shutdown"), Call("complete"), Call("highWater"),
                                   Call("destroyed")}
    /\ \A m : SendCall(m) # Call("established")
  BY DEF Call, SendCall

LEMMA UpDownInit == Init => UpDownInv
<1> SUFFICES ASSUME Init PROVE UpDownInv
  OBVIOUS
<1>1. queue = <<Call("established")>> /\ ups = 0 /\ downs = 0 /\ revents_ = {} /\ pc = "wait"
      /\ state_ = kConnecting /\ index = "kNew" /\ userPc = [u \in User |-> "idle"]
  BY DEF Init
<1>2. DOMAIN queue = {1} /\ queue # <<>> /\ Head(queue) = Call("established")
  BY <1>1
<1>. QED
  BY <1>1, <1>2 DEF UpDownInv, UntilUp, UpOnce, WhileConnected, EventsOfRegistered, AfterDown,
     kConnecting, kConnected

\* The steps of other threads, of the peer and of the base loop.
LEMMA UpDownOutside ==
    ASSUME OutputInv, UpDownInv, ~revived',
           \/ \E u \in User : UserStep(u)
           \/ RemoveConnectionInLoop \/ DestroyServer \/ PeerSends \/ PeerFin \/ PeerReset
           \/ UNCHANGED vars
    PROVE  UpDownInv'
<1> USE DEF UntilUp, UpOnce, WhileConnected, EventsOfRegistered, AfterDown, objVars, netVars,
            serverVars, userVars, chanVars, outVars, histVars,
            kDisconnected, kConnecting, kConnected, kDisconnecting
<1>0. queue \in Seq(Functor) /\ userPc \in [User -> {"idle", "send", "setState", "shutdown"}]
      /\ nsent \in [Sender -> 0 .. MaxSends] /\ ups \in Nat
      /\ \A u \in User : u \in Sender /\ (userPc[u] = "send" => nsent[u] > 0)
  BY DEF OutputInv, TypeOK, Sender
<1>1. ASSUME UNCHANGED <<state_, index, events_, revents_, pc, ups, downs>>, ~revived,
             \/ UNCHANGED queue
             \/ \E f \in Functor \ {Call("established")} : queue' = Append(queue, f),
             ups = 0 => \A u \in User : userPc'[u] = "idle"
      PROVE  UpDownInv'
  <2>0. UntilUp /\ UpOnce /\ WhileConnected /\ EventsOfRegistered /\ AfterDown
    BY <1>1 DEF UpDownInv
  <2>1. /\ \A i \in DOMAIN queue' : queue'[i] = Call("established") => i = 1 /\ ups' = 0
        /\ queue # <<>> => queue' # <<>> /\ Head(queue') = Head(queue)
    <3>1. \A i \in DOMAIN queue : queue[i] = Call("established") => i = 1 /\ ups = 0
      BY <2>0
    <3>2. CASE UNCHANGED queue
      BY <1>1, <3>1, <3>2
    <3>3. ASSUME NEW f \in Functor \ {Call("established")}, queue' = Append(queue, f)
          PROVE  /\ \A i \in DOMAIN queue' : queue'[i] = Call("established") => i = 1 /\ ups = 0
                 /\ queue # <<>> => queue' # <<>> /\ Head(queue') = Head(queue)
      BY <1>0, <3>1, <3>3, PushKeepsUp, QueueAppends
    <3>. QED
      BY <1>1, <3>2, <3>3
  <2>. QED
    BY <1>1, <2>0, <2>1 DEF UpDownInv
<1>2. ASSUME NEW u \in User, UserStep(u) PROVE UpDownInv'
  <2>0. ~revived
    BY <1>2 DEF UserStep, CallSend, PushSend, ReuseString, CallShutdown, SetDisconnecting,
                PushShutdown
  <2>a. UntilUp /\ UpOnce /\ WhileConnected /\ EventsOfRegistered /\ AfterDown
    BY <2>0 DEF UpDownInv
  <2>1. CASE CallSend(u)
    BY <1>1, <2>0, <2>a, <2>1 DEF CallSend
  <2>2. CASE PushSend(u)
    <3>1. SendCall([from |-> u, no |-> nsent[u]]) \in Functor \ {Call("established")}
      BY <1>0, <2>2, FunctorsTyped, FunctorsDiffer, ConnectionAssumption DEF PushSend, Message
    <3>2. ups # 0
      BY <2>a, <2>2 DEF PushSend
    <3>. QED
      BY <1>1, <2>0, <2>2, <3>1, <3>2 DEF PushSend
  <2>3. CASE ReuseString(u)
    BY <1>1, <2>0, <2>a, <2>3 DEF ReuseString
  <2>4. CASE CallShutdown(u)
    BY <1>1, <2>0, <2>a, <2>4 DEF CallShutdown
  \* shutdown() finds the connection up, or it is revived.
  <2>5. CASE SetDisconnecting(u)
    <3>1. state_ # kDisconnected /\ state_' = kDisconnecting /\ ups # 0 /\ ups' = ups
      BY <2>a, <2>5 DEF SetDisconnecting
    <3>. QED
      BY <2>0, <2>a, <2>5, <3>1 DEF SetDisconnecting, UpDownInv
  <2>6. CASE PushShutdown(u)
    <3>1. ups # 0
      BY <2>a, <2>6 DEF PushShutdown
    <3>. QED
      BY <1>1, <2>0, <2>6, <3>1, FunctorsTyped, FunctorsDiffer DEF PushShutdown
  <2>. QED
    BY <1>2, <2>1, <2>2, <2>3, <2>4, <2>5, <2>6 DEF UserStep
<1>3. CASE RemoveConnectionInLoop \/ DestroyServer
  <2>1. queue' = Append(queue, Call("destroyed"))
        /\ UNCHANGED <<state_, index, events_, revents_, pc, ups, downs, userPc, revived>>
    BY <1>3 DEF RemoveConnectionInLoop, DestroyServer
  <2>. QED
    BY <1>1, <2>1, FunctorsTyped, FunctorsDiffer DEF UpDownInv
<1>4. CASE PeerSends \/ PeerFin \/ PeerReset \/ UNCHANGED vars
  <2>1. UNCHANGED <<queue, state_, index, events_, revents_, pc, ups, downs, userPc, revived>>
    BY <1>4 DEF PeerSends, PeerFin, PeerReset, vars
  <2>. QED
    BY <1>1, <2>1 DEF UpDownInv
<1>. QED
  BY <1>2, <1>3, <1>4

\* A functor other than "established" runs: the connection has been up, and the
\* queue holds no "established".
LEMMA RunsAfterUp ==
    ASSUME TypeOK, UntilUp, UpOnce, NEW f, f # Call("established"), NextFunctor(f)
    PROVE  /\ ups = 1
           /\ Tail(queue) \in Seq(Functor)
           /\ \A i \in DOMAIN Tail(queue) : Tail(queue)[i] # Call("established")
<1>1. ups # 0 /\ ups \in Nat /\ ups <= 1 /\ queue \in Seq(Functor) /\ queue # <<>>
  BY DEF UntilUp, UpOnce, NextFunctor, TypeOK
<1>2. /\ Tail(queue) \in Seq(Functor)
      /\ \A i \in DOMAIN Tail(queue) : Tail(queue)[i] # Call("established")
  BY <1>1, PopLeavesNoUp, HeadTailProperties DEF UpOnce
<1>. QED
  BY <1>1, <1>2

\* The functors.
LEMMA UpDownFunctors ==
    ASSUME OutputInv, UpDownInv, ~revived', RunFunctor
    PROVE  UpDownInv'
<1>0. TypeOK /\ queue \in Seq(Functor) /\ ups \in Nat /\ downs \in Nat /\ ~revived
  BY DEF OutputInv, TypeOK, RunFunctor, ConnectionEstablished, RunSend, RunShutdown, RunNotify,
         ConnectDestroyed, envVars, userVars
<1>a. UntilUp /\ UpOnce /\ WhileConnected /\ EventsOfRegistered /\ AfterDown
  BY <1>0 DEF UpDownInv
<1> USE DEF objVars, netVars, serverVars, userVars, envVars, chanVars, outVars, histVars,
            kDisconnected, kConnecting, kConnected, kDisconnecting
<1>1. CASE ConnectionEstablished
  <2>1. queue # <<>> /\ queue[1] = Call("established") /\ revents_ = {} /\ pc = "wait"
        /\ queue' = Tail(queue) /\ ups' = ups + 1 /\ state_' = kConnected /\ pc' = "up"
        /\ UNCHANGED <<revents_, downs>>
        /\ index' = "kAdded" /\ "read" \in events_'
    <3>1. queue # <<>> /\ Head(queue) = Call("established") /\ revents_ = {} /\ pc = "wait"
          /\ queue' = Tail(queue) /\ ups' = ups + 1 /\ state_' = kConnected /\ pc' = "up"
          /\ UNCHANGED <<revents_, downs>>
      BY <1>1 DEF ConnectionEstablished, NextFunctor
    <3>2. index' = "kAdded" /\ "read" \in events_'
      BY <1>1 DEF ConnectionEstablished, enableReading, UpdateChannel
    <3>3. queue[1] = Head(queue)
      BY <1>0, <3>1, QueueShrinks
    <3>. QED
      BY <3>1, <3>2, <3>3
  <2>2. ups = 0 /\ downs = 0
    <3>1. 1 \in DOMAIN queue
      BY <1>0, <2>1, QueueShrinks
    <3>. QED
      BY <1>a, <2>1, <3>1 DEF UpOnce, UntilUp
  <2>3. \A i \in DOMAIN queue' : queue'[i] # Call("established")
    BY <1>0, <1>a, <2>1, PopLeavesNoUp DEF UpOnce
  <2>. QED
    BY <2>1, <2>2, <2>3 DEF UpDownInv, UntilUp, UpOnce, WhileConnected, EventsOfRegistered,
       AfterDown
<1>2. ASSUME NEW m \in Message, RunSend(m) PROVE UpDownInv'
  <2>1. NextFunctor(SendCall(m)) /\ SendInLoop(Cells(m), Tail(queue))
        /\ UNCHANGED <<ups, downs, revents_, pc, state_, userPc>>
    BY <1>2 DEF RunSend
  <2>2. ups = 1 /\ Tail(queue) \in Seq(Functor)
        /\ \A i \in DOMAIN Tail(queue) : Tail(queue)[i] # Call("established")
    BY <1>0, <1>a, <2>1, RunsAfterUp, FunctorsDiffer
  <2>3. PICK r \in Seq(Functor) :
           /\ queue' = Tail(queue) \o r
           /\ \A i \in DOMAIN r : r[i] \in {Call("complete"), Call("highWater")}
    BY <1>0, <2>1, <2>2, CellsTyped, SendInLoopQueue
  <2>4. \A i \in DOMAIN queue' : queue'[i] # Call("established")
    BY <2>2, <2>3, FunctorsDiffer, QueueGrows
  <2>5. /\ UNCHANGED chanVars \/ enableWriting
        /\ state_ = kDisconnected => UNCHANGED chanVars
    BY <2>1, SendInLoopChannel
  <2>6. CASE UNCHANGED chanVars
    BY <1>a, <2>1, <2>2, <2>4, <2>6 DEF UpDownInv, UntilUp, UpOnce, WhileConnected,
       EventsOfRegistered, AfterDown
  <2>7. CASE state_ # kDisconnected /\ enableWriting
    <3>1. index' = "kAdded" /\ events_' = events_ \union {"write"}
      BY <2>7 DEF enableWriting, UpdateChannel
    <3>. QED
      BY <1>a, <2>1, <2>2, <2>4, <2>7, <3>1 DEF UpDownInv, UntilUp, UpOnce, WhileConnected,
         EventsOfRegistered, AfterDown
  <2>. QED
    BY <2>5, <2>6, <2>7
<1>3. CASE RunShutdown \/ RunNotify
  <2>1. PICK f \in {Call("shutdown"), Call("complete"), Call("highWater")} : NextFunctor(f)
    BY <1>3 DEF RunShutdown, RunNotify
  <2>2. ups = 1 /\ \A i \in DOMAIN Tail(queue) : Tail(queue)[i] # Call("established")
    BY <1>0, <1>a, <2>1, RunsAfterUp, FunctorsDiffer
  <2>3. /\ queue' = Tail(queue) /\ pc' \in {"wait", "notify"}
        /\ UNCHANGED <<ups, downs, revents_, state_, events_, index, userPc>>
    BY <1>3 DEF RunShutdown, RunNotify, NextFunctor
  <2>. QED
    BY <1>a, <2>2, <2>3 DEF UpDownInv, UntilUp, UpOnce, WhileConnected, EventsOfRegistered,
       AfterDown
<1>4. CASE ConnectDestroyed
  <2>1. NextFunctor(Call("destroyed")) /\ queue' = Tail(queue) /\ revents_ = {}
        /\ UNCHANGED <<ups, revents_, userPc>>
    BY <1>4 DEF ConnectDestroyed, NextFunctor
  <2>2. ups = 1 /\ \A i \in DOMAIN Tail(queue) : Tail(queue)[i] # Call("established")
    BY <1>0, <1>a, <2>1, RunsAfterUp, FunctorsDiffer
  <2>3. CASE state_ = kConnected
    <3>1. downs = 0 /\ index = "kAdded"
      BY <1>a, <2>3 DEF WhileConnected
    <3>2. /\ state_' = kDisconnected /\ events_' = {} /\ index' = "kDeleted"
          /\ downs' = 1 /\ pc' = "destroying"
      BY <1>4, <2>3, <3>1 DEF ConnectDestroyed, disableAll, UpdateChannel
    <3>. QED
      BY <2>1, <2>2, <3>2 DEF UpDownInv, UntilUp, UpOnce, WhileConnected, EventsOfRegistered,
         AfterDown
  <2>4. CASE state_ # kConnected
    <3>1. index' = "kNew" /\ UNCHANGED <<state_, events_, downs, pc>>
      BY <1>4, <2>4 DEF ConnectDestroyed, remove
    <3>. QED
      BY <1>a, <2>1, <2>2, <2>4, <3>1 DEF UpDownInv, UntilUp, UpOnce, WhileConnected,
         EventsOfRegistered, AfterDown
  <2>. QED
    BY <2>3, <2>4
<1>. QED
  BY <1>1, <1>2, <1>3, <1>4 DEF RunFunctor

\* The message the loop's thread sends is the one after those it sent before.
LEMMA OwnMessage ==
    ASSUME TypeOK, OwnSend
    PROVE  /\ [from |-> Loop, no |-> nsent'[Loop]] \in Message
           /\ Loop \in Sender /\ nsent[Loop] \in 0 .. MaxSends
           /\ nsent'[Loop] = nsent[Loop] + 1 /\ nsent'[Loop] \in 1 .. MaxSends
           /\ \A s \in Sender \ {Loop} : nsent'[s] = nsent[s]
<1>1. Loop \in Sender /\ MaxSends \in Nat /\ MaxOwnSends \in 0 .. MaxSends
  BY ConnectionAssumption DEF Sender
<1>2. /\ nsent \in [Sender -> 0 .. MaxSends] /\ nsent' = [nsent EXCEPT ![Loop] = @ + 1]
      /\ nsent[Loop] < MaxOwnSends
  BY DEF TypeOK, OwnSend
<1>3. nsent[Loop] \in 0 .. MaxSends /\ nsent[Loop] < MaxSends
      /\ nsent'[Loop] = nsent[Loop] + 1
  BY <1>1, <1>2
<1>. QED
  BY <1>1, <1>2, <1>3 DEF Message

\* Channel events, the callbacks, and what the application does from there.
LEMMA UpDownEvents ==
    ASSUME OutputInv, UpDownInv, ~revived',
           OwnSend \/ OwnShutdown \/ HandleEvent \/ CallbackReturn
              \/ \E room \in BOOLEAN : Poll(room)
    PROVE  UpDownInv'
<1> USE DEF objVars, netVars, serverVars, userVars, envVars, chanVars, outVars, histVars,
            kDisconnected, kConnecting, kConnected, kDisconnecting
<1>0. TypeOK /\ queue \in Seq(Functor) /\ ups \in Nat /\ downs \in Nat
      /\ revents_ \subseteq {"hup", "in", "out"} /\ ~revived
  BY DEF OutputInv, TypeOK, OwnSend, OwnShutdown, HandleEvent, HandleHup, HandleRead,
         HandleReadEnd, HandleReadError, HandleWrite, CallbackReturn, Poll
<1>a. UntilUp /\ UpOnce /\ WhileConnected /\ EventsOfRegistered /\ AfterDown
  BY <1>0 DEF UpDownInv
<1>1. CASE OwnSend
  <2>1. /\ state_ = kConnected
        /\ SendInLoop(Cells([from |-> Loop, no |-> nsent'[Loop]]), queue)
        /\ UNCHANGED <<ups, downs, revents_, pc, state_, userPc>>
    BY <1>1 DEF OwnSend
  <2>2. Cells([from |-> Loop, no |-> nsent'[Loop]]) \in Seq(Cell)
    BY <1>0, <1>1, OwnMessage, CellsTyped
  <2>3. PICK r \in Seq(Functor) :
           /\ queue' = queue \o r
           /\ \A i \in DOMAIN r : r[i] \in {Call("complete"), Call("highWater")}
    BY <1>0, <2>1, <2>2, SendInLoopQueue
  <2>4. /\ \A i \in DOMAIN queue' : queue'[i] = Call("established") => i = 1 /\ ups = 0
        /\ queue # <<>> => queue' # <<>> /\ Head(queue') = Head(queue)
    BY <1>0, <1>a, <2>3, PushesKeepUp, QueueGrows DEF UpOnce
  <2>5. UNCHANGED chanVars \/ enableWriting
    BY <2>1, SendInLoopChannel
  <2>6. "read" \in events_' /\ index' = "kAdded"
    BY <1>a, <2>1, <2>5 DEF WhileConnected, enableWriting, UpdateChannel
  <2>. QED
    BY <1>a, <2>1, <2>4, <2>6 DEF UpDownInv, UntilUp, UpOnce, WhileConnected,
       EventsOfRegistered, AfterDown
<1>2. CASE OwnShutdown
  <2>1. /\ state_ = kConnected /\ state_' = kDisconnecting
        /\ UNCHANGED <<queue, events_, index, ups, downs, revents_, pc, userPc>>
    BY <1>2 DEF OwnShutdown
  <2>. QED
    BY <1>a, <2>1 DEF UpDownInv, UntilUp, UpOnce, WhileConnected, EventsOfRegistered, AfterDown
\* handleClose: the first one, of a registered channel.
<1>3. CASE HandleHup \/ HandleReadEnd
  <2>1. /\ pc = "wait" /\ revents_ \cap {"hup", "in"} # {} /\ BeginClose
        /\ revents_' \subseteq revents_ \ (revents_ \cap {"hup", "in"})
        /\ UNCHANGED <<queue, ups, userPc>>
    BY <1>0, <1>3, <1>a DEF HandleHup, HandleReadEnd, EventsOfRegistered
  <2>2. downs = 0 /\ index = "kAdded" /\ ups = 1
    BY <1>0, <1>a, <2>1 DEF AfterDown, EventsOfRegistered, UntilUp, UpOnce
  <2>3. state_' = kDisconnected /\ events_' = {} /\ index' = "kDeleted" /\ downs' = 1
        /\ pc' = "closing"
    BY <2>1, <2>2 DEF BeginClose, disableAll, UpdateChannel
  <2>4. revents_' \subseteq {"out"}
    BY <1>0, <2>1
  <2>. QED
    BY <1>a, <2>1, <2>2, <2>3, <2>4 DEF UpDownInv, UntilUp, UpOnce, WhileConnected,
       EventsOfRegistered, AfterDown
<1>4. CASE HandleRead \/ HandleReadError
  <2>1. /\ pc = "wait" /\ "in" \in revents_ /\ revents_' = revents_ \ {"in"}
        /\ pc' \in {"wait", "message", "crashed"}
        /\ UNCHANGED <<queue, state_, events_, index, ups, downs, userPc>>
    BY <1>4 DEF HandleRead, HandleReadError
  <2>. QED
    BY <1>a, <2>1 DEF UpDownInv, UntilUp, UpOnce, WhileConnected, EventsOfRegistered, AfterDown
<1>5. CASE HandleWrite
  <2>1. /\ revents_ = {"out"} /\ revents_' = {} /\ pc = "wait"
        /\ UNCHANGED <<state_, ups, downs, pc, userPc>>
    BY <1>5 DEF HandleWrite
  <2>2. /\ UNCHANGED chanVars \/ (isWriting /\ disableWriting)
        /\ queue' = queue \/ queue' = Append(queue, Call("complete"))
    BY <1>5 DEF HandleWrite, NotifyComplete
  <2>3. /\ \A i \in DOMAIN queue' : queue'[i] = Call("established") => i = 1 /\ ups = 0
        /\ queue # <<>> => queue' # <<>> /\ Head(queue') = Head(queue)
    BY <1>0, <1>a, <2>2, PushKeepsUp, QueueAppends, FunctorsTyped, FunctorsDiffer DEF UpOnce
  <2>4. CASE UNCHANGED chanVars
    BY <1>a, <2>1, <2>3, <2>4 DEF UpDownInv, UntilUp, UpOnce, WhileConnected,
       EventsOfRegistered, AfterDown
  <2>5. CASE isWriting /\ disableWriting
    <3>1. /\ events_' = events_ \ {"write"} /\ "write" \in events_
          /\ "read" \in events_ => index' = "kAdded"
      BY <2>5 DEF isWriting, disableWriting, UpdateChannel
    <3>2. downs = 0
      BY <1>0, <1>a, <3>1 DEF AfterDown
    <3>. QED
      BY <1>a, <2>1, <2>3, <3>1, <3>2 DEF UpDownInv, UntilUp, UpOnce, WhileConnected,
         EventsOfRegistered, AfterDown
  <2>. QED
    BY <2>2, <2>4, <2>5
<1>6. CASE CallbackReturn
  <2>1. /\ pc \in Callback /\ pc' = "wait"
        /\ index' = (IF pc = "destroying" THEN "kNew" ELSE index)
        /\ UNCHANGED <<queue, state_, events_, revents_, ups, downs, userPc>>
    BY <1>6 DEF CallbackReturn, remove
  <2>. QED
    BY <1>a, <2>1 DEF UpDownInv, UntilUp, UpOnce, WhileConnected, EventsOfRegistered, AfterDown,
       Callback
<1>7. ASSUME NEW room \in BOOLEAN, Poll(room) PROVE UpDownInv'
  <2>1. /\ pc = "wait" /\ index = "kAdded" /\ revents_' # {}
        /\ ~({"hup", "in"} \subseteq revents_')
        /\ UNCHANGED <<queue, state_, events_, index, ups, downs, pc, userPc>>
    BY <1>7 DEF Poll
  <2>. QED
    BY <1>0, <1>a, <2>1 DEF UpDownInv, UntilUp, UpOnce, WhileConnected, EventsOfRegistered,
       AfterDown
<1>. QED
  BY <1>1, <1>2, <1>3, <1>4, <1>5, <1>6, <1>7 DEF HandleEvent

LEMMA UpDownStep == OutputInv /\ UpDownInv /\ [Next]_vars => UpDownInv'
<1> SUFFICES ASSUME OutputInv, UpDownInv, [Next]_vars PROVE UpDownInv'
  OBVIOUS
<1>1. CASE revived'
  BY <1>1 DEF UpDownInv
<1>2. CASE ~revived'
  <2>1. CASE RunFunctor
    BY <1>2, <2>1, UpDownFunctors
  <2>2. CASE OwnSend \/ OwnShutdown \/ HandleEvent \/ CallbackReturn
                \/ \E room \in BOOLEAN : Poll(room)
    BY <1>2, <2>2, UpDownEvents
  <2>3. CASE (\E u \in User : UserStep(u))
    BY <1>2, <2>3, UpDownOutside
  <2>4. CASE (RemoveConnectionInLoop \/ DestroyServer \/ PeerSends \/ PeerFin
                                  \/ PeerReset)
    BY <1>2, <2>4, UpDownOutside
  <2>5. CASE UNCHANGED vars
    BY <1>2, <2>5, UpDownOutside
  <2>. QED
    BY <2>1, <2>2, <2>3, <2>4, <2>5 DEF Next, LoopStep
<1>. QED
  BY <1>1, <1>2

\* The inductive invariant of the connection callbacks.
THEOREM UpDownInvariant == SafetySpec => [](OutputInv /\ UpDownInv)
<1>1. OutputInv /\ UpDownInv /\ [Next]_vars => (OutputInv /\ UpDownInv)'
  BY OutputInvStep, UpDownStep
<1>. QED
  BY <1>1, OutputInvInit, UpDownInit, PTL DEF SafetySpec

\* Unless shutdown() revives it, a connection is told at most once that it is
\* down, not before it was up, and is not registered with epoll after that.
THEOREM DownEndsIt == SafetySpec => []UpThenDownOnce
<1>1. OutputInv /\ UpDownInv => UpThenDownOnce
  BY DEF OutputInv, TypeOK, UpDownInv, UntilUp, UpOnce, AfterDown, UpThenDownOnce
<1>. QED
  BY <1>1, UpDownInvariant, PTL

(***************************************************************************)
(* Write-complete notifications.                                           *)
(***************************************************************************)
Marks(q) == {i \in DOMAIN q : q[i].op = "complete"}

LEMMA MarksCounted ==
    ASSUME NEW q \in Seq(Functor)
    PROVE  IsFiniteSet(Marks(q)) /\ Cardinality(Marks(q)) \in Nat
<1>1. Marks(q) \subseteq 1 .. Len(q) /\ Len(q) \in Nat
  BY LenProperties DEF Marks
<1>2. IsFiniteSet(1 .. Len(q))
  BY <1>1, FS_Interval
<1>. QED
  BY <1>1, <1>2, FS_Subset, FS_CardinalityType

\* Other functors do not count.
LEMMA MarksOfOthers ==
    ASSUME NEW q \in Seq(Functor), NEW r \in Seq(Functor),
           \A i \in DOMAIN r : r[i].op # "complete"
    PROVE  Marks(q \o r) = Marks(q)
<1>1. /\ Len(q) \in Nat /\ Len(r) \in Nat
      /\ DOMAIN q = 1 .. Len(q) /\ DOMAIN r = 1 .. Len(r)
      /\ DOMAIN (q \o r) = 1 .. Len(q) + Len(r)
      /\ \A i \in 1 .. Len(q) + Len(r) :
            (q \o r)[i] = IF i <= Len(q) THEN q[i] ELSE r[i - Len(q)]
  BY ConcatProperties, LenProperties
<1>. QED
  BY <1>1 DEF Marks

LEMMA MarksOfAnother ==
    ASSUME NEW q \in Seq(Functor), NEW f \in Functor, f.op # "complete"
    PROVE  Marks(Append(q, f)) = Marks(q)
  BY QueueAppends DEF Marks

\* The loop takes functors away.
LEMMA MarksOfTail ==
    ASSUME NEW q \in Seq(Functor), q # <<>>
    PROVE  Cardinality(Marks(Tail(q))) <= Cardinality(Marks(q))
<1> DEFINE S == Marks(Tail(q))
           T == Marks(q)
           g == [i \in S |-> i + 1]
<1>1. \A i \in S : i \in Nat /\ i + 1 \in T
  BY QueueShrinks DEF Marks
<1>2. g \in [S -> T] /\ \A i, j \in S : g[i] = g[j] => i = j
  BY <1>1
<1>3. g \in Injection(S, T)
  BY <1>2, Fun_IsInj
<1>4. IsFiniteSet(T)
  BY MarksCounted
<1>. QED
  BY <1>3, <1>4, FS_Injection

\* sendInLoop pushes a notification only when it leaves no output.
LEMMA SendInLoopCompletes ==
    ASSUME TypeOK, NEW data \in Seq(Cell), NEW q \in Seq(Functor), SendInLoop(data, q)
    PROVE  outputBuffer_' = <<>> \/ Marks(queue') = Marks(q)
<1>1. CASE state_ = kDisconnected
  BY <1>1 DEF SendInLoop
<1>2. CASE state_ # kDisconnected
  <2>1. PICK rest \in Seq(Cell), drained \in BOOLEAN, full \in BOOLEAN :
          /\ outputBuffer_' = outputBuffer_ \o rest
          /\ drained => outputBuffer_ = <<>> /\ rest = <<>>
          /\ queue' = NotifyComplete(drained, q) \o (IF full THEN <<Call("highWater")>> ELSE <<>>)
    <3> DEFINE remaining(k, other) ==
                  IF WriteDirectly /\ Broken /\ ~other THEN <<>> ELSE SubSeq(data, k + 1, Len(data))
    <3>1. PICK k \in IF WriteDirectly THEN Taken(Len(data)) ELSE {0},
               other \in IF soError THEN BOOLEAN ELSE {FALSE} :
             /\ outputBuffer_' = outputBuffer_ \o remaining(k, other)
             /\ queue' = NotifyComplete(WriteDirectly /\ ~Broken /\ remaining(k, other) = <<>>, q)
                  \o (IF /\ remaining(k, other) # <<>>
                         /\ Len(outputBuffer_) + Len(remaining(k, other)) >= HighWaterMark
                         /\ Len(outputBuffer_) < HighWaterMark
                        THEN <<Call("highWater")>> ELSE <<>>)
      BY <1>2 DEF SendInLoop
    <3>2. k \in 0 .. Len(data)
      BY <3>1, TakenBounds, LenProperties
    <3>3. remaining(k, other) \in Seq(Cell)
      BY <3>2, SplitAt, EmptySeq
    <3> HIDE DEF remaining
    <3>4. (WriteDirectly /\ ~Broken /\ remaining(k, other) = <<>>) \in BOOLEAN
      BY DEF WriteDirectly
    <3>5. WriteDirectly => outputBuffer_ = <<>>
      BY DEF WriteDirectly
    <3>. QED
      BY <3>1, <3>3, <3>4, <3>5
  <2>2. CASE drained
    <3>1. <<>> \o <<>> = <<>>
      BY ConcatEmptySeq, EmptySeq
    <3>. QED
      BY <2>1, <2>2, <3>1
  <2>3. CASE ~drained
    <3> DEFINE h == IF full THEN <<Call("highWater")>> ELSE <<>>
    <3>1. queue' = q \o h
      BY <2>1, <2>3 DEF NotifyComplete
    <3>2. h \in Seq(Functor) /\ \A i \in DOMAIN h : h[i].op # "complete"
      <4>1. <<Call("highWater")>> \in Seq(Functor) /\ <<>> \in Seq(Functor)
        BY FunctorsTyped
      <4>2. \A i \in DOMAIN <<Call("highWater")>> : <<Call("highWater")>>[i].op # "complete"
        BY DEF Call
      <4>. QED
        BY <4>1, <4>2
    <3> HIDE DEF h
    <3>. QED
      BY <3>1, <3>2, MarksOfOthers
  <2>. QED
    BY <2>2, <2>3
<1>. QED
  BY <1>1, <1>2

LEMMA CompletesStep ==
    OutputInv /\ [Next]_vars => [Completions' > Completions => outputBuffer_' = <<>>]_vars
<1> SUFFICES ASSUME OutputInv, [Next]_vars, outputBuffer_' # <<>>
             PROVE  ~(Completions' > Completions)
  OBVIOUS
<1> USE DEF objVars, netVars, serverVars, userVars, envVars, chanVars, outVars, histVars
<1>0. TypeOK /\ queue \in Seq(Functor) /\ Completions = Cardinality(Marks(queue))
      /\ Cardinality(Marks(queue)) \in Nat
  BY MarksCounted DEF OutputInv, TypeOK, Completions, Marks
<1>1. Completions' = Cardinality(Marks(queue'))
  BY DEF Completions, Marks
<1>2. CASE UNCHANGED queue
  BY <1>0, <1>1, <1>2
<1>3. ASSUME NEW f \in Functor, f.op # "complete", queue' = Append(queue, f)
      PROVE  ~(Completions' > Completions)
  BY <1>0, <1>1, <1>3, MarksOfAnother
<1>4. ASSUME queue # <<>>, Marks(queue') = Marks(Tail(queue))
      PROVE  ~(Completions' > Completions)
  <2>1. Tail(queue) \in Seq(Functor)
    BY <1>0, <1>4, HeadTailProperties
  <2>2. Cardinality(Marks(Tail(queue))) \in Nat
    BY <2>1, MarksCounted
  <2>3. Cardinality(Marks(Tail(queue))) <= Cardinality(Marks(queue))
    BY <1>0, <1>4, MarksOfTail
  <2>4. Completions' = Cardinality(Marks(Tail(queue)))
    BY <1>1, <1>4
  <2>. QED
    BY <1>0, <2>2, <2>3, <2>4
<1>5. ASSUME NEW u \in User, UserStep(u) PROVE ~(Completions' > Completions)
  <2>1. CASE PushSend(u)
    <3>1. SendCall([from |-> u, no |-> nsent[u]]) \in Functor
      <4>1. u \in Sender /\ nsent[u] \in 0 .. MaxSends /\ nsent[u] > 0
        BY <2>1 DEF PushSend, OutputInv, TypeOK, Sender
      <4>. QED
        BY <4>1, FunctorsTyped DEF Message
    <3>2. SendCall([from |-> u, no |-> nsent[u]]).op # "complete"
      BY DEF SendCall
    <3>. QED
      BY <1>3, <2>1, <3>1, <3>2 DEF PushSend
  <2>2. CASE PushShutdown(u)
    <3>1. Call("shutdown").op # "complete"
      BY DEF Call
    <3>. QED
      BY <1>3, <2>2, <3>1, FunctorsTyped DEF PushShutdown
  <2>3. CASE CallSend(u) \/ ReuseString(u) \/ CallShutdown(u) \/ SetDisconnecting(u)
    BY <1>2, <2>3 DEF CallSend, ReuseString, CallShutdown, SetDisconnecting
  <2>. QED
    BY <1>5, <2>1, <2>2, <2>3 DEF UserStep
<1>6. CASE RemoveConnectionInLoop \/ DestroyServer
  <2>1. Call("destroyed").op # "complete"
    BY DEF Call
  <2>. QED
    BY <1>3, <1>6, <2>1, FunctorsTyped DEF RemoveConnectionInLoop, DestroyServer
<1>7. CASE ConnectionEstablished \/ RunShutdown \/ RunNotify \/ ConnectDestroyed
  BY <1>4, <1>7 DEF ConnectionEstablished, RunShutdown, RunNotify, ConnectDestroyed, NextFunctor
<1>8. ASSUME NEW m \in Message, RunSend(m) PROVE ~(Completions' > Completions)
  <2>1. queue # <<>> /\ SendInLoop(Cells(m), Tail(queue))
    BY <1>8 DEF RunSend, NextFunctor
  <2>2. Tail(queue) \in Seq(Functor) /\ Cells(m) \in Seq(Cell)
    BY <1>0, <2>1, HeadTailProperties, CellsTyped
  <2>3. Marks(queue') = Marks(Tail(queue))
    BY <1>0, <2>1, <2>2, SendInLoopCompletes
  <2>. QED
    BY <1>4, <2>1, <2>3
<1>9. CASE OwnSend
  <2>1. SendInLoop(Cells([from |-> Loop, no |-> nsent'[Loop]]), queue)
    BY <1>9 DEF OwnSend
  <2>2. Cells([from |-> Loop, no |-> nsent'[Loop]]) \in Seq(Cell)
    BY <1>0, <1>9, OwnMessage, CellsTyped
  <2>3. Marks(queue') = Marks(queue)
    BY <1>0, <2>1, <2>2, SendInLoopCompletes
  <2>. QED
    BY <1>0, <1>1, <2>3
\* handleWrite pushes one only when it has emptied the buffer.
<1>10. CASE HandleWrite
  <2>1. UNCHANGED queue
    BY <1>10 DEF HandleWrite, NotifyComplete
  <2>. QED
    BY <1>2, <2>1
<1>11. CASE OwnShutdown \/ HandleHup \/ HandleRead \/ HandleReadEnd \/ HandleReadError
                \/ CallbackReturn \/ (\E room \in BOOLEAN : Poll(room))
  BY <1>2, <1>11 DEF OwnShutdown, HandleHup, HandleRead, HandleReadEnd, HandleReadError,
     CallbackReturn, Poll
<1>12. CASE PeerSends \/ PeerFin \/ PeerReset \/ UNCHANGED vars
  BY <1>2, <1>12 DEF PeerSends, PeerFin, PeerReset, vars
<1>. QED
  BY <1>5, <1>6, <1>7, <1>8, <1>9, <1>10, <1>11, <1>12
     DEF Next, LoopStep, RunFunctor, HandleEvent

\* A write-complete notification is queued only by a step after which no
\* accepted byte waits in the output buffer.
THEOREM NotifiedWhenDrained == SafetySpec => CompleteWhenDrained
  BY OutputInvariant, CompletesStep, PTL DEF SafetySpec, CompleteWhenDrained

(***************************************************************************)
(* The order of each sender's messages.  Of what a sender pushed, k        *)
(* messages were accepted, each whole; the others wait in the queue, in    *)
(* the order they were sent, until one is dropped: from then on all are.   *)
(***************************************************************************)
SendAt(q, i) == i \in DOMAIN q /\ q[i].op = "send"
Waiting(q, s) == {q[i].m.no : i \in {j \in DOMAIN q : SendAt(q, j) /\ q[j].m.from = s}}
Ordered(q) ==
    /\ \A i \in DOMAIN q : SendAt(q, i) => q[i].m.from \in User
    /\ \A i, j \in DOMAIN q :
          SendAt(q, i) /\ SendAt(q, j) /\ i < j /\ q[i].m.from = q[j].m.from
              => q[i].m.no < q[j].m.no

Pushed(s) == IF s \in User /\ userPc[s] = "send" THEN nsent[s] - 1 ELSE nsent[s]
DropsAll == state_ = kDisconnected \/ (Broken /\ ~soError /\ WriteDirectly)

Took(s, k) ==
    /\ \A i \in DOMAIN accepted : accepted[i].m.from = s => accepted[i].m.no <= k
    /\ k > 0 /\ MsgLen[s] > 0 =>
          \E j \in DOMAIN accepted :
              /\ accepted[j] = [m |-> [from |-> s, no |-> k], pos |-> MsgLen[s]]
              /\ \A l \in j + 1 .. Len(accepted) : accepted[l].m.from # s
Waits(s, k) ==
    /\ k <= Pushed(s)
    /\ Waiting(queue, s) \subseteq k + 1 .. Pushed(s)
    /\ ~DropsAll => k + 1 .. Pushed(s) \subseteq Waiting(queue, s)

AllInOrder == \A i \in DOMAIN accepted : InOrderAt(i)
NoneMissing == \A s \in Sender : \E k \in Nat : Took(s, k) /\ Waits(s, k)

\* Where the property makes no exception.
Claimed == ~(wrShut /\ peer = "reset") /\ ~revived /\ ~ReusesStrings
SendersInv ==
    /\ ~ReusesStrings => reused = {}
    /\ Claimed => AllInOrder /\ Ordered(queue) /\ NoneMissing

(***************************************************************************)
(* The queue.                                                              *)
(***************************************************************************)
LEMMA NoSends ==
    /\ \A op : Call(op).op = op
    /\ \A m : SendCall(m).op = "send" /\ SendCall(m).m = m
  BY DEF Call, SendCall

LEMMA WaitingAfterOthers ==
    ASSUME NEW q \in Seq(Functor), NEW r \in Seq(Functor), \A i \in DOMAIN r : r[i].op # "send"
    PROVE  /\ Ordered(q) => Ordered(q \o r)
           /\ \A s : Waiting(q \o r, s) = Waiting(q, s)
<1>1. /\ Len(q) \in Nat /\ Len(r) \in Nat
      /\ DOMAIN q = 1 .. Len(q) /\ DOMAIN r = 1 .. Len(r)
      /\ DOMAIN (q \o r) = 1 .. Len(q) + Len(r)
      /\ \A i \in 1 .. Len(q) + Len(r) :
            (q \o r)[i] = IF i <= Len(q) THEN q[i] ELSE r[i - Len(q)]
  BY ConcatProperties, LenProperties
<1>2. \A i : SendAt(q \o r, i) <=> SendAt(q, i)
  BY <1>1 DEF SendAt
<1>3. \A i : SendAt(q, i) => (q \o r)[i] = q[i] /\ i \in DOMAIN (q \o r)
  BY <1>1 DEF SendAt
<1>4. Ordered(q) => Ordered(q \o r)
  BY <1>2, <1>3 DEF Ordered, SendAt
<1>5. ASSUME NEW s PROVE Waiting(q \o r, s) = Waiting(q, s)
  <2>1. \A j : j \in DOMAIN (q \o r) /\ SendAt(q \o r, j) /\ (q \o r)[j].m.from = s
           <=> j \in DOMAIN q /\ SendAt(q, j) /\ q[j].m.from = s
    BY <1>2, <1>3 DEF SendAt
  <2>. QED
    BY <1>3, <2>1 DEF Waiting
<1>. QED
  BY <1>4, <1>5

LEMMA WaitingAfterAnother ==
    ASSUME NEW q \in Seq(Functor), NEW f \in Functor, f.op # "send"
    PROVE  /\ Ordered(q) => Ordered(Append(q, f))
           /\ \A s : Waiting(Append(q, f), s) = Waiting(q, s)
<1>1. PICK r : r = <<f>>
  OBVIOUS
<1>2. r \in Seq(Functor) /\ Append(q, f) = q \o r /\ \A i \in DOMAIN r : r[i] = f
  BY <1>1, AppendIsConcat
<1>3. \A i \in DOMAIN r : r[i].op # "send"
  BY <1>2
<1>. QED
  BY <1>2, <1>3, WaitingAfterOthers

\* A message is pushed with a number above those that wait.
LEMMA WaitingAfterPush ==
    ASSUME NEW q \in Seq(Functor), NEW m \in Message, Ordered(q), m.from \in User,
           \A n \in Waiting(q, m.from) : n < m.no
    PROVE  /\ Ordered(Append(q, SendCall(m)))
           /\ Waiting(Append(q, SendCall(m)), m.from) = Waiting(q, m.from) \union {m.no}
           /\ \A s : s # m.from => Waiting(Append(q, SendCall(m)), s) = Waiting(q, s)
<1> DEFINE f == SendCall(m)
           p == Append(q, f)
           n == Len(q) + 1
<1>1. f \in Functor /\ f.op = "send" /\ f.m = m
  BY FunctorsTyped, NoSends
<1>2. /\ Len(q) \in Nat
      /\ DOMAIN p = 1 .. n /\ DOMAIN q = 1 .. Len(q) /\ p[n] = f
      /\ \A i \in 1 .. Len(q) : p[i] = q[i]
  BY <1>1, QueueAppends, LenProperties
<1> HIDE DEF f, p
<1>3. \A i : SendAt(p, i) <=> SendAt(q, i) \/ i = n
  BY <1>1, <1>2 DEF SendAt
<1>4. \A i : SendAt(q, i) => p[i] = q[i] /\ i \in DOMAIN p /\ i \in Nat /\ i < n
  BY <1>2 DEF SendAt
<1>5. \A i : SendAt(q, i) /\ q[i].m.from = m.from => q[i].m.no < m.no
  BY DEF Waiting, SendAt
<1>6. Ordered(p)
  <2>1. \A i \in DOMAIN p : SendAt(p, i) => p[i].m.from \in User
    BY <1>1, <1>2, <1>3, <1>4 DEF Ordered, SendAt
  <2>2. ASSUME NEW i \in DOMAIN p, NEW j \in DOMAIN p, SendAt(p, i), SendAt(p, j), i < j,
               p[i].m.from = p[j].m.from
        PROVE  p[i].m.no < p[j].m.no
    <3>1. SendAt(q, i) /\ p[i] = q[i]
      BY <1>2, <1>3, <1>4, <2>2
    <3>2. CASE j = n
      BY <1>1, <1>2, <1>5, <2>2, <3>1, <3>2
    <3>3. CASE j # n
      BY <1>3, <1>4, <2>2, <3>1, <3>3 DEF Ordered, SendAt
    <3>. QED
      BY <3>2, <3>3
  <2>. QED
    BY <2>1, <2>2 DEF Ordered
<1>7. Waiting(p, m.from) = Waiting(q, m.from) \union {m.no}
  <2>1. \A j : j \in DOMAIN p /\ SendAt(p, j) /\ p[j].m.from = m.from
           <=> (j \in DOMAIN q /\ SendAt(q, j) /\ q[j].m.from = m.from) \/ j = n
    BY <1>1, <1>2, <1>3, <1>4 DEF SendAt
  <2>2. ASSUME NEW x PROVE x \in Waiting(p, m.from) <=> x \in Waiting(q, m.from) \union {m.no}
    <3>1. x \in Waiting(p, m.from)
             <=> \E j : j \in DOMAIN p /\ SendAt(p, j) /\ p[j].m.from = m.from /\ x = p[j].m.no
      BY DEF Waiting
    <3>2. x \in Waiting(q, m.from)
             <=> \E j : j \in DOMAIN q /\ SendAt(q, j) /\ q[j].m.from = m.from /\ x = q[j].m.no
      BY DEF Waiting
    <3>. QED
      BY <1>1, <1>2, <1>4, <2>1, <3>1, <3>2
  <2>. QED
    BY <2>2
<1>8. ASSUME NEW s, s # m.from PROVE Waiting(p, s) = Waiting(q, s)
  <2>1. \A j : j \in DOMAIN p /\ SendAt(p, j) /\ p[j].m.from = s
           <=> j \in DOMAIN q /\ SendAt(q, j) /\ q[j].m.from = s
    BY <1>1, <1>2, <1>3, <1>4, <1>8 DEF SendAt
  <2>. QED
    BY <1>4, <2>1 DEF Waiting
<1>. QED
  BY <1>6, <1>7, <1>8 DEF f, p

\* The loop takes the first functor; of a sender's messages it is the oldest.
LEMMA WaitingAfterPop ==
    ASSUME NEW q \in Seq(Functor), q # <<>>, Ordered(q)
    PROVE  /\ Ordered(Tail(q))
           /\ Head(q).op # "send" => \A s : Waiting(Tail(q), s) = Waiting(q, s)
           /\ Head(q).op = "send" =>
                 /\ Head(q).m.from \in User
                 /\ Waiting(q, Head(q).m.from)
                        = Waiting(Tail(q), Head(q).m.from) \union {Head(q).m.no}
                 /\ \A n \in Waiting(Tail(q), Head(q).m.from) : Head(q).m.no < n
                 /\ \A s : s # Head(q).m.from => Waiting(Tail(q), s) = Waiting(q, s)
<1> DEFINE t == Tail(q)
<1>1. /\ Head(q) = q[1] /\ Len(q) \in Nat \ {0}
      /\ DOMAIN q = 1 .. Len(q) /\ DOMAIN t = 1 .. Len(q) - 1
      /\ \A i \in DOMAIN t : i \in Nat /\ i + 1 \in DOMAIN q /\ t[i] = q[i + 1]
  BY QueueShrinks
<1> HIDE DEF t
<1>2. \A i : SendAt(t, i) => SendAt(q, i + 1) /\ t[i] = q[i + 1] /\ i \in Nat /\ i > 0
  BY <1>1 DEF SendAt
<1>3. \A i : SendAt(q, i) /\ i # 1 => SendAt(t, i - 1) /\ t[i - 1] = q[i] /\ i \in Nat /\ i > 1
  <2>1. ASSUME NEW i, SendAt(q, i), i # 1 PROVE i - 1 \in DOMAIN t /\ (i - 1) + 1 = i /\ i > 1
    BY <1>1, <2>1 DEF SendAt
  <2>. QED
    BY <1>1, <2>1 DEF SendAt
<1>4. Ordered(t)
  <2>1. \A i \in DOMAIN t : SendAt(t, i) => t[i].m.from \in User
    BY <1>1, <1>2 DEF Ordered
  <2>2. ASSUME NEW i \in DOMAIN t, NEW j \in DOMAIN t, SendAt(t, i), SendAt(t, j), i < j,
               t[i].m.from = t[j].m.from
        PROVE  t[i].m.no < t[j].m.no
    <3>1. i + 1 \in DOMAIN q /\ j + 1 \in DOMAIN q /\ SendAt(q, i + 1) /\ SendAt(q, j + 1)
          /\ t[i] = q[i + 1] /\ t[j] = q[j + 1] /\ i + 1 < j + 1
      BY <1>1, <1>2, <2>2
    <3>. QED
      BY <2>2, <3>1 DEF Ordered
  <2>. QED
    BY <2>1, <2>2 DEF Ordered
<1>5. ASSUME NEW s, NEW x
      PROVE  /\ x \in Waiting(t, s) <=> \E j : SendAt(t, j) /\ t[j].m.from = s /\ x = t[j].m.no
             /\ x \in Waiting(q, s) <=> \E j : SendAt(q, j) /\ q[j].m.from = s /\ x = q[j].m.no
  BY DEF Waiting, SendAt
<1>6. ASSUME NEW s, NEW x
      PROVE  x \in Waiting(q, s) <=> \/ x \in Waiting(t, s)
                                     \/ SendAt(q, 1) /\ q[1].m.from = s /\ x = q[1].m.no
  <2>1. ASSUME x \in Waiting(t, s) PROVE x \in Waiting(q, s)
    BY <1>2, <1>5, <2>1
  <2>2. ASSUME x \in Waiting(q, s), ~(SendAt(q, 1) /\ q[1].m.from = s /\ x = q[1].m.no)
        PROVE  x \in Waiting(t, s)
    BY <1>3, <1>5, <2>2
  <2>. QED
    BY <1>5, <2>1, <2>2
<1>7. SendAt(q, 1) <=> Head(q).op = "send"
  BY <1>1 DEF SendAt
<1>8. ASSUME SendAt(q, 1), NEW n \in Waiting(t, q[1].m.from) PROVE q[1].m.no < n
  <2>1. PICK j : SendAt(t, j) /\ t[j].m.from = q[1].m.from /\ n = t[j].m.no
    BY <1>5, <1>8
  <2>2. SendAt(q, j + 1) /\ t[j] = q[j + 1] /\ 1 < j + 1
    BY <1>2, <2>1
  <2>. QED
    BY <1>8, <2>1, <2>2 DEF Ordered, SendAt
<1>9. SendAt(q, 1) => q[1].m.from \in User
  BY DEF Ordered, SendAt
<1>10. ASSUME ~SendAt(q, 1), NEW s PROVE Waiting(t, s) = Waiting(q, s)
  <2>1. \A x : x \in Waiting(t, s) <=> x \in Waiting(q, s)
    BY <1>6, <1>10
  <2>. QED
    BY <2>1 DEF Waiting
<1>11. ASSUME SendAt(q, 1)
       PROVE  Waiting(q, q[1].m.from) = Waiting(t, q[1].m.from) \union {q[1].m.no}
  BY <1>6, <1>11
<1>12. ASSUME NEW s, s # q[1].m.from PROVE Waiting(t, s) = Waiting(q, s)
  <2>1. \A x : x \in Waiting(t, s) <=> x \in Waiting(q, s)
    BY <1>6, <1>12
  <2>. QED
    BY <2>1 DEF Waiting
<1>. QED
  BY <1>1, <1>4, <1>7, <1>8, <1>9, <1>10, <1>11, <1>12 DEF t

(***************************************************************************)
(* What is accepted.                                                       *)
(***************************************************************************)
\* sendInLoop takes all of a message or nothing, and what it drops once it
\* drops from then on.
LEMMA SendInLoopTakes ==
    ASSUME TypeOK, NEW data \in Seq(Cell), NEW q \in Seq(Functor), SendInLoop(data, q),
           UNCHANGED <<state_, wrShut, peer>>
    PROVE  \/ accepted' = accepted /\ DropsAll'
           \/ ~DropsAll /\ accepted' = accepted \o data
<1>1. CASE state_ = kDisconnected
  BY <1>1 DEF SendInLoop, outVars, DropsAll
<1>2. CASE state_ # kDisconnected
  <2> DEFINE remaining(k, other) ==
                IF WriteDirectly /\ Broken /\ ~other THEN <<>> ELSE SubSeq(data, k + 1, Len(data))
  <2>1. PICK k \in IF WriteDirectly THEN Taken(Len(data)) ELSE {0},
             other \in IF soError THEN BOOLEAN ELSE {FALSE} :
          /\ outputBuffer_' = outputBuffer_ \o remaining(k, other)
          /\ accepted' = IF WriteDirectly /\ Broken /\ ~other THEN accepted ELSE accepted \o data
          /\ soError' = (soError /\ ~WriteDirectly)
          /\ IF remaining(k, other) # <<>> /\ ~isWriting THEN enableWriting ELSE UNCHANGED chanVars
    BY <1>2 DEF SendInLoop
  <2>2. CASE WriteDirectly /\ Broken /\ ~other
    <3>1. /\ outputBuffer_' = outputBuffer_ \o <<>> /\ accepted' = accepted
          /\ soError' = FALSE /\ UNCHANGED chanVars
      BY <2>1, <2>2
    <3>2. outputBuffer_' = outputBuffer_
      BY <3>1, ConcatEmptySeq DEF TypeOK
    <3>. QED
      BY <2>2, <3>1, <3>2 DEF DropsAll, WriteDirectly, Broken, isWriting, chanVars
  <2>3. CASE ~(WriteDirectly /\ Broken /\ ~other)
    BY <1>2, <2>1, <2>3 DEF DropsAll
  <2>. QED
    BY <2>2, <2>3
<1>. QED
  BY <1>1, <1>2

LEMMA CellsOf ==
    ASSUME NEW m \in Message, reused = {}
    PROVE  /\ MsgLen[m.from] \in Nat /\ Cells(m) \in Seq(Cell) /\ Len(Cells(m)) = MsgLen[m.from]
           /\ \A i \in 1 .. MsgLen[m.from] : Cells(m)[i] = [m |-> m, pos |-> i]
<1>1. MsgLen[m.from] \in Nat
  BY ConnectionAssumption DEF Message
<1>. QED
  BY <1>1, CellsTyped DEF Cells

\* The same of any stream and any count of what was sent.
OrderAt(a, n, i) ==
    /\ a[i].m.no <= n[a[i].m.from] /\ a[i].pos \in 1 .. MsgLen[a[i].m.from]
    /\ \/ a[i].m.no = 1 /\ a[i].pos = 1 /\ \A l \in 1 .. i - 1 : a[l].m.from # a[i].m.from
       \/ \E j \in 1 .. i - 1 : /\ Follows(a[j], a[i])
                                /\ \A l \in j + 1 .. i - 1 : a[l].m.from # a[i].m.from
TookOf(a, s, k) ==
    /\ \A i \in DOMAIN a : a[i].m.from = s => a[i].m.no <= k
    /\ k > 0 /\ MsgLen[s] > 0 =>
          \E j \in DOMAIN a :
              /\ a[j] = [m |-> [from |-> s, no |-> k], pos |-> MsgLen[s]]
              /\ \A l \in j + 1 .. Len(a) : a[l].m.from # s

LEMMA OrdersAgree ==
    /\ \A i : InOrderAt(i) <=> OrderAt(accepted, nsent, i)
    /\ \A i : InOrderAt(i)' <=> OrderAt(accepted', nsent', i)
    /\ \A s, k : Took(s, k) <=> TookOf(accepted, s, k)
    /\ \A s, k : Took(s, k)' <=> TookOf(accepted', s, k)
<1>1. \A i : InOrderAt(i) <=> OrderAt(accepted, nsent, i)
  BY DEF InOrderAt, OrderAt
<1>2. \A i : InOrderAt(i)' <=> OrderAt(accepted', nsent', i)
  BY DEF InOrderAt, OrderAt, Follows
<1>3. \A s, k : Took(s, k) <=> TookOf(accepted, s, k)
  BY DEF Took, TookOf
<1>4. \A s, k : Took(s, k)' <=> TookOf(accepted', s, k)
  BY DEF Took, TookOf
<1>. QED
  BY <1>1, <1>2, <1>3, <1>4

LEMMA CellParts ==
    ASSUME NEW c \in Cell
    PROVE  c.m \in Message /\ c.m.from \in Sender /\ c.m.no \in Nat /\ c.m.no > 0 /\ c.pos \in Nat
<1>1. c.m \in [from : Sender, no : 1 .. MaxSends] /\ c.pos \in Nat
  BY DEF Cell, Message
<1>2. c.m.from \in Sender /\ c.m.no \in 1 .. MaxSends
  BY <1>1
<1>. QED
  BY <1>1, <1>2, ConnectionAssumption DEF Message

\* A sender whose messages up to k were accepted has the next one accepted.
LEMMA AcceptNext ==
    ASSUME NEW a \in Seq(Cell), NEW m \in Message, reused = {},
           NEW n \in [Sender -> Nat], NEW n1 \in [Sender -> Nat],
           \A s \in Sender : n[s] <= n1[s],
           m.no <= n1[m.from],
           \A i \in DOMAIN a : OrderAt(a, n, i),
           NEW k \in Nat, m.no = k + 1, TookOf(a, m.from, k)
    PROVE  /\ \A i \in DOMAIN (a \o Cells(m)) : OrderAt(a \o Cells(m), n1, i)
           /\ TookOf(a \o Cells(m), m.from, k + 1)
           /\ \A s \in Sender, x \in Nat :
                 s # m.from /\ TookOf(a, s, x) => TookOf(a \o Cells(m), s, x)
<1> DEFINE L == Len(a)
           M == MsgLen[m.from]
<1>0. PICK b : b = a \o Cells(m)
  OBVIOUS
<1>1. /\ a \in Seq(Cell) /\ L \in Nat /\ M \in Nat /\ DOMAIN a = 1 .. L
      /\ b = a \o Cells(m) /\ Len(b) = L + M /\ DOMAIN b = 1 .. L + M
      /\ \A i \in 1 .. L : b[i] = a[i]
      /\ \A i \in L + 1 .. L + M : b[i] = [m |-> m, pos |-> i - L]
  <2>1. a \in Seq(Cell) /\ L \in Nat /\ DOMAIN a = 1 .. L
    BY LenProperties DEF TypeOK
  <2>2. /\ M \in Nat /\ Cells(m) \in Seq(Cell) /\ Len(Cells(m)) = M
        /\ \A i \in 1 .. M : Cells(m)[i] = [m |-> m, pos |-> i]
    BY CellsOf
  <2>3. /\ a \o Cells(m) \in Seq(Cell) /\ Len(a \o Cells(m)) = L + M
        /\ \A i \in 1 .. L + M :
              (a \o Cells(m))[i] = IF i <= L THEN a[i] ELSE Cells(m)[i - L]
    <3>1. a \o Cells(m) \in Seq(Cell) /\ Len(a \o Cells(m)) = Len(a) + Len(Cells(m))
          /\ \A i \in 1 .. Len(a) + Len(Cells(m)) :
                (a \o Cells(m))[i] = IF i <= Len(a) THEN a[i] ELSE Cells(m)[i - Len(a)]
      BY <2>2, ConcatProperties
    <3>. QED
      BY <2>2, <3>1
  <2>4. DOMAIN (a \o Cells(m)) = 1 .. L + M
    BY <2>3, LenProperties
  <2>5. /\ \A i \in 1 .. L : b[i] = a[i]
        /\ \A i \in L + 1 .. L + M : b[i] = [m |-> m, pos |-> i - L]
    <3>1. \A i \in L + 1 .. L + M : i - L \in 1 .. M /\ i \in 1 .. L + M /\ ~(i <= L)
      BY <2>1, <2>2
    <3>2. \A i \in L + 1 .. L + M : b[i] = Cells(m)[i - L]
      BY <1>0, <2>3, <3>1
    <3>3. \A i \in L + 1 .. L + M : b[i] = [m |-> m, pos |-> i - L]
      BY <2>2, <3>1, <3>2
    <3>. QED
      BY <1>0, <2>1, <2>2, <2>3, <3>3
  <2>. QED
    BY <1>0, <2>1, <2>2, <2>3, <2>4, <2>5
<1>2. \A i \in 1 .. L : a[i].m.from \in Sender /\ a[i].m.no \in Nat /\ a[i].m.no > 0
  <2>1. \A i \in 1 .. L : a[i] \in Cell
    BY <1>1, ElementOfSeq
  <2>. QED
    BY <2>1, CellParts
<1> HIDE DEF L, M
<1>9. ASSUME NEW i \in L + 1 .. L + M PROVE b[i].m = m /\ b[i].pos = i - L
  <2>1. b[i] = [m |-> m, pos |-> i - L]
    BY <1>1
  <2>. QED
    BY <2>1
<1>3. m.from \in Sender /\ m.no \in Nat
  BY ConnectionAssumption DEF Message
<1>4. ASSUME NEW i \in 1 .. L PROVE OrderAt(b, n1, i)
  <2>1. OrderAt(a, n, i)
    BY <1>1
  <2>2. i \in Nat /\ \A l \in 1 .. i : b[l] = a[l]
    BY <1>1
  <2>3. a[i].m.from \in Sender /\ a[i].m.no \in Nat
    BY <1>2
  <2>4. a[i].m.no <= n[a[i].m.from] /\ a[i].pos \in 1 .. MsgLen[a[i].m.from]
    BY <2>1 DEF OrderAt
  <2>5. a[i].m.no <= n1[a[i].m.from]
    <3>1. n[a[i].m.from] \in Nat /\ n1[a[i].m.from] \in Nat /\ n[a[i].m.from] <= n1[a[i].m.from]
      BY <2>3
    <3>. QED
      BY <2>3, <2>4, <3>1
  <2>6. b[i] = a[i]
    BY <2>2
  <2>7. \A l \in 1 .. i - 1 : b[l] = a[l]
    BY <2>2
  <2>8. \/ a[i].m.no = 1 /\ a[i].pos = 1 /\ \A l \in 1 .. i - 1 : b[l].m.from # a[i].m.from
        \/ \E j \in 1 .. i - 1 : /\ Follows(b[j], a[i])
                                 /\ \A l \in j + 1 .. i - 1 : b[l].m.from # a[i].m.from
    <3>1. CASE a[i].m.no = 1 /\ a[i].pos = 1 /\ \A l \in 1 .. i - 1 : a[l].m.from # a[i].m.from
      BY <2>7, <3>1
    <3>2. ASSUME NEW j \in 1 .. i - 1, Follows(a[j], a[i]),
                 \A l \in j + 1 .. i - 1 : a[l].m.from # a[i].m.from
          PROVE  Follows(b[j], a[i]) /\ \A l \in j + 1 .. i - 1 : b[l].m.from # a[i].m.from
      <4>1. b[j] = a[j] /\ \A l \in j + 1 .. i - 1 : b[l] = a[l]
        BY <2>2, <2>7
      <4>. QED
        BY <3>2, <4>1
    <3>. QED
      BY <2>1, <3>1, <3>2 DEF OrderAt
  <2>. QED
    BY <2>4, <2>5, <2>6, <2>8 DEF OrderAt
<1>5. ASSUME NEW i \in L + 1 .. L + M PROVE OrderAt(b, n1, i)
  <2>1. b[i] = [m |-> m, pos |-> i - L] /\ i - L \in 1 .. M
    BY <1>1
  <2>2. CASE i - L > 1
    <3>1. i - 1 \in 1 .. i - 1 /\ b[i - 1] = [m |-> m, pos |-> i - 1 - L]
      <4>1. L \in Nat /\ M \in Nat /\ i \in Int /\ i <= L + M
        BY <1>1
      <4>2. i - 1 \in 1 .. i - 1 /\ i - 1 \in L + 1 .. L + M
        BY <2>2, <4>1
      <4>3. \A x \in L + 1 .. L + M : b[x] = [m |-> m, pos |-> x - L]
        BY <1>1
      <4>. QED
        BY <4>2, <4>3
    <3>2. Follows(b[i - 1], b[i])
      BY <1>1, <2>1, <2>2, <3>1 DEF Follows
    <3>3. \A l \in (i - 1) + 1 .. i - 1 : b[l].m.from # b[i].m.from
      OBVIOUS
    <3>4. \E j \in 1 .. i - 1 : /\ Follows(b[j], b[i])
                                /\ \A l \in j + 1 .. i - 1 : b[l].m.from # b[i].m.from
      BY <3>1, <3>2, <3>3
    <3>. QED
      BY <2>1, <3>4 DEF OrderAt, M
  <2>3. CASE i = L + 1 /\ k = 0
    <3>1. \A l \in 1 .. L : a[l].m.from # m.from
      <4> SUFFICES ASSUME NEW l \in 1 .. L, a[l].m.from = m.from PROVE FALSE
        OBVIOUS
      <4>1. a[l].m.no \in Nat /\ a[l].m.no > 0
        BY <1>2
      <4>2. \A x \in 1 .. L : a[x].m.from = m.from => a[x].m.no <= k
        BY <1>1 DEF TookOf
      <4>3. a[l].m.no <= 0
        BY <2>3, <4>2
      <4>. QED
        BY <4>1, <4>3
    <3>2. \A l \in 1 .. i - 1 : b[l].m.from # b[i].m.from
      BY <1>1, <2>1, <2>3, <3>1
    <3>3. b[i].m.no = 1 /\ b[i].pos = 1
      BY <1>1, <2>1, <2>3
    <3>. QED
      BY <2>1, <3>2, <3>3 DEF OrderAt, M
  <2>4. CASE i = L + 1 /\ k > 0
    <3>1. PICK j \in 1 .. L :
             /\ a[j] = [m |-> [from |-> m.from, no |-> k], pos |-> M]
             /\ \A l \in j + 1 .. L : a[l].m.from # m.from
      BY <1>1, <2>1, <2>4 DEF TookOf, L, M
    <3>2. Follows(b[j], b[i])
      <4>1. b[j] = a[j] /\ b[i] = [m |-> m, pos |-> 1] /\ m.no - 1 = k
        BY <1>1, <2>1, <2>4
      <4>2. /\ b[j].m.from = m.from /\ b[j].m.no = k /\ b[j].pos = M
            /\ b[i].m = m /\ b[i].pos = 1
        BY <3>1, <4>1
      <4>. QED
        <5>1. b[j].m.from = b[i].m.from
          BY <4>2
        <5>2. b[j].m.no = b[i].m.no - 1 /\ b[j].pos = MsgLen[b[i].m.from]
          BY <4>1, <4>2 DEF M
        <5>. QED
          BY <4>2, <5>1, <5>2 DEF Follows
    <3>3. \A l \in j + 1 .. i - 1 : b[l].m.from # b[i].m.from
      <4>1. L \in Nat /\ \A l \in 1 .. L : b[l] = a[l]
        BY <1>1
      <4>2. \A l \in j + 1 .. L : l \in 1 .. L
        BY <4>1
      <4>3. i - 1 = L /\ b[i].m = m
        BY <2>1, <2>4, <4>1
      <4>. QED
        BY <3>1, <4>1, <4>2, <4>3
    <3>4. \E x \in 1 .. i - 1 : /\ Follows(b[x], b[i])
                                /\ \A l \in x + 1 .. i - 1 : b[l].m.from # b[i].m.from
      <4>1. i - 1 = L
        BY <1>1, <2>4
      <4>. QED
        BY <3>2, <3>3, <4>1
    <3>. QED
      BY <2>1, <3>4 DEF OrderAt, M
  <2>. QED
    BY <1>1, <2>2, <2>3, <2>4
<1>6. \A i \in DOMAIN b : OrderAt(b, n1, i)
  <2>1. \A i \in 1 .. L + M : i \in 1 .. L \/ i \in L + 1 .. L + M
    BY <1>1
  <2>. QED
    BY <1>1, <1>4, <1>5, <2>1
<1>7. TookOf(b, m.from, k + 1)
  <2>1. \A i \in DOMAIN b : b[i].m.from = m.from => b[i].m.no <= k + 1
    <3>1. ASSUME NEW i \in 1 .. L, b[i].m.from = m.from PROVE b[i].m.no <= k + 1
      <4>1. a[i].m.no \in Nat
        BY <1>2
      <4>2. i \in DOMAIN a /\ a[i].m.from = m.from
        BY <1>1, <3>1
      <4>3. b[i] = a[i] /\ a[i].m.no <= k
        BY <1>1, <4>2 DEF TookOf
      <4>. QED
        BY <4>1, <4>3
    <3>. QED
      <4>1. \A i \in DOMAIN b : i \in 1 .. L \/ i \in L + 1 .. L + M
        BY <1>1
      <4>2. \A i \in L + 1 .. L + M : b[i].m.no <= k + 1
        <5>1. \A i \in L + 1 .. L + M : b[i].m.no = k + 1
          BY <1>9
        <5>. QED
          BY <5>1
      <4>. QED
        BY <3>1, <4>1, <4>2
  <2>2. ASSUME M > 0
        PROVE  \E j \in DOMAIN b :
                  /\ b[j] = [m |-> [from |-> m.from, no |-> k + 1], pos |-> M]
                  /\ \A l \in j + 1 .. Len(b) : b[l].m.from # m.from
    <3>1. L + M \in DOMAIN b /\ b[L + M] = [m |-> m, pos |-> M]
      <4>1. L \in Nat /\ M \in Nat /\ L + M \in L + 1 .. L + M /\ L + M \in 1 .. L + M
        BY <1>1, <2>2
      <4>2. b[L + M] = [m |-> m, pos |-> (L + M) - L] /\ (L + M) - L = M
        BY <1>1, <4>1
      <4>. QED
        BY <1>1, <4>1, <4>2
    <3>2. m = [from |-> m.from, no |-> k + 1]
      BY DEF Message
    <3>3. \A l \in (L + M) + 1 .. Len(b) : b[l].m.from # m.from
      BY <1>1
    <3>. QED
      BY <3>1, <3>2, <3>3
  <2>. QED
    BY <2>1, <2>2 DEF TookOf, M
<1>8. ASSUME NEW s \in Sender, NEW x \in Nat, s # m.from, TookOf(a, s, x) PROVE TookOf(b, s, x)
  <2>1. \A i \in DOMAIN b : b[i].m.from = s => i \in 1 .. L /\ b[i] = a[i]
    <3>1. \A i \in DOMAIN b : i \in 1 .. L \/ i \in L + 1 .. L + M
      BY <1>1
    <3>2. \A i \in L + 1 .. L + M : b[i].m.from = m.from
      BY <1>9
    <3>. QED
      BY <1>1, <1>8, <3>1, <3>2
  <2>2. \A i \in DOMAIN b : b[i].m.from = s => b[i].m.no <= x
    BY <1>1, <1>8, <2>1 DEF TookOf
  <2>3. ASSUME x > 0, MsgLen[s] > 0
        PROVE  \E j \in DOMAIN b :
                  /\ b[j] = [m |-> [from |-> s, no |-> x], pos |-> MsgLen[s]]
                  /\ \A l \in j + 1 .. Len(b) : b[l].m.from # s
    <3>1. PICK j \in 1 .. L :
             /\ a[j] = [m |-> [from |-> s, no |-> x], pos |-> MsgLen[s]]
             /\ \A l \in j + 1 .. L : a[l].m.from # s
      BY <1>1, <1>8, <2>3 DEF TookOf, L
    <3>2. j \in DOMAIN b /\ b[j] = a[j]
      BY <1>1
    <3>3. \A l \in j + 1 .. L + M : b[l].m.from # s
      <4>1. \A l \in j + 1 .. L + M : l \in j + 1 .. L \/ l \in L + 1 .. L + M
        BY <1>1
      <4>. QED
        <5>1. \A l \in L + 1 .. L + M : b[l].m.from = m.from
          BY <1>9
        <5>2. \A l \in j + 1 .. L : l \in 1 .. L
          BY <1>1
        <5>3. \A l \in j + 1 .. L : b[l] = a[l]
          BY <1>1, <5>2
        <5>. QED
          BY <1>8, <3>1, <4>1, <5>1, <5>3
    <3>. QED
      BY <1>1, <3>1, <3>2, <3>3
  <2>. QED
    BY <2>2, <2>3 DEF TookOf
<1>. QED
  BY <1>0, <1>6, <1>7, <1>8

(***************************************************************************)
(* The steps.                                                              *)
(***************************************************************************)
\* A loop that drops what it is given goes on dropping it.
LEMMA DropsStay ==
    ASSUME OutputInv, UpDownInv, [Next]_vars, Claimed', DropsAll
    PROVE  Claimed /\ DropsAll'
<1> USE DEF objVars, netVars, serverVars, userVars, envVars, chanVars, outVars, histVars
<1>0. TypeOK
  BY DEF OutputInv
<1>1. ASSUME NEW u \in User, UserStep(u) PROVE Claimed /\ DropsAll'
  <2>1. CASE SetDisconnecting(u)
    <3>1. ~revived' /\ UNCHANGED <<wrShut, peer, soError, events_, outputBuffer_>>
          /\ revived' = (revived \/ state_ = kDisconnected) /\ state_' = kDisconnecting
      BY <2>1 DEF SetDisconnecting, Claimed
    <3>. QED
      BY <3>1 DEF Claimed, DropsAll, Broken, WriteDirectly, isWriting
  <2>2. CASE ~SetDisconnecting(u)
    <3>1. UNCHANGED <<state_, wrShut, peer, soError, events_, outputBuffer_, revived>>
      BY <1>1, <2>2 DEF UserStep, CallSend, PushSend, ReuseString, CallShutdown, PushShutdown
    <3>. QED
      BY <3>1 DEF Claimed, DropsAll, Broken, WriteDirectly, isWriting
  <2>. QED
    BY <2>1, <2>2
<1>2. CASE ConnectionEstablished
  <2>1. queue # <<>> /\ queue[1] = Call("established") /\ ~revived
        /\ UNCHANGED <<wrShut, netVars, revived, outVars>>
    <3>1. queue # <<>> /\ Head(queue) = Call("established")
      BY <1>2 DEF ConnectionEstablished, NextFunctor
    <3>2. Head(queue) = queue[1]
      BY <1>0, <3>1, QueueShrinks DEF TypeOK
    <3>. QED
      BY <1>2, <3>1, <3>2 DEF ConnectionEstablished, Claimed
  <2>2. 1 \in DOMAIN queue
    BY <1>0, <2>1, QueueShrinks DEF TypeOK
  <2>3. state_ = kConnecting
    BY <2>1, <2>2 DEF UpDownInv, UpOnce, UntilUp
  <2>4. events_' = events_ \union {"read"}
    BY <1>2 DEF ConnectionEstablished, enableReading, UpdateChannel
  <2>. QED
    BY <2>1, <2>3, <2>4 DEF Claimed, DropsAll, Broken, WriteDirectly, isWriting, kConnecting,
       kDisconnected
<1>3. ASSUME NEW data \in Seq(Cell), NEW q \in Seq(Functor), SendInLoop(data, q),
             UNCHANGED <<state_, wrShut, peer, revived>>
      PROVE  Claimed /\ DropsAll'
  <2>1. Claimed
    BY <1>3 DEF Claimed
  <2>2. accepted' = accepted /\ DropsAll'
    BY <1>0, <1>3, SendInLoopTakes
  <2>. QED
    BY <2>1, <2>2
<1>4. ASSUME NEW m \in Message, RunSend(m) PROVE Claimed /\ DropsAll'
  <2>1. queue # <<>> /\ SendInLoop(Cells(m), Tail(queue))
        /\ UNCHANGED <<state_, wrShut, peer, revived>>
    BY <1>4 DEF RunSend, NextFunctor
  <2>2. Tail(queue) \in Seq(Functor) /\ Cells(m) \in Seq(Cell)
    BY <1>0, <2>1, QueueShrinks, CellsTyped DEF TypeOK
  <2>. QED
    BY <1>3, <2>1, <2>2
<1>5. CASE OwnSend
  <2>1. SendInLoop(Cells([from |-> Loop, no |-> nsent'[Loop]]), queue)
        /\ UNCHANGED <<state_, wrShut, peer, revived>>
    BY <1>5 DEF OwnSend
  <2>2. Cells([from |-> Loop, no |-> nsent'[Loop]]) \in Seq(Cell) /\ queue \in Seq(Functor)
    BY <1>0, <1>5, OwnMessage, CellsTyped DEF TypeOK
  <2>. QED
    BY <1>3, <2>1, <2>2
<1>6. CASE HandleWrite
  <2>1. UNCHANGED <<state_, peer, revived>> /\ (wrShut => wrShut') /\ (~soError => ~soError')
        /\ (~isWriting => UNCHANGED <<events_, outputBuffer_>>)
    <3>1. UNCHANGED <<state_, peer, revived>> /\ soError' = (soError /\ ~(isWriting /\ Broken))
      BY <1>6 DEF HandleWrite
    <3>2. ~isWriting => UNCHANGED <<events_, outputBuffer_>>
      BY <1>6 DEF HandleWrite
    <3>3. wrShut' = wrShut \/ wrShut' = (wrShut \/ Not(state_) = kDisconnecting)
      BY <1>6 DEF HandleWrite
    <3>. QED
      BY <1>0, <3>1, <3>2, <3>3 DEF TypeOK
  <2>. QED
    BY <1>0, <2>1 DEF TypeOK, Claimed, DropsAll, Broken, WriteDirectly, isWriting
<1>7. CASE RunShutdown \/ RunNotify \/ OwnShutdown
  <2>1. UNCHANGED <<peer, soError, events_, outputBuffer_, revived>>
    BY <1>7 DEF RunShutdown, RunNotify, OwnShutdown, ShutdownInLoop
  <2>2. wrShut' = wrShut \/ wrShut' = (wrShut \/ ~isWriting)
    BY <1>7 DEF RunShutdown, RunNotify, OwnShutdown, ShutdownInLoop
  <2>3. state_ = kDisconnected => UNCHANGED state_
    BY <1>7 DEF RunShutdown, RunNotify, OwnShutdown, kConnected, kDisconnected
  <2>. QED
    BY <1>0, <2>1, <2>2, <2>3 DEF TypeOK, Claimed, DropsAll, Broken, WriteDirectly, isWriting
<1>8. CASE ConnectDestroyed
  BY <1>8 DEF ConnectDestroyed, disableAll, UpdateChannel, remove, Claimed, DropsAll, Broken,
     WriteDirectly, isWriting
<1>9. CASE HandleHup \/ HandleReadEnd
  BY <1>9 DEF HandleHup, HandleReadEnd, BeginClose, Claimed, DropsAll
<1>10. CASE HandleRead \/ HandleReadError \/ CallbackReturn \/ (\E room \in BOOLEAN : Poll(room))
  BY <1>10 DEF HandleRead, HandleReadError, CallbackReturn, remove, Poll, Claimed, DropsAll,
     Broken, WriteDirectly, isWriting
<1>11. CASE RemoveConnectionInLoop \/ DestroyServer \/ PeerSends \/ PeerFin \/ UNCHANGED vars
  BY <1>11 DEF RemoveConnectionInLoop, DestroyServer, PeerSends, PeerFin, vars, Claimed,
     DropsAll, Broken, WriteDirectly, isWriting
<1>12. CASE PeerReset
  BY <1>12 DEF PeerReset, Claimed, DropsAll, Broken, WriteDirectly, isWriting
<1>. QED
  BY <1>1, <1>2, <1>4, <1>5, <1>6, <1>7, <1>8, <1>9, <1>10, <1>11, <1>12
     DEF Next, LoopStep, RunFunctor, HandleEvent

LEMMA SendersInit == Init => SendersInv
<1> SUFFICES ASSUME Init PROVE SendersInv
  OBVIOUS
<1>1. /\ accepted = <<>> /\ reused = {} /\ queue = <<Call("established")>>
      /\ nsent = [s \in Sender |-> 0] /\ userPc = [u \in User |-> "idle"]
  BY DEF Init
<1>2. AllInOrder
  BY <1>1 DEF AllInOrder
<1>3. \A i \in DOMAIN queue : ~SendAt(queue, i)
  <2>1. \A i \in DOMAIN queue : queue[i] = Call("established")
    BY <1>1
  <2>. QED
    BY <2>1 DEF SendAt, Call
<1>4. Ordered(queue) /\ \A s : Waiting(queue, s) = {}
  BY <1>3 DEF Ordered, Waiting, SendAt
<1>5. ASSUME NEW s \in Sender PROVE Took(s, 0) /\ Waits(s, 0)
  <2>1. Pushed(s) = 0
    BY <1>1, <1>5 DEF Pushed
  <2>2. Took(s, 0)
    BY <1>1 DEF Took
  <2>3. Waits(s, 0)
    BY <1>4, <2>1 DEF Waits
  <2>. QED
    BY <2>2, <2>3
<1>6. NoneMissing
  BY <1>5 DEF NoneMissing
<1>. QED
  BY <1>1, <1>2, <1>4, <1>6 DEF SendersInv

LEMMA PushedTyped ==
    ASSUME OutputInv, NEW s \in Sender
    PROVE  Pushed(s) \in Nat /\ nsent[s] \in Nat /\ Pushed(s) <= nsent[s]
<1>1. nsent[s] \in 0 .. MaxSends /\ MaxSends \in Nat
  BY ConnectionAssumption DEF OutputInv, TypeOK
<1>2. s \in User /\ userPc[s] = "send" => nsent[s] > 0
  BY DEF OutputInv
<1>. QED
  BY <1>1, <1>2 DEF Pushed

\* Nothing is accepted and no message is pushed or popped.
LEMMA SendersKept ==
    ASSUME OutputInv, AllInOrder, NoneMissing, UNCHANGED accepted,
           \A s \in Sender : nsent'[s] \in Nat /\ nsent[s] <= nsent'[s],
           \A s \in Sender : Pushed(s)' = Pushed(s),
           \A s \in Sender : Waiting(queue', s) = Waiting(queue, s),
           DropsAll => DropsAll'
    PROVE  AllInOrder' /\ NoneMissing'
<1>1. AllInOrder'
  <2> SUFFICES ASSUME NEW i \in DOMAIN accepted PROVE OrderAt(accepted, nsent', i)
    BY OrdersAgree DEF AllInOrder
  <2>1. OrderAt(accepted, nsent, i)
    BY OrdersAgree DEF AllInOrder
  <2>2. accepted[i] \in Cell
    BY ElementOfSeq, LenProperties DEF OutputInv, TypeOK
  <2>3. accepted[i].m.from \in Sender /\ accepted[i].m.no \in Nat
    BY <2>2, CellParts
  <2>4. nsent[accepted[i].m.from] \in Nat
    BY <2>3, PushedTyped
  <2>5. accepted[i].m.no <= nsent'[accepted[i].m.from]
    BY <2>1, <2>3, <2>4 DEF OrderAt
  <2>. QED
    BY <2>1, <2>5 DEF OrderAt
<1>2. ASSUME NEW s \in Sender, NEW k \in Nat, Took(s, k), Waits(s, k)
      PROVE  Took(s, k)' /\ Waits(s, k)'
  <2>1. Took(s, k)'
    BY <1>2, OrdersAgree
  <2>2. Pushed(s)' = Pushed(s) /\ Waiting(queue', s) = Waiting(queue, s)
    BY <1>2
  <2>3. Waits(s, k)'
    BY <1>2, <2>2 DEF Waits
  <2>. QED
    BY <2>1, <2>3
<1>3. NoneMissing'
  BY <1>2 DEF NoneMissing
<1>. QED
  BY <1>1, <1>3

\* A thread pushes a message: it waits behind the others of its sender.
LEMMA SendersPush ==
    ASSUME OutputInv, AllInOrder, Ordered(queue), NoneMissing, NEW u \in User, PushSend(u)
    PROVE  AllInOrder' /\ Ordered(queue') /\ NoneMissing'
<1> DEFINE m == [from |-> u, no |-> nsent[u]]
<1> USE DEF objVars, netVars, serverVars, userVars, envVars, chanVars, outVars, histVars
<1>1. /\ u \in Sender /\ m \in Message /\ m.from = u /\ m.no = nsent[u] /\ queue \in Seq(Functor)
      /\ nsent[u] \in Nat
  <2>1. nsent[u] \in 0 .. MaxSends /\ nsent[u] > 0
    BY DEF PushSend, OutputInv, TypeOK, Sender
  <2>. QED
    BY <2>1, ConnectionAssumption DEF OutputInv, TypeOK, Sender, Message
<1>2. /\ queue' = Append(queue, SendCall(m))
      /\ userPc[u] = "send" /\ userPc' = [userPc EXCEPT ![u] = "idle"]
      /\ userPc \in [User -> {"idle", "send", "setState", "shutdown"}]
      /\ UNCHANGED <<accepted, nsent, state_, wrShut, peer, soError, events_, outputBuffer_>>
  BY DEF PushSend, OutputInv, TypeOK
<1> HIDE DEF m
<1>3. /\ Pushed(u) = nsent[u] - 1 /\ Pushed(u)' = nsent[u]
      /\ \A s \in Sender : s # u => Pushed(s)' = Pushed(s)
  BY <1>2 DEF Pushed
<1>4. PICK k \in Nat : Took(u, k) /\ Waits(u, k)
  BY <1>1 DEF NoneMissing
<1>5. \A n \in Waiting(queue, u) : n \in Nat /\ n < nsent[u]
  <2>1. Waiting(queue, u) \subseteq k + 1 .. nsent[u] - 1
    BY <1>3, <1>4 DEF Waits
  <2>. QED
    BY <1>1, <2>1
<1>6. /\ Ordered(queue')
      /\ Waiting(queue', u) = Waiting(queue, u) \union {nsent[u]}
      /\ \A s : s # u => Waiting(queue', s) = Waiting(queue, s)
  BY <1>1, <1>2, <1>5, WaitingAfterPush
<1>7. DropsAll' <=> DropsAll
  BY <1>2 DEF DropsAll, Broken, WriteDirectly, isWriting
<1>8. \A s \in Sender, n \in Nat : Took(s, n) => Took(s, n)'
  BY <1>2, OrdersAgree
<1>9. Waits(u, k)'
  <2>1. k <= nsent[u] - 1 /\ Waiting(queue, u) \subseteq k + 1 .. nsent[u] - 1
        /\ (~DropsAll => k + 1 .. nsent[u] - 1 \subseteq Waiting(queue, u))
    BY <1>3, <1>4 DEF Waits
  <2>2. k + 1 .. nsent[u] = (k + 1 .. nsent[u] - 1) \union {nsent[u]}
    BY <1>1, <2>1
  <2>3. k <= nsent[u] /\ Waiting(queue', u) \subseteq k + 1 .. nsent[u]
        /\ (~DropsAll' => k + 1 .. nsent[u] \subseteq Waiting(queue', u))
    BY <1>1, <1>6, <1>7, <2>1, <2>2
  <2>. QED
    BY <1>3, <2>3 DEF Waits
<1>10. ASSUME NEW s \in Sender, s # u, NEW n \in Nat, Waits(s, n) PROVE Waits(s, n)'
  <2>1. Pushed(s)' = Pushed(s) /\ Waiting(queue', s) = Waiting(queue, s)
    BY <1>3, <1>6, <1>10
  <2>. QED
    BY <1>7, <1>10, <2>1 DEF Waits
<1>11. NoneMissing'
  <2>1. ASSUME NEW s \in Sender PROVE \E n \in Nat : Took(s, n)' /\ Waits(s, n)'
    <3>1. CASE s = u
      BY <1>4, <1>8, <1>9, <3>1
    <3>2. CASE s # u
      BY <1>8, <1>10, <3>2 DEF NoneMissing
    <3>. QED
      BY <3>1, <3>2
  <2>. QED
    BY <2>1 DEF NoneMissing
<1>12. AllInOrder'
  BY <1>2, OrdersAgree DEF AllInOrder
<1>. QED
  BY <1>6, <1>11, <1>12

\* sendInLoop runs with a message that is next in its sender's order, or drops
\* it, as it then does with all that come.
LEMMA SendersTake ==
    ASSUME OutputInv, AllInOrder, NoneMissing, reused = {},
           NEW m \in Message, NEW q \in Seq(Functor), SendInLoop(Cells(m), q),
           UNCHANGED <<state_, wrShut, peer>>,
           \A s \in Sender : nsent'[s] \in Nat /\ nsent[s] <= nsent'[s],
           nsent' \in [Sender -> Nat],
           m.no <= Pushed(m.from)', Pushed(m.from)' <= nsent'[m.from],
           \A s \in Sender : s # m.from => Pushed(s)' = Pushed(s),
           NEW k \in Nat, Took(m.from, k), Waits(m.from, k), ~DropsAll => m.no = k + 1,
           k <= Pushed(m.from)',
           \A n \in Waiting(queue', m.from) : n \in m.no + 1 .. Pushed(m.from)',
           m.no \in k + 1 .. Pushed(m.from)',
           ~DropsAll => m.no + 1 .. Pushed(m.from)' \subseteq Waiting(queue', m.from),
           \A s \in Sender : s # m.from => Waiting(queue', s) = Waiting(queue, s)
    PROVE  AllInOrder' /\ NoneMissing'
<1>0. /\ TypeOK /\ Cells(m) \in Seq(Cell) /\ accepted \in Seq(Cell)
      /\ m.from \in Sender /\ m.no \in Nat
  BY CellsTyped, ConnectionAssumption DEF OutputInv, TypeOK, Message
<1>1. /\ nsent \in [Sender -> Nat]
      /\ \A i \in DOMAIN accepted : OrderAt(accepted, nsent, i)
      /\ TookOf(accepted, m.from, k)
  <2>1. nsent \in [Sender -> Nat]
    BY <1>0, ConnectionAssumption DEF TypeOK
  <2>. QED
    BY <2>1, OrdersAgree DEF AllInOrder
<1>2. CASE accepted' = accepted /\ DropsAll'
  <2>1. AllInOrder'
    <3>1. ASSUME NEW i \in DOMAIN accepted PROVE OrderAt(accepted, nsent', i)
      <4>1. accepted[i] \in Cell
        BY <1>0, ElementOfSeq, LenProperties
      <4>2. accepted[i].m.from \in Sender /\ accepted[i].m.no \in Nat
        BY <4>1, CellParts
      <4>3. accepted[i].m.no <= nsent'[accepted[i].m.from]
        <5>1. OrderAt(accepted, nsent, i) /\ nsent[accepted[i].m.from] \in Nat
          BY <1>1, <4>2
        <5>. QED
          BY <4>2, <5>1 DEF OrderAt
      <4>. QED
        BY <1>1, <4>3 DEF OrderAt
    <3>. QED
      BY <1>2, <3>1, OrdersAgree DEF AllInOrder
  <2>2. Took(m.from, k)' /\ Waits(m.from, k)'
    <3>1. Took(m.from, k)'
      BY <1>1, <1>2, OrdersAgree
    <3>2. \A n \in m.no + 1 .. Pushed(m.from)' : n \in k + 1 .. Pushed(m.from)'
      BY <1>0
    <3>3. Waits(m.from, k)'
      BY <1>2, <3>2 DEF Waits
    <3>. QED
      BY <3>1, <3>3
  <2>3. ASSUME NEW s \in Sender, s # m.from, NEW n \in Nat, Took(s, n), Waits(s, n)
        PROVE  Took(s, n)' /\ Waits(s, n)'
    <3>1. Took(s, n)'
      BY <1>2, <2>3, OrdersAgree
    <3>2. Pushed(s)' = Pushed(s) /\ Waiting(queue', s) = Waiting(queue, s)
      BY <2>3
    <3>3. Waits(s, n)'
      BY <1>2, <2>3, <3>2 DEF Waits
    <3>. QED
      BY <3>1, <3>3
  <2>4. NoneMissing'
    BY <2>2, <2>3 DEF NoneMissing
  <2>. QED
    BY <2>1, <2>4
<1>3. CASE ~DropsAll /\ accepted' = accepted \o Cells(m)
  <2>0. m.no = k + 1 /\ m.no <= nsent'[m.from]
    <3>1. m.no = k + 1 /\ nsent'[m.from] \in Nat
      BY <1>0, <1>3
    <3>2. Pushed(m.from)' \in Int
      BY <1>0 DEF Pushed
    <3>. QED
      BY <1>0, <3>1, <3>2
  <2>1. /\ \A i \in DOMAIN accepted' : OrderAt(accepted', nsent', i)
        /\ TookOf(accepted', m.from, k + 1)
        /\ \A s \in Sender, x \in Nat :
              s # m.from /\ TookOf(accepted, s, x) => TookOf(accepted', s, x)
    <3>1. \A s \in Sender : nsent[s] <= nsent'[s]
      OBVIOUS
    <3>. QED
      BY <1>0, <1>1, <1>3, <2>0, <3>1, AcceptNext
  <2>2. AllInOrder'
    BY <2>1, OrdersAgree DEF AllInOrder
  <2>3. Took(m.from, k + 1)' /\ Waits(m.from, k + 1)'
    <3>1. Took(m.from, k + 1)'
      BY <2>1, OrdersAgree
    <3>2. Waits(m.from, k + 1)'
      BY <1>3, <2>0 DEF Waits
    <3>. QED
      BY <3>1, <3>2
  <2>4. ASSUME NEW s \in Sender, s # m.from, NEW n \in Nat, Took(s, n), Waits(s, n)
        PROVE  Took(s, n)' /\ Waits(s, n)'
    <3>1. Took(s, n)'
      BY <2>1, <2>4, OrdersAgree
    <3>2. Pushed(s)' = Pushed(s) /\ Waiting(queue', s) = Waiting(queue, s)
      BY <2>4
    <3>3. Waits(s, n)'
      BY <1>3, <2>4, <3>2 DEF Waits
    <3>. QED
      BY <3>1, <3>3
  <2>5. NoneMissing'
    <3>1. k + 1 \in Nat
      OBVIOUS
    <3>. QED
      BY <2>3, <2>4, <3>1 DEF NoneMissing
  <2>. QED
    BY <2>2, <2>5
<1>. QED
  BY <1>0, <1>2, <1>3, SendInLoopTakes

LEMMA SendersRun ==
    ASSUME OutputInv, AllInOrder, Ordered(queue), NoneMissing, reused = {},
           NEW m \in Message, RunSend(m)
    PROVE  AllInOrder' /\ Ordered(queue') /\ NoneMissing'
<1> USE DEF objVars, netVars, serverVars, userVars, envVars, chanVars, outVars, histVars
<1> DEFINE t == Tail(queue)
<1>1. /\ queue # <<>> /\ Head(queue) = SendCall(m) /\ SendInLoop(Cells(m), t)
      /\ UNCHANGED <<state_, wrShut, peer, userPc, nsent>>
      /\ queue \in Seq(Functor)
      /\ Cells(m) \in Seq(Cell) /\ m.from \in Sender /\ m.no \in Nat
  BY CellsTyped, ConnectionAssumption DEF RunSend, NextFunctor, OutputInv, TypeOK, Message
<1>2. t \in Seq(Functor)
  BY <1>1, QueueShrinks
<1>3. PICK r \in Seq(Functor) :
         /\ queue' = t \o r
         /\ \A i \in DOMAIN r : r[i] \in {Call("complete"), Call("highWater")}
  BY <1>1, <1>2, SendInLoopQueue DEF OutputInv
<1>4. \A i \in DOMAIN r : r[i].op # "send"
  BY <1>3 DEF Call
<1>5. /\ Head(queue).op = "send" /\ Head(queue).m = m
  BY <1>1, NoSends
<1>6. /\ Ordered(t)
      /\ Waiting(queue, m.from) = Waiting(t, m.from) \union {m.no}
      /\ \A n \in Waiting(t, m.from) : m.no < n
      /\ \A s : s # m.from => Waiting(t, s) = Waiting(queue, s)
  BY <1>1, <1>5, WaitingAfterPop
<1>7. Ordered(queue') /\ \A s : Waiting(queue', s) = Waiting(t, s)
  BY <1>2, <1>3, <1>4, <1>6, WaitingAfterOthers
<1> HIDE DEF t
<1>8. \A s \in Sender : Pushed(s)' = Pushed(s) /\ nsent'[s] = nsent[s]
                        /\ nsent[s] \in Nat /\ Pushed(s) \in Nat /\ Pushed(s) <= nsent[s]
  <2>1. \A s \in Sender : Pushed(s)' = Pushed(s) /\ nsent'[s] = nsent[s]
    BY <1>1 DEF Pushed
  <2>. QED
    BY <2>1, PushedTyped
<1>9. nsent' \in [Sender -> Nat]
  BY <1>1, ConnectionAssumption DEF OutputInv, TypeOK
<1>10. PICK k \in Nat : Took(m.from, k) /\ Waits(m.from, k)
  BY <1>1 DEF NoneMissing
<1> DEFINE p == Pushed(m.from)
<1>11. /\ k <= p /\ p \in Nat
       /\ Waiting(queue, m.from) \subseteq k + 1 .. p
       /\ ~DropsAll => k + 1 .. p \subseteq Waiting(queue, m.from)
  BY <1>1, <1>8, <1>10 DEF Waits
<1>12. m.no \in k + 1 .. p /\ m.no <= p
  BY <1>6, <1>11
<1> HIDE DEF p
\* The first to wait is the first that is missing.
<1>13. ASSUME ~DropsAll PROVE m.no = k + 1
  <2>1. k + 1 \in Waiting(queue, m.from)
    BY <1>11, <1>12, <1>13
  <2>. QED
    BY <1>6, <1>12, <2>1
<1>14. ASSUME NEW n \in Waiting(queue', m.from) PROVE n \in m.no + 1 .. p
  <2>1. n \in Waiting(t, m.from)
    BY <1>7, <1>14
  <2>2. n \in Waiting(queue, m.from)
    BY <1>6, <2>1
  <2>3. n \in k + 1 .. p /\ m.no < n
    BY <1>6, <1>11, <2>1, <2>2
  <2>. QED
    BY <1>1, <1>11, <2>3
<1>15. ASSUME ~DropsAll PROVE m.no + 1 .. p \subseteq Waiting(queue', m.from)
  <2>1. ASSUME NEW n \in m.no + 1 .. p PROVE n \in Waiting(queue', m.from)
    <3>1. n \in k + 1 .. p /\ n # m.no
      BY <1>1, <1>11, <1>12
    <3>2. n \in Waiting(queue, m.from)
      BY <1>11, <1>15, <3>1
    <3>. QED
      BY <1>6, <1>7, <3>1, <3>2
  <2>. QED
    BY <2>1
<1>16. Pushed(m.from)' = p /\ p <= nsent'[m.from]
  BY <1>1, <1>8 DEF p
<1>17. AllInOrder' /\ NoneMissing'
  <2>1. \A s \in Sender : s # m.from => Waiting(queue', s) = Waiting(queue, s)
    BY <1>6, <1>7
  <2>2. \A s \in Sender : nsent'[s] \in Nat /\ nsent[s] <= nsent'[s]
    BY <1>8
  <2>3. \A s \in Sender : s # m.from => Pushed(s)' = Pushed(s)
    BY <1>8
  <2>4. /\ m.no <= Pushed(m.from)' /\ Pushed(m.from)' <= nsent'[m.from] /\ k <= Pushed(m.from)'
        /\ m.no \in k + 1 .. Pushed(m.from)'
        /\ \A n \in Waiting(queue', m.from) : n \in m.no + 1 .. Pushed(m.from)'
        /\ ~DropsAll => m.no + 1 .. Pushed(m.from)' \subseteq Waiting(queue', m.from)
    BY <1>11, <1>12, <1>14, <1>15, <1>16
  <2>. QED
    BY <1>1, <1>2, <1>9, <1>10, <1>13, <2>1, <2>2, <2>3, <2>4, SendersTake
<1>. QED
  BY <1>7, <1>17

\* The loop's thread sends at once, so none of its messages waits.
LEMMA SendersOwn ==
    ASSUME OutputInv, AllInOrder, Ordered(queue), NoneMissing, reused = {}, OwnSend
    PROVE  AllInOrder' /\ Ordered(queue') /\ NoneMissing'
<1> USE DEF objVars, netVars, serverVars, userVars, envVars, chanVars, outVars, histVars
<1> DEFINE m == [from |-> Loop, no |-> nsent'[Loop]]
<1>1. /\ SendInLoop(Cells(m), queue)
      /\ UNCHANGED <<state_, wrShut, peer, userPc>>
      /\ queue \in Seq(Functor) /\ nsent' = [nsent EXCEPT ![Loop] = @ + 1]
  BY DEF OwnSend, OutputInv, TypeOK
<1>2. /\ m \in Message /\ m.from = Loop /\ m.no = nsent[Loop] + 1 /\ Loop \in Sender
      /\ Cells(m) \in Seq(Cell) /\ nsent'[Loop] = nsent[Loop] + 1
  BY OwnMessage, CellsTyped DEF OutputInv
<1> HIDE DEF m
<1>3. PICK r \in Seq(Functor) :
         /\ queue' = queue \o r
         /\ \A i \in DOMAIN r : r[i] \in {Call("complete"), Call("highWater")}
  BY <1>1, <1>2, SendInLoopQueue DEF OutputInv
<1>4. \A i \in DOMAIN r : r[i].op # "send"
  BY <1>3 DEF Call
<1>5. Ordered(queue') /\ \A s : Waiting(queue', s) = Waiting(queue, s)
  BY <1>1, <1>3, <1>4, WaitingAfterOthers
<1>6. Loop \notin User
  BY ConnectionAssumption
<1>7. Waiting(queue, Loop) = {}
  BY <1>6 DEF Waiting, Ordered, SendAt
<1>8. \A s \in Sender : nsent[s] \in Nat /\ nsent'[s] = IF s = Loop THEN nsent[s] + 1 ELSE nsent[s]
  <2>1. nsent \in [Sender -> 0 .. MaxSends]
    BY DEF OutputInv, TypeOK
  <2>2. \A s \in Sender : nsent[s] \in Nat
    BY PushedTyped
  <2>. QED
    BY <1>1, <2>1, <2>2
<1>9. nsent' \in [Sender -> Nat]
  <2>1. nsent \in [Sender -> Nat]
    BY ConnectionAssumption DEF OutputInv, TypeOK
  <2>2. nsent' = [nsent EXCEPT ![Loop] = nsent[Loop] + 1]
    BY <1>1
  <2>3. nsent[Loop] + 1 \in Nat
    BY <1>2, <1>8
  <2>. QED
    BY <2>1, <2>2, <2>3
<1>10. /\ Pushed(Loop) = nsent[Loop] /\ Pushed(Loop)' = nsent[Loop] + 1
       /\ \A s \in Sender : s # Loop => Pushed(s)' = Pushed(s)
  BY <1>1, <1>2, <1>6, <1>8 DEF Pushed
<1>11. PICK k \in Nat : Took(Loop, k) /\ Waits(Loop, k)
  BY <1>2 DEF NoneMissing
<1>12. k <= nsent[Loop] /\ nsent[Loop] \in Nat
       /\ (~DropsAll => k + 1 .. nsent[Loop] \subseteq {})
  BY <1>2, <1>7, <1>8, <1>10, <1>11 DEF Waits
<1>13. ASSUME ~DropsAll PROVE m.no = k + 1
  <2>1. k + 1 \notin k + 1 .. nsent[Loop]
    BY <1>12, <1>13
  <2>. QED
    BY <1>2, <1>12, <2>1
<1>14. AllInOrder' /\ NoneMissing'
  <2>1. /\ m.no <= Pushed(Loop)' /\ Pushed(Loop)' <= nsent'[Loop] /\ k <= Pushed(Loop)'
        /\ m.no \in k + 1 .. Pushed(Loop)'
        /\ m.no + 1 .. Pushed(Loop)' = {}
    BY <1>2, <1>10, <1>12
  <2>2. /\ \A n \in Waiting(queue', Loop) : n \in m.no + 1 .. Pushed(Loop)'
        /\ m.no + 1 .. Pushed(Loop)' \subseteq Waiting(queue', Loop)
    BY <1>5, <1>7, <2>1
  <2>3. \A s \in Sender : nsent'[s] \in Nat /\ nsent[s] <= nsent'[s]
    BY <1>8
  <2>. QED
    BY <1>1, <1>2, <1>5, <1>9, <1>10, <1>11, <1>13, <2>1, <2>2, <2>3, SendersTake
<1>. QED
  BY <1>5, <1>14

\* Everything else leaves the messages that wait as they are.
LEMMA SendersAside ==
    ASSUME OutputInv, UpDownInv, [Next]_vars, Claimed', AllInOrder, Ordered(queue), NoneMissing,
           ~(\E u \in User : PushSend(u)), ~(\E m \in Message : RunSend(m)), ~OwnSend
    PROVE  AllInOrder' /\ Ordered(queue') /\ NoneMissing'
<1> USE DEF objVars, netVars, serverVars, userVars, envVars, chanVars, outVars, histVars
<1>0. /\ queue \in Seq(Functor) /\ nsent \in [Sender -> 0 .. MaxSends] /\ MaxSends \in Nat
      /\ userPc \in [User -> {"idle", "send", "setState", "shutdown"}]
      /\ Loop \in Sender /\ User \subseteq Sender /\ Loop \notin User
  BY ConnectionAssumption DEF OutputInv, TypeOK, Sender
<1>1. accepted' = accepted
  BY DEF Next, LoopStep, UserStep, RunFunctor, HandleEvent, CallSend, PushSend, ReuseString,
     CallShutdown, SetDisconnecting, PushShutdown, OwnShutdown, ConnectionEstablished,
     RunShutdown, RunNotify, ConnectDestroyed, HandleHup, HandleRead, HandleReadEnd,
     HandleReadError, HandleWrite, CallbackReturn, Poll, RemoveConnectionInLoop, DestroyServer,
     PeerSends, PeerFin, PeerReset, vars
<1>2. \/ UNCHANGED <<userPc, nsent>>
      \/ \E u \in User : /\ userPc[u] = "idle" /\ userPc' = [userPc EXCEPT ![u] = "send"]
                         /\ nsent' = [nsent EXCEPT ![u] = @ + 1]
      \/ \E u \in User : /\ userPc[u] # "send" /\ UNCHANGED nsent
                         /\ \E v \in {"idle", "setState", "shutdown"} :
                               userPc' = [userPc EXCEPT ![u] = v]
  BY DEF Next, LoopStep, UserStep, RunFunctor, HandleEvent, CallSend, PushSend, ReuseString,
     CallShutdown, SetDisconnecting, PushShutdown, OwnShutdown, ConnectionEstablished,
     RunShutdown, RunNotify, ConnectDestroyed, HandleHup, HandleRead, HandleReadEnd,
     HandleReadError, HandleWrite, CallbackReturn, Poll, RemoveConnectionInLoop, DestroyServer,
     PeerSends, PeerFin, PeerReset, vars
<1>3. \A s \in Sender : /\ nsent'[s] \in Nat /\ nsent[s] <= nsent'[s]
                        /\ Pushed(s)' = Pushed(s)
  <2>1. CASE UNCHANGED <<userPc, nsent>>
    BY <1>0, <2>1 DEF Pushed
  <2>2. ASSUME NEW u \in User, userPc[u] = "idle", userPc' = [userPc EXCEPT ![u] = "send"],
               nsent' = [nsent EXCEPT ![u] = @ + 1], NEW s \in Sender
        PROVE  nsent'[s] \in Nat /\ nsent[s] <= nsent'[s] /\ Pushed(s)' = Pushed(s)
    <3>1. CASE s = u
      BY <1>0, <2>2, <3>1 DEF Pushed
    <3>2. CASE s # u
      BY <1>0, <2>2, <3>2 DEF Pushed
    <3>. QED
      BY <3>1, <3>2
  <2>3. ASSUME NEW u \in User, userPc[u] # "send", UNCHANGED nsent,
               NEW v \in {"idle", "setState", "shutdown"}, userPc' = [userPc EXCEPT ![u] = v],
               NEW s \in Sender
        PROVE  nsent'[s] \in Nat /\ nsent[s] <= nsent'[s] /\ Pushed(s)' = Pushed(s)
    <3>1. CASE s = u
      BY <1>0, <2>3, <3>1 DEF Pushed
    <3>2. CASE s # u
      BY <1>0, <2>3, <3>2 DEF Pushed
    <3>. QED
      BY <3>1, <3>2
  <2>. QED
    BY <1>2, <2>1, <2>2, <2>3
<1>4. Ordered(queue') /\ \A s : Waiting(queue', s) = Waiting(queue, s)
  <2>1. CASE UNCHANGED queue
    BY <2>1
  <2>2. ASSUME NEW op \in {"shutdown", "destroyed"}, queue' = Append(queue, Call(op))
        PROVE  Ordered(queue') /\ \A s : Waiting(queue', s) = Waiting(queue, s)
    <3>1. Call(op) \in Functor /\ Call(op).op # "send"
      BY FunctorsTyped, NoSends
    <3>. QED
      BY <1>0, <2>2, <3>1, WaitingAfterAnother
  <2>3. ASSUME queue # <<>>, Head(queue).op # "send", queue' = Tail(queue)
        PROVE  Ordered(queue') /\ \A s : Waiting(queue', s) = Waiting(queue, s)
    BY <1>0, <2>3, WaitingAfterPop
  <2>4. CASE RunFunctor
    <3>1. ConnectionEstablished \/ RunShutdown \/ RunNotify \/ ConnectDestroyed
      BY <2>4 DEF RunFunctor
    <3>2. queue # <<>> /\ queue' = Tail(queue)
          /\ \E op \in {"established", "shutdown", "complete", "highWater", "destroyed"} :
                Head(queue) = Call(op)
      BY <3>1 DEF ConnectionEstablished, RunShutdown, RunNotify, ConnectDestroyed, NextFunctor
    <3>3. Head(queue).op # "send"
      BY <3>2, NoSends
    <3>. QED
      BY <2>3, <3>2, <3>3
  <2>5. CASE HandleWrite
    <3>1. queue' = queue \/ queue' = Append(queue, Call("complete"))
      BY <2>5 DEF HandleWrite, NotifyComplete
    <3>2. Call("complete") \in Functor /\ Call("complete").op # "send"
      BY FunctorsTyped, NoSends
    <3>. QED
      BY <1>0, <2>1, <3>1, <3>2, WaitingAfterAnother
  <2>6. ASSUME NEW u \in User, UserStep(u)
        PROVE  queue' = queue \/ queue' = Append(queue, Call("shutdown"))
    BY <2>6 DEF UserStep, CallSend, ReuseString, CallShutdown, SetDisconnecting, PushShutdown
  <2>7. CASE RemoveConnectionInLoop \/ DestroyServer
    BY <2>2, <2>7 DEF RemoveConnectionInLoop, DestroyServer
  <2>8. CASE OwnShutdown \/ HandleHup \/ HandleRead \/ HandleReadEnd \/ HandleReadError
                 \/ CallbackReturn \/ (\E room \in BOOLEAN : Poll(room))
    BY <2>1, <2>8 DEF OwnShutdown, HandleHup, HandleRead, HandleReadEnd, HandleReadError,
       CallbackReturn, Poll
  <2>9. CASE PeerSends \/ PeerFin \/ PeerReset \/ UNCHANGED vars
    BY <2>1, <2>9 DEF PeerSends, PeerFin, PeerReset, vars
  <2>. QED
    BY <2>1, <2>2, <2>4, <2>5, <2>6, <2>7, <2>8, <2>9 DEF Next, LoopStep, HandleEvent
<1>5. DropsAll => DropsAll'
  BY DropsStay
<1>. QED
  BY <1>1, <1>3, <1>4, <1>5, SendersKept

LEMMA SendersStep == OutputInv /\ UpDownInv /\ SendersInv /\ [Next]_vars => SendersInv'
<1> SUFFICES ASSUME OutputInv, UpDownInv, SendersInv, [Next]_vars PROVE SendersInv'
  OBVIOUS
<1> USE DEF objVars, netVars, serverVars, userVars, envVars, chanVars, outVars, histVars
<1>1. ASSUME ~ReusesStrings PROVE reused' = {}
  <2>1. UNCHANGED reused
    BY <1>1 DEF Next, LoopStep, UserStep, RunFunctor, HandleEvent, CallSend, PushSend,
       ReuseString, CallShutdown, SetDisconnecting, PushShutdown, OwnSend, OwnShutdown,
       ConnectionEstablished, RunSend, RunShutdown, RunNotify, ConnectDestroyed, HandleHup,
       HandleRead, HandleReadEnd, HandleReadError, HandleWrite, CallbackReturn, Poll,
       RemoveConnectionInLoop, DestroyServer, PeerSends, PeerFin, PeerReset, vars
  <2>. QED
    BY <1>1, <2>1 DEF SendersInv
<1>2. ASSUME Claimed' PROVE AllInOrder' /\ Ordered(queue') /\ NoneMissing'
  <2>1. Claimed
    <3>1. wrShut => wrShut'
      <4>1. CASE HandleWrite
        <5>1. wrShut' = wrShut \/ wrShut' = (wrShut \/ Not(state_) = kDisconnecting)
          BY <4>1 DEF HandleWrite
        <5>. QED
          BY <5>1
      <4>2. CASE OwnShutdown \/ RunShutdown
        BY <4>2 DEF OwnShutdown, RunShutdown, ShutdownInLoop
      <4>3. CASE ~HandleWrite /\ ~OwnShutdown /\ ~RunShutdown
        BY <4>3 DEF Next, LoopStep, UserStep, RunFunctor, HandleEvent, CallSend, PushSend,
       ReuseString, CallShutdown, SetDisconnecting, PushShutdown, OwnSend,
       ConnectionEstablished, RunSend, RunNotify, ConnectDestroyed, HandleHup,
       HandleRead, HandleReadEnd, HandleReadError, CallbackReturn, Poll,
       RemoveConnectionInLoop, DestroyServer, PeerSends, PeerFin, PeerReset, vars
      <4>. QED
        BY <4>1, <4>2, <4>3
    <3>2. revived => revived'
      BY DEF Next, LoopStep, UserStep, RunFunctor, HandleEvent, CallSend, PushSend,
       ReuseString, CallShutdown, SetDisconnecting, PushShutdown, OwnSend, OwnShutdown,
       ConnectionEstablished, RunSend, RunShutdown, RunNotify, ConnectDestroyed, HandleHup,
       HandleRead, HandleReadEnd, HandleReadError, HandleWrite, CallbackReturn, Poll,
       RemoveConnectionInLoop, DestroyServer, PeerSends, PeerFin, PeerReset, vars
    <3>3. peer = "reset" => peer' = "reset"
      BY DEF Next, LoopStep, UserStep, RunFunctor, HandleEvent, CallSend, PushSend,
       ReuseString, CallShutdown, SetDisconnecting, PushShutdown, OwnSend, OwnShutdown,
       ConnectionEstablished, RunSend, RunShutdown, RunNotify, ConnectDestroyed, HandleHup,
       HandleRead, HandleReadEnd, HandleReadError, HandleWrite, CallbackReturn, Poll,
       RemoveConnectionInLoop, DestroyServer, PeerSends, PeerFin, PeerReset, vars
    <3>. QED
      BY <1>2, <3>1, <3>2, <3>3 DEF Claimed
  <2>2. AllInOrder /\ Ordered(queue) /\ NoneMissing /\ reused = {}
    BY <2>1 DEF SendersInv, Claimed
  <2>3. CASE \E u \in User : PushSend(u)
    BY <2>2, <2>3, SendersPush
  <2>4. CASE \E m \in Message : RunSend(m)
    BY <2>2, <2>4, SendersRun
  <2>5. CASE OwnSend
    BY <2>2, <2>5, SendersOwn
  <2>. QED
    BY <1>2, <2>2, <2>3, <2>4, <2>5, SendersAside
<1>. QED
  BY <1>1, <1>2 DEF SendersInv

\* The inductive invariant of the order of messages.
THEOREM SendersInvariant == SafetySpec => [](OutputInv /\ UpDownInv /\ SendersInv)
<1>1. OutputInv /\ UpDownInv /\ SendersInv /\ [Next]_vars
         => (OutputInv /\ UpDownInv /\ SendersInv)'
  BY OutputInvStep, UpDownStep, SendersStep
<1>. QED
  BY <1>1, OutputInvInit, UpDownInit, SendersInit, PTL DEF SafetySpec

\* Where callers leave their strings alone, each sender's bytes are accepted in
\* the order it sent them and without a gap, however many threads send and
\* wherever the connection ends.
THEOREM SendersStayInOrder == ~ReusesStrings => (SafetySpec => []SendersInOrder)
<1>1. ~ReusesStrings /\ OutputInv /\ UpDownInv /\ SendersInv => SendersInOrder
  BY DEF SendersInv, Claimed, AllInOrder, SendersInOrder
<1> SUFFICES ASSUME ~ReusesStrings PROVE SafetySpec => []SendersInOrder
  OBVIOUS
<1>2. OutputInv /\ UpDownInv /\ SendersInv => SendersInOrder
  BY <1>1
<1>. QED
  BY <1>2, SendersInvariant, PTL
=============================================================================
