---------------------------- MODULE TcpServerProofs ----------------------------
(***************************************************************************)
(* Proofs about TcpServer, for every pool of loops and every number of     *)
(* clients, descriptors, starting and calling threads.                     *)
(***************************************************************************)
EXTENDS TcpServer, SequenceTheorems, TLAPS

(***************************************************************************)
(* Lists of functors: one is appended, or the first of them is run.        *)
(***************************************************************************)
LEMMA HasAppend ==
    ASSUME NEW S, NEW s \in Seq(S), NEW x \in S, NEW f
    PROVE  Has(Append(s, x), f) <=> Has(s, f) \/ x = f
<1>1. Len(Append(s, x)) = Len(s) + 1 /\ Len(s) \in Nat
  OBVIOUS
<1>2. \A i \in 1 .. Len(s) : Append(s, x)[i] = s[i]
  OBVIOUS
<1>3. Append(s, x)[Len(s) + 1] = x
  OBVIOUS
<1>4. ASSUME Has(Append(s, x), f) PROVE Has(s, f) \/ x = f
  <2>1. PICK i \in 1 .. Len(s) + 1 : Append(s, x)[i] = f
    BY <1>1, <1>4 DEF Has
  <2>2. CASE i = Len(s) + 1
    BY <1>3, <2>1, <2>2
  <2>3. CASE i \in 1 .. Len(s)
    BY <1>2, <2>1, <2>3 DEF Has
  <2>. QED
    BY <1>1, <2>2, <2>3
<1>5. ASSUME Has(s, f) PROVE Has(Append(s, x), f)
  <2>1. PICK i \in 1 .. Len(s) : s[i] = f
    BY <1>5 DEF Has
  <2>2. Append(s, x)[i] = f /\ i \in 1 .. Len(Append(s, x))
    BY <1>1, <1>2, <2>1
  <2>. QED
    BY <2>2 DEF Has
<1>6. ASSUME x = f PROVE Has(Append(s, x), f)
  BY <1>1, <1>3, <1>6 DEF Has
<1>. QED
  BY <1>4, <1>5, <1>6

LEMMA HasHead ==
    ASSUME NEW S, NEW s \in Seq(S), s # <<>>, NEW f
    PROVE  Has(s, f) <=> Head(s) = f \/ Has(Tail(s), f)
<1>1. Len(s) \in Nat /\ Len(s) > 0 /\ DOMAIN Tail(s) = 1 .. Len(s) - 1
  BY EmptySeq, HeadTailProperties, LenProperties
<1>2. Head(s) = s[1]
  OBVIOUS
<1>3. \A i \in 1 .. Len(s) - 1 : Tail(s)[i] = s[i + 1]
  BY <1>1
<1>4. ASSUME Has(s, f) PROVE Head(s) = f \/ Has(Tail(s), f)
  <2>1. PICK i \in 1 .. Len(s) : s[i] = f
    BY <1>4 DEF Has
  <2>2. CASE i = 1
    BY <1>2, <2>1, <2>2
  <2>3. CASE i # 1
    <3>1. i - 1 \in 1 .. Len(s) - 1 /\ (i - 1) + 1 = i
      BY <1>1, <2>3
    <3>2. Tail(s)[i - 1] = f
      BY <1>3, <2>1, <3>1
    <3>. QED
      BY <1>1, <3>1, <3>2 DEF Has
  <2>. QED
    BY <2>2, <2>3
<1>5. ASSUME Head(s) = f PROVE Has(s, f)
  BY <1>1, <1>2, <1>5 DEF Has
<1>6. ASSUME Has(Tail(s), f) PROVE Has(s, f)
  <2>1. PICK i \in 1 .. Len(s) - 1 : Tail(s)[i] = f
    BY <1>1, <1>6 DEF Has
  <2>2. s[i + 1] = f /\ i + 1 \in 1 .. Len(s)
    BY <1>1, <1>3, <2>1
  <2>. QED
    BY <2>2 DEF Has
<1>. QED
  BY <1>4, <1>5, <1>6

\* A functor other than f may be appended; g follows if it is the one.
LEMMA FollowsAppend ==
    ASSUME NEW S, NEW s \in Seq(S), NEW x \in S, NEW f, NEW g, x # f,
           x = g \/ Follows(s, f, g)
    PROVE  Follows(Append(s, x), f, g)
<1>1. Len(Append(s, x)) = Len(s) + 1 /\ Len(s) \in Nat
  OBVIOUS
<1>2. \A i \in 1 .. Len(s) : Append(s, x)[i] = s[i]
  OBVIOUS
<1>3. Append(s, x)[Len(s) + 1] = x
  OBVIOUS
<1>4. CASE x = g
  BY <1>1, <1>2, <1>3, <1>4 DEF Follows
<1>5. CASE Follows(s, f, g)
  <2>1. PICK j \in 1 .. Len(s) :
            s[j] = g /\ \A i \in 1 .. Len(s) : s[i] = f => i < j
    BY <1>1, <1>5 DEF Follows
  <2>2. Append(s, x)[j] = g /\ j \in 1 .. Len(Append(s, x))
    BY <1>1, <1>2, <2>1
  <2>3. ASSUME NEW i \in 1 .. Len(s) + 1, Append(s, x)[i] = f PROVE i < j
    BY <1>1, <1>2, <1>3, <2>1, <2>3
  <2>. QED
    BY <1>1, <2>2, <2>3 DEF Follows
<1>. QED
  BY <1>4, <1>5

\* The first functor may be run, unless it is g and no f is left.
LEMMA FollowsTail ==
    ASSUME NEW S, NEW s \in Seq(S), s # <<>>, NEW f, NEW g, Follows(s, f, g),
           Head(s) # g \/ Has(Tail(s), f)
    PROVE  Follows(Tail(s), f, g)
<1>1. Len(s) \in Nat /\ Len(s) > 0 /\ DOMAIN Tail(s) = 1 .. Len(s) - 1
  BY EmptySeq, HeadTailProperties, LenProperties
<1>2. Head(s) = s[1]
  OBVIOUS
<1>3. \A i \in 1 .. Len(s) - 1 : Tail(s)[i] = s[i + 1]
  BY <1>1
<1>4. PICK j \in 1 .. Len(s) : s[j] = g /\ \A i \in 1 .. Len(s) : s[i] = f => i < j
  BY <1>1 DEF Follows
<1>5. j # 1
  <2>1. CASE Head(s) # g
    BY <1>2, <1>4, <2>1
  <2>2. CASE Has(Tail(s), f)
    <3>1. PICK i \in 1 .. Len(s) - 1 : Tail(s)[i] = f
      BY <1>1, <2>2 DEF Has
    <3>2. i + 1 \in 1 .. Len(s) /\ s[i + 1] = f
      BY <1>1, <1>3, <3>1
    <3>. QED
      BY <1>4, <3>2
  <2>. QED
    BY <2>1, <2>2
<1>6. j - 1 \in 1 .. Len(s) - 1 /\ (j - 1) + 1 = j
  BY <1>1, <1>5
<1>7. Tail(s)[j - 1] = g
  BY <1>3, <1>4, <1>6
<1>8. ASSUME NEW i \in 1 .. Len(s) - 1, Tail(s)[i] = f PROVE i < j - 1
  <2>1. i + 1 \in 1 .. Len(s) /\ s[i + 1] = f
    BY <1>1, <1>3, <1>8
  <2>. QED
    BY <1>4, <2>1
<1>. QED
  BY <1>1, <1>6, <1>7, <1>8 DEF Follows

\* What is queued behind a batch is queued behind what is left of it.
LEMMA AppendToQueue ==
    ASSUME NEW S, NEW b \in Seq(S), NEW p \in Seq(S), NEW f \in S
    PROVE  b \o Append(p, f) = Append(b \o p, f)
<1>1. Append(p, f) = p \o <<f>> /\ Append(b \o p, f) = (b \o p) \o <<f>>
  BY AppendIsConcat, ConcatProperties
<1>2. <<f>> \in Seq(S)
  OBVIOUS
<1>. QED
  BY <1>1, <1>2, ConcatAssociative

\* The batch is run first.
LEMMA HeadOfQueue ==
    ASSUME NEW S, NEW b \in Seq(S), b # <<>>, NEW p \in Seq(S)
    PROVE  /\ b \o p # <<>>
           /\ Head(b \o p) = Head(b)
           /\ Tail(b \o p) = Tail(b) \o p
<1>1. /\ b \o p \in Seq(S)
      /\ Len(b \o p) = Len(b) + Len(p)
      /\ \A i \in 1 .. Len(b) + Len(p) :
            (b \o p)[i] = IF i <= Len(b) THEN b[i] ELSE p[i - Len(b)]
  BY ConcatProperties
<1>2. Len(b) \in Nat \ {0} /\ Len(p) \in Nat
  BY EmptySeq, LenProperties
<1>3. b \o p # <<>>
  BY <1>1, <1>2, EmptySeq
<1>4. Head(b \o p) = Head(b)
  BY <1>1, <1>2
<1>5. /\ Tail(b) \in Seq(S)
      /\ Len(Tail(b)) = Len(b) - 1
      /\ \A i \in 1 .. Len(Tail(b)) : Tail(b)[i] = b[i + 1]
      /\ Tail(b \o p) \in Seq(S)
      /\ Len(Tail(b \o p)) = Len(b \o p) - 1
      /\ \A i \in 1 .. Len(Tail(b \o p)) : Tail(b \o p)[i] = (b \o p)[i + 1]
  BY <1>1, <1>3, HeadTailProperties
<1>6. /\ Tail(b) \o p \in Seq(S)
      /\ Len(Tail(b) \o p) = Len(b) - 1 + Len(p)
      /\ \A i \in 1 .. Len(b) - 1 + Len(p) : (Tail(b) \o p)[i] =
            IF i <= Len(b) - 1 THEN Tail(b)[i] ELSE p[i - (Len(b) - 1)]
  BY <1>5, ConcatProperties
<1>7. ASSUME NEW i \in 1 .. Len(b) - 1 + Len(p)
      PROVE  Tail(b \o p)[i] = (Tail(b) \o p)[i]
  <2>1. Tail(b \o p)[i] = (b \o p)[i + 1]
    BY <1>1, <1>2, <1>5
  <2>2. (b \o p)[i + 1] = IF i + 1 <= Len(b) THEN b[i + 1] ELSE p[i + 1 - Len(b)]
    BY <1>1, <1>2
  <2>3. i <= Len(b) - 1 => Tail(b)[i] = b[i + 1]
    BY <1>2, <1>5
  <2>4. i - (Len(b) - 1) = i + 1 - Len(b)
    BY <1>2
  <2>. QED
    BY <1>2, <1>6, <2>1, <2>2, <2>3, <2>4
<1>8. Tail(b \o p) = Tail(b) \o p
  BY <1>1, <1>2, <1>5, <1>6, <1>7, SeqEqual
<1>. QED
  BY <1>3, <1>4, <1>8

\* What is left of a batch is the end of it.
LEMMA SuffixElements ==
    ASSUME NEW S, NEW b \in Seq(S), NEW n \in Nat
    PROVE  LET r == SubSeq(b, n + 1, Len(b))
           IN  \A j \in 1 .. Len(r) : n + j \in 1 .. Len(b) /\ r[j] = b[n + j]
<1> DEFINE r == SubSeq(b, n + 1, Len(b))
<1>1. Len(b) \in Nat /\ \A i \in n + 1 .. Len(b) : b[i] \in S
  BY ElementOfSeq
<1>2. /\ Len(r) = IF n + 1 <= Len(b) THEN Len(b) - (n + 1) + 1 ELSE 0
      /\ \A i \in 1 .. Len(b) - (n + 1) + 1 : r[i] = b[n + 1 + i - 1]
  BY <1>1, SubSeqProperties
<1> HIDE DEF r
<1>3. ASSUME NEW j \in 1 .. Len(r) PROVE n + j \in 1 .. Len(b) /\ r[j] = b[n + j]
  <2>1. j \in 1 .. Len(b) - (n + 1) + 1 /\ n + 1 + j - 1 = n + j
    BY <1>1, <1>2
  <2>2. r[j] = b[n + 1 + j - 1]
    BY <1>2, <2>1
  <2>3. n + j \in 1 .. Len(b)
    BY <1>1, <2>1
  <2>. QED
    BY <2>1, <2>2, <2>3
<1>. QED
  BY <1>3 DEF r

(***************************************************************************)
(* What the actions do to the functors a loop has to run.                  *)
(***************************************************************************)
LEMMA FunctorIs ==
    /\ F("listen", Acceptor) \in Functor
    /\ \A c \in Conn :
          /\ F("established", c) \in Functor
          /\ F("remove", c) \in Functor
          /\ F("destroyed", c) \in Functor
          /\ F("send", c) \in Functor
          /\ F("shutdown", c) \in Functor
  BY DEF F, Functor

LEMMA FunctorsDiffer ==
    \A c, d :
        /\ F("established", c) # F("destroyed", d)
        /\ F("established", c) # F("remove", d)
        /\ F("established", c) # F("listen", Acceptor)
        /\ F("destroyed", c) # F("remove", d)
        /\ F("destroyed", c) # F("listen", Acceptor)
        /\ F("remove", c) # F("listen", Acceptor)
        /\ \A op \in {"send", "shutdown"} :
              /\ F(op, c) # F("established", d) /\ F(op, c) # F("destroyed", d)
              /\ F(op, c) # F("remove", d) /\ F(op, c) # F("listen", Acceptor)
        /\ F("send", c) # F("shutdown", d)
        /\ F("send", c) = F("send", d) => c = d
        /\ F("established", c) = F("established", d) => c = d
        /\ F("destroyed", c) = F("destroyed", d) => c = d
        /\ F("remove", c) = F("remove", d) => c = d
<1>1. \A o, p, c, d : F(o, c) = F(p, d) => o = p /\ c = d
  <2> SUFFICES ASSUME NEW o, NEW p, NEW c, NEW d, F(o, c) = F(p, d) PROVE o = p /\ c = d
    OBVIOUS
  <2>1. F(o, c).op = o /\ F(p, d).op = p /\ F(o, c).c = c /\ F(p, d).c = d
    BY DEF F
  <2>. QED
    BY <2>1
<1>. QED
  BY <1>1

LEMMA TodoType ==
    ASSUME TypeOK, NEW l \in Loop
    PROVE  /\ Todo(l) \in Seq(Functor)
           /\ SubSeq(batch[l], ran[l] + 1, Len(batch[l])) \in Seq(Functor)
<1>1. batch[l] \in Seq(Functor) /\ queue[l] \in Seq(Functor) /\ ran[l] \in Nat
  BY DEF TypeOK
<1>2. Len(batch[l]) \in Nat
  BY <1>1
<1>3. \A i \in ran[l] + 1 .. Len(batch[l]) : batch[l][i] \in Functor
  BY <1>1, <1>2, ElementOfSeq
<1>4. SubSeq(batch[l], ran[l] + 1, Len(batch[l])) \in Seq(Functor)
  BY <1>1, <1>2, <1>3, SubSeqProperties
<1>. QED
  BY <1>1, <1>4, ConcatProperties DEF Todo

LEMMA QueuedLast ==
    \A b, p \in Seq(Functor), f \in Functor : b \o Append(p, f) = Append(b \o p, f)
  BY AppendToQueue

\* A functor is queued.
LEMMA TodoPush ==
    ASSUME TypeOK, NEW l \in Loop, NEW f \in Functor,
           queue' = Push(queue, l, f), UNCHANGED <<batch, ran>>
    PROVE  \A k \in Loop : Todo(k)' = IF k = l THEN Append(Todo(l), f) ELSE Todo(k)
<1> TAKE k \in Loop
<1>1. queue' = [queue EXCEPT ![l] = Append(queue[l], f)] /\ queue \in [Loop -> Seq(Functor)]
  BY DEF Push, TypeOK
<1>2. CASE k = l
  <2>1. Todo(k)' = SubSeq(batch[l], ran[l] + 1, Len(batch[l])) \o Append(queue[l], f)
    BY <1>1, <1>2 DEF Todo
  <2>2. queue[l] \in Seq(Functor)
    BY <1>1
  <2>3. Todo(k)' = Append(Todo(l), f)
    BY <2>1, <2>2, TodoType, QueuedLast DEF Todo
  <2>. QED
    BY <1>2, <2>3
<1>3. CASE k # l
  BY <1>1, <1>3 DEF Todo
<1>. QED
  BY <1>2, <1>3

\* The first functor of a batch runs, and queues nothing.
LEMMA TodoRun ==
    ASSUME TypeOK, NEW l \in Loop, NEW f, RunFunctor(l, f)
    PROVE  /\ Todo(l) # <<>> /\ Head(Todo(l)) = f
           /\ \A k \in Loop : queue'[k] = queue[k] =>
                 Todo(k)' = IF k = l THEN Tail(Todo(l)) ELSE Todo(k)
<1> DEFINE b == batch[l]
           r == SubSeq(b, ran[l] + 1, Len(b))
<1>1. /\ b \in Seq(Functor) /\ queue[l] \in Seq(Functor) /\ ran[l] \in Nat
      /\ ran[l] + 1 \in 1 .. Len(b) /\ Len(b) \in ran[l] + 1 .. Len(b) /\ b[ran[l] + 1] = f
  BY DEF TypeOK, RunFunctor
<1>2. Head(r) = f /\ Tail(r) = SubSeq(b, ran[l] + 1 + 1, Len(b))
  BY <1>1, HeadTailOfSubSeq
<1>3. r \in Seq(Functor) /\ r # <<>>
  <2>1. Len(r) = Len(b) - (ran[l] + 1) + 1
    <3>1. \A i \in ran[l] + 1 .. Len(b) : b[i] \in Functor
      BY <1>1, ElementOfSeq
    <3>. QED
      BY <1>1, <3>1, SubSeqProperties
  <2>2. r \in Seq(Functor)
    BY TodoType
  <2>3. Len(r) # 0 /\ Len(<<>>) = 0
    BY <1>1, <2>1
  <2>. QED
    BY <2>2, <2>3
<1>4. Todo(l) # <<>> /\ Head(Todo(l)) = f /\ Tail(Todo(l)) = Tail(r) \o queue[l]
  BY <1>1, <1>2, <1>3, HeadOfQueue DEF Todo
<1>5. batch' = batch /\ ran'[l] = ran[l] + 1 /\ \A k \in Loop : k # l => ran'[k] = ran[k]
  BY DEF RunFunctor, TypeOK
<1>6. ASSUME NEW k \in Loop, queue'[k] = queue[k]
      PROVE  Todo(k)' = IF k = l THEN Tail(Todo(l)) ELSE Todo(k)
  BY <1>2, <1>4, <1>5, <1>6 DEF Todo
<1>. QED
  BY <1>4, <1>6

\* RemoveConnectionInLoop: the first functor of a batch runs, and queues another.
LEMMA TodoRunPush ==
    ASSUME TypeOK, NEW l \in Loop, NEW f, RunFunctor(l, f),
           NEW m \in Loop, NEW g \in Functor, queue' = Push(queue, m, g)
    PROVE  /\ Todo(l) # <<>> /\ Head(Todo(l)) = f
           /\ \A k \in Loop : Todo(k)' =
                 LET todo == IF k = l THEN Tail(Todo(l)) ELSE Todo(k)
                 IN  IF k = m THEN Append(todo, g) ELSE todo
<1> DEFINE b == batch[l]
           r == SubSeq(b, ran[l] + 1, Len(b))
<1>1. /\ b \in Seq(Functor) /\ queue[l] \in Seq(Functor) /\ ran[l] \in Nat
      /\ ran[l] + 1 \in 1 .. Len(b) /\ Len(b) \in ran[l] + 1 .. Len(b) /\ b[ran[l] + 1] = f
  BY DEF TypeOK, RunFunctor
<1>2. Tail(r) = SubSeq(b, ran[l] + 1 + 1, Len(b))
  BY <1>1, HeadTailOfSubSeq
<1>3. r \in Seq(Functor) /\ r # <<>>
  <2>1. Len(r) = Len(b) - (ran[l] + 1) + 1
    <3>1. \A i \in ran[l] + 1 .. Len(b) : b[i] \in Functor
      BY <1>1, ElementOfSeq
    <3>. QED
      BY <1>1, <3>1, SubSeqProperties
  <2>2. r \in Seq(Functor)
    BY TodoType
  <2>3. Len(r) # 0 /\ Len(<<>>) = 0
    BY <1>1, <2>1
  <2>. QED
    BY <2>2, <2>3
<1>4. Tail(r) \in Seq(Functor) /\ Tail(Todo(l)) = Tail(r) \o queue[l]
  BY <1>1, <1>3, HeadOfQueue, HeadTailProperties DEF Todo
<1>5. batch' = batch /\ ran'[l] = ran[l] + 1 /\ \A k \in Loop : k # l => ran'[k] = ran[k]
  BY DEF RunFunctor, TypeOK
<1>6. /\ queue'[m] = Append(queue[m], g) /\ \A k \in Loop : k # m => queue'[k] = queue[k]
      /\ queue[m] \in Seq(Functor)
  BY DEF Push, TypeOK
<1>7. Todo(l) # <<>> /\ Head(Todo(l)) = f
  BY TodoRun
<1>8. ASSUME NEW k \in Loop, k # m
      PROVE  Todo(k)' = IF k = l THEN Tail(Todo(l)) ELSE Todo(k)
  BY <1>6, <1>8, TodoRun
<1>9. Todo(m)' = Append(IF m = l THEN Tail(Todo(l)) ELSE Todo(m), g)
  <2>1. CASE m = l
    <3>1. Todo(m)' = Tail(r) \o Append(queue[l], g)
      BY <1>2, <1>5, <1>6, <2>1 DEF Todo
    <3>2. Tail(r) \o Append(queue[l], g) = Append(Tail(r) \o queue[l], g)
      BY <1>1, <1>4, QueuedLast
    <3>. QED
      BY <1>4, <2>1, <3>1, <3>2
  <2>2. CASE m # l
    <3>1. Todo(m)' = SubSeq(batch[m], ran[m] + 1, Len(batch[m])) \o Append(queue[m], g)
      BY <1>5, <1>6, <2>2 DEF Todo
    <3>2. Todo(m)' = Append(Todo(m), g)
      BY <1>6, <3>1, TodoType, QueuedLast DEF Todo
    <3>. QED
      BY <2>2, <3>2
  <2>. QED
    BY <2>1, <2>2
<1>. QED
  BY <1>7, <1>8, <1>9

\* Swapping the vectors, and clearing the batch, changes nothing to run.
LEMMA TodoSwap ==
    ASSUME TypeOK, Phases, NEW l \in Loop, SwapPending(l)
    PROVE  \A k \in Loop : Todo(k)' = Todo(k)
<1> TAKE k \in Loop
<1>1. /\ batch[l] = <<>> /\ ran[l] = 0 /\ ran' = ran /\ queue[l] \in Seq(Functor)
      /\ batch'[l] = queue[l] /\ queue'[l] = <<>>
      /\ k # l => batch'[k] = batch[k] /\ queue'[k] = queue[k]
  BY DEF SwapPending, Phases, TypeOK
<1>2. Todo(l) = queue[l]
  <2>1. SubSeq(batch[l], ran[l] + 1, Len(batch[l])) = <<>>
    BY <1>1, SubSeqEmpty
  <2>. QED
    BY <1>1, <2>1, ConcatEmptySeq DEF Todo
<1>3. Todo(l)' = queue[l]
  <2>1. Todo(l)' = SubSeq(queue[l], 1, Len(queue[l])) \o <<>>
    BY <1>1 DEF Todo
  <2>. QED
    BY <1>1, <2>1, SubSeqFull, ConcatEmptySeq
<1>. QED
  BY <1>1, <1>2, <1>3 DEF Todo

LEMMA TodoEnd ==
    ASSUME TypeOK, NEW l \in Loop, EndBatch(l)
    PROVE  \A k \in Loop : Todo(k)' = Todo(k)
<1> TAKE k \in Loop
<1>1. /\ ran[l] = Len(batch[l]) /\ ran[l] \in Nat /\ queue' = queue
      /\ batch'[l] = <<>> /\ ran'[l] = 0
      /\ k # l => batch'[k] = batch[k] /\ ran'[k] = ran[k]
  BY DEF EndBatch, TypeOK
<1>2. SubSeq(batch[l], ran[l] + 1, Len(batch[l])) = <<>>
  BY <1>1, SubSeqEmpty
<1>3. SubSeq(batch'[l], ran'[l] + 1, Len(batch'[l])) = <<>>
  BY <1>1, SubSeqEmpty
<1>. QED
  BY <1>1, <1>2, <1>3 DEF Todo

LEMMA TodoSame ==
    ASSUME UNCHANGED <<batch, ran, queue>>
    PROVE  \A k \in Loop : Todo(k)' = Todo(k)
  BY DEF Todo

(***************************************************************************)
(* So in terms of which functors are there, and in which order.            *)
(***************************************************************************)
LEMMA NothingNew ==
    ASSUME \A k \in Loop : Todo(k)' = Todo(k)
    PROVE  \A k \in Loop : \A g, h :
              /\ Has(Todo(k), g)' <=> Has(Todo(k), g)
              /\ Follows(Todo(k), g, h)' <=> Follows(Todo(k), g, h)
  OBVIOUS

LEMMA Queued ==
    ASSUME TypeOK, NEW l \in Loop, NEW f \in Functor,
           queue' = Push(queue, l, f), UNCHANGED <<batch, ran>>
    PROVE  \A k \in Loop : \A g :
              /\ Has(Todo(k), g)' <=> Has(Todo(k), g) \/ (k = l /\ g = f)
              /\ \A h : f # g /\ (Follows(Todo(k), g, h) \/ (k = l /\ h = f)) =>
                     Follows(Todo(k), g, h)'
<1> TAKE k \in Loop
<1> TAKE g
<1>1. Todo(k)' = (IF k = l THEN Append(Todo(l), f) ELSE Todo(k)) /\ Todo(k) \in Seq(Functor)
  BY TodoPush, TodoType
<1>2. Has(Todo(k), g)' <=> Has(Todo(k), g) \/ (k = l /\ g = f)
  <2>1. CASE k = l
    <3>1. Has(Append(Todo(l), f), g) <=> Has(Todo(l), g) \/ f = g
      BY <1>1, <2>1, HasAppend
    <3>. QED
      BY <1>1, <2>1, <3>1
  <2>2. CASE k # l
    BY <1>1, <2>2
  <2>. QED
    BY <2>1, <2>2
<1>3. ASSUME NEW h, f # g, Follows(Todo(k), g, h) \/ (k = l /\ h = f)
      PROVE  Follows(Todo(k), g, h)'
  <2>1. CASE k = l
    <3>1. Follows(Append(Todo(l), f), g, h)
      BY <1>1, <1>3, <2>1, FollowsAppend
    <3>. QED
      BY <1>1, <2>1, <3>1
  <2>2. CASE k # l
    BY <1>1, <1>3, <2>2
  <2>. QED
    BY <2>1, <2>2
<1>. QED
  BY <1>2, <1>3

LEMMA Ran ==
    ASSUME TypeOK, NEW l \in Loop, NEW f, RunFunctor(l, f), UNCHANGED queue
    PROVE  /\ Has(Todo(l), f)
           /\ \A k \in Loop : \A g :
                 /\ Has(Todo(k), g)' => Has(Todo(k), g)
                 /\ \A h : Follows(Todo(k), g, h) /\ (k # l \/ h # f \/ Has(Todo(k), g)') =>
                        Follows(Todo(k), g, h)'
<1>1. /\ Todo(l) # <<>> /\ Head(Todo(l)) = f /\ Todo(l) \in Seq(Functor)
      /\ \A k \in Loop : Todo(k)' = IF k = l THEN Tail(Todo(l)) ELSE Todo(k)
  BY TodoRun, TodoType
<1>2. \A g : Has(Todo(l), g) <=> f = g \/ Has(Tail(Todo(l)), g)
  BY <1>1, HasHead
<1>3. \A k \in Loop : \A g : Has(Todo(k), g)' => Has(Todo(k), g)
  BY <1>1, <1>2
<1>4. ASSUME NEW k \in Loop, NEW g, NEW h, Follows(Todo(k), g, h),
             k # l \/ h # f \/ Has(Todo(k), g)'
      PROVE  Follows(Todo(k), g, h)'
  <2>1. CASE k = l
    <3>1. h # f \/ Has(Tail(Todo(l)), g)
      BY <1>1, <1>4, <2>1
    <3>2. Follows(Tail(Todo(l)), g, h)
      BY <1>1, <1>4, <2>1, <3>1, FollowsTail
    <3>. QED
      BY <1>1, <2>1, <3>2
  <2>2. CASE k # l
    BY <1>1, <1>4, <2>2
  <2>. QED
    BY <2>1, <2>2
<1>. QED
  BY <1>2, <1>3, <1>4

LEMMA RanAndQueued ==
    ASSUME TypeOK, NEW l \in Loop, NEW f, RunFunctor(l, f),
           NEW m \in Loop, NEW n \in Functor, queue' = Push(queue, m, n)
    PROVE  /\ Has(Todo(l), f)
           /\ \A k \in Loop : \A g :
                 /\ Has(Todo(k), g)' => Has(Todo(k), g) \/ (k = m /\ g = n)
                 /\ \A h : n # g /\ ((Follows(Todo(k), g, h) /\ h # f) \/ (k = m /\ h = n)) =>
                        Follows(Todo(k), g, h)'
<1> DEFINE todo(k) == IF k = l THEN Tail(Todo(l)) ELSE Todo(k)
<1>1. /\ Todo(l) # <<>> /\ Head(Todo(l)) = f
      /\ \A k \in Loop : Todo(k) \in Seq(Functor)
      /\ \A k \in Loop : Todo(k)' = IF k = m THEN Append(todo(k), n) ELSE todo(k)
  BY TodoRunPush, TodoType
<1>2. \A k \in Loop : todo(k) \in Seq(Functor)
  BY <1>1, HeadTailProperties
<1>3. Has(Todo(l), f) /\ \A k \in Loop : \A g : Has(todo(k), g) => Has(Todo(k), g)
  BY <1>1, HasHead
<1>4. \A k \in Loop : \A g, h : Follows(Todo(k), g, h) /\ h # f => Follows(todo(k), g, h)
  BY <1>1, FollowsTail
<1> HIDE DEF todo
<1>5. ASSUME NEW k \in Loop, NEW g, Has(Todo(k), g)'
      PROVE  Has(Todo(k), g) \/ (k = m /\ g = n)
  <2>1. CASE k = m
    <3>1. Has(Append(todo(k), n), g) <=> Has(todo(k), g) \/ n = g
      BY <1>2, HasAppend
    <3>. QED
      BY <1>1, <1>3, <1>5, <2>1, <3>1
  <2>2. CASE k # m
    BY <1>1, <1>3, <1>5, <2>2
  <2>. QED
    BY <2>1, <2>2
<1>6. ASSUME NEW k \in Loop, NEW g, NEW h, n # g,
             (Follows(Todo(k), g, h) /\ h # f) \/ (k = m /\ h = n)
      PROVE  Follows(Todo(k), g, h)'
  <2>1. CASE k = m
    <3>1. Follows(Append(todo(k), n), g, h)
      BY <1>2, <1>4, <1>6, FollowsAppend
    <3>. QED
      BY <1>1, <2>1, <3>1
  <2>2. CASE k # m
    BY <1>1, <1>4, <1>6, <2>2
  <2>. QED
    BY <2>1, <2>2
<1>. QED
  BY <1>3, <1>5, <1>6

(***************************************************************************)
(* Type correctness.  An index or a count stays in range because of what   *)
(* the loop's phases imply, so this and the next lemmas share ServerInv.   *)
(***************************************************************************)
LEMMA Fields ==
    ASSUME NEW r \in Connection
    PROVE  /\ r.loop \in Loop /\ r.state \in State
           /\ r.registered \in BOOLEAN /\ r.readded \in BOOLEAN
           /\ r.ups \in Nat /\ r.downs \in Nat /\ r.removed \in Nat
           /\ r.ups + 1 \in Nat /\ r.downs + 1 \in Nat /\ r.removed + 1 \in Nat
  BY DEF Connection

LEMMA ConnectionSteps ==
    ASSUME NEW r \in Connection
    PROVE  /\ Established(r) \in Connection /\ Down(r) \in Connection
           /\ Destroyed(r) \in Connection
           /\ Established(r).loop = r.loop /\ Established(r).registered = TRUE
           /\ Down(r).loop = r.loop /\ Down(r).registered = FALSE
           /\ Destroyed(r).loop = r.loop /\ Destroyed(r).registered = FALSE
           /\ [r EXCEPT !.state = "disconnecting"] \in Connection
<1>. "connected" \in State /\ "disconnecting" \in State /\ "disconnected" \in State
  BY DEF State
<1>1. Established(r) \in Connection
  BY Fields DEF Established, Connection
<1>2. Established(r).loop = r.loop /\ Established(r).registered = TRUE
  BY DEF Established, Connection
<1>3. Down(r) \in Connection
  BY Fields DEF Down, Connection
<1>4. Down(r).loop = r.loop /\ Down(r).registered = FALSE
  BY DEF Down, Connection
<1>5. ASSUME NEW d \in Connection
      PROVE  [d EXCEPT !.registered = FALSE, !.removed = @ + 1] \in Connection
  BY Fields DEF Connection
<1>6. ASSUME NEW d \in Connection
      PROVE  LET e == [d EXCEPT !.registered = FALSE, !.removed = @ + 1]
             IN  e.loop = d.loop /\ e.registered = FALSE
  BY DEF Connection
<1>7. /\ Destroyed(r) \in Connection
      /\ Destroyed(r).loop = r.loop /\ Destroyed(r).registered = FALSE
  BY <1>3, <1>4, <1>5, <1>6 DEF Destroyed
<1>8. [r EXCEPT !.state = "disconnecting"] \in Connection
  BY Fields DEF Connection
<1>. QED
  BY <1>1, <1>2, <1>3, <1>4, <1>7, <1>8

LEMMA Effects ==
    ASSUME NEW r \in Connection
    PROVE  /\ LET e == Established(r)
              IN  /\ e.state = "connected" /\ e.registered = TRUE /\ e.ups = r.ups + 1
                  /\ e.downs = r.downs /\ e.removed = r.removed /\ e.loop = r.loop
                  /\ e.readded = r.readded
           /\ LET e == Down(r)
              IN  /\ e.state = "disconnected" /\ e.registered = FALSE
                  /\ e.downs = r.downs + 1
                  /\ e.ups = r.ups /\ e.removed = r.removed /\ e.loop = r.loop
                  /\ e.readded = r.readded
           /\ LET e == Destroyed(r)
              IN  /\ e.state = (IF r.state = "connected" THEN "disconnected" ELSE r.state)
                  /\ e.downs = (IF r.state = "connected" THEN r.downs + 1 ELSE r.downs)
                  /\ e.registered = FALSE /\ e.removed = r.removed + 1
                  /\ e.ups = r.ups /\ e.loop = r.loop /\ e.readded = r.readded
<1>1. LET e == Established(r)
      IN  /\ e.state = "connected" /\ e.registered = TRUE /\ e.ups = r.ups + 1
          /\ e.downs = r.downs /\ e.removed = r.removed /\ e.loop = r.loop
          /\ e.readded = r.readded
  BY DEF Established, Connection
<1>2. LET e == Down(r)
      IN  /\ e.state = "disconnected" /\ e.registered = FALSE
          /\ e.downs = r.downs + 1
          /\ e.ups = r.ups /\ e.removed = r.removed /\ e.loop = r.loop
          /\ e.readded = r.readded
  BY DEF Down, Connection
<1>3. ASSUME NEW d \in Connection
      PROVE  LET e == [d EXCEPT !.registered = FALSE, !.removed = @ + 1]
             IN  /\ e.state = d.state /\ e.downs = d.downs /\ e.registered = FALSE
                 /\ e.removed = d.removed + 1 /\ e.ups = d.ups /\ e.loop = d.loop
                 /\ e.readded = d.readded
  BY DEF Connection
<1>4. LET e == Destroyed(r)
      IN  /\ e.state = (IF r.state = "connected" THEN "disconnected" ELSE r.state)
          /\ e.downs = (IF r.state = "connected" THEN r.downs + 1 ELSE r.downs)
          /\ e.registered = FALSE /\ e.removed = r.removed + 1
          /\ e.ups = r.ups /\ e.loop = r.loop /\ e.readded = r.readded
  <2>1. CASE r.state = "connected"
    <3>1. Down(r) \in Connection
      BY ConnectionSteps
    <3>. QED
      BY <1>2, <1>3, <2>1, <3>1 DEF Destroyed
  <2>2. CASE r.state # "connected"
    BY <1>3, <2>2 DEF Destroyed
  <2>. QED
    BY <2>1, <2>2
<1>. QED
  BY <1>1, <1>2, <1>4

LEMMA OneChanges ==
    ASSUME TypeOK, NEW c \in Conn, NEW r \in Connection, conn' = [conn EXCEPT ![c] = r]
    PROVE  /\ conn' \in [Conn -> Connection] /\ conn'[c] = r
           /\ \A d \in Conn : d # c => conn'[d] = conn[d]
  BY DEF TypeOK

LEMMA LoopIs == Base \in Loop /\ \A i \in DOMAIN Threads : Threads[i] \in Loop
  BY DEF Loop

LEMMA NextLoopIs == TypeOK => NextLoop \in Loop
<1> SUFFICES ASSUME TypeOK PROVE NextLoop \in Loop
  OBVIOUS
<1>1. CASE loops_ = <<>>
  BY <1>1, LoopIs DEF NextLoop
<1>2. CASE loops_ # <<>>
  <2>1. loops_ \in Seq(Loop) /\ Len(loops_) \in Nat \ {0}
    BY <1>2, EmptySeq DEF TypeOK
  <2>2. next_ + 1 \in 1 .. Len(loops_)
    BY <2>1 DEF TypeOK
  <2>. QED
    BY <1>2, <2>1, <2>2, ElementOfSeq DEF NextLoop
<1>. QED
  BY <1>1, <1>2

LEMMA PushType ==
    ASSUME TypeOK, NEW l \in Loop, NEW f \in Functor
    PROVE  Push(queue, l, f) \in [Loop -> Seq(Functor)]
  BY AppendProperties DEF Push, TypeOK

LEMMA TypeInit == Init => TypeOK
<1> SUFFICES ASSUME Init PROVE TypeOK
  OBVIOUS
<1>1. <<>> \in Seq(Functor) /\ <<>> \in Seq(Loop) /\ Len(<<>>) = 0
  BY EmptySeq
<1>2. conn \in [Conn -> Connection]
  BY LoopIs DEF Init, Connection, State
<1>3. Len(Threads) \in Nat
  BY ServerAssumption, LenProperties
<1>4. numThreads_ \in 0 .. Len(Threads) /\ backlog \in 0 .. MaxInputs
      /\ nextConnId_ \in 1 .. MaxInputs + 1
  BY <1>3, ServerAssumption DEF Init
<1>5. connections_ \subseteq 1 .. nextConnId_ - 1 /\ closed \subseteq 1 .. nextConnId_ - 1
  BY DEF Init
<1>6. /\ queue \in [Loop -> Seq(Functor)] /\ batch \in [Loop -> Seq(Functor)]
      /\ ran \in [Loop -> Nat] /\ \A l \in Loop : ran[l] <= Len(batch[l])
  BY <1>1 DEF Init
<1>7. loops_ \in Seq(Loop) /\ next_ = 0
  BY <1>1 DEF Init
<1>8. /\ pc \in [Starter -> {"idle", "pool", "listen"}]
      /\ at \in [Loop -> {"poll", "events", "functors"}]
      /\ active \in [Loop -> SUBSET (Conn \union {Acceptor})]
  BY DEF Init
<1>9. /\ server \in {"up", "dying", "gone"} /\ started_ \in BOOLEAN
      /\ listening \in BOOLEAN /\ deadCall \in BOOLEAN
      /\ caller \in [User -> Call] /\ calls \in Nat
  BY DEF Init, Call
<1>. QED
  BY <1>2, <1>4, <1>5, <1>6, <1>7, <1>8, <1>9 DEF TypeOK

\* What a new connection changes.
LEMMA NewConnectionIs ==
    ASSUME TypeOK, nextConnId_ \in Conn, NewConnection(nextConnId_)
    PROVE  LET c == nextConnId_ IN
           /\ nextConnId_' = c + 1 /\ connections_' = connections_ \union {c}
           /\ conn' \in [Conn -> Connection]
           /\ \A d \in Conn : d # c => conn'[d] = conn[d]
           /\ conn'[c].loop = NextLoop
           /\ \/ /\ NextLoop = Base /\ conn'[c].registered
                 /\ queue' = queue
              \/ /\ NextLoop # Base
                 /\ conn'[c].registered = conn[c].registered
                 /\ queue' = Push(queue, NextLoop, F("established", c))
<1> DEFINE c == nextConnId_
           r == [conn[c] EXCEPT !.loop = NextLoop, !.state = "connecting"]
<1>1. /\ r \in Connection /\ r.loop = NextLoop /\ r.registered = conn[c].registered
      /\ conn \in [Conn -> Connection]
  BY NextLoopIs DEF TypeOK, Connection, State
<1>2. /\ Established(r) \in Connection /\ Established(r).loop = NextLoop
      /\ Established(r).registered = TRUE
  BY <1>1, ConnectionSteps
<1>3. \/ NextLoop = Base /\ conn' = [conn EXCEPT ![c] = Established(r)] /\ queue' = queue
      \/ /\ NextLoop # Base /\ conn' = [conn EXCEPT ![c] = r]
         /\ queue' = Push(queue, NextLoop, F("established", c))
  BY DEF NewConnection, Create
<1>. QED
  BY <1>1, <1>2, <1>3 DEF NewConnection

LEMMA AcceptType ==
    ASSUME TypeOK, Phases, Acceptor \in active[Base], AcceptOne
    PROVE  /\ next_' \in Nat /\ (next_' = 0 \/ next_' < Len(loops_))
           /\ backlog' \in 0 .. MaxInputs /\ nextConnId_' \in 1 .. MaxInputs + 1
           /\ connections_' \subseteq 1 .. nextConnId_' - 1
           /\ nextConnId_ <= nextConnId_'
           /\ conn' \in [Conn -> Connection]
           /\ queue' \in [Loop -> Seq(Functor)]
           /\ backlog' + nextConnId_' = backlog + nextConnId_
<1>1. backlog > 0 /\ backlog + nextConnId_ <= MaxInputs + 1
  <2>1. backlog > 0 /\ backlog + nextConnId_ + calls <= MaxInputs + 1
    BY DEF Phases
  <2>2. backlog \in Nat /\ nextConnId_ \in Nat /\ MaxInputs \in Nat /\ calls \in Nat
    BY ServerAssumption DEF TypeOK
  <2>. QED
    BY <2>1, <2>2
<1>2. /\ backlog \in Nat /\ nextConnId_ \in Nat /\ MaxInputs \in Nat /\ Len(loops_) \in Nat
      /\ nextConnId_ \in Conn /\ connections_ \subseteq 1 .. nextConnId_ - 1
      /\ nextConnId_ > 0
  BY <1>1, ServerAssumption, LenProperties DEF TypeOK, Conn
<1>3. CASE OpenFds < MaxFds
  <2>1. backlog' = backlog - 1 /\ NewConnection(nextConnId_)
    BY <1>3 DEF AcceptOne
  <2>2. next_' \in Nat /\ (next_' = 0 \/ next_' < Len(loops_))
    BY <1>2, <2>1 DEF NewConnection, Advance, TypeOK
  <2>3. /\ nextConnId_' = nextConnId_ + 1
        /\ connections_' = connections_ \union {nextConnId_}
        /\ conn' \in [Conn -> Connection]
    BY <1>2, <2>1, NewConnectionIs
  <2>4. queue' \in [Loop -> Seq(Functor)]
    <3>1. NextLoop \in Loop /\ F("established", nextConnId_) \in Functor
      BY <1>2, NextLoopIs, FunctorIs
    <3>2. queue' = queue \/ queue' = Push(queue, NextLoop, F("established", nextConnId_))
      BY <1>2, <2>1, NewConnectionIs
    <3>3. queue \in [Loop -> Seq(Functor)]
      BY DEF TypeOK
    <3>. QED
      BY <3>1, <3>2, <3>3, PushType
  <2>5. connections_' \subseteq 1 .. nextConnId_' - 1
    <3>1. nextConnId_' - 1 = nextConnId_
      BY <1>2, <2>3
    <3>2. \A d \in 1 .. nextConnId_ - 1 : d \in 1 .. nextConnId_
      BY <1>2
    <3>3. nextConnId_ \in 1 .. nextConnId_
      BY <1>2
    <3>. QED
      BY <1>2, <2>3, <3>1, <3>2, <3>3
  <2>. QED
    BY <1>1, <1>2, <2>1, <2>2, <2>3, <2>4, <2>5 DEF TypeOK
<1>4. CASE ~(OpenFds < MaxFds)
  <2>1. UNCHANGED <<next_, backlog, nextConnId_, connections_, conn, queue>>
    BY <1>4 DEF AcceptOne, acceptVars, connVars
  <2>. QED
    BY <1>2, <2>1 DEF TypeOK
<1>. QED
  BY <1>3, <1>4

LEMMA PoolIs ==
    ASSUME TypeOK
    PROVE  LET pool == loops_ \o SubSeq(Threads, 1, numThreads_)
           IN  /\ pool \in Seq(Loop) /\ Len(loops_) <= Len(pool)
               /\ Len(pool) = Len(loops_) + numThreads_
<1> DEFINE new == SubSeq(Threads, 1, numThreads_)
<1>1. /\ Threads \in Seq(Loop) /\ Len(Threads) \in Nat /\ numThreads_ \in 0 .. Len(Threads)
      /\ loops_ \in Seq(Loop) /\ Len(loops_) \in Nat
  BY ServerAssumption, LenProperties DEF TypeOK
<1>2. \A i \in 1 .. numThreads_ : Threads[i] \in Loop
  BY <1>1, ElementOfSeq
<1>3. new \in Seq(Loop) /\ Len(new) = IF 1 <= numThreads_ THEN numThreads_ - 1 + 1 ELSE 0
  BY <1>1, <1>2, SubSeqProperties
<1>4. Len(new) = numThreads_
  BY <1>1, <1>3
<1>5. loops_ \o new \in Seq(Loop) /\ Len(loops_ \o new) = Len(loops_) + Len(new)
  BY <1>1, <1>3, ConcatProperties
<1>. QED
  BY <1>1, <1>4, <1>5

\* What sendInLoop may do to a connection.
Registered(r) == [r EXCEPT !.registered = TRUE, !.readded = @ \/ ~r.registered]

LEMMA RegisteredIs ==
    ASSUME NEW r \in Connection
    PROVE  LET e == Registered(r)
           IN  /\ e \in Connection /\ e.loop = r.loop /\ e.state = r.state
               /\ e.ups = r.ups /\ e.downs = r.downs /\ e.removed = r.removed
               /\ e.registered /\ (~e.readded <=> ~r.readded /\ r.registered)
  BY Fields DEF Registered, Connection

LEMMA SendIs ==
    ASSUME TypeOK, NEW l \in Loop, NEW c \in Conn, SendInLoop(l, c)
    PROVE  \/ conn' = conn
           \/ ~Freed(c) /\ conn' = [conn EXCEPT ![c] = Registered(conn[c])]
<1>1. CASE Freed(c) \/ conn[c].state = "disconnected"
  BY <1>1 DEF SendInLoop
<1>2. CASE ~(Freed(c) \/ conn[c].state = "disconnected")
  <2>1. conn' = conn
        \/ conn' = [conn EXCEPT ![c].registered = TRUE,
                                ![c].readded = @ \/ ~conn[c].registered]
    BY <1>2 DEF SendInLoop
  <2>2. [conn EXCEPT ![c].registered = TRUE, ![c].readded = @ \/ ~conn[c].registered]
            = [conn EXCEPT ![c] = Registered(conn[c])]
    BY DEF TypeOK, Registered, Connection
  <2>. QED
    BY <1>2, <2>1, <2>2
<1>. QED
  BY <1>1, <1>2

LEMMA TypeStep == ServerInv /\ [Next]_vars => TypeOK'
<1> SUFFICES ASSUME ServerInv, [Next]_vars PROVE TypeOK'
  OBVIOUS
<1>0. TypeOK /\ Phases /\ Base \in Loop
  BY LoopIs DEF ServerInv
<1> USE DEF startVars, acceptVars, connVars, outerVars, loopVars
<1>1. ASSUME NEW n \in 0 .. Len(Threads), SetThreadNum(n) PROVE TypeOK'
  BY <1>0, <1>1 DEF SetThreadNum, TypeOK
<1>2. ASSUME NEW t \in Starter, Start(t) PROVE TypeOK'
  BY <1>0, <1>2 DEF Start, TypeOK
<1>3. ASSUME NEW t \in Starter, StartPool(t) PROVE TypeOK'
  <2>1. loops_' \in Seq(Loop) /\ Len(loops_) <= Len(loops_')
    BY <1>0, <1>3, PoolIs DEF StartPool
  <2>2. Len(loops_) \in Nat /\ Len(loops_') \in Nat
    BY <1>0, <2>1, LenProperties DEF TypeOK
  <2>3. next_ = 0 \/ next_ < Len(loops_')
    BY <1>0, <2>1, <2>2 DEF TypeOK
  <2>. QED
    BY <1>0, <1>3, <2>1, <2>3 DEF StartPool, TypeOK
<1>4. ASSUME NEW t \in Starter, StartListening(t) PROVE TypeOK'
  <2>1. queue' \in [Loop -> Seq(Functor)] /\ listening' \in BOOLEAN
    BY <1>0, <1>4, FunctorIs, PushType DEF StartListening, TypeOK
  <2>. QED
    BY <1>0, <1>4, <2>1 DEF StartListening, TypeOK
<1>5. ASSUME NEW l \in Loop, Poll(l) PROVE TypeOK'
  <2>1. Ready(l) \subseteq Conn \union {Acceptor} /\ MayReport(l) \subseteq Conn
    <3>1. closed \subseteq Conn
      BY <1>0, ServerAssumption DEF TypeOK, Conn
    <3>. QED
      BY <3>1 DEF Ready, MayReport
  <2>2. PICK reported \in SUBSET MayReport(l) :
            active' = [active EXCEPT ![l] = Ready(l) \union reported]
    BY <1>5 DEF Poll
  <2>3. active' \in [Loop -> SUBSET (Conn \union {Acceptor})]
    BY <1>0, <2>1, <2>2 DEF TypeOK
  <2>4. at' \in [Loop -> {"poll", "events", "functors"}]
    BY <1>0, <1>5 DEF Poll, TypeOK
  <2>. QED
    BY <1>0, <1>5, <2>3, <2>4 DEF Poll, TypeOK
<1>6. CASE HandleAccept
  <2>1. active' \in [Loop -> SUBSET (Conn \union {Acceptor})]
    BY <1>0, <1>6 DEF HandleAccept, TypeOK
  <2>2. closed' \subseteq 1 .. nextConnId_' - 1
    <3>1. /\ closed' = closed /\ nextConnId_ <= nextConnId_'
          /\ nextConnId_ \in Nat /\ nextConnId_' \in Nat
      <4>1. closed' = closed /\ AcceptOne /\ Acceptor \in active[Base]
        BY <1>6 DEF HandleAccept
      <4>2. nextConnId_ <= nextConnId_' /\ nextConnId_' \in 1 .. MaxInputs + 1
        BY <1>0, <4>1, AcceptType
      <4>. QED
        BY <1>0, <4>1, <4>2, ServerAssumption DEF TypeOK
    <3>2. \A m, n \in Nat : m <= n => 1 .. m - 1 \subseteq 1 .. n - 1
      OBVIOUS
    <3>3. 1 .. nextConnId_ - 1 \subseteq 1 .. nextConnId_' - 1
      BY <3>1, <3>2
    <3>4. closed \subseteq 1 .. nextConnId_ - 1
      BY <1>0 DEF TypeOK
    <3>. QED
      BY <3>1, <3>3, <3>4
  <2>3. /\ Acceptor \in active[Base] /\ AcceptOne
        /\ UNCHANGED <<server, started_, pc, numThreads_, loops_, listening, closed, caller,
                       calls, at, batch, ran, deadCall>>
    BY <1>6 DEF HandleAccept
  <2>. QED
    BY <1>0, <2>1, <2>2, <2>3, AcceptType DEF TypeOK
<1>7. ASSUME NEW l \in Loop, NEW c \in Conn, HandleClose(l, c) PROVE TypeOK'
  <2>0. UNCHANGED <<server, startVars, listening, acceptVars, outerVars, at, batch, ran>>
    BY <1>7 DEF HandleClose
  <2>1. conn[c] \in Connection /\ conn[c].loop \in Loop
    BY <1>0, Fields DEF TypeOK
  <2>2. conn' \in [Conn -> Connection]
    BY <1>0, <1>7, <2>1, ConnectionSteps DEF HandleClose, TypeOK
  <2>3. queue' \in [Loop -> Seq(Functor)] /\ connections_' \subseteq connections_
    BY <1>0, <1>7, <2>1, FunctorIs, PushType DEF HandleClose, Remove, TypeOK
  <2>4. active' \in [Loop -> SUBSET (Conn \union {Acceptor})] /\ deadCall' \in BOOLEAN
    BY <1>0, <1>7 DEF HandleClose, TypeOK
  <2>. QED
    BY <1>0, <2>0, <2>2, <2>3, <2>4 DEF TypeOK
<1>8. ASSUME NEW c \in Conn, OwnShutdown(c) PROVE TypeOK'
  <2>1. [conn[c] EXCEPT !.state = "disconnecting"] \in Connection
    <3>1. conn[c] \in Connection
      BY <1>0 DEF TypeOK
    <3>. QED
      BY <3>1, ConnectionSteps
  <2>2. conn' \in [Conn -> Connection]
    BY <1>0, <1>8, <2>1 DEF OwnShutdown, TypeOK
  <2>. QED
    BY <1>0, <1>8, <2>2 DEF OwnShutdown, TypeOK
<1>9. ASSUME NEW l \in Loop, SwapPending(l) PROVE TypeOK'
  <2>1. <<>> \in Seq(Functor) /\ Len(queue[l]) \in Nat /\ ran[l] = 0
    BY <1>0, <1>9, EmptySeq DEF SwapPending, Phases, TypeOK
  <2>2. \A k \in Loop : ran'[k] <= Len(batch'[k])
    BY <1>0, <1>9, <2>1 DEF SwapPending, TypeOK
  <2>. QED
    BY <1>0, <1>9, <2>1, <2>2 DEF SwapPending, TypeOK
<1>10. ASSUME NEW l \in Loop, NEW f, RunFunctor(l, f)
       PROVE  /\ ran' \in [Loop -> Nat] /\ \A k \in Loop : ran'[k] <= Len(batch'[k])
              /\ at' = at /\ active' = active /\ batch' = batch
  <2>1. ran[l] \in Nat /\ Len(batch[l]) \in Nat /\ ran[l] + 1 <= Len(batch[l])
    BY <1>0, <1>10 DEF RunFunctor, TypeOK
  <2>. QED
    BY <1>0, <1>10, <2>1 DEF RunFunctor, TypeOK
<1>11. ASSUME NEW l \in Loop, EndBatch(l) PROVE TypeOK'
  BY <1>0, <1>11, EmptySeq DEF EndBatch, TypeOK
<1>12. CASE Listen
  BY <1>0, <1>10, <1>12 DEF Listen, TypeOK
<1>13. ASSUME NEW l \in Loop, NEW c \in Conn, ConnectionEstablished(l, c) PROVE TypeOK'
  <2>1. conn' \in [Conn -> Connection]
    BY <1>0, <1>13, ConnectionSteps DEF ConnectionEstablished, TypeOK
  <2>. QED
    BY <1>0, <1>10, <1>13, <2>1 DEF ConnectionEstablished, TypeOK
<1>14. ASSUME NEW c \in Conn, RemoveConnectionInLoop(c) PROVE TypeOK'
  <2>1. conn[c].loop \in Loop
    BY <1>0, Fields DEF TypeOK
  <2>2. queue' \in [Loop -> Seq(Functor)]
    BY <1>0, <1>14, <2>1, FunctorIs, PushType DEF RemoveConnectionInLoop, TypeOK
  <2>. QED
    BY <1>0, <1>10, <1>14, <2>2 DEF RemoveConnectionInLoop, TypeOK
<1>15. ASSUME NEW l \in Loop, NEW c \in Conn, ConnectDestroyed(l, c) PROVE TypeOK'
  <2>1. conn' \in [Conn -> Connection]
    BY <1>0, <1>15, ConnectionSteps DEF ConnectDestroyed, TypeOK
  <2>. QED
    BY <1>0, <1>10, <1>15, <2>1 DEF ConnectDestroyed, TypeOK
<1>16. CASE BeginDestroy
  BY <1>0, <1>16 DEF BeginDestroy, TypeOK
<1>17. ASSUME NEW c \in Conn, DestroyConnection(c) PROVE TypeOK'
  <2>1. conn[c] \in Connection /\ conn[c].loop \in Loop
    BY <1>0, Fields DEF TypeOK
  <2>2. conn' \in [Conn -> Connection]
    BY <1>0, <1>17, <2>1, ConnectionSteps DEF DestroyConnection, TypeOK
  <2>3. queue' \in [Loop -> Seq(Functor)]
    <3>1. queue \in [Loop -> Seq(Functor)]
      BY <1>0 DEF TypeOK
    <3>2. Push(queue, conn[c].loop, F("destroyed", c)) \in [Loop -> Seq(Functor)]
      BY <1>0, <2>1, FunctorIs, PushType
    <3>3. queue' \in {queue, Push(queue, conn[c].loop, F("destroyed", c))}
      BY <1>17 DEF DestroyConnection
    <3>. QED
      BY <3>1, <3>2, <3>3
  <2>. QED
    BY <1>0, <1>17, <2>2, <2>3 DEF DestroyConnection, TypeOK
<1>18. CASE EndDestroy
  BY <1>0, <1>18 DEF EndDestroy, TypeOK
<1>19. CASE ClientConnects
  <2>1. backlog + 1 \in 0 .. MaxInputs
    BY <1>0, <1>19, ServerAssumption DEF ClientConnects, TypeOK
  <2>. QED
    BY <1>0, <1>19, <2>1 DEF ClientConnects, TypeOK
<1>20. ASSUME NEW c \in Conn, ClientCloses(c) PROVE TypeOK'
  <2>1. c \in 1 .. nextConnId_ - 1
    BY <1>0, <1>20, ServerAssumption DEF ClientCloses, TypeOK, Conn
  <2>. QED
    BY <1>0, <1>20, <2>1 DEF ClientCloses, TypeOK
<1>21. CASE UNCHANGED vars
  BY <1>0, <1>21 DEF vars, TypeOK
<1>22. ASSUME NEW u \in User, NEW c \in Conn, NEW op \in {"send", "setState"},
              BeginCall(u, c, op)
       PROVE  TypeOK'
  <2>1. In(op, c) \in Call /\ calls + 1 \in Nat
    BY <1>0 DEF In, Call, TypeOK
  <2>2. /\ caller' \in [User -> Call] /\ calls' \in Nat
        /\ UNCHANGED <<server, startVars, listening, acceptVars, connVars, closed, loopVars,
                       queue, deadCall>>
    BY <1>0, <1>22, <2>1 DEF BeginCall, TypeOK
  <2>. QED
    BY <1>0, <2>2 DEF TypeOK
<1>23. ASSUME NEW u \in User, NEW c \in Conn, SetDisconnecting(u, c) PROVE TypeOK'
  <2>1. [conn[c] EXCEPT !.state = "disconnecting"] \in Connection
    <3>1. conn[c] \in Connection
      BY <1>0 DEF TypeOK
    <3>. QED
      BY <3>1, ConnectionSteps
  <2>2. conn' \in [Conn -> Connection]
    BY <1>0, <1>23, <2>1 DEF SetDisconnecting, TypeOK
  <2>3. In("shutdown", c) \in Call
    BY DEF In, Call
  <2>. QED
    BY <1>0, <1>23, <2>2, <2>3 DEF SetDisconnecting, TypeOK
<1>24. ASSUME NEW u \in User, NEW c \in Conn, NEW op \in {"send", "shutdown"}, EndCall(u, c, op)
       PROVE  TypeOK'
  <2>1. conn[c].loop \in Loop /\ F(op, c) \in Functor
    BY <1>0, Fields, FunctorIs DEF TypeOK
  <2>2. queue' \in [Loop -> Seq(Functor)] /\ Idle \in Call
    BY <1>0, <1>24, <2>1, PushType DEF EndCall, Call
  <2>. QED
    BY <1>0, <1>24, <2>2 DEF EndCall, TypeOK
<1>25. ASSUME NEW l \in Loop, NEW c \in Conn, SendInLoop(l, c) PROVE TypeOK'
  <2>1. Registered(conn[c]) \in Connection
    BY <1>0, RegisteredIs DEF TypeOK
  <2>2. conn' \in [Conn -> Connection]
    BY <1>0, <1>25, <2>1, SendIs DEF TypeOK
  <2>3. deadCall' \in BOOLEAN
    BY <1>25 DEF SendInLoop, Freed
  <2>. QED
    BY <1>0, <1>10, <1>25, <2>2, <2>3 DEF SendInLoop, TypeOK
<1>26. ASSUME NEW l \in Loop, NEW c \in Conn, ShutdownInLoop(l, c) PROVE TypeOK'
  <2>1. deadCall' \in BOOLEAN
    BY <1>26 DEF ShutdownInLoop, Freed
  <2>. QED
    BY <1>0, <1>10, <1>26, <2>1 DEF ShutdownInLoop, TypeOK
<1>. QED
  BY <1>1, <1>2, <1>3, <1>4, <1>5, <1>6, <1>7, <1>8, <1>9, <1>11, <1>12, <1>13, <1>14,
     <1>15, <1>16, <1>17, <1>18, <1>19, <1>20, <1>21, <1>22, <1>23, <1>24, <1>25, <1>26
  DEF Next, LoopStep, StartStep, DestroyStep, UserStep, Environment, CallSend, CallShutdown,
      PushSend, PushShutdown

(***************************************************************************)
(* What the loop does in each phase.                                       *)
(***************************************************************************)
LEMMA PhasesStep == ServerInv /\ [Next]_vars => Phases'
<1> SUFFICES ASSUME ServerInv, [Next]_vars PROVE Phases'
  OBVIOUS
<1>0. TypeOK /\ Phases /\ Base \in Loop
  BY LoopIs DEF ServerInv
<1> USE DEF startVars, acceptVars, connVars, outerVars, loopVars
<1>1. ASSUME NEW n \in 0 .. Len(Threads), SetThreadNum(n) PROVE Phases'
  BY <1>0, <1>1 DEF SetThreadNum, Phases
<1>2. ASSUME NEW t \in Starter, Start(t) PROVE Phases'
  BY <1>0, <1>2 DEF Start, Phases
<1>3. ASSUME NEW t \in Starter, StartPool(t) PROVE Phases'
  BY <1>0, <1>3 DEF StartPool, Phases, TypeOK
<1>4. ASSUME NEW t \in Starter, StartListening(t) PROVE Phases'
  BY <1>0, <1>4 DEF StartListening, Phases, TypeOK
<1>5. ASSUME NEW l \in Loop, Poll(l) PROVE Phases'
  <2>1. Acceptor \in active'[Base] =>
            Acceptor \in active[Base] \/ (backlog > 0 /\ listening)
    <3>1. Acceptor \notin closed
      BY <1>0 DEF TypeOK, Acceptor
    <3>2. CASE l = Base
      <4>1. PICK reported \in SUBSET MayReport(l) :
                active' = [active EXCEPT ![l] = Ready(l) \union reported]
        BY <1>5 DEF Poll
      <4>2. Acceptor \in Ready(l) \union reported => backlog > 0 /\ listening
        BY <3>1 DEF Ready, MayReport
      <4>. QED
        BY <1>0, <3>2, <4>1, <4>2 DEF TypeOK
    <3>3. CASE l # Base
      BY <1>0, <1>5, <3>3 DEF Poll, TypeOK
    <3>. QED
      BY <3>2, <3>3
  <2>2. l = Base => server # "dying"
    BY <1>5 DEF Poll, Runs
  <2>. QED
    BY <1>0, <1>5, <2>1, <2>2 DEF Poll, Phases, TypeOK
<1>6. CASE HandleAccept
  <2>1. Acceptor \in active[Base] /\ AcceptOne /\ server # "gone"
    BY <1>0, <1>6 DEF HandleAccept, Phases
  <2>2. backlog' + nextConnId_' + calls' <= MaxInputs + 1
    <3>1. /\ backlog' + nextConnId_' = backlog + nextConnId_ /\ calls' = calls
          /\ backlog + nextConnId_ + calls <= MaxInputs + 1
      BY <1>0, <1>6, <2>1, AcceptType DEF HandleAccept, Phases
    <3>. QED
      BY <3>1
  <2>3. Acceptor \notin active'[Base]
    BY <1>0, <1>6 DEF HandleAccept, TypeOK
  <2>. QED
    BY <1>0, <1>6, <2>1, <2>2, <2>3 DEF HandleAccept, Phases, TypeOK
<1>7. ASSUME NEW l \in Loop, NEW c \in Conn, HandleClose(l, c) PROVE Phases'
  <2>1. /\ \A k \in Loop : active'[k] \subseteq active[k]
        /\ server = "gone" => connections_' = connections_
        /\ at' = at /\ batch' = batch /\ ran' = ran /\ pc' = pc /\ server' = server
        /\ listening' = listening /\ backlog' = backlog /\ nextConnId_' = nextConnId_
        /\ calls' = calls
    BY <1>0, <1>7 DEF HandleClose, TypeOK
  <2>. QED
    BY <1>0, <2>1 DEF Phases, TypeOK
<1>8. ASSUME NEW c \in Conn, OwnShutdown(c) PROVE Phases'
  BY <1>0, <1>8 DEF OwnShutdown, Phases
<1>9. ASSUME NEW l \in Loop, SwapPending(l) PROVE Phases'
  BY <1>0, <1>9 DEF SwapPending, Phases, TypeOK
<1>10. ASSUME NEW l \in Loop, NEW f, RunFunctor(l, f)
       PROVE  /\ \A k \in Loop : k # l => ran'[k] = ran[k]
              /\ at[l] = "functors" /\ at' = at /\ active' = active /\ batch' = batch
  BY <1>0, <1>10 DEF RunFunctor, TypeOK
<1>11. ASSUME NEW l \in Loop, EndBatch(l) PROVE Phases'
  BY <1>0, <1>11 DEF EndBatch, Phases, TypeOK
<1>12. CASE Listen
  BY <1>0, <1>10, <1>12 DEF Listen, Phases
<1>13. ASSUME NEW l \in Loop, NEW c \in Conn, ConnectionEstablished(l, c) PROVE Phases'
  BY <1>0, <1>10, <1>13 DEF ConnectionEstablished, Phases
<1>14. ASSUME NEW c \in Conn, RemoveConnectionInLoop(c) PROVE Phases'
  BY <1>0, <1>10, <1>14 DEF RemoveConnectionInLoop, Phases
<1>15. ASSUME NEW l \in Loop, NEW c \in Conn, ConnectDestroyed(l, c) PROVE Phases'
  BY <1>0, <1>10, <1>15 DEF ConnectDestroyed, Phases
<1>16. CASE BeginDestroy
  BY <1>0, <1>16 DEF BeginDestroy, Phases
<1>17. ASSUME NEW c \in Conn, DestroyConnection(c) PROVE Phases'
  BY <1>0, <1>17 DEF DestroyConnection, Phases
<1>18. CASE EndDestroy
  BY <1>0, <1>18 DEF EndDestroy, Phases
<1>19. CASE ClientConnects
  <2>1. backlog \in Nat /\ nextConnId_ \in Nat /\ MaxInputs \in Nat /\ calls \in Nat
    BY <1>0, ServerAssumption DEF TypeOK
  <2>. QED
    BY <1>0, <1>19, <2>1 DEF ClientConnects, Phases
<1>20. ASSUME NEW c \in Conn, ClientCloses(c) PROVE Phases'
  BY <1>0, <1>20 DEF ClientCloses, Phases
<1>21. CASE UNCHANGED vars
  BY <1>0, <1>21 DEF vars, Phases
<1>22. ASSUME NEW u \in User, NEW c \in Conn, NEW op \in {"send", "setState"},
              BeginCall(u, c, op)
       PROVE  Phases'
  <2>1. /\ backlog \in Nat /\ nextConnId_ \in Nat /\ MaxInputs \in Nat /\ calls \in Nat
        /\ backlog + nextConnId_ + calls <= MaxInputs /\ calls' = calls + 1
        /\ UNCHANGED <<backlog, nextConnId_>>
    BY <1>0, <1>22, ServerAssumption DEF BeginCall, TypeOK
  <2>2. backlog' + nextConnId_' + calls' <= MaxInputs + 1
    BY <2>1
  <2>. QED
    BY <1>0, <1>22, <2>2 DEF BeginCall, Phases
<1>23. ASSUME NEW u \in User, NEW c \in Conn, SetDisconnecting(u, c) PROVE Phases'
  BY <1>0, <1>23 DEF SetDisconnecting, Phases
<1>24. ASSUME NEW u \in User, NEW c \in Conn, NEW op \in {"send", "shutdown"}, EndCall(u, c, op)
       PROVE  Phases'
  BY <1>0, <1>24 DEF EndCall, Phases
<1>25. ASSUME NEW l \in Loop, NEW c \in Conn, SendInLoop(l, c) PROVE Phases'
  BY <1>0, <1>10, <1>25 DEF SendInLoop, Phases
<1>26. ASSUME NEW l \in Loop, NEW c \in Conn, ShutdownInLoop(l, c) PROVE Phases'
  BY <1>0, <1>10, <1>26 DEF ShutdownInLoop, Phases
<1>. QED
  BY <1>1, <1>2, <1>3, <1>4, <1>5, <1>6, <1>7, <1>8, <1>9, <1>11, <1>12, <1>13, <1>14,
     <1>15, <1>16, <1>17, <1>18, <1>19, <1>20, <1>21, <1>22, <1>23, <1>24, <1>25, <1>26
  DEF Next, LoopStep, StartStep, DestroyStep, UserStep, Environment, CallSend, CallShutdown,
      PushSend, PushShutdown

(***************************************************************************)
(* A connection's channel and functors are in its own loop.                *)
(***************************************************************************)
\* What happens to the connections when a client is accepted.
LEMMA AcceptIs ==
    ASSUME TypeOK, Phases, HandleAccept
    PROVE  \/ /\ UNCHANGED <<nextConnId_, connections_, conn, queue, batch, ran>>
           \/ /\ nextConnId_ \in Conn /\ nextConnId_' = nextConnId_ + 1
              /\ connections_' = connections_ \union {nextConnId_}
              /\ \A d \in Conn : d # nextConnId_ => conn'[d] = conn[d]
              /\ conn'[nextConnId_].loop = NextLoop /\ NextLoop \in Loop
              /\ UNCHANGED <<batch, ran>>
              /\ \/ /\ conn'[nextConnId_].registered /\ UNCHANGED queue
                 \/ /\ NextLoop # Base
                    /\ conn'[nextConnId_].registered = conn[nextConnId_].registered
                    /\ queue' = Push(queue, NextLoop, F("established", nextConnId_))
<1>1. AcceptOne /\ batch' = batch /\ ran' = ran /\ Acceptor \in active[Base]
  BY DEF HandleAccept
<1>2. nextConnId_ \in Conn
  <2>1. /\ backlog > 0 /\ backlog + nextConnId_ + calls <= MaxInputs + 1
        /\ backlog \in Nat /\ nextConnId_ \in Nat /\ MaxInputs \in Nat /\ calls \in Nat
        /\ nextConnId_ > 0
    BY <1>1, ServerAssumption DEF Phases, TypeOK
  <2>. QED
    BY <2>1 DEF Conn
<1>3. CASE OpenFds < MaxFds
  <2>1. NewConnection(nextConnId_)
    BY <1>1, <1>3 DEF AcceptOne
  <2>. QED
    BY <1>1, <1>2, <2>1, NewConnectionIs, NextLoopIs
<1>4. CASE ~(OpenFds < MaxFds)
  BY <1>1, <1>4 DEF AcceptOne, acceptVars, connVars
<1>. QED
  BY <1>3, <1>4

\* handleClose does what it says, unless its connection is freed.
LEMMA HandleCloseIs ==
    ASSUME TypeOK, NEW l \in Loop, NEW c \in Conn, HandleClose(l, c)
    PROVE  /\ UNCHANGED <<server, startVars, listening, nextConnId_, outerVars, batch, ran>>
           /\ c \in active[l] /\ c # Acceptor /\ Runs(l)
           /\ \/ UNCHANGED <<conn, connections_, queue>>
              \/ /\ ~Freed(c) /\ conn' = [conn EXCEPT ![c] = Down(conn[c])]
                 /\ \/ server = "gone" /\ UNCHANGED <<connections_, queue>>
                    \/ /\ l = Base /\ server # "gone" /\ connections_' = connections_ \ {c}
                       /\ queue' = Push(queue, conn[c].loop, F("destroyed", c))
                    \/ /\ connections_' = connections_
                       /\ queue' = Push(queue, Base, F("remove", c))
<1>1. CASE Freed(c)
  BY <1>1 DEF HandleClose, acceptVars
<1>2. CASE ~Freed(c)
  BY <1>2 DEF HandleClose, Remove, acceptVars
<1>. QED
  BY <1>1, <1>2

LEMMA InOwnLoopStep == ServerInv /\ [Next]_vars => InOwnLoop'
<1> SUFFICES ASSUME ServerInv, [Next]_vars PROVE InOwnLoop'
  OBVIOUS
<1>0. /\ TypeOK /\ Phases /\ InOwnLoop /\ Base \in Loop
      /\ nextConnId_ \in Nat /\ \A c \in Conn : c \in Int
  BY LoopIs, ServerAssumption DEF ServerInv, TypeOK, Conn
<1>02. \A l \in Loop : \A c \in active[l] : c # Acceptor => c \in Conn
  BY <1>0 DEF TypeOK
<1>00. ASSUME UNCHANGED <<nextConnId_, conn, caller>>,
              \A l \in Loop : active'[l] \subseteq active[l],
              \A k \in Loop : \A g : Has(Todo(k), g)' => Has(Todo(k), g)
       PROVE  InOwnLoop'
  BY <1>0, <1>00 DEF InOwnLoop
<1>01. ASSUME UNCHANGED <<batch, ran, queue>>
       PROVE  \A k \in Loop : \A g : Has(Todo(k), g)' => Has(Todo(k), g)
  BY <1>01, TodoSame, NothingNew
<1> USE DEF startVars, acceptVars, connVars, outerVars, loopVars
<1>1. ASSUME NEW n \in 0 .. Len(Threads), SetThreadNum(n) PROVE InOwnLoop'
  BY <1>1, <1>00, <1>01 DEF SetThreadNum
<1>2. ASSUME NEW t \in Starter, Start(t) PROVE InOwnLoop'
  BY <1>2, <1>00, <1>01 DEF Start
<1>3. ASSUME NEW t \in Starter, StartPool(t) PROVE InOwnLoop'
  BY <1>3, <1>00, <1>01 DEF StartPool
<1>4. ASSUME NEW t \in Starter, StartListening(t) PROVE InOwnLoop'
  <2>1. UNCHANGED <<nextConnId_, conn, caller, active, batch, ran>>
    BY <1>4 DEF StartListening
  <2>2. CASE queue' = queue
    BY <2>1, <2>2, <1>00, <1>01
  <2>3. CASE queue' = Push(queue, Base, F("listen", Acceptor))
    <3>1. \A k \in Loop : \A g :
              Has(Todo(k), g)' <=> Has(Todo(k), g) \/ (k = Base /\ g = F("listen", Acceptor))
      BY <1>0, <2>1, <2>3, Queued, FunctorIs
    <3>. QED
      BY <1>0, <2>1, <3>1, FunctorsDiffer DEF InOwnLoop
  <2>. QED
    BY <1>4, <2>2, <2>3 DEF StartListening
<1>5. ASSUME NEW l \in Loop, Poll(l) PROVE InOwnLoop'
  <2>1. \A c \in active'[l] : c # Acceptor => conn[c].registered /\ conn[c].loop = l
    <3>1. PICK reported \in SUBSET MayReport(l) :
              active' = [active EXCEPT ![l] = Ready(l) \union reported]
      BY <1>5 DEF Poll
    <3>2. \A c \in Ready(l) \union reported :
              c # Acceptor => conn[c].registered /\ conn[c].loop = l
      BY DEF Ready, MayReport
    <3>. QED
      BY <1>0, <3>1, <3>2 DEF TypeOK
  <2>2. \A k \in Loop : k # l => active'[k] = active[k]
    BY <1>0, <1>5 DEF Poll, TypeOK
  <2>3. /\ UNCHANGED <<nextConnId_, conn, caller>>
        /\ \A k \in Loop : \A g : Has(Todo(k), g)' => Has(Todo(k), g)
    BY <1>5, <1>01 DEF Poll
  <2>. QED
    BY <1>0, <2>1, <2>2, <2>3 DEF InOwnLoop
<1>6. CASE HandleAccept
  <2> DEFINE n == nextConnId_
  <2>1. caller' = caller /\ \A l \in Loop : active'[l] \subseteq active[l]
    BY <1>0, <1>6 DEF HandleAccept, TypeOK
  <2>2. CASE UNCHANGED <<nextConnId_, connections_, conn, queue, batch, ran>>
    BY <2>1, <2>2, <1>00, <1>01
  <2>3. CASE /\ n \in Conn /\ nextConnId_' = n + 1
             /\ \A d \in Conn : d # n => conn'[d] = conn[d]
             /\ conn'[n].loop = NextLoop
             /\ \A k \in Loop : \A g : Has(Todo(k), g)' =>
                    \/ Has(Todo(k), g)
                    \/ k = NextLoop /\ k # Base /\ g = F("established", n)
    <3>1. /\ ~conn[n].registered /\ \A l \in Loop : n \notin active[l]
          /\ n # Acceptor /\ \A u \in User : caller[u].c # n
          /\ \A k \in Loop : /\ ~Has(Todo(k), F("established", n))
                             /\ ~Has(Todo(k), F("destroyed", n))
                             /\ ~Has(Todo(k), F("remove", n))
                             /\ ~Has(Todo(k), F("send", n))
      BY <1>0, <2>3 DEF InOwnLoop, Conn, Acceptor
    <3>2. \A c \in Conn :
              conn'[c].registered \/ conn'[c].state # "none" => c < nextConnId_'
      BY <1>0, <2>3, <3>1 DEF InOwnLoop
    <3>3. \A l \in Loop : \A c \in active'[l] :
              c # Acceptor => conn'[c].registered /\ conn'[c].loop = l
      <4> SUFFICES ASSUME NEW l \in Loop, NEW c \in active'[l], c # Acceptor
                   PROVE  conn'[c].registered /\ conn'[c].loop = l
        OBVIOUS
      <4>1. c \in active[l] /\ c \in Conn /\ c # n
        BY <1>02, <2>1, <3>1
      <4>2. conn'[c] = conn[c]
        BY <2>3, <4>1
      <4>. QED
        BY <1>0, <4>1, <4>2 DEF InOwnLoop
    <3>4. ASSUME NEW l \in Loop, NEW c \in Conn
          PROVE  /\ Has(Todo(l), F("established", c))' =>
                       c < nextConnId_' /\ conn'[c].loop = l /\ l # Base
                 /\ Has(Todo(l), F("destroyed", c))' =>
                       c < nextConnId_' /\ conn'[c].loop = l
                 /\ Has(Todo(l), F("remove", c))' => c < nextConnId_'
                 /\ Has(Todo(l), F("send", c))' =>
                       c < nextConnId_' /\ conn'[c].loop = l /\ conn'[c].state # "connecting"
      <4>1. CASE c = n
        BY <1>0, <2>3, <3>1, <4>1, FunctorsDiffer
      <4>2. CASE c # n
        BY <1>0, <2>3, <4>2, FunctorsDiffer DEF InOwnLoop
      <4>. QED
        BY <4>1, <4>2
    <3>5. \A u \in User, c \in Conn : caller'[u].c = c =>
              c < nextConnId_' /\ conn'[c].state # "connecting"
      <4> SUFFICES ASSUME NEW u \in User, NEW c \in Conn, caller[u].c = c
                   PROVE  c < nextConnId_' /\ conn'[c].state # "connecting"
        BY <2>1
      <4>1. c # n /\ c < nextConnId_ /\ conn[c].state # "connecting"
        BY <1>0, <3>1 DEF InOwnLoop
      <4>2. conn'[c] = conn[c] /\ nextConnId_' = nextConnId_ + 1
        BY <2>3, <4>1
      <4>. QED
        BY <1>0, <4>1, <4>2
    <3>. QED
      BY <3>2, <3>3, <3>4, <3>5 DEF InOwnLoop
  <2>4. UNCHANGED <<nextConnId_, connections_, conn, queue, batch, ran>> \/
        (/\ n \in Conn /\ nextConnId_' = n + 1
         /\ \A d \in Conn : d # n => conn'[d] = conn[d]
         /\ conn'[n].loop = NextLoop
         /\ \A k \in Loop : \A g : Has(Todo(k), g)' =>
                \/ Has(Todo(k), g)
                \/ k = NextLoop /\ k # Base /\ g = F("established", n))
    <3>1. CASE UNCHANGED <<nextConnId_, connections_, conn, queue, batch, ran>>
      BY <3>1
    <3>2. CASE /\ n \in Conn /\ nextConnId_' = n + 1
               /\ \A d \in Conn : d # n => conn'[d] = conn[d]
               /\ conn'[n].loop = NextLoop /\ UNCHANGED <<batch, ran, queue>>
      BY <3>2, <1>01
    <3>3. CASE /\ n \in Conn /\ nextConnId_' = n + 1
               /\ \A d \in Conn : d # n => conn'[d] = conn[d]
               /\ conn'[n].loop = NextLoop /\ UNCHANGED <<batch, ran>>
               /\ NextLoop # Base /\ NextLoop \in Loop
               /\ queue' = Push(queue, NextLoop, F("established", n))
      <4>1. F("established", n) \in Functor
        BY <3>3, FunctorIs
      <4>2. \A k \in Loop : \A g : Has(Todo(k), g)' <=>
                Has(Todo(k), g) \/ (k = NextLoop /\ g = F("established", n))
        BY <1>0, <3>3, <4>1, Queued
      <4>. QED
        BY <3>3, <4>2
    <3>. QED
      BY <1>0, <1>6, <3>1, <3>2, <3>3, AcceptIs
  <2>. QED
    BY <2>2, <2>3, <2>4
<1>7. ASSUME NEW l \in Loop, NEW c \in Conn, HandleClose(l, c) PROVE InOwnLoop'
  <2>0. /\ \A k \in Loop : active'[k] \subseteq active[k]
        /\ UNCHANGED <<nextConnId_, caller, batch, ran>>
    BY <1>0, <1>7 DEF HandleClose, TypeOK
  <2>9. CASE UNCHANGED <<conn, queue>>
    BY <1>00, <1>01, <2>0, <2>9
  <2>10. CASE ~UNCHANGED <<conn, queue>>
    <3>1. /\ c \in active[l] /\ c # Acceptor /\ conn' = [conn EXCEPT ![c] = Down(conn[c])]
          /\ conn[c] \in Connection /\ conn[c].loop \in Loop /\ c < nextConnId_
      <4>1. c \in active[l] /\ c # Acceptor
        BY <1>7 DEF HandleClose
      <4>2. conn' = [conn EXCEPT ![c] = Down(conn[c])]
        BY <1>0, <1>7, <2>10, HandleCloseIs
      <4>3. c < nextConnId_ /\ conn[c] \in Connection
        BY <1>0, <4>1 DEF InOwnLoop, TypeOK
      <4>. QED
        BY <4>1, <4>2, <4>3, Fields
    <3>2. /\ conn' \in [Conn -> Connection] /\ conn'[c].registered = FALSE
          /\ conn'[c].state = "disconnected"
          /\ \A d \in Conn : conn'[d].loop = conn[d].loop
          /\ \A d \in Conn : d # c => conn'[d] = conn[d]
      <4>1. /\ Down(conn[c]) \in Connection /\ Down(conn[c]).registered = FALSE
            /\ Down(conn[c]).loop = conn[c].loop /\ Down(conn[c]).state = "disconnected"
        BY <3>1, ConnectionSteps, Effects
      <4>. QED
        BY <1>0, <3>1, <4>1, OneChanges
    <3>3. \A k \in Loop : \A d \in active'[k] :
              d # c /\ d \in active[k] /\ (d = Acceptor \/ d \in Conn)
      <4>1. /\ active'[l] = active[l] \ {c} /\ \A k \in Loop : k # l => active'[k] = active[k]
        BY <1>0, <1>7 DEF HandleClose, TypeOK
      <4>2. \A k \in Loop : c \in active[k] => k = l
        BY <1>0, <3>1 DEF InOwnLoop
      <4>3. \A k \in Loop : \A d \in active[k] : d = Acceptor \/ d \in Conn
        BY <1>0 DEF TypeOK
      <4>. QED
        BY <4>1, <4>2, <4>3
    <3>4. \A k \in Loop : \A g : Has(Todo(k), g)' =>
              \/ Has(Todo(k), g)
              \/ k = conn[c].loop /\ g = F("destroyed", c)
              \/ g = F("remove", c)
      <4>1. CASE queue' = queue
        BY <2>0, <4>1, <1>01
      <4>2. CASE queue' = Push(queue, conn[c].loop, F("destroyed", c))
        BY <1>0, <2>0, <3>1, <4>2, Queued, FunctorIs
      <4>3. CASE queue' = Push(queue, Base, F("remove", c))
        BY <1>0, <2>0, <4>3, Queued, FunctorIs
      <4>. QED
        BY <1>0, <1>7, <4>1, <4>2, <4>3, HandleCloseIs
    <3>5. ASSUME NEW k \in Loop, NEW d \in Conn
          PROVE  /\ Has(Todo(k), F("established", d))' =>
                       d < nextConnId_ /\ conn'[d].loop = k /\ k # Base
                 /\ Has(Todo(k), F("destroyed", d))' => d < nextConnId_ /\ conn'[d].loop = k
                 /\ Has(Todo(k), F("remove", d))' => d < nextConnId_
                 /\ Has(Todo(k), F("send", d))' =>
                       d < nextConnId_ /\ conn'[d].loop = k /\ conn'[d].state # "connecting"
      BY <1>0, <3>1, <3>2, <3>4, FunctorsDiffer DEF InOwnLoop
    <3>. QED
      BY <1>0, <2>0, <3>1, <3>2, <3>3, <3>5 DEF InOwnLoop
  <2>. QED
    BY <2>9, <2>10
<1>8. ASSUME NEW c \in Conn, OwnShutdown(c) PROVE InOwnLoop'
  <2>1. /\ \A d \in Conn : /\ conn'[d].loop = conn[d].loop
                           /\ conn'[d].registered = conn[d].registered
                           /\ conn'[d].state \in {conn[d].state, "disconnecting"}
                           /\ conn'[d].state # "none" => conn[d].state # "none"
    BY <1>0, <1>8 DEF OwnShutdown, TypeOK, Connection
  <2>2. /\ nextConnId_' = nextConnId_ /\ active' = active /\ caller' = caller
        /\ \A k \in Loop : \A g : Has(Todo(k), g)' => Has(Todo(k), g)
    BY <1>8, <1>01 DEF OwnShutdown
  <2>. QED
    BY <1>0, <1>02, <2>1, <2>2 DEF InOwnLoop
<1>9. ASSUME NEW l \in Loop, SwapPending(l) PROVE InOwnLoop'
  BY <1>0, <1>9, <1>00, TodoSwap, NothingNew DEF SwapPending
<1>10. ASSUME NEW l \in Loop, NEW f, RunFunctor(l, f)
       PROVE  active' = active /\ at[l] = "functors" /\ active[l] = {}
  BY <1>0, <1>10 DEF RunFunctor, Phases
<1>11. ASSUME NEW l \in Loop, EndBatch(l) PROVE InOwnLoop'
  BY <1>0, <1>11, <1>00, TodoEnd, NothingNew DEF EndBatch
<1>12. CASE Listen
  <2>1. RunFunctor(Base, F("listen", Acceptor)) /\ UNCHANGED <<nextConnId_, conn, caller, queue>>
    BY <1>12 DEF Listen
  <2>2. \A k \in Loop : \A g : Has(Todo(k), g)' => Has(Todo(k), g)
    BY <1>0, <2>1, Ran
  <2>. QED
    BY <1>0, <1>00, <1>10, <2>1, <2>2
<1>13. ASSUME NEW l \in Loop, NEW c \in Conn, ConnectionEstablished(l, c) PROVE InOwnLoop'
  <2>1. /\ RunFunctor(l, F("established", c)) /\ UNCHANGED <<nextConnId_, caller, queue>>
        /\ conn' = [conn EXCEPT ![c] = Established(conn[c])] /\ conn[c] \in Connection
    BY <1>0, <1>13 DEF ConnectionEstablished, TypeOK
  <2>2. /\ conn'[c].loop = conn[c].loop
        /\ \A d \in Conn : d # c => conn'[d] = conn[d]
        /\ conn'[c].registered = TRUE /\ conn'[c].state = "connected"
    BY <1>0, <2>1, ConnectionSteps, Effects, OneChanges
  <2>3. /\ Has(Todo(l), F("established", c))
        /\ \A k \in Loop : \A g : Has(Todo(k), g)' => Has(Todo(k), g)
    BY <1>0, <2>1, Ran
  <2>4. c < nextConnId_
    BY <1>0, <2>3 DEF InOwnLoop
  <2>5. /\ active' = active /\ nextConnId_' = nextConnId_ /\ caller' = caller
        /\ \A d \in Conn : conn'[d].state = "connecting" => conn[d].state = "connecting"
        /\ \A d \in Conn : conn'[d].loop = conn[d].loop
        /\ \A d \in Conn : conn[d].registered => conn'[d].registered
    BY <1>10, <2>1, <2>2
  <2>6. \A d \in Conn : conn'[d].registered \/ conn'[d].state # "none" => d < nextConnId_'
    BY <1>0, <2>2, <2>4, <2>5 DEF InOwnLoop
  <2>7. \A k \in Loop : \A d \in active'[k] :
           d # Acceptor => conn'[d].registered /\ conn'[d].loop = k
    <3> SUFFICES ASSUME NEW k \in Loop, NEW d \in active[k], d # Acceptor
                 PROVE  conn'[d].registered /\ conn'[d].loop = k
      BY <2>5
    <3>1. d \in Conn
      BY <1>0 DEF TypeOK
    <3>2. conn[d].registered /\ conn[d].loop = k
      BY <1>0 DEF InOwnLoop
    <3>. QED
      BY <2>5, <3>1, <3>2
  <2>8. \A k \in Loop, d \in Conn :
           /\ Has(Todo(k), F("established", d))' =>
                 d < nextConnId_' /\ conn'[d].loop = k /\ k # Base
           /\ Has(Todo(k), F("destroyed", d))' => d < nextConnId_' /\ conn'[d].loop = k
           /\ Has(Todo(k), F("remove", d))' => d < nextConnId_'
           /\ Has(Todo(k), F("send", d))' =>
                 d < nextConnId_' /\ conn'[d].loop = k /\ conn'[d].state # "connecting"
    BY <1>0, <2>3, <2>5 DEF InOwnLoop
  <2>9. \A u \in User, d \in Conn : caller'[u].c = d =>
            d < nextConnId_' /\ conn'[d].state # "connecting"
    BY <1>0, <2>5 DEF InOwnLoop
  <2>. QED
    BY <2>6, <2>7, <2>8, <2>9 DEF InOwnLoop
<1>14. ASSUME NEW c \in Conn, RemoveConnectionInLoop(c) PROVE InOwnLoop'
  <2>1. /\ RunFunctor(Base, F("remove", c)) /\ UNCHANGED <<nextConnId_, conn, caller>>
        /\ conn[c].loop \in Loop
    BY <1>0, <1>14, Fields DEF RemoveConnectionInLoop, TypeOK
  <2>2. /\ Has(Todo(Base), F("remove", c))
        /\ \A k \in Loop : \A g : Has(Todo(k), g)' =>
              Has(Todo(k), g) \/ (k = conn[c].loop /\ g = F("destroyed", c))
    <3>1. CASE queue' = queue
      BY <1>0, <2>1, <3>1, Ran
    <3>2. CASE queue' = Push(queue, conn[c].loop, F("destroyed", c))
      BY <1>0, <2>1, <3>2, RanAndQueued, FunctorIs
    <3>. QED
      BY <1>14, <3>1, <3>2 DEF RemoveConnectionInLoop
  <2>3. c < nextConnId_
    BY <1>0, <2>2 DEF InOwnLoop
  <2>. QED
    BY <1>0, <1>10, <2>1, <2>2, <2>3, FunctorsDiffer DEF InOwnLoop
<1>15. ASSUME NEW l \in Loop, NEW c \in Conn, ConnectDestroyed(l, c) PROVE InOwnLoop'
  <2>1. /\ RunFunctor(l, F("destroyed", c)) /\ UNCHANGED <<nextConnId_, caller, queue>>
        /\ conn' = [conn EXCEPT ![c] = Destroyed(conn[c])] /\ conn[c] \in Connection
    BY <1>0, <1>15 DEF ConnectDestroyed, TypeOK
  <2>2. /\ conn'[c].loop = conn[c].loop
        /\ \A d \in Conn : d # c => conn'[d] = conn[d]
        /\ conn'[c].registered = FALSE
        /\ conn'[c].state \in {conn[c].state, "disconnected"}
    BY <1>0, <2>1, ConnectionSteps, Effects, OneChanges
  <2>3. /\ Has(Todo(l), F("destroyed", c))
        /\ \A k \in Loop : \A g : Has(Todo(k), g)' => Has(Todo(k), g)
    BY <1>0, <2>1, Ran
  <2>4. \A k \in Loop : c \notin active[k]
    <3>1. conn[c].loop = l /\ c # Acceptor
      BY <1>0, <2>3 DEF InOwnLoop, Conn, Acceptor
    <3>. QED
      BY <1>0, <1>10, <2>1, <3>1 DEF InOwnLoop
  <2>. QED
    BY <1>0, <1>10, <2>1, <2>2, <2>3, <2>4, SMTT(30) DEF InOwnLoop, TypeOK
<1>16. CASE BeginDestroy
  BY <1>16, <1>00, <1>01 DEF BeginDestroy
<1>17. ASSUME NEW c \in Conn, DestroyConnection(c) PROVE InOwnLoop'
  <2>1. /\ UNCHANGED <<nextConnId_, caller, active, batch, ran>> /\ active[Base] = {}
        /\ conn[c] \in Connection /\ conn[c].loop \in Loop /\ c < nextConnId_
    <3>1. at[Base] = "poll" /\ active[Base] = {}
      BY <1>0, <1>17 DEF DestroyConnection, Phases
    <3>2. c \in connections_ /\ UNCHANGED <<nextConnId_, caller, active, batch, ran>>
      BY <1>17 DEF DestroyConnection
    <3>3. c < nextConnId_
      BY <1>0, <3>2 DEF TypeOK
    <3>4. conn[c] \in Connection
      BY <1>0 DEF TypeOK
    <3>. QED
      BY <3>1, <3>2, <3>3, <3>4, Fields
  <2>2. CASE conn[c].loop = Base
    <3>1. conn' = [conn EXCEPT ![c] = Destroyed(conn[c])] /\ queue' = queue
      BY <1>17, <2>2 DEF DestroyConnection
    <3>2. /\ conn'[c].loop = conn[c].loop
          /\ \A d \in Conn : d # c => conn'[d] = conn[d]
          /\ conn'[c].registered = FALSE
          /\ conn'[c].state \in {conn[c].state, "disconnected"}
      BY <1>0, <2>1, <3>1, ConnectionSteps, Effects, OneChanges
    <3>3. \A k \in Loop : \A g : Has(Todo(k), g)' => Has(Todo(k), g)
      BY <2>1, <3>1, <1>01
    <3>4. \A k \in Loop : c \notin active[k]
      BY <1>0, <2>1, <2>2 DEF InOwnLoop, Conn, Acceptor
    <3>. QED
      BY <1>0, <1>02, <2>1, <3>2, <3>3, <3>4 DEF InOwnLoop
  <2>3. CASE conn[c].loop # Base
    <3>1. queue' = Push(queue, conn[c].loop, F("destroyed", c)) /\ conn' = conn
      BY <1>17, <2>3 DEF DestroyConnection
    <3>2. \A k \in Loop : \A g : Has(Todo(k), g)' <=>
              Has(Todo(k), g) \/ (k = conn[c].loop /\ g = F("destroyed", c))
      BY <1>0, <2>1, <3>1, Queued, FunctorIs
    <3>. QED
      BY <1>0, <2>1, <3>1, <3>2, FunctorsDiffer DEF InOwnLoop
  <2>. QED
    BY <2>2, <2>3
<1>18. CASE EndDestroy
  BY <1>18, <1>00, <1>01 DEF EndDestroy
<1>19. CASE ClientConnects
  BY <1>19, <1>00, <1>01 DEF ClientConnects
<1>20. ASSUME NEW c \in Conn, ClientCloses(c) PROVE InOwnLoop'
  BY <1>20, <1>00, <1>01 DEF ClientCloses
<1>21. CASE UNCHANGED vars
  BY <1>21, <1>00, <1>01 DEF vars
<1>22. ASSUME NEW u \in User, NEW c \in Conn, NEW op \in {"send", "setState"},
              BeginCall(u, c, op)
       PROVE  InOwnLoop'
  <2>1. /\ conn[c].state = "connected" /\ caller' = [caller EXCEPT ![u] = In(op, c)]
        /\ UNCHANGED <<nextConnId_, conn, active, batch, ran, queue>>
    BY <1>22 DEF BeginCall
  <2>2. \A v \in User, d \in Conn : caller'[v].c = d => caller[v].c = d \/ d = c
    BY <1>0, <2>1 DEF TypeOK, In
  <2>3. \A k \in Loop : \A g : Has(Todo(k), g)' => Has(Todo(k), g)
    BY <1>01, <2>1
  <2>4. c < nextConnId_ /\ conn[c].state # "connecting"
    BY <1>0, <2>1 DEF InOwnLoop
  <2>. QED
    BY <1>0, <2>1, <2>2, <2>3, <2>4 DEF InOwnLoop
<1>23. ASSUME NEW u \in User, NEW c \in Conn, SetDisconnecting(u, c) PROVE InOwnLoop'
  <2>1. /\ caller[u].c = c /\ caller' = [caller EXCEPT ![u] = In("shutdown", c)]
        /\ UNCHANGED <<nextConnId_, active, batch, ran, queue>>
        /\ conn' = [conn EXCEPT ![c].state = "disconnecting"]
    BY <1>23 DEF SetDisconnecting, In
  <2>2. \A d \in Conn : /\ conn'[d].loop = conn[d].loop
                        /\ conn'[d].registered = conn[d].registered
                        /\ conn'[d].state \in {conn[d].state, "disconnecting"}
                        /\ d # c => conn'[d] = conn[d]
    <3>1. /\ conn'[c].loop = conn[c].loop /\ conn'[c].registered = conn[c].registered
          /\ conn'[c].state = "disconnecting"
      BY <1>0, <2>1 DEF TypeOK, Connection
    <3>2. \A d \in Conn : d # c => conn'[d] = conn[d]
      BY <1>0, <2>1 DEF TypeOK
    <3>. QED
      BY <3>1, <3>2
  <2>3. \A v \in User, d \in Conn : caller'[v].c = d => caller[v].c = d
    BY <1>0, <2>1 DEF TypeOK, In
  <2>4. \A k \in Loop : \A g : Has(Todo(k), g)' => Has(Todo(k), g)
    BY <1>01, <2>1
  <2>5. c < nextConnId_
    BY <1>0, <2>1 DEF InOwnLoop
  <2>. QED
    BY <1>0, <1>02, <2>1, <2>2, <2>3, <2>4, <2>5 DEF InOwnLoop
<1>24. ASSUME NEW u \in User, NEW c \in Conn, NEW op \in {"send", "shutdown"}, EndCall(u, c, op)
       PROVE  InOwnLoop'
  <2>1. /\ caller[u].c = c /\ caller' = [caller EXCEPT ![u] = Idle]
        /\ UNCHANGED <<nextConnId_, conn, active, batch, ran>>
        /\ queue' = Push(queue, conn[c].loop, F(op, c))
        /\ conn[c].loop \in Loop /\ F(op, c) \in Functor
    BY <1>0, <1>24, Fields, FunctorIs DEF EndCall, In, TypeOK
  <2>2. \A v \in User, d \in Conn : caller'[v].c = d => caller[v].c = d
    BY <1>0, <2>1 DEF TypeOK, Idle, Acceptor, Conn
  <2>3. \A k \in Loop : \A g :
            Has(Todo(k), g)' => Has(Todo(k), g) \/ (k = conn[c].loop /\ g = F(op, c))
    BY <1>0, <2>1, Queued
  <2>4. c < nextConnId_ /\ conn[c].state # "connecting"
    BY <1>0, <2>1 DEF InOwnLoop
  <2>. QED
    BY <1>0, <2>1, <2>2, <2>3, <2>4, FunctorsDiffer DEF InOwnLoop
<1>25. ASSUME NEW l \in Loop, NEW c \in Conn, SendInLoop(l, c) PROVE InOwnLoop'
  <2>1. RunFunctor(l, F("send", c)) /\ UNCHANGED <<nextConnId_, caller, queue>>
    BY <1>25 DEF SendInLoop
  <2>2. /\ Has(Todo(l), F("send", c))
        /\ \A k \in Loop : \A g : Has(Todo(k), g)' => Has(Todo(k), g)
    BY <1>0, <2>1, Ran
  <2>3. c < nextConnId_
    BY <1>0, <2>2 DEF InOwnLoop
  <2>4. /\ \A d \in Conn : /\ conn'[d].loop = conn[d].loop
                           /\ conn'[d].state = conn[d].state
                           /\ conn[d].registered => conn'[d].registered
                           /\ d # c => conn'[d] = conn[d]
    <3>1. CASE conn' = conn
      BY <3>1
    <3>2. CASE conn' = [conn EXCEPT ![c] = Registered(conn[c])]
      <4>1. /\ Registered(conn[c]) \in Connection /\ Registered(conn[c]).loop = conn[c].loop
            /\ Registered(conn[c]).state = conn[c].state /\ Registered(conn[c]).registered
        BY <1>0, RegisteredIs DEF TypeOK
      <4>. QED
        BY <1>0, <3>2, <4>1, OneChanges
    <3>. QED
      BY <1>0, <1>25, <3>1, <3>2, SendIs
  <2>. QED
    BY <1>0, <1>02, <1>10, <2>1, <2>2, <2>3, <2>4 DEF InOwnLoop
<1>26. ASSUME NEW l \in Loop, NEW c \in Conn, ShutdownInLoop(l, c) PROVE InOwnLoop'
  <2>1. RunFunctor(l, F("shutdown", c)) /\ UNCHANGED <<nextConnId_, conn, caller, queue>>
    BY <1>26 DEF ShutdownInLoop
  <2>2. \A k \in Loop : \A g : Has(Todo(k), g)' => Has(Todo(k), g)
    BY <1>0, <2>1, Ran
  <2>. QED
    BY <1>0, <1>00, <1>10, <2>1, <2>2
<1>. QED
  BY <1>1, <1>2, <1>3, <1>4, <1>5, <1>6, <1>7, <1>8, <1>9, <1>11, <1>12, <1>13, <1>14,
     <1>15, <1>16, <1>17, <1>18, <1>19, <1>20, <1>21, <1>22, <1>23, <1>24, <1>25, <1>26
  DEF Next, LoopStep, StartStep, DestroyStep, UserStep, Environment, CallSend, CallShutdown,
      PushSend, PushShutdown

(***************************************************************************)
(* No connection is forgotten.                                             *)
(***************************************************************************)
\* The connection c has a use for connectDestroyed, and has it before it.
Needs(k, c) ==
    ~conn[c].readded /\ (conn[c].registered \/ Has(Todo(k), F("established", c)))
Comes(k, c) == Follows(Todo(k), F("established", c), F("destroyed", c))

LEMMA KeptIs ==
    ASSUME NEW c \in Conn, NEW k
    PROVE  /\ conn[c].loop = k => (Kept(c) <=> (Needs(k, c) => c \in connections_ \/ Comes(k, c)))
           /\ conn'[c].loop = k =>
                 (Kept(c)' <=> (Needs(k, c)' => c \in connections_' \/ Comes(k, c)'))
  BY DEF Kept, Needs, Comes, Todo

LEMMA KeptStep ==
    ASSUME NEW c \in Conn, Kept(c), NEW k, conn[c].loop = k, conn'[c].loop = k,
           Needs(k, c)' => Needs(k, c),
           Needs(k, c)' /\ c \in connections_ => c \in connections_' \/ Comes(k, c)',
           Needs(k, c)' /\ Comes(k, c) => Comes(k, c)'
    PROVE  Kept(c)'
  BY KeptIs

LEMMA NotForgottenStep == ServerInv /\ [Next]_vars => NotForgotten'
<1> SUFFICES ASSUME ServerInv, [Next]_vars PROVE NotForgotten'
  OBVIOUS
<1>0. /\ TypeOK /\ Phases /\ InOwnLoop /\ NotForgotten /\ Base \in Loop
      /\ \A c \in Conn : /\ conn[c] \in Connection /\ conn[c].loop \in Loop
                         /\ Kept(c)
  BY LoopIs, Fields DEF ServerInv, TypeOK, NotForgotten
<1> DEFINE E(c) == F("established", c)
           D(c) == F("destroyed", c)
<1>00. ASSUME UNCHANGED <<conn, connections_>>, \A k \in Loop : Todo(k)' = Todo(k)
       PROVE  NotForgotten'
  <2>1. \A k \in Loop, c \in Conn : /\ Needs(k, c)' <=> Needs(k, c)
                                    /\ Comes(k, c)' <=> Comes(k, c)
    BY <1>00, NothingNew DEF Needs, Comes
  <2>. QED
    BY <1>0, <1>00, <2>1, KeptStep DEF NotForgotten
<1>02. ASSUME \A d \in Conn : conn'[d].loop = conn[d].loop,
              \A k \in Loop, d \in Conn : conn[d].loop = k =>
                  /\ Needs(k, d)' => Needs(k, d)
                  /\ Needs(k, d)' /\ d \in connections_ =>
                        d \in connections_' \/ Comes(k, d)'
                  /\ Needs(k, d)' /\ Comes(k, d) => Comes(k, d)'
       PROVE  NotForgotten'
  BY <1>0, <1>02, KeptStep DEF NotForgotten
<1>01. ASSUME UNCHANGED <<conn, connections_, batch, ran, queue>> PROVE NotForgotten'
  BY <1>00, <1>01, TodoSame
<1> USE DEF startVars, acceptVars, connVars, outerVars, loopVars
<1>1. ASSUME NEW n \in 0 .. Len(Threads), SetThreadNum(n) PROVE NotForgotten'
  BY <1>1, <1>01 DEF SetThreadNum
<1>2. ASSUME NEW t \in Starter, Start(t) PROVE NotForgotten'
  BY <1>2, <1>01 DEF Start
<1>3. ASSUME NEW t \in Starter, StartPool(t) PROVE NotForgotten'
  BY <1>3, <1>01 DEF StartPool
<1>4. ASSUME NEW t \in Starter, StartListening(t) PROVE NotForgotten'
  <2>1. UNCHANGED <<connections_, conn, batch, ran>>
    BY <1>4 DEF StartListening
  <2>2. CASE queue' = queue
    BY <2>1, <2>2, <1>01
  <2>3. CASE queue' = Push(queue, Base, F("listen", Acceptor))
    <3>1. ASSUME NEW k \in Loop, NEW c \in Conn
          PROVE  (Needs(k, c)' => Needs(k, c)) /\ (Comes(k, c) => Comes(k, c)')
      <4>1. /\ Has(Todo(k), E(c))' <=>
                  Has(Todo(k), E(c)) \/ (k = Base /\ E(c) = F("listen", Acceptor))
            /\ F("listen", Acceptor) # E(c)
        BY <1>0, <2>1, <2>3, Queued, FunctorIs, FunctorsDiffer
      <4>2. Comes(k, c) => Comes(k, c)'
        BY <1>0, <2>1, <2>3, <4>1, Queued, FunctorIs DEF Comes
      <4>. QED
        BY <2>1, <4>1, <4>2 DEF Needs
    <3>. QED
      BY <1>0, <2>1, <3>1, KeptStep DEF NotForgotten
  <2>. QED
    BY <1>4, <2>2, <2>3 DEF StartListening
<1>5. ASSUME NEW l \in Loop, Poll(l) PROVE NotForgotten'
  BY <1>5, <1>01 DEF Poll
<1>6. CASE HandleAccept
  <2> DEFINE n == nextConnId_
  <2>1. CASE UNCHANGED <<nextConnId_, connections_, conn, queue, batch, ran>>
    BY <2>1, <1>01
  <2>2. CASE /\ n \in Conn /\ connections_' = connections_ \union {n}
             /\ \A d \in Conn : d # n => conn'[d] = conn[d]
             /\ conn'[n].loop \in Loop
             /\ UNCHANGED <<batch, ran>> /\ NextLoop \in Loop
             /\ queue' = queue \/ queue' = Push(queue, NextLoop, E(n))
    <3>1. ASSUME NEW k \in Loop, NEW c \in Conn, c # n
          PROVE  (Needs(k, c)' => Needs(k, c)) /\ (Comes(k, c) => Comes(k, c)')
      <4>1. CASE queue' = queue
        BY <2>2, <3>1, <4>1, TodoSame, NothingNew DEF Needs, Comes
      <4>2. CASE queue' = Push(queue, NextLoop, E(n))
        <5>1. E(n) # E(c) /\ E(n) \in Functor
          BY <2>2, <3>1, FunctorsDiffer, FunctorIs
        <5>2. Has(Todo(k), E(c))' <=> Has(Todo(k), E(c)) \/ (k = NextLoop /\ E(c) = E(n))
          BY <1>0, <2>2, <4>2, <5>1, Queued
        <5>3. Comes(k, c) => Comes(k, c)'
          BY <1>0, <2>2, <4>2, <5>1, Queued DEF Comes
        <5>. QED
          BY <2>2, <3>1, <5>1, <5>2, <5>3 DEF Needs
      <4>. QED
        BY <2>2, <4>1, <4>2
    <3>2. ASSUME NEW c \in Conn PROVE Kept(c)'
      <4>1. CASE c = n
        BY <2>2, <4>1, KeptIs
      <4>2. CASE c # n
        BY <1>0, <2>2, <3>1, <4>2, KeptStep
      <4>. QED
        BY <4>1, <4>2
    <3>. QED
      BY <3>2 DEF NotForgotten
  <2>. QED
    BY <1>0, <1>6, <2>1, <2>2, AcceptIs
<1>7. ASSUME NEW l \in Loop, NEW c \in Conn, HandleClose(l, c) PROVE NotForgotten'
  <2>0. CASE UNCHANGED <<conn, connections_, queue>>
    BY <1>0, <1>7, <1>01, <2>0, HandleCloseIs
  <2>1. CASE /\ conn' = [conn EXCEPT ![c] = Down(conn[c])] /\ UNCHANGED <<batch, ran>>
             /\ \/ connections_' = connections_ /\ queue' = queue
                \/ /\ connections_' = connections_ \ {c}
                   /\ queue' = Push(queue, conn[c].loop, D(c))
                \/ /\ connections_' = connections_
                   /\ queue' = Push(queue, Base, F("remove", c))
    <3>1. /\ conn'[c].registered = FALSE /\ conn'[c].loop = conn[c].loop
          /\ conn'[c].readded = conn[c].readded
          /\ \A d \in Conn : d # c => conn'[d] = conn[d]
      BY <1>0, <2>1, ConnectionSteps, Effects, OneChanges
    <3>2. ASSUME NEW d \in Conn, NEW k \in Loop, conn[d].loop = k
          PROVE  /\ Has(Todo(k), E(d))' => Has(Todo(k), E(d))
                 /\ d \in connections_ => d \in connections_' \/ Comes(k, d)'
                 /\ Comes(k, d) => Comes(k, d)'
      <4>1. CASE connections_' = connections_ /\ queue' = queue
        BY <2>1, <4>1, TodoSame, NothingNew DEF Comes
      <4>2. CASE /\ connections_' = connections_ \ {c}
                 /\ queue' = Push(queue, conn[c].loop, D(c))
        <5>1. D(c) # E(d) /\ D(c) \in Functor
          BY FunctorsDiffer, FunctorIs
        <5>2. Has(Todo(k), E(d))' <=> Has(Todo(k), E(d)) \/ (k = conn[c].loop /\ E(d) = D(c))
          BY <1>0, <2>1, <4>2, <5>1, Queued
        <5>0. /\ TypeOK /\ conn[c].loop \in Loop /\ UNCHANGED <<batch, ran>>
              /\ queue' = Push(queue, conn[c].loop, D(c))
          BY <1>0, <2>1, <4>2
        <5>3. \A h : Follows(Todo(k), E(d), h) \/ (k = conn[c].loop /\ h = D(c)) =>
                    Follows(Todo(k), E(d), h)'
          BY <5>0, <5>1, Queued
        <5>4. d = c => k = conn[c].loop /\ D(d) = D(c)
          BY <3>2
        <5>5. Comes(k, d) \/ d = c => Comes(k, d)'
          BY <5>1, <5>3, <5>4 DEF Comes
        <5>. QED
          BY <4>2, <5>1, <5>2, <5>5
      <4>3. CASE /\ connections_' = connections_
                 /\ queue' = Push(queue, Base, F("remove", c))
        <5>1. F("remove", c) # E(d) /\ F("remove", c) \in Functor
          BY FunctorsDiffer, FunctorIs
        <5>2. Has(Todo(k), E(d))' <=>
                  Has(Todo(k), E(d)) \/ (k = Base /\ E(d) = F("remove", c))
          BY <1>0, <2>1, <4>3, <5>1, Queued
        <5>3. Comes(k, d) => Comes(k, d)'
          BY <1>0, <2>1, <4>3, <5>1, Queued DEF Comes
        <5>. QED
          BY <4>3, <5>1, <5>2, <5>3
      <4>. QED
        BY <2>1, <4>1, <4>2, <4>3
    <3>3. ASSUME NEW d \in Conn, NEW k \in Loop, conn[d].loop = k
          PROVE  Needs(k, d)' => Needs(k, d)
      BY <3>1, <3>2, <3>3 DEF Needs
    <3>. QED
      BY <1>02, <3>1, <3>2, <3>3
  <2>. QED
    BY <1>0, <1>7, <2>0, <2>1, HandleCloseIs
<1>8. ASSUME NEW c \in Conn, OwnShutdown(c) PROVE NotForgotten'
  <2>1. \A d \in Conn : /\ conn'[d].loop = conn[d].loop
                        /\ conn'[d].registered = conn[d].registered
                        /\ conn'[d].readded = conn[d].readded
    BY <1>0, <1>8 DEF OwnShutdown, TypeOK, Connection
  <2>2. UNCHANGED <<connections_, batch, ran, queue>>
    BY <1>8 DEF OwnShutdown
  <2>3. \A k \in Loop, d \in Conn : /\ Needs(k, d)' <=> Needs(k, d)
                                    /\ Comes(k, d)' <=> Comes(k, d)
    BY <2>1, <2>2, TodoSame, NothingNew DEF Needs, Comes
  <2>. QED
    BY <1>02, <2>1, <2>2, <2>3
<1>9. ASSUME NEW l \in Loop, SwapPending(l) PROVE NotForgotten'
  BY <1>0, <1>9, <1>00, TodoSwap DEF SwapPending
<1>11. ASSUME NEW l \in Loop, EndBatch(l) PROVE NotForgotten'
  BY <1>0, <1>11, <1>00, TodoEnd DEF EndBatch
<1>12. CASE Listen
  <2>1. RunFunctor(Base, F("listen", Acceptor)) /\ UNCHANGED <<connections_, conn, queue>>
    BY <1>12 DEF Listen
  <2>2. ASSUME NEW k \in Loop, NEW d \in Conn
        PROVE  (Needs(k, d)' => Needs(k, d)) /\ (Comes(k, d) => Comes(k, d)')
    <3>1. Has(Todo(k), E(d))' => Has(Todo(k), E(d))
      BY <1>0, <2>1, Ran
    <3>2. Comes(k, d) => Comes(k, d)'
      BY <1>0, <2>1, Ran, FunctorsDiffer DEF Comes
    <3>. QED
      BY <2>1, <3>1, <3>2 DEF Needs
  <2>. QED
    BY <1>02, <2>1, <2>2
<1>13. ASSUME NEW l \in Loop, NEW c \in Conn, ConnectionEstablished(l, c) PROVE NotForgotten'
  <2>1. /\ RunFunctor(l, E(c)) /\ UNCHANGED <<connections_, queue>>
        /\ conn' = [conn EXCEPT ![c] = Established(conn[c])]
    BY <1>13 DEF ConnectionEstablished
  <2>2. /\ conn'[c].loop = conn[c].loop /\ conn'[c].readded = conn[c].readded
        /\ \A d \in Conn : d # c => conn'[d] = conn[d]
    BY <1>0, <2>1, ConnectionSteps, Effects, OneChanges
  <2>3. Has(Todo(l), E(c)) /\ conn[c].loop = l
    BY <1>0, <2>1, Ran DEF InOwnLoop
  <2>4. ASSUME NEW d \in Conn, NEW k \in Loop, conn[d].loop = k
        PROVE  (Needs(k, d)' => Needs(k, d)) /\ (Comes(k, d) => Comes(k, d)')
    <3>1. Has(Todo(k), E(d))' => Has(Todo(k), E(d))
      BY <1>0, <2>1, Ran
    <3>2. Comes(k, d) => Comes(k, d)'
      BY <1>0, <2>1, Ran, FunctorsDiffer DEF Comes
    <3>3. CASE d = c
      BY <2>2, <2>3, <2>4, <3>2, <3>3 DEF Needs
    <3>4. CASE d # c
      BY <2>2, <3>1, <3>2, <3>4 DEF Needs
    <3>. QED
      BY <3>3, <3>4
  <2>. QED
    BY <1>02, <2>1, <2>2, <2>4
<1>14. ASSUME NEW c \in Conn, RemoveConnectionInLoop(c) PROVE NotForgotten'
  <2>1. /\ RunFunctor(Base, F("remove", c)) /\ UNCHANGED conn
        /\ connections_' = connections_ \ {c}
        /\ \/ connections_ = {} /\ queue' = queue
           \/ queue' = Push(queue, conn[c].loop, D(c))
    BY <1>0, <1>14 DEF RemoveConnectionInLoop, Phases
  <2>2. ASSUME NEW d \in Conn, NEW k \in Loop, conn[d].loop = k
        PROVE  /\ Has(Todo(k), E(d))' => Has(Todo(k), E(d))
               /\ d \in connections_ => d \in connections_' \/ Comes(k, d)'
               /\ Comes(k, d) => Comes(k, d)'
    <3>1. CASE connections_ = {} /\ queue' = queue
      <4>1. Has(Todo(k), E(d))' => Has(Todo(k), E(d))
        BY <1>0, <2>1, <3>1, Ran
      <4>2. Comes(k, d) => Comes(k, d)'
        BY <1>0, <2>1, <3>1, Ran, FunctorsDiffer DEF Comes
      <4>. QED
        BY <3>1, <4>1, <4>2
    <3>2. CASE queue' = Push(queue, conn[c].loop, D(c))
      <4>1. D(c) # E(d) /\ D(c) \in Functor /\ D(d) # F("remove", c)
        BY FunctorsDiffer, FunctorIs
      <4>2. Has(Todo(k), E(d))' =>
                Has(Todo(k), E(d)) \/ (k = conn[c].loop /\ E(d) = D(c))
        BY <1>0, <2>1, <3>2, <4>1, RanAndQueued
      <4>0. /\ TypeOK /\ RunFunctor(Base, F("remove", c)) /\ conn[c].loop \in Loop
            /\ queue' = Push(queue, conn[c].loop, D(c)) /\ Base \in Loop
        BY <1>0, <2>1, <3>2
      <4>3. \A h : (Follows(Todo(k), E(d), h) /\ h # F("remove", c))
                     \/ (k = conn[c].loop /\ h = D(c)) => Follows(Todo(k), E(d), h)'
        BY <4>0, <4>1, RanAndQueued
      <4>4. d = c => k = conn[c].loop /\ D(d) = D(c)
        BY <2>2
      <4>5. Comes(k, d) \/ d = c => Comes(k, d)'
        BY <4>1, <4>3, <4>4 DEF Comes
      <4>. QED
        BY <2>1, <4>1, <4>2, <4>5
    <3>. QED
      BY <2>1, <3>1, <3>2
  <2>3. ASSUME NEW d \in Conn, NEW k \in Loop, conn[d].loop = k
        PROVE  Needs(k, d)' => Needs(k, d)
    BY <2>1, <2>2, <2>3 DEF Needs
  <2>. QED
    BY <1>02, <2>1, <2>2, <2>3
<1>15. ASSUME NEW l \in Loop, NEW c \in Conn, ConnectDestroyed(l, c) PROVE NotForgotten'
  <2>1. /\ RunFunctor(l, D(c)) /\ UNCHANGED <<connections_, queue>>
        /\ conn' = [conn EXCEPT ![c] = Destroyed(conn[c])]
    BY <1>15 DEF ConnectDestroyed
  <2>2. /\ conn'[c].loop = conn[c].loop /\ conn'[c].registered = FALSE
        /\ conn'[c].readded = conn[c].readded
        /\ \A d \in Conn : d # c => conn'[d] = conn[d]
    BY <1>0, <2>1, ConnectionSteps, Effects, OneChanges
  <2>3. ASSUME NEW d \in Conn, NEW k \in Loop, conn[d].loop = k
        PROVE  /\ Needs(k, d)' => Needs(k, d)
               /\ Needs(k, d)' /\ Comes(k, d) => Comes(k, d)'
    <3>1. Has(Todo(k), E(d))' => Has(Todo(k), E(d))
      BY <1>0, <2>1, Ran
    <3>2. Comes(k, d) /\ (D(d) # D(c) \/ Has(Todo(k), E(d))') => Comes(k, d)'
      BY <1>0, <2>1, Ran DEF Comes
    <3>3. CASE d = c
      BY <2>2, <3>1, <3>2, <3>3 DEF Needs
    <3>4. CASE d # c
      BY <2>2, <3>1, <3>2, <3>4, FunctorsDiffer DEF Needs
    <3>. QED
      BY <3>3, <3>4
  <2>. QED
    BY <1>02, <2>1, <2>2, <2>3
<1>16. CASE BeginDestroy
  BY <1>16, <1>01 DEF BeginDestroy
<1>17. ASSUME NEW c \in Conn, DestroyConnection(c) PROVE NotForgotten'
  <2>1. connections_' = connections_ \ {c} /\ UNCHANGED <<batch, ran>>
    BY <1>17 DEF DestroyConnection
  <2>2. CASE conn[c].loop = Base
    <3>1. conn' = [conn EXCEPT ![c] = Destroyed(conn[c])] /\ queue' = queue
      BY <1>17, <2>2 DEF DestroyConnection
    <3>2. /\ conn'[c].loop = conn[c].loop /\ conn'[c].registered = FALSE
          /\ \A d \in Conn : d # c => conn'[d] = conn[d]
      BY <1>0, <3>1, ConnectionSteps DEF TypeOK
    <3>3. \A k \in Loop, d \in Conn :
              /\ Has(Todo(k), E(d))' <=> Has(Todo(k), E(d))
              /\ Comes(k, d)' <=> Comes(k, d)
      BY <2>1, <3>1, TodoSame, NothingNew DEF Comes
    <3>4. ~Needs(Base, c)'
      BY <1>0, <3>2, <3>3 DEF Needs, InOwnLoop
    <3>5. \A k \in Loop, d \in Conn : d # c => (Needs(k, d)' <=> Needs(k, d))
      BY <3>2, <3>3 DEF Needs
    <3>. QED
      BY <1>02, <2>1, <2>2, <3>2, <3>3, <3>4, <3>5
  <2>3. CASE conn[c].loop # Base
    <3>1. queue' = Push(queue, conn[c].loop, D(c)) /\ conn' = conn
      BY <1>17, <2>3 DEF DestroyConnection
    <3>2. ASSUME NEW d \in Conn, NEW k \in Loop, conn[d].loop = k
          PROVE  /\ Needs(k, d)' => Needs(k, d)
                 /\ Comes(k, d) \/ d = c => Comes(k, d)'
      <4>1. D(c) # E(d) /\ D(c) \in Functor
        BY FunctorsDiffer, FunctorIs
      <4>2. Has(Todo(k), E(d))' <=> Has(Todo(k), E(d)) \/ (k = conn[c].loop /\ E(d) = D(c))
        BY <1>0, <2>1, <3>1, <4>1, Queued
      <4>3. \A h : Follows(Todo(k), E(d), h) \/ (k = conn[c].loop /\ h = D(c)) =>
                  Follows(Todo(k), E(d), h)'
        BY <1>0, <2>1, <3>1, <4>1, Queued
      <4>4. d = c => k = conn[c].loop /\ D(d) = D(c)
        BY <3>2
      <4>5. Comes(k, d) \/ d = c => Comes(k, d)'
        BY <4>1, <4>3, <4>4 DEF Comes
      <4>. QED
        BY <3>1, <4>1, <4>2, <4>5 DEF Needs
    <3>. QED
      BY <1>02, <2>1, <3>1, <3>2
  <2>. QED
    BY <2>2, <2>3
<1>18. CASE EndDestroy
  BY <1>18, <1>01 DEF EndDestroy
<1>19. CASE ClientConnects
  BY <1>19, <1>01 DEF ClientConnects
<1>20. ASSUME NEW c \in Conn, ClientCloses(c) PROVE NotForgotten'
  BY <1>20, <1>01 DEF ClientCloses
<1>21. CASE UNCHANGED vars
  BY <1>21, <1>01 DEF vars
<1>22. ASSUME NEW u \in User, NEW c \in Conn, NEW op \in {"send", "setState"},
              BeginCall(u, c, op)
       PROVE  NotForgotten'
  BY <1>22, <1>01 DEF BeginCall
<1>23. ASSUME NEW u \in User, NEW c \in Conn, SetDisconnecting(u, c) PROVE NotForgotten'
  <2>1. \A d \in Conn : /\ conn'[d].loop = conn[d].loop
                        /\ conn'[d].registered = conn[d].registered
                        /\ conn'[d].readded = conn[d].readded
    BY <1>0, <1>23 DEF SetDisconnecting, TypeOK, Connection
  <2>2. UNCHANGED <<connections_, batch, ran, queue>>
    BY <1>23 DEF SetDisconnecting
  <2>3. \A k \in Loop, d \in Conn : /\ Needs(k, d)' <=> Needs(k, d)
                                    /\ Comes(k, d)' <=> Comes(k, d)
    BY <2>1, <2>2, TodoSame, NothingNew DEF Needs, Comes
  <2>. QED
    BY <1>02, <2>1, <2>2, <2>3
<1>24. ASSUME NEW u \in User, NEW c \in Conn, NEW op \in {"send", "shutdown"}, EndCall(u, c, op)
       PROVE  NotForgotten'
  <2>1. /\ UNCHANGED <<connections_, conn, batch, ran>>
        /\ queue' = Push(queue, conn[c].loop, F(op, c))
        /\ conn[c].loop \in Loop /\ F(op, c) \in Functor
    BY <1>0, <1>24, FunctorIs DEF EndCall
  <2>2. ASSUME NEW k \in Loop, NEW d \in Conn
        PROVE  (Needs(k, d)' => Needs(k, d)) /\ (Comes(k, d) => Comes(k, d)')
    <3>1. /\ F(op, c) # E(d)
          /\ Has(Todo(k), E(d))' <=>
                Has(Todo(k), E(d)) \/ (k = conn[c].loop /\ E(d) = F(op, c))
      BY <1>0, <2>1, Queued, FunctorsDiffer
    <3>2. Comes(k, d) => Comes(k, d)'
      BY <1>0, <2>1, <3>1, Queued DEF Comes
    <3>. QED
      BY <2>1, <3>1, <3>2 DEF Needs
  <2>. QED
    BY <1>02, <2>1, <2>2
<1>25. ASSUME NEW l \in Loop, NEW c \in Conn, SendInLoop(l, c) PROVE NotForgotten'
  <2>1. RunFunctor(l, F("send", c)) /\ UNCHANGED <<connections_, queue>>
    BY <1>25 DEF SendInLoop
  <2>2. \A d \in Conn :
            /\ conn'[d].loop = conn[d].loop
            /\ ~conn'[d].readded => ~conn[d].readded /\ conn'[d].registered = conn[d].registered
    <3>1. CASE conn' = conn
      BY <3>1
    <3>2. CASE conn' = [conn EXCEPT ![c] = Registered(conn[c])]
      <4>1. /\ Registered(conn[c]) \in Connection /\ Registered(conn[c]).loop = conn[c].loop
            /\ Registered(conn[c]).registered
            /\ ~Registered(conn[c]).readded <=> ~conn[c].readded /\ conn[c].registered
            /\ conn[c].registered \in BOOLEAN
        BY <1>0, RegisteredIs, Fields DEF TypeOK
      <4>. QED
        BY <1>0, <3>2, <4>1, OneChanges, RegisteredIs, Fields
    <3>. QED
      BY <1>0, <1>25, <3>1, <3>2, SendIs
  <2>3. ASSUME NEW k \in Loop, NEW d \in Conn
        PROVE  (Needs(k, d)' => Needs(k, d)) /\ (Comes(k, d) => Comes(k, d)')
    <3>1. Has(Todo(k), E(d))' => Has(Todo(k), E(d))
      BY <1>0, <2>1, Ran
    <3>2. Comes(k, d) => Comes(k, d)'
      BY <1>0, <2>1, Ran, FunctorsDiffer DEF Comes
    <3>. QED
      BY <2>2, <3>1, <3>2 DEF Needs
  <2>. QED
    BY <1>02, <2>1, <2>2, <2>3
<1>26. ASSUME NEW l \in Loop, NEW c \in Conn, ShutdownInLoop(l, c) PROVE NotForgotten'
  <2>1. RunFunctor(l, F("shutdown", c)) /\ UNCHANGED <<connections_, conn, queue>>
    BY <1>26 DEF ShutdownInLoop, connVars
  <2>2. ASSUME NEW k \in Loop, NEW d \in Conn
        PROVE  (Needs(k, d)' => Needs(k, d)) /\ (Comes(k, d) => Comes(k, d)')
    <3>1. Has(Todo(k), E(d))' => Has(Todo(k), E(d))
      BY <1>0, <2>1, Ran
    <3>2. Comes(k, d) => Comes(k, d)'
      BY <1>0, <2>1, Ran, FunctorsDiffer DEF Comes
    <3>. QED
      BY <2>1, <3>1, <3>2 DEF Needs
  <2>. QED
    BY <1>02, <2>1, <2>2
<1>. QED
  BY <1>1, <1>2, <1>3, <1>4, <1>5, <1>6, <1>7, <1>8, <1>9, <1>11, <1>12, <1>13, <1>14,
     <1>15, <1>16, <1>17, <1>18, <1>19, <1>20, <1>21, <1>22, <1>23, <1>24, <1>25, <1>26
  DEF Next, LoopStep, StartStep, DestroyStep, UserStep, Environment, CallSend, CallShutdown,
      PushSend, PushShutdown

(***************************************************************************)
(* The pool is started once.                                               *)
(***************************************************************************)
LEMMA StartedOnceStep == ServerInv /\ [Next]_vars => StartedOnce'
<1> SUFFICES ASSUME ServerInv, [Next]_vars PROVE StartedOnce'
  OBVIOUS
<1>0. /\ TypeOK /\ Phases /\ StartedOnce /\ Base \in Loop
      /\ started_ \in BOOLEAN /\ pc \in [Starter -> {"idle", "pool", "listen"}]
  BY LoopIs DEF ServerInv, TypeOK
<1> DEFINE L == F("listen", Acceptor)
\* Nothing opens the door that was not open, or about to be.
<1>00. ASSUME UNCHANGED <<started_, pc, numThreads_, loops_>>, Opened' => Opened
       PROVE  StartedOnce'
  BY <1>0, <1>00 DEF StartedOnce
<1>01. ASSUME UNCHANGED <<pc, listening, active, nextConnId_>>,
              \A k \in Loop : Todo(k)' = Todo(k)
       PROVE  Opened' <=> Opened
  BY <1>0, <1>01, NothingNew DEF Opened
<1> USE DEF startVars, acceptVars, connVars, outerVars, loopVars
<1>1. ASSUME NEW n \in 0 .. Len(Threads), SetThreadNum(n) PROVE StartedOnce'
  <2>1. /\ ~started_ /\ numThreads_' = n
        /\ UNCHANGED <<started_, pc, loops_, listening, active, nextConnId_, batch, ran, queue>>
    BY <1>1 DEF SetThreadNum
  <2>2. Opened' <=> Opened
    BY <2>1, <1>01, TodoSame
  <2>3. loops_ = <<>> /\ ~Opened /\ Len(loops_) = 0 /\ n \in Nat
    BY <1>0, <2>1, EmptySeq, ServerAssumption DEF StartedOnce
  <2>. QED
    BY <1>0, <2>1, <2>2, <2>3 DEF StartedOnce
<1>2. ASSUME NEW t \in Starter, Start(t) PROVE StartedOnce'
  <2>1. /\ started_' = TRUE /\ pc[t] = "idle"
        /\ pc' = [pc EXCEPT ![t] = IF started_ THEN "idle" ELSE "pool"]
        /\ UNCHANGED <<numThreads_, loops_, listening, active, nextConnId_, batch, ran, queue>>
    BY <1>2 DEF Start
  <2>2. \A u \in Starter : pc'[u] = "listen" <=> pc[u] = "listen"
    BY <1>0, <2>1
  <2>3. Opened' <=> Opened
    BY <1>0, <2>1, <2>2, TodoSame, NothingNew DEF Opened
  <2>4. CASE ~started_
    <3>1. /\ loops_ = <<>> /\ ~Opened /\ \A u \in Starter : pc[u] = "idle"
          /\ \A u \in Starter : pc'[u] = IF u = t THEN "pool" ELSE "idle"
      BY <1>0, <2>1, <2>4 DEF StartedOnce
    <3>. QED
      BY <1>0, <2>1, <2>3, <3>1 DEF StartedOnce
  <2>5. CASE started_
    <3>1. \A u \in Starter : /\ pc'[u] = "pool" => pc[u] = "pool"
                             /\ pc'[u] = "listen" => pc[u] = "listen"
      BY <1>0, <2>1, <2>5
    <3>. QED
      BY <1>0, <2>1, <2>3, <3>1 DEF StartedOnce
  <2>. QED
    BY <2>4, <2>5
<1>3. ASSUME NEW t \in Starter, StartPool(t) PROVE StartedOnce'
  <2>1. /\ pc[t] = "pool" /\ loops_' = loops_ \o SubSeq(Threads, 1, numThreads_)
        /\ pc' = [pc EXCEPT ![t] = "listen"] /\ UNCHANGED <<started_, numThreads_>>
    BY <1>3 DEF StartPool
  <2>2. loops_ = <<>> /\ started_ /\ numThreads_ \in Nat
    BY <1>0, <2>1, ServerAssumption, LenProperties DEF StartedOnce, TypeOK
  <2>3. Len(loops_') = numThreads_
    BY <1>0, <2>1, <2>2, PoolIs, EmptySeq
  <2>4. \A u \in Starter : pc'[u] # "pool"
    BY <1>0, <2>1 DEF StartedOnce
  <2>. QED
    BY <2>1, <2>2, <2>3, <2>4 DEF StartedOnce
<1>4. ASSUME NEW t \in Starter, StartListening(t) PROVE StartedOnce'
  <2>1. /\ pc[t] = "listen" /\ pc' = [pc EXCEPT ![t] = "idle"]
        /\ UNCHANGED <<started_, numThreads_, loops_>>
    BY <1>4 DEF StartListening
  <2>2. Opened
    BY <2>1 DEF Opened
  <2>3. \A u \in Starter : pc[u] # "pool" /\ pc'[u] # "pool"
    BY <1>0, <2>1, <2>2 DEF StartedOnce
  <2>. QED
    BY <1>0, <2>1, <2>2, <2>3 DEF StartedOnce
<1>5. ASSUME NEW l \in Loop, Poll(l) PROVE StartedOnce'
  <2>1. Acceptor \in active'[Base] => Acceptor \in active[Base] \/ listening
    <3>1. Acceptor \notin closed
      BY <1>0 DEF TypeOK, Acceptor
    <3>2. PICK reported \in SUBSET MayReport(l) :
              active' = [active EXCEPT ![l] = Ready(l) \union reported]
      BY <1>5 DEF Poll
    <3>3. Acceptor \in Ready(l) \union reported => listening
      BY <3>1 DEF Ready, MayReport
    <3>. QED
      BY <1>0, <3>2, <3>3 DEF TypeOK
  <2>2. /\ UNCHANGED <<started_, pc, numThreads_, loops_, listening, nextConnId_>>
        /\ Has(Todo(Base), L)' <=> Has(Todo(Base), L)
    BY <1>0, <1>5, TodoSame, NothingNew DEF Poll
  <2>3. Opened' => Opened
    BY <2>1, <2>2 DEF Opened
  <2>. QED
    BY <1>00, <2>2, <2>3
<1>6. CASE HandleAccept
  <2>1. UNCHANGED <<started_, pc, numThreads_, loops_>> /\ Opened
    BY <1>6 DEF HandleAccept, Opened
  <2>. QED
    BY <1>00, <2>1
<1>7. ASSUME NEW l \in Loop, NEW c \in Conn, HandleClose(l, c) PROVE StartedOnce'
  <2>1. /\ UNCHANGED <<started_, pc, numThreads_, loops_, listening, nextConnId_, batch, ran>>
        /\ active'[Base] \subseteq active[Base] /\ conn[c].loop \in Loop
    BY <1>0, <1>7, Fields DEF HandleClose, TypeOK
  <2>2. Has(Todo(Base), L)' => Has(Todo(Base), L)
    <3>1. CASE queue' = queue
      BY <1>0, <2>1, <3>1, TodoSame, NothingNew
    <3>2. CASE queue' = Push(queue, conn[c].loop, F("destroyed", c))
      BY <1>0, <2>1, <3>2, Queued, FunctorIs, FunctorsDiffer
    <3>3. CASE queue' = Push(queue, Base, F("remove", c))
      BY <1>0, <2>1, <3>3, Queued, FunctorIs, FunctorsDiffer
    <3>. QED
      BY <1>0, <1>7, <3>1, <3>2, <3>3, HandleCloseIs
  <2>3. Opened' => Opened
    BY <2>1, <2>2 DEF Opened
  <2>. QED
    BY <1>00, <2>1, <2>3
<1>8. ASSUME NEW c \in Conn, OwnShutdown(c) PROVE StartedOnce'
  BY <1>8, <1>00, <1>01, TodoSame DEF OwnShutdown
<1>9. ASSUME NEW l \in Loop, SwapPending(l) PROVE StartedOnce'
  BY <1>0, <1>9, <1>00, <1>01, TodoSwap DEF SwapPending
<1>10. ASSUME NEW l \in Loop, NEW f, RunFunctor(l, f), UNCHANGED queue,
              UNCHANGED <<started_, pc, numThreads_, loops_, listening, nextConnId_>>
       PROVE  StartedOnce'
  <2>1. (Has(Todo(Base), L)' => Has(Todo(Base), L)) /\ active' = active
    BY <1>0, <1>10, Ran DEF RunFunctor
  <2>2. Opened' => Opened
    BY <1>10, <2>1 DEF Opened
  <2>. QED
    BY <1>00, <1>10, <2>2
<1>11. ASSUME NEW l \in Loop, EndBatch(l) PROVE StartedOnce'
  BY <1>0, <1>11, <1>00, <1>01, TodoEnd DEF EndBatch
<1>12. CASE Listen
  <2>1. RunFunctor(Base, L) /\ UNCHANGED <<started_, pc, numThreads_, loops_, queue>>
    BY <1>12 DEF Listen
  <2>2. Opened
    BY <1>0, <2>1, Ran DEF Opened
  <2>. QED
    BY <1>00, <2>1, <2>2
<1>13. ASSUME NEW l \in Loop, NEW c \in Conn, ConnectionEstablished(l, c) PROVE StartedOnce'
  BY <1>10, <1>13 DEF ConnectionEstablished
<1>14. ASSUME NEW c \in Conn, RemoveConnectionInLoop(c) PROVE StartedOnce'
  <2>1. /\ RunFunctor(Base, F("remove", c)) /\ active' = active /\ conn[c].loop \in Loop
        /\ UNCHANGED <<started_, pc, numThreads_, loops_, listening, nextConnId_>>
    BY <1>0, <1>14, Fields DEF RemoveConnectionInLoop, RunFunctor, TypeOK
  <2>2. CASE queue' = queue
    BY <1>0, <1>10, <2>1, <2>2
  <2>3. CASE queue' = Push(queue, conn[c].loop, F("destroyed", c))
    <3>1. F("destroyed", c) \in Functor /\ L # F("destroyed", c)
      BY FunctorIs, FunctorsDiffer
    <3>2. Has(Todo(Base), L)' => Has(Todo(Base), L)
      BY <1>0, <2>1, <2>3, <3>1, RanAndQueued
    <3>3. Opened' => Opened
      BY <2>1, <3>2 DEF Opened
    <3>. QED
      BY <1>00, <2>1, <3>3
  <2>. QED
    BY <1>14, <2>2, <2>3 DEF RemoveConnectionInLoop
<1>15. ASSUME NEW l \in Loop, NEW c \in Conn, ConnectDestroyed(l, c) PROVE StartedOnce'
  BY <1>10, <1>15 DEF ConnectDestroyed
<1>16. CASE BeginDestroy
  BY <1>16, <1>00, <1>01, TodoSame DEF BeginDestroy
<1>17. ASSUME NEW c \in Conn, DestroyConnection(c) PROVE StartedOnce'
  <2>1. /\ UNCHANGED <<started_, pc, numThreads_, loops_, listening, nextConnId_, active,
                       batch, ran>>
        /\ conn[c].loop \in Loop
    BY <1>0, <1>17, Fields DEF DestroyConnection, TypeOK
  <2>2. Has(Todo(Base), L)' => Has(Todo(Base), L)
    <3>1. CASE queue' = queue
      BY <1>0, <2>1, <3>1, TodoSame, NothingNew
    <3>2. CASE queue' = Push(queue, conn[c].loop, F("destroyed", c))
      BY <1>0, <2>1, <3>2, Queued, FunctorIs, FunctorsDiffer
    <3>. QED
      BY <1>17, <3>1, <3>2 DEF DestroyConnection
  <2>3. Opened' => Opened
    BY <2>1, <2>2 DEF Opened
  <2>. QED
    BY <1>00, <2>1, <2>3
<1>18. CASE EndDestroy
  <2>1. /\ UNCHANGED <<started_, pc, numThreads_, loops_, nextConnId_, active>>
        /\ listening' = FALSE /\ (Has(Todo(Base), L)' <=> Has(Todo(Base), L))
    BY <1>0, <1>18, TodoSame, NothingNew DEF EndDestroy
  <2>2. Opened' => Opened
    BY <2>1 DEF Opened
  <2>. QED
    BY <1>00, <2>1, <2>2
<1>19. CASE ClientConnects
  BY <1>19, <1>00, <1>01, TodoSame DEF ClientConnects
<1>20. ASSUME NEW c \in Conn, ClientCloses(c) PROVE StartedOnce'
  BY <1>20, <1>00, <1>01, TodoSame DEF ClientCloses
<1>21. CASE UNCHANGED vars
  BY <1>21, <1>00, <1>01, TodoSame DEF vars
<1>22. ASSUME NEW u \in User, NEW c \in Conn, NEW op \in {"send", "setState"},
              BeginCall(u, c, op)
       PROVE  StartedOnce'
  BY <1>22, <1>00, <1>01, TodoSame DEF BeginCall
<1>23. ASSUME NEW u \in User, NEW c \in Conn, SetDisconnecting(u, c) PROVE StartedOnce'
  BY <1>23, <1>00, <1>01, TodoSame DEF SetDisconnecting
<1>24. ASSUME NEW u \in User, NEW c \in Conn, NEW op \in {"send", "shutdown"}, EndCall(u, c, op)
       PROVE  StartedOnce'
  <2>1. /\ UNCHANGED <<started_, pc, numThreads_, loops_, listening, nextConnId_, active,
                       batch, ran>>
        /\ queue' = Push(queue, conn[c].loop, F(op, c))
        /\ conn[c].loop \in Loop /\ F(op, c) \in Functor /\ F(op, c) # L
    BY <1>0, <1>24, Fields, FunctorIs, FunctorsDiffer DEF EndCall, TypeOK
  <2>2. Has(Todo(Base), L)' => Has(Todo(Base), L)
    BY <1>0, <2>1, Queued
  <2>3. Opened' => Opened
    BY <2>1, <2>2 DEF Opened
  <2>. QED
    BY <1>00, <2>1, <2>3
<1>25. ASSUME NEW l \in Loop, NEW c \in Conn, SendInLoop(l, c) PROVE StartedOnce'
  BY <1>10, <1>25 DEF SendInLoop
<1>26. ASSUME NEW l \in Loop, NEW c \in Conn, ShutdownInLoop(l, c) PROVE StartedOnce'
  BY <1>10, <1>26 DEF ShutdownInLoop
<1>. QED
  BY <1>1, <1>2, <1>3, <1>4, <1>5, <1>6, <1>7, <1>8, <1>9, <1>11, <1>12, <1>13, <1>14,
     <1>15, <1>16, <1>17, <1>18, <1>19, <1>20, <1>21, <1>22, <1>23, <1>24, <1>25, <1>26
  DEF Next, LoopStep, StartStep, DestroyStep, UserStep, Environment, CallSend, CallShutdown,
      PushSend, PushShutdown

(***************************************************************************)
(* The theorems.                                                           *)
(***************************************************************************)
LEMMA ServerInvInit == Init => ServerInv
<1> SUFFICES ASSUME Init PROVE ServerInv
  OBVIOUS
<1>1. TypeOK
  BY TypeInit
<1>2. Phases
  <2>1. \A l \in Loop : at[l] = "poll" /\ active[l] = {} /\ batch[l] = <<>> /\ ran[l] = 0
    BY DEF Init
  <2>2. backlog + nextConnId_ + calls <= MaxInputs + 1 /\ Base \in Loop
    BY ServerAssumption, LoopIs DEF Init
  <2>3. server = "up" /\ \A t \in Starter : pc[t] = "idle"
    BY DEF Init
  <2>. QED
    BY <2>1, <2>2, <2>3 DEF Phases
<1>3. \A l \in Loop : \A f : ~Has(Todo(l), f)
  <2> TAKE l \in Loop
  <2> TAKE f
  <2>1. batch[l] = <<>> /\ queue[l] = <<>> /\ ran[l] = 0
    BY DEF Init
  <2>2. SubSeq(batch[l], ran[l] + 1, Len(batch[l])) = <<>>
    BY <2>1, SubSeqEmpty
  <2>3. Todo(l) = <<>>
    BY <2>1, <2>2, ConcatEmptySeq, EmptySeq DEF Todo
  <2>. QED
    BY <2>3 DEF Has
<1>4. /\ \A c \in Conn : /\ conn[c].registered = FALSE /\ conn[c].loop = Base
                        /\ conn[c].state = "none"
      /\ \A u \in User, c \in Conn : caller[u].c # c
  BY DEF Init, Idle, Acceptor, Conn
<1>5. InOwnLoop
  BY <1>3, <1>4 DEF Init, InOwnLoop
<1>6. NotForgotten
  BY <1>3, <1>4, LoopIs DEF NotForgotten, Kept
<1>7. ~Opened
  BY <1>3, LoopIs DEF Init, Opened
<1>8. StartedOnce
  BY <1>7, EmptySeq DEF Init, StartedOnce
<1>. QED
  BY <1>1, <1>2, <1>5, <1>6, <1>8 DEF ServerInv

\* The invariant that all theorems of this module rest on.
THEOREM ServerInvariant == Spec => []ServerInv
<1>1. ServerInv /\ [Next]_vars => ServerInv'
  BY TypeStep, PhasesStep, InOwnLoopStep, NotForgottenStep, StartedOnceStep DEF ServerInv
<1>. QED
  BY <1>1, ServerInvInit, PTL DEF Spec

\* Every reachable state of the server and its loops is of the declared type.
THEOREM TypeCorrect == Spec => []TypeOK
<1>1. ServerInv => TypeOK
  BY DEF ServerInv
<1>. QED
  BY <1>1, ServerInvariant, PTL

\* A connection bound by shared_ptr in a functor that has not run is held.
LEMMA PendingIsHeld ==
    ASSUME TypeOK, NEW k \in Loop, NEW f, Has(Todo(k), f), f.op \notin {"send", "shutdown"}
    PROVE  Held(f.c)
<1> DEFINE b == batch[k]
           r == SubSeq(b, ran[k] + 1, Len(b))
<1>1. PICK j \in DOMAIN Todo(k) : Todo(k)[j] = f
  BY DEF Has
<1>2. /\ b \in Seq(Functor) /\ Len(b) \in Nat /\ ran[k] \in Nat
      /\ queue[k] \in Seq(Functor) /\ Len(queue[k]) \in Nat
      /\ r \in Seq(Functor) /\ Len(r) \in Nat
      /\ DOMAIN b = 1 .. Len(b) /\ DOMAIN queue[k] = 1 .. Len(queue[k])
  BY TodoType, LenProperties DEF TypeOK
<1>3. /\ DOMAIN Todo(k) = 1 .. Len(r) + Len(queue[k])
      /\ \A i \in 1 .. Len(r) + Len(queue[k]) :
            Todo(k)[i] = IF i <= Len(r) THEN r[i] ELSE queue[k][i - Len(r)]
  <2>1. Todo(k) = r \o queue[k]
    BY DEF Todo
  <2> HIDE DEF b, r
  <2>. QED
    BY <1>2, <2>1, ConcatProperties, LenProperties
<1>4. CASE j <= Len(r)
  <2>1. j \in 1 .. Len(r)
    BY <1>2, <1>3, <1>4
  <2>2. ran[k] + j \in 1 .. Len(b) /\ r[j] = b[ran[k] + j]
    BY <1>2, <2>1, SuffixElements
  <2>3. batch[k][ran[k] + j] = f /\ ran[k] + j \in DOMAIN batch[k]
    BY <1>1, <1>2, <1>3, <1>4, <2>2
  <2>. QED
    BY <2>3 DEF Held, Binds
<1>5. CASE ~(j <= Len(r))
  <2>1. j \in 1 .. Len(r) + Len(queue[k])
    BY <1>1, <1>3
  <2>2. Todo(k)[j] = queue[k][j - Len(r)]
    BY <1>3, <1>5, <2>1
  <2>3. j - Len(r) \in 1 .. Len(queue[k])
    <3>1. \A m, n \in Nat : \A i \in 1 .. m + n : ~(i <= m) => i - m \in 1 .. n
      OBVIOUS
    <3>2. Len(r) \in Nat /\ Len(queue[k]) \in Nat
      BY <1>2
    <3> HIDE DEF r
    <3>. QED
      BY <1>5, <2>1, <3>1, <3>2
  <2>. QED
    BY <1>1, <1>2, <2>2, <2>3 DEF Held, Binds
<1>. QED
  BY <1>4, <1>5

\* A loop never handles, and epoll never reports, the channel of a connection that
\* was freed, unless a late sendInLoop registered it again.
THEOREM ChannelsStayAlive == Spec => []ChannelsAreAlive
<1>1. ServerInv => ChannelsAreAlive
  <2> SUFFICES ASSUME ServerInv, NEW c \in Conn, ~conn[c].readded,
                      conn[c].registered \/ \E l \in Loop : c \in active[l]
               PROVE  Held(c)
    BY DEF ChannelsAreAlive
  <2>0. TypeOK /\ InOwnLoop /\ Kept(c)
    BY DEF ServerInv, NotForgotten
  <2>1. conn[c].registered /\ c # Acceptor
    BY <2>0 DEF InOwnLoop, Conn, Acceptor
  <2>2. PICK k \in Loop : conn[c].loop = k
    BY <2>0, Fields DEF TypeOK
  <2>3. CASE c \in connections_
    BY <2>3 DEF Held
  <2>4. CASE Comes(k, c)
    <3>1. Has(Todo(k), F("destroyed", c)) /\ F("destroyed", c).c = c
          /\ F("destroyed", c).op = "destroyed"
      BY <2>4 DEF Comes, Follows, Has, F
    <3>. QED
      BY <2>0, <3>1, PendingIsHeld
  <2>. QED
    BY <2>0, <2>1, <2>2, <2>3, <2>4, KeptIs DEF Needs
<1>. QED
  BY <1>1, ServerInvariant, PTL

\* Whatever threads call start(), the pool is filled once, before any client is
\* accepted.
THEOREM PoolIsStartedOnce == Spec => []PoolStartedOnce
<1>1. ServerInv => PoolStartedOnce
  BY DEF ServerInv, StartedOnce, Opened, PoolStartedOnce
<1>. QED
  BY <1>1, ServerInvariant, PTL

(***************************************************************************)
(* Connections end properly.  First, exactly which functors a step leaves, *)
(* when none is queued twice.                                              *)
(***************************************************************************)
LEMMA OnceAppend ==
    ASSUME NEW S, NEW s \in Seq(S), NEW x \in S, NEW f, Once(s, f), x # f \/ ~Has(s, f)
    PROVE  Once(Append(s, x), f)
<1>1. Len(Append(s, x)) = Len(s) + 1 /\ Len(s) \in Nat
  OBVIOUS
<1>2. \A i \in 1 .. Len(s) : Append(s, x)[i] = s[i]
  OBVIOUS
<1>3. Append(s, x)[Len(s) + 1] = x
  OBVIOUS
<1>4. ASSUME NEW i \in 1 .. Len(s) + 1, NEW j \in 1 .. Len(s) + 1,
             Append(s, x)[i] = f, Append(s, x)[j] = f
      PROVE  i = j
  <2>1. CASE x # f
    <3>1. i \in 1 .. Len(s) /\ j \in 1 .. Len(s)
      BY <1>1, <1>3, <1>4, <2>1
    <3>. QED
      BY <1>1, <1>2, <1>4, <3>1 DEF Once
  <2>2. CASE ~Has(s, f)
    <3>1. \A k \in 1 .. Len(s) : Append(s, x)[k] # f
      BY <1>1, <1>2, <2>2 DEF Has
    <3>. QED
      BY <1>1, <1>4, <3>1
  <2>. QED
    BY <2>1, <2>2
<1>. QED
  BY <1>1, <1>4 DEF Once

LEMMA OnceTail ==
    ASSUME NEW S, NEW s \in Seq(S), s # <<>>, NEW f, Once(s, f)
    PROVE  Once(Tail(s), f) /\ (Head(s) = f => ~Has(Tail(s), f))
<1>1. /\ Len(s) \in Nat /\ Len(s) > 0 /\ DOMAIN Tail(s) = 1 .. Len(s) - 1
      /\ DOMAIN s = 1 .. Len(s)
  BY EmptySeq, HeadTailProperties, LenProperties
<1>2. Head(s) = s[1]
  OBVIOUS
<1>3. \A i \in 1 .. Len(s) - 1 : Tail(s)[i] = s[i + 1] /\ i + 1 \in 1 .. Len(s)
  BY <1>1
<1>4. Once(Tail(s), f)
  <2>1. ASSUME NEW i \in 1 .. Len(s) - 1, NEW j \in 1 .. Len(s) - 1,
               Tail(s)[i] = f, Tail(s)[j] = f
        PROVE  i = j
    <3>1. i + 1 = j + 1
      BY <1>1, <1>3, <2>1 DEF Once
    <3>. QED
      BY <1>1, <3>1
  <2>. QED
    BY <1>1, <2>1 DEF Once
<1>5. ASSUME Head(s) = f, Has(Tail(s), f) PROVE FALSE
  <2>1. PICK i \in 1 .. Len(s) - 1 : Tail(s)[i] = f
    BY <1>1, <1>5 DEF Has
  <2>2. s[i + 1] = f /\ s[1] = f /\ i + 1 \in 1 .. Len(s) /\ 1 \in 1 .. Len(s)
    BY <1>1, <1>2, <1>3, <1>5, <2>1
  <2>3. i + 1 = 1
    BY <1>1, <2>2 DEF Once
  <2>. QED
    BY <1>1, <2>3
<1>. QED
  BY <1>4, <1>5

\* The first of all is not behind anything.
LEMMA FollowsNone ==
    ASSUME NEW S, NEW s \in Seq(S), s # <<>>, NEW f, NEW g,
           Once(s, g), Head(s) = g, Follows(s, f, g)
    PROVE  ~Has(s, f)
<1>1. Len(s) \in Nat /\ Len(s) > 0 /\ DOMAIN s = 1 .. Len(s)
  BY EmptySeq, LenProperties
<1>2. s[1] = g /\ 1 \in 1 .. Len(s)
  BY <1>1
<1>3. PICK j \in 1 .. Len(s) : s[j] = g /\ \A i \in 1 .. Len(s) : s[i] = f => i < j
  BY <1>1 DEF Follows
<1>4. j = 1
  BY <1>1, <1>2, <1>3 DEF Once
<1>5. \A i \in 1 .. Len(s) : s[i] # f
  BY <1>1, <1>3, <1>4
<1>. QED
  BY <1>1, <1>5 DEF Has

LEMMA QueuedOnceMore ==
    ASSUME TypeOK, NEW l \in Loop, NEW f \in Functor,
           queue' = Push(queue, l, f), UNCHANGED <<batch, ran>>
    PROVE  \A k \in Loop : \A g :
              Once(Todo(k), g) /\ (f # g \/ k # l \/ ~Has(Todo(k), g)) => Once(Todo(k), g)'
<1> TAKE k \in Loop
<1> TAKE g
<1>1. Todo(k)' = (IF k = l THEN Append(Todo(l), f) ELSE Todo(k)) /\ Todo(k) \in Seq(Functor)
  BY TodoPush, TodoType
<1>2. CASE k = l
  <2>1. Once(Todo(l), g) /\ (f # g \/ ~Has(Todo(l), g)) => Once(Append(Todo(l), f), g)
    BY <1>1, <1>2, OnceAppend
  <2>. QED
    BY <1>1, <1>2, <2>1
<1>3. CASE k # l
  BY <1>1, <1>3
<1>. QED
  BY <1>2, <1>3

LEMMA RanOnce ==
    ASSUME TypeOK, NEW l \in Loop, NEW f, RunFunctor(l, f), UNCHANGED queue
    PROVE  \A k \in Loop : \A g :
              /\ ~(k = l /\ g = f) => (Has(Todo(k), g)' <=> Has(Todo(k), g))
              /\ Once(Todo(k), g) =>
                    /\ Once(Todo(k), g)'
                    /\ Has(Todo(k), g)' <=> Has(Todo(k), g) /\ ~(k = l /\ g = f)
<1>1. /\ Todo(l) # <<>> /\ Head(Todo(l)) = f /\ Todo(l) \in Seq(Functor)
      /\ \A k \in Loop : Todo(k)' = IF k = l THEN Tail(Todo(l)) ELSE Todo(k)
  BY TodoRun, TodoType
<1>2. \A g : Has(Todo(l), g) <=> f = g \/ Has(Tail(Todo(l)), g)
  BY <1>1, HasHead
<1>3. \A g : Once(Todo(l), g) =>
          Once(Tail(Todo(l)), g) /\ (f = g => ~Has(Tail(Todo(l)), g))
  BY <1>1, OnceTail
<1>4. ASSUME NEW k \in Loop, NEW g
      PROVE  /\ ~(k = l /\ g = f) => (Has(Todo(k), g)' <=> Has(Todo(k), g))
             /\ Once(Todo(k), g) =>
                   /\ Once(Todo(k), g)'
                   /\ Has(Todo(k), g)' <=> Has(Todo(k), g) /\ ~(k = l /\ g = f)
  <2>1. CASE k = l
    <3>1. Todo(k)' = Tail(Todo(l))
      BY <1>1, <2>1
    <3>. QED
      BY <1>2, <1>3, <2>1, <3>1
  <2>2. CASE k # l
    BY <1>1, <2>2
  <2>. QED
    BY <2>1, <2>2
<1>. QED
  BY <1>4

LEMMA RanAndQueuedOnce ==
    ASSUME TypeOK, NEW l \in Loop, NEW f, RunFunctor(l, f),
           NEW m \in Loop, NEW n \in Functor, queue' = Push(queue, m, n)
    PROVE  \A k \in Loop : \A g :
              /\ k = m /\ g = n => Has(Todo(k), g)'
              /\ ~(k = l /\ g = f) =>
                    (Has(Todo(k), g)' <=> Has(Todo(k), g) \/ (k = m /\ g = n))
              /\ Once(Todo(k), g) =>
                    /\ n # g \/ k # m \/ ~Has(Todo(k), g) => Once(Todo(k), g)'
                    /\ Has(Todo(k), g)' <=>
                          (Has(Todo(k), g) /\ ~(k = l /\ g = f)) \/ (k = m /\ g = n)
<1> DEFINE todo(k) == IF k = l THEN Tail(Todo(l)) ELSE Todo(k)
<1>1. /\ Todo(l) # <<>> /\ Head(Todo(l)) = f
      /\ \A k \in Loop : Todo(k) \in Seq(Functor)
      /\ \A k \in Loop : Todo(k)' = IF k = m THEN Append(todo(k), n) ELSE todo(k)
  BY TodoRunPush, TodoType
<1>2. \A k \in Loop : todo(k) \in Seq(Functor)
  BY <1>1, HeadTailProperties
<1>3. \A k \in Loop : \A g :
          /\ ~(k = l /\ g = f) => (Has(todo(k), g) <=> Has(Todo(k), g))
          /\ Once(Todo(k), g) =>
                Once(todo(k), g) /\ (Has(todo(k), g) <=> Has(Todo(k), g) /\ ~(k = l /\ g = f))
  BY <1>1, OnceTail, HasHead
<1> HIDE DEF todo
<1>4. ASSUME NEW k \in Loop, NEW g
      PROVE  /\ k = m /\ g = n => Has(Todo(k), g)'
             /\ ~(k = l /\ g = f) =>
                   (Has(Todo(k), g)' <=> Has(Todo(k), g) \/ (k = m /\ g = n))
             /\ Once(Todo(k), g) =>
                   /\ n # g \/ k # m \/ ~Has(Todo(k), g) => Once(Todo(k), g)'
                   /\ Has(Todo(k), g)' <=>
                         (Has(Todo(k), g) /\ ~(k = l /\ g = f)) \/ (k = m /\ g = n)
  <2>1. /\ ~(k = l /\ g = f) => (Has(todo(k), g) <=> Has(Todo(k), g))
        /\ Once(Todo(k), g) =>
              Once(todo(k), g) /\ (Has(todo(k), g) <=> Has(Todo(k), g) /\ ~(k = l /\ g = f))
    BY <1>3
  <2>2. CASE k = m
    <3>1. Has(Append(todo(k), n), g) <=> Has(todo(k), g) \/ n = g
      BY <1>2, HasAppend
    <3>2. Once(todo(k), g) /\ (n # g \/ ~Has(todo(k), g)) => Once(Append(todo(k), n), g)
      BY <1>2, OnceAppend
    <3>3. Todo(k)' = Append(todo(k), n)
      BY <1>1, <2>2
    <3>. QED
      BY <2>1, <2>2, <3>1, <3>2, <3>3
  <2>3. CASE k # m
    <3>1. Todo(k)' = todo(k)
      BY <1>1, <2>3
    <3>. QED
      BY <2>1, <2>3, <3>1
  <2>. QED
    BY <2>2, <2>3
<1>. QED
  BY <1>4

(***************************************************************************)
(* The life of a connection, given its loop.                               *)
(***************************************************************************)
E(c) == F("established", c)
D(c) == F("destroyed", c)
R(c) == F("remove", c)

LivesIn(k, c) ==
    LET r == conn[c]
    IN  /\ r.state = "none" <=> c >= nextConnId_
        /\ r.state = "connecting" <=> Has(Todo(k), E(c))
        /\ r.state \in {"none", "connecting", "connected"} =>
              ~r.readded /\ r.downs = 0 /\ r.removed = 0
        /\ r.state = "connected" => r.registered
        /\ r.state = "disconnected" => r.downs > 0
        /\ r.ups = IF r.state \in {"none", "connecting"} THEN 0 ELSE 1
        /\ ~r.readded =>
              /\ r.downs <= 1 /\ r.removed <= 1
              /\ Has(Todo(k), D(c)) => r.removed = 0
              /\ r.registered => /\ r.state \in {"connected", "disconnecting"}
                                 /\ r.downs = 0 /\ r.removed = 0
        /\ c \in connections_ => r.removed = 0 /\ ~Has(Todo(k), D(c))
        /\ c \in connections_ \/ Has(Todo(k), D(c)) \/ r.removed > 0 \/ r.state = "none"
        /\ server = "up" => c \in connections_ \/ r.downs > 0 \/ r.state = "none"
        /\ Has(Todo(Base), R(c)) =>
              r.downs > 0 /\ (server = "up" /\ ~r.readded => c \in connections_)

\* Its functors of the server's in loop k.
OnceFor(k, c) ==
    /\ Once(Todo(k), E(c))
    /\ ~conn[c].readded => Once(Todo(k), D(c)) /\ Once(Todo(k), R(c))

LEMMA LivesIs ==
    ASSUME NEW c \in Conn, NEW k
    PROVE  /\ conn[c].loop = k => (Lives(c) <=> LivesIn(k, c))
           /\ conn'[c].loop = k => (Lives(c)' <=> LivesIn(k, c)')
  BY DEF Lives, LivesIn, Todo, E, D, R

\* A step that does not touch the connection.
LEMMA LivesOn ==
    ASSUME NEW c \in Conn, Lives(c), conn'[c] = conn[c], NEW k, conn[c].loop = k,
           c >= nextConnId_' <=> c >= nextConnId_,
           c \in connections_' <=> c \in connections_,
           server' = "up" => server = "up",
           Has(Todo(k), E(c))' <=> Has(Todo(k), E(c)),
           Has(Todo(k), D(c))' <=> Has(Todo(k), D(c)),
           Has(Todo(Base), R(c))' <=> Has(Todo(Base), R(c))
    PROVE  Lives(c)'
<1>1. LivesIn(k, c) /\ conn'[c].loop = k
  BY LivesIs
<1>2. LivesIn(k, c)'
  BY <1>1 DEF LivesIn
<1>. QED
  BY <1>1, <1>2, LivesIs

\* What is queued once, of the functors of connections.
LEMMA OnceIs ==
    /\ QueuedOnce => \A k \in Loop, c \in Conn : OnceFor(k, c)
    /\ (\A k \in Loop, c \in Conn : OnceFor(k, c)') => QueuedOnce'
  BY DEF QueuedOnce, OnceFor, E, D, R

LEMMA OnceKept ==
    ASSUME NEW k, NEW c, OnceFor(k, c), ~conn'[c].readded => ~conn[c].readded,
           \A g : Once(Todo(k), g) => Once(Todo(k), g)'
    PROVE  OnceFor(k, c)'
  BY DEF OnceFor

LEMMA OnceSame ==
    ASSUME QueuedOnce, UNCHANGED conn, \A k \in Loop : Todo(k)' = Todo(k)
    PROVE  QueuedOnce'
<1>1. \A k \in Loop : \A g : Once(Todo(k), g) => Once(Todo(k), g)'
  OBVIOUS
<1>2. \A k \in Loop, c \in Conn : OnceFor(k, c)'
  BY <1>1, OnceIs, OnceKept
<1>. QED
  BY <1>2, OnceIs

LEMMA Differ ==
    \A c, d :
        /\ E(c) # D(d) /\ E(c) # R(d) /\ D(c) # R(d)
        /\ E(c) # F("listen", Acceptor)
        /\ D(c) # F("listen", Acceptor)
        /\ R(c) # F("listen", Acceptor)
        /\ \A op \in {"send", "shutdown"} :
              E(c) # F(op, d) /\ D(c) # F(op, d) /\ R(c) # F(op, d)
        /\ (E(c) = E(d) \/ D(c) = D(d) \/ R(c) = R(d)) => c = d
  BY FunctorsDiffer DEF E, D, R

LEMMA OncePushed ==
    ASSUME NEW k, NEW c, NEW l, NEW f \in {D(c), R(c)}, OnceFor(k, c),
           ~conn'[c].readded => ~conn[c].readded,
           ~conn[c].readded => ~Has(Todo(l), f),
           \A g : Once(Todo(k), g) /\ (f # g \/ k # l \/ ~Has(Todo(k), g)) =>
                      Once(Todo(k), g)'
    PROVE  OnceFor(k, c)'
<1>1. f # E(c)
  BY Differ
<1>. QED
  BY <1>1 DEF OnceFor

\* The whole of EndsInv, in these terms.
LEMMA EndsInvHas ==
    ASSUME EndsInv
    PROVE  /\ TypeOK /\ Phases /\ InOwnLoop /\ NotForgotten /\ Base \in Loop /\ QueuedOnce
           /\ nextConnId_ \in Nat
           /\ \A c \in Conn :
                 /\ conn[c] \in Connection /\ conn[c].loop \in Loop
                 /\ Lives(c) /\ LivesIn(conn[c].loop, c)
                 /\ c \in Nat /\ (c \in connections_ => c < nextConnId_)
           /\ \A k \in Loop, c \in Conn :
                 /\ OnceFor(k, c)
                 /\ Has(Todo(k), E(c)) => c < nextConnId_ /\ conn[c].loop = k /\ k # Base
                 /\ Has(Todo(k), D(c)) => c < nextConnId_ /\ conn[c].loop = k
                 /\ Has(Todo(k), R(c)) => c < nextConnId_
<1>1. /\ TypeOK /\ Phases /\ InOwnLoop /\ NotForgotten /\ Base \in Loop /\ QueuedOnce
      /\ nextConnId_ \in Nat
  BY LoopIs DEF EndsInv, ServerInv, TypeOK
<1>2. ASSUME NEW c \in Conn
      PROVE  /\ conn[c] \in Connection /\ conn[c].loop \in Loop
             /\ Lives(c) /\ LivesIn(conn[c].loop, c)
             /\ c \in Nat /\ (c \in connections_ => c < nextConnId_)
  <2>0. conn[c] \in Connection /\ Lives(c)
    BY <1>1 DEF EndsInv, TypeOK
  <2>1. conn[c] \in Connection /\ conn[c].loop \in Loop /\ Lives(c) /\ c \in Nat
    BY <2>0, Fields DEF Conn
  <2>2. LivesIn(conn[c].loop, c)
    BY <2>1, LivesIs
  <2>3. c \in connections_ => c < nextConnId_
    BY <1>1 DEF TypeOK
  <2>. QED
    BY <2>1, <2>2, <2>3
<1>3. ASSUME NEW k \in Loop, NEW c \in Conn
      PROVE  /\ OnceFor(k, c)
             /\ Has(Todo(k), E(c)) => c < nextConnId_ /\ conn[c].loop = k /\ k # Base
             /\ Has(Todo(k), D(c)) => c < nextConnId_ /\ conn[c].loop = k
             /\ Has(Todo(k), R(c)) => c < nextConnId_
  <2>1. OnceFor(k, c)
    BY <1>1, OnceIs
  <2>2. /\ Has(Todo(k), E(c)) => c < nextConnId_ /\ conn[c].loop = k /\ k # Base
        /\ Has(Todo(k), D(c)) => c < nextConnId_ /\ conn[c].loop = k
        /\ Has(Todo(k), R(c)) => c < nextConnId_
    BY <1>1 DEF InOwnLoop, E, D, R
  <2>. QED
    BY <2>1, <2>2
<1>. QED
  BY <1>1, <1>2, <1>3

\* newConnection makes c.
LEMMA NewConnectionStarts ==
    ASSUME TypeOK, nextConnId_ \in Conn, NewConnection(nextConnId_)
    PROVE  LET c == nextConnId_ IN
           /\ conn'[c].downs = conn[c].downs /\ conn'[c].removed = conn[c].removed
           /\ conn'[c].readded = conn[c].readded
           /\ NextLoop = Base =>
                 conn'[c].state = "connected" /\ conn'[c].ups = conn[c].ups + 1
           /\ NextLoop # Base =>
                 conn'[c].state = "connecting" /\ conn'[c].ups = conn[c].ups
<1> DEFINE c == nextConnId_
           r == [conn[c] EXCEPT !.loop = NextLoop, !.state = "connecting"]
<1>1. /\ r \in Connection /\ conn \in [Conn -> Connection] /\ r.state = "connecting"
      /\ r.ups = conn[c].ups /\ r.downs = conn[c].downs /\ r.removed = conn[c].removed
      /\ r.readded = conn[c].readded
  BY NextLoopIs DEF TypeOK, Connection, State
<1>2. /\ NextLoop = Base => conn' = [conn EXCEPT ![c] = Established(r)]
      /\ NextLoop # Base => conn' = [conn EXCEPT ![c] = r]
  BY DEF NewConnection, Create
<1>3. /\ NextLoop = Base => conn'[c] = Established(r)
      /\ NextLoop # Base => conn'[c] = r
  BY <1>1, <1>2
<1> HIDE DEF r
<1>4. /\ Established(r).state = "connected" /\ Established(r).ups = r.ups + 1
      /\ Established(r).downs = r.downs /\ Established(r).removed = r.removed
      /\ Established(r).readded = r.readded
  BY <1>1, Effects
<1>. QED
  BY <1>1, <1>3, <1>4

LEMMA EndsStep == EndsInv /\ [Next]_vars => (\A c \in Conn : Lives(c)') /\ QueuedOnce'
<1> SUFFICES ASSUME EndsInv, [Next]_vars
             PROVE  (\A c \in Conn : Lives(c)') /\ QueuedOnce'
  OBVIOUS
<1> DEFINE Goal == (\A c \in Conn : Lives(c)') /\ QueuedOnce'
           L == F("listen", Acceptor)
<1>0. /\ TypeOK /\ Phases /\ InOwnLoop /\ NotForgotten /\ Base \in Loop /\ QueuedOnce
      /\ nextConnId_ \in Nat
      /\ \A c \in Conn :
            /\ conn[c] \in Connection /\ conn[c].loop \in Loop
            /\ Lives(c) /\ LivesIn(conn[c].loop, c)
            /\ c \in Nat /\ (c \in connections_ => c < nextConnId_)
      /\ \A k \in Loop, c \in Conn :
            /\ OnceFor(k, c)
            /\ Has(Todo(k), E(c)) => c < nextConnId_ /\ conn[c].loop = k /\ k # Base
            /\ Has(Todo(k), D(c)) => c < nextConnId_ /\ conn[c].loop = k
            /\ Has(Todo(k), R(c)) => c < nextConnId_
  BY EndsInvHas
\* A step of no connection, and a step of one.
<1>00. ASSUME UNCHANGED <<conn, connections_, nextConnId_>>,
              server' = "up" => server = "up",
              \A k \in Loop : Todo(k)' = Todo(k)
       PROVE  Goal
  <2>1. \A c \in Conn : \A k \in Loop :
            /\ Has(Todo(k), E(c))' <=> Has(Todo(k), E(c))
            /\ Has(Todo(k), D(c))' <=> Has(Todo(k), D(c))
            /\ Has(Todo(k), R(c))' <=> Has(Todo(k), R(c))
    BY <1>00, NothingNew
  <2>2. \A c \in Conn : Lives(c)'
    BY <1>0, <1>00, <2>1, LivesOn
  <2>. QED
    BY <1>0, <1>00, <2>2, OnceSame
<1>01. ASSUME UNCHANGED <<conn, connections_, nextConnId_, batch, ran, queue>>,
              server' = "up" => server = "up"
       PROVE  Goal
  BY <1>00, <1>01, TodoSame
<1>02. ASSUME UNCHANGED <<conn, connections_, nextConnId_, server>>,
              \A k \in Loop, d \in Conn :
                  /\ Has(Todo(k), E(d))' <=> Has(Todo(k), E(d))
                  /\ Has(Todo(k), D(d))' <=> Has(Todo(k), D(d))
                  /\ Has(Todo(k), R(d))' <=> Has(Todo(k), R(d))
                  /\ Once(Todo(k), E(d)) => Once(Todo(k), E(d))'
                  /\ Once(Todo(k), D(d)) => Once(Todo(k), D(d))'
                  /\ Once(Todo(k), R(d)) => Once(Todo(k), R(d))'
       PROVE  Goal
  <2>1. \A c \in Conn : Lives(c)'
    BY <1>0, <1>02, LivesOn
  <2>2. ASSUME NEW k \in Loop, NEW d \in Conn PROVE OnceFor(k, d)'
    <3>1. OnceFor(k, d) /\ conn'[d] = conn[d]
      BY <1>0, <1>02
    <3>. QED
      BY <1>02, <3>1 DEF OnceFor
  <2>. QED
    BY <2>1, <2>2, OnceIs
<1>03. ASSUME NEW c \in Conn, NEW k, conn'[c].loop = k, LivesIn(k, c)',
              server' = server,
              \A d \in Conn : d # c => /\ conn'[d] = conn[d]
                                       /\ d \in connections_' <=> d \in connections_
                                       /\ d >= nextConnId_' <=> d >= nextConnId_,
              \A l \in Loop, d \in Conn : d # c =>
                  /\ Has(Todo(l), E(d))' <=> Has(Todo(l), E(d))
                  /\ Has(Todo(l), D(d))' <=> Has(Todo(l), D(d))
                  /\ Has(Todo(l), R(d))' <=> Has(Todo(l), R(d))
                  /\ Once(Todo(l), E(d)) => Once(Todo(l), E(d))'
                  /\ Once(Todo(l), D(d)) => Once(Todo(l), D(d))'
                  /\ Once(Todo(l), R(d)) => Once(Todo(l), R(d))',
              \A l \in Loop : OnceFor(l, c)'
       PROVE  Goal
  <2>1. Lives(c)'
    BY <1>03, LivesIs
  <2>2. ASSUME NEW d \in Conn, d # c PROVE Lives(d)'
    BY <1>0, <1>03, <2>2, LivesOn
  <2>3. ASSUME NEW l \in Loop, NEW d \in Conn, d # c PROVE OnceFor(l, d)'
    <3>1. OnceFor(l, d) /\ conn'[d] = conn[d]
      BY <1>0, <1>03, <2>3
    <3>. QED
      BY <1>03, <2>3, <3>1 DEF OnceFor
  <2>. QED
    BY <1>03, <2>1, <2>2, <2>3, OnceIs
\* shutdown() assigns state_.
<1>04. ASSUME NEW c \in Conn, conn' = [conn EXCEPT ![c].state = "disconnecting"],
              conn[c].state \notin {"none", "connecting"},
              UNCHANGED <<server, nextConnId_, connections_, batch, ran, queue>>
       PROVE  Goal
  <2>2. PICK l \in Loop : conn[c].loop = l
    BY <1>0
  <2>3. /\ conn'[c].state = "disconnecting" /\ conn'[c].registered = conn[c].registered
        /\ conn'[c].ups = conn[c].ups /\ conn'[c].downs = conn[c].downs
        /\ conn'[c].removed = conn[c].removed /\ conn'[c].loop = l
        /\ conn'[c].readded = conn[c].readded
        /\ \A d \in Conn : d # c => conn'[d] = conn[d]
    BY <1>0, <1>04, <2>2 DEF TypeOK, Connection
  <2>4. \A k \in Loop : \A g : /\ Has(Todo(k), g)' <=> Has(Todo(k), g)
                               /\ Once(Todo(k), g)' <=> Once(Todo(k), g)
    BY <1>04, TodoSame, NothingNew
  <2>5. LivesIn(l, c)
    BY <1>0, <2>2
  <2>6. LivesIn(l, c)'
    BY <1>0, <1>04, <2>3, <2>4, <2>5 DEF LivesIn
  <2>7. \A k \in Loop : OnceFor(k, c)'
    BY <1>0, <2>3, <2>4, OnceKept
  <2>. QED
    BY <1>03, <1>04, <2>3, <2>4, <2>6, <2>7
\* A functor that is not of the server's comes or goes.
<1>05. ASSUME NEW l \in Loop, NEW f, RunFunctor(l, f),
              UNCHANGED <<server, nextConnId_, connections_, conn, queue>>,
              \A d \in Conn : f # E(d) /\ f # D(d) /\ f # R(d)
       PROVE  Goal
  <2>1. \A k \in Loop : \A g : f # g =>
            /\ Has(Todo(k), g)' <=> Has(Todo(k), g)
            /\ Once(Todo(k), g) => Once(Todo(k), g)'
    BY <1>0, <1>05, RanOnce
  <2>. QED
    BY <1>02, <1>05, <2>1
<1>06. ASSUME NEW l \in Loop, NEW f \in Functor, queue' = Push(queue, l, f),
              UNCHANGED <<server, nextConnId_, connections_, conn, batch, ran>>,
              \A d \in Conn : f # E(d) /\ f # D(d) /\ f # R(d)
       PROVE  Goal
  <2>1. \A k \in Loop : \A g : f # g =>
            /\ Has(Todo(k), g)' <=> Has(Todo(k), g)
            /\ Once(Todo(k), g) => Once(Todo(k), g)'
    BY <1>0, <1>06, Queued, QueuedOnceMore
  <2>. QED
    BY <1>02, <1>06, <2>1
<1> USE DEF startVars, acceptVars, connVars, outerVars, loopVars
<1>1. ASSUME NEW n \in 0 .. Len(Threads), SetThreadNum(n) PROVE Goal
  BY <1>1, <1>01 DEF SetThreadNum
<1>2. ASSUME NEW t \in Starter, Start(t) PROVE Goal
  BY <1>2, <1>01 DEF Start
<1>3. ASSUME NEW t \in Starter, StartPool(t) PROVE Goal
  BY <1>3, <1>01 DEF StartPool
<1>4. ASSUME NEW t \in Starter, StartListening(t) PROVE Goal
  <2>1. UNCHANGED <<conn, connections_, nextConnId_, server, batch, ran>>
    BY <1>4 DEF StartListening
  <2>2. CASE queue' = queue
    BY <2>1, <2>2, <1>01
  <2>3. CASE queue' = Push(queue, Base, L)
    <3>1. L \in Functor /\ \A d \in Conn : L # E(d) /\ L # D(d) /\ L # R(d)
      BY FunctorIs, Differ
    <3>. QED
      BY <1>0, <1>06, <2>1, <2>3, <3>1
  <2>. QED
    BY <1>4, <2>2, <2>3 DEF StartListening
<1>5. ASSUME NEW l \in Loop, Poll(l) PROVE Goal
  BY <1>5, <1>01 DEF Poll
<1>6. CASE HandleAccept
  <2>0. AcceptOne /\ UNCHANGED <<server, batch, ran>> /\ nextConnId_ \in Conn
    BY <1>0, <1>6, ServerAssumption DEF HandleAccept, Phases, TypeOK, Conn
  <2>9. PICK n \in Conn, m \in Loop : n = nextConnId_ /\ m = NextLoop
    BY <1>0, <2>0, NextLoopIs
  <2>1. AcceptOne /\ UNCHANGED <<server, batch, ran>> /\ n = nextConnId_ /\ m = NextLoop
    BY <2>0, <2>9
  <2>2. CASE ~(OpenFds < MaxFds)
    BY <2>1, <2>2, <1>01 DEF AcceptOne
  <2>3. CASE OpenFds < MaxFds
    <3>1. NewConnection(nextConnId_) /\ nextConnId_ \in Conn
      BY <2>0, <2>3 DEF AcceptOne
    <3>2. /\ nextConnId_' = n + 1 /\ connections_' = connections_ \union {n}
          /\ \A d \in Conn : d # n => conn'[d] = conn[d]
          /\ conn'[n].loop = m
          /\ m = Base => conn'[n].registered /\ queue' = queue
          /\ m # Base => /\ conn'[n].registered = conn[n].registered
                                /\ queue' = Push(queue, m, E(n))
      BY <1>0, <2>1, <3>1, NewConnectionIs, NextLoopIs DEF E
    <3>3. /\ conn'[n].downs = conn[n].downs /\ conn'[n].removed = conn[n].removed
          /\ conn'[n].readded = conn[n].readded
          /\ m = Base =>
                conn'[n].state = "connected" /\ conn'[n].ups = conn[n].ups + 1
          /\ m # Base =>
                conn'[n].state = "connecting" /\ conn'[n].ups = conn[n].ups
      BY <1>0, <2>1, <3>1, NewConnectionStarts
    <3>4. \A k \in Loop : ~Has(Todo(k), E(n)) /\ ~Has(Todo(k), D(n)) /\ ~Has(Todo(k), R(n))
      BY <1>0, <2>1
    <3>5. \A k \in Loop :
              /\ \A d \in Conn :
                    /\ Has(Todo(k), E(d))' <=>
                          Has(Todo(k), E(d)) \/ (k = m /\ m # Base /\ d = n)
                    /\ Has(Todo(k), D(d))' <=> Has(Todo(k), D(d))
                    /\ Has(Todo(k), R(d))' <=> Has(Todo(k), R(d))
              /\ \A g : Once(Todo(k), g) => Once(Todo(k), g)'
      <4>1. CASE m = Base
        <5>1. \A k \in Loop : Todo(k)' = Todo(k)
          BY <2>1, <3>2, <4>1, TodoSame
        <5>2. \A k \in Loop : \A g : Once(Todo(k), g)' <=> Once(Todo(k), g)
          BY <5>1
        <5>. QED
          BY <4>1, <5>1, <5>2, NothingNew
      <4>2. CASE m # Base
        <5>1. E(n) \in Functor /\ queue' = Push(queue, m, E(n))
          BY <2>1, <3>2, <4>2, FunctorIs DEF E
        <5>2. \A k \in Loop : \A g :
                  /\ Has(Todo(k), g)' <=> Has(Todo(k), g) \/ (k = m /\ g = E(n))
                  /\ Once(Todo(k), g) /\ (E(n) # g \/ ~Has(Todo(k), g)) => Once(Todo(k), g)'
          BY <1>0, <2>1, <3>2, <5>1, Queued, QueuedOnceMore
        <5>3. \A k \in Loop : \A g : Once(Todo(k), g) => Once(Todo(k), g)'
          BY <3>4, <5>2
        <5>. QED
          BY <4>2, <5>2, <5>3, Differ
      <4>. QED
        BY <4>1, <4>2
    <3>6. LivesIn(m, n)'
      <4>1. /\ conn[n].state = "none" /\ conn[n].ups = 0 /\ conn[n].downs = 0
            /\ conn[n].removed = 0 /\ ~conn[n].registered /\ ~conn[n].readded
        BY <1>0, <2>1 DEF LivesIn
      <4>2. n < nextConnId_' /\ n \in connections_'
        BY <1>0, <3>2
      <4>3. /\ Has(Todo(m), E(n))' <=> m # Base
            /\ ~Has(Todo(m), D(n))' /\ ~Has(Todo(Base), R(n))'
        BY <1>0, <2>1, <3>2, <3>4, <3>5
      <4>4. CASE m = Base
        <5>1. /\ conn'[n].state = "connected" /\ conn'[n].ups = 1 /\ conn'[n].downs = 0
              /\ conn'[n].removed = 0 /\ conn'[n].registered /\ ~conn'[n].readded
          BY <3>2, <3>3, <4>1, <4>4
        <5>. QED
          BY <1>0, <3>2, <4>2, <4>3, <4>4, <5>1 DEF LivesIn
      <4>5. CASE m # Base
        <5>1. /\ conn'[n].state = "connecting" /\ conn'[n].ups = 0 /\ conn'[n].downs = 0
              /\ conn'[n].removed = 0 /\ ~conn'[n].registered /\ ~conn'[n].readded
          BY <3>2, <3>3, <4>1, <4>5
        <5>. QED
          BY <1>0, <3>2, <4>2, <4>3, <4>5, <5>1 DEF LivesIn
      <4>. QED
        BY <4>4, <4>5
    <3>7. ASSUME NEW d \in Conn, d # n
          PROVE  /\ conn'[d] = conn[d]
                 /\ d \in connections_' <=> d \in connections_
                 /\ d >= nextConnId_' <=> d >= nextConnId_
      <4>1. d \in Nat /\ n \in Nat /\ nextConnId_' = nextConnId_ + 1 /\ d # nextConnId_
        BY <1>0, <2>1, <3>2, <3>7
      <4>2. d >= nextConnId_' <=> d >= nextConnId_
        BY <1>0, <4>1
      <4>. QED
        BY <3>2, <3>7, <4>2
    <3>8. conn'[n].loop = m /\ server' = server
      BY <2>1, <3>2
    <3>9. ASSUME NEW k \in Loop, NEW d \in Conn, d # n
          PROVE  /\ Has(Todo(k), E(d))' <=> Has(Todo(k), E(d))
                 /\ Has(Todo(k), D(d))' <=> Has(Todo(k), D(d))
                 /\ Has(Todo(k), R(d))' <=> Has(Todo(k), R(d))
      BY <3>5, <3>9
    <3>10. \A k \in Loop : OnceFor(k, n)'
      BY <1>0, <3>3, <3>5, OnceKept
    <3>11. \A k \in Loop : \A g : Once(Todo(k), g) => Once(Todo(k), g)'
      BY <3>5
    <3>. QED
      BY <1>03, <3>6, <3>7, <3>8, <3>9, <3>10, <3>11
  <2>. QED
    BY <2>2, <2>3
<1>7. ASSUME NEW l \in Loop, NEW c \in Conn, HandleClose(l, c) PROVE Goal
  <2>1. /\ UNCHANGED <<server, nextConnId_, batch, ran>>
        /\ c \in active[l] /\ c # Acceptor /\ Runs(l)
        /\ \/ UNCHANGED <<conn, connections_, queue>>
           \/ /\ conn' = [conn EXCEPT ![c] = Down(conn[c])]
              /\ \/ server = "gone" /\ UNCHANGED <<connections_, queue>>
                 \/ /\ l = Base /\ server # "gone" /\ connections_' = connections_ \ {c}
                    /\ queue' = Push(queue, conn[c].loop, D(c))
                 \/ connections_' = connections_ /\ queue' = Push(queue, Base, R(c))
    BY <1>0, <1>7, HandleCloseIs DEF D, R
  <2>2. CASE UNCHANGED <<conn, connections_, queue>>
    BY <1>01, <2>1, <2>2
  <2>3. CASE /\ conn' = [conn EXCEPT ![c] = Down(conn[c])]
             /\ \/ server = "gone" /\ UNCHANGED <<connections_, queue>>
                \/ /\ l = Base /\ server # "gone" /\ connections_' = connections_ \ {c}
                   /\ queue' = Push(queue, conn[c].loop, D(c))
                \/ connections_' = connections_ /\ queue' = Push(queue, Base, R(c))
    <3>1. conn[c].registered /\ conn[c].loop = l /\ c < nextConnId_
      BY <1>0, <2>1 DEF InOwnLoop
    <3>2. /\ conn'[c].state = "disconnected" /\ conn'[c].registered = FALSE
          /\ conn'[c].downs = conn[c].downs + 1 /\ conn'[c].loop = l
          /\ conn'[c].ups = conn[c].ups /\ conn'[c].removed = conn[c].removed
          /\ conn'[c].readded = conn[c].readded
          /\ \A d \in Conn : d # c => conn'[d] = conn[d]
      BY <1>0, <2>3, <3>1, Effects DEF TypeOK
    <3>3. conn[c].downs \in Nat /\ conn'[c].downs > 0 /\ ~(c >= nextConnId_)
      BY <1>0, <3>1, <3>2, Fields
    <3>4. LivesIn(l, c) /\ conn[c].state \notin {"none", "connecting"}
      <4>1. LivesIn(l, c)
        BY <1>0, <3>1
      <4>. QED
        BY <3>1, <3>3, <4>1 DEF LivesIn
    <3>5. /\ conn[c].ups = 1 /\ ~Has(Todo(l), E(c))
          /\ c \in connections_ \/ Has(Todo(l), D(c)) \/ conn[c].removed > 0
          /\ c \in connections_ => conn[c].removed = 0 /\ ~Has(Todo(l), D(c))
      BY <3>4 DEF LivesIn
    <3>6. ~conn[c].readded => /\ conn[c].removed = 0 /\ conn[c].downs = 0
                              /\ ~Has(Todo(Base), R(c))
                              /\ server = "up" => c \in connections_
      BY <3>1, <3>4 DEF LivesIn
    <3>7. CASE server = "gone" /\ UNCHANGED <<connections_, queue>>
      <4>1. \A k \in Loop : \A g : /\ Has(Todo(k), g)' <=> Has(Todo(k), g)
                                   /\ Once(Todo(k), g)' <=> Once(Todo(k), g)
        BY <2>1, <3>7, TodoSame, NothingNew
      <4>2. LivesIn(l, c)'
        BY <1>0, <2>1, <3>2, <3>3, <3>5, <3>6, <3>7, <4>1 DEF LivesIn
      <4>3. \A k \in Loop : OnceFor(k, c)'
        BY <1>0, <3>2, <4>1, OnceKept
      <4>. QED
        BY <1>03, <2>1, <3>2, <3>7, <4>1, <4>2, <4>3
    <3>8. CASE /\ l = Base /\ server # "gone" /\ connections_' = connections_ \ {c}
               /\ queue' = Push(queue, conn[c].loop, D(c))
      <4>1. D(c) \in Functor /\ server = "up" /\ queue' = Push(queue, l, D(c))
        BY <1>0, <2>1, <3>1, <3>8, FunctorIs DEF D, Runs, TypeOK
      <4>2. \A k \in Loop : \A g :
                /\ Has(Todo(k), g)' <=> Has(Todo(k), g) \/ (k = l /\ g = D(c))
                /\ Once(Todo(k), g) /\ (D(c) # g \/ k # l \/ ~Has(Todo(k), g)) =>
                      Once(Todo(k), g)'
        BY <1>0, <2>1, <4>1, Queued, QueuedOnceMore
      <4>3. /\ ~Has(Todo(l), E(c))' /\ Has(Todo(l), D(c))'
            /\ Has(Todo(Base), R(c))' <=> Has(Todo(Base), R(c))
        BY <1>0, <3>5, <4>2, Differ
      <4>4. LivesIn(l, c)'
        BY <1>0, <2>1, <3>2, <3>3, <3>5, <3>6, <3>8, <4>3 DEF LivesIn
      <4>5. \A k \in Loop : OnceFor(k, c)'
        BY <1>0, <3>2, <3>5, <3>6, <4>1, <4>2, OncePushed
      <4>6. \A k \in Loop, d \in Conn : d # c =>
                D(c) # E(d) /\ D(c) # D(d) /\ D(c) # R(d)
        BY Differ
      <4>. QED
        BY <1>03, <2>1, <3>2, <3>8, <4>2, <4>4, <4>5, <4>6
    <3>9. CASE connections_' = connections_ /\ queue' = Push(queue, Base, R(c))
      <4>1. R(c) \in Functor
        BY FunctorIs DEF R
      <4>2. \A k \in Loop : \A g :
                /\ Has(Todo(k), g)' <=> Has(Todo(k), g) \/ (k = Base /\ g = R(c))
                /\ Once(Todo(k), g) /\ (R(c) # g \/ k # Base \/ ~Has(Todo(k), g)) =>
                      Once(Todo(k), g)'
        BY <1>0, <2>1, <3>9, <4>1, Queued, QueuedOnceMore
      <4>3. /\ ~Has(Todo(l), E(c))'
            /\ Has(Todo(l), D(c))' <=> Has(Todo(l), D(c))
        BY <3>5, <4>2, Differ
      <4>4. LivesIn(l, c)'
        BY <1>0, <2>1, <3>2, <3>3, <3>5, <3>6, <3>9, <4>3 DEF LivesIn
      <4>5. \A k \in Loop : OnceFor(k, c)'
        BY <1>0, <3>2, <3>6, <4>1, <4>2, OncePushed
      <4>6. \A k \in Loop, d \in Conn : d # c =>
                R(c) # E(d) /\ R(c) # D(d) /\ R(c) # R(d)
        BY Differ
      <4>. QED
        BY <1>03, <2>1, <3>2, <3>9, <4>2, <4>4, <4>5, <4>6
    <3>. QED
      BY <2>3, <3>7, <3>8, <3>9
  <2>. QED
    BY <2>1, <2>2, <2>3
<1>8. ASSUME NEW c \in Conn, OwnShutdown(c) PROVE Goal
  BY <1>8, <1>04 DEF OwnShutdown
<1>9. ASSUME NEW l \in Loop, SwapPending(l) PROVE Goal
  BY <1>0, <1>9, <1>00, TodoSwap DEF SwapPending
<1>11. ASSUME NEW l \in Loop, EndBatch(l) PROVE Goal
  BY <1>0, <1>11, <1>00, TodoEnd DEF EndBatch
<1>12. CASE Listen
  <2>1. RunFunctor(Base, L) /\ UNCHANGED <<server, nextConnId_, connections_, conn, queue>>
    BY <1>12 DEF Listen
  <2>. QED
    BY <1>0, <1>05, <2>1, Differ
<1>13. ASSUME NEW l \in Loop, NEW c \in Conn, ConnectionEstablished(l, c) PROVE Goal
  <2>1. /\ RunFunctor(l, E(c)) /\ UNCHANGED <<server, nextConnId_, connections_, queue>>
        /\ conn' = [conn EXCEPT ![c] = Established(conn[c])]
    BY <1>13 DEF ConnectionEstablished, E
  <2>2. Has(Todo(l), E(c)) /\ conn[c].loop = l
    BY <1>0, <2>1, Ran
  <2>3. /\ conn'[c].state = "connected" /\ conn'[c].registered = TRUE
        /\ conn'[c].ups = conn[c].ups + 1 /\ conn'[c].downs = conn[c].downs
        /\ conn'[c].removed = conn[c].removed /\ conn'[c].loop = l
        /\ conn'[c].readded = conn[c].readded
        /\ \A d \in Conn : d # c => conn'[d] = conn[d]
    BY <1>0, <2>1, <2>2, Effects DEF TypeOK
  <2>4. \A k \in Loop : \A g :
            /\ E(c) # g => (Has(Todo(k), g)' <=> Has(Todo(k), g))
            /\ Once(Todo(k), g) =>
                  /\ Once(Todo(k), g)'
                  /\ Has(Todo(k), g)' <=> Has(Todo(k), g) /\ ~(k = l /\ g = E(c))
    BY <1>0, <2>1, RanOnce
  <2>5. /\ ~Has(Todo(l), E(c))'
        /\ Has(Todo(l), D(c))' <=> Has(Todo(l), D(c))
        /\ Has(Todo(Base), R(c))' <=> Has(Todo(Base), R(c))
    <3>1. Once(Todo(l), E(c))
      BY <1>0 DEF OnceFor
    <3>. QED
      BY <1>0, <2>4, <3>1, Differ
  <2>6. LivesIn(l, c)'
    <3>1. LivesIn(l, c)
      BY <1>0, <2>2
    <3>2. /\ conn[c].state = "connecting" /\ conn[c].ups = 0 /\ conn[c].downs = 0
          /\ conn[c].removed = 0 /\ ~conn[c].readded
          /\ ~(c >= nextConnId_) /\ ~Has(Todo(Base), R(c))
      BY <2>2, <3>1 DEF LivesIn
    <3>3. /\ conn'[c].state = "connected" /\ conn'[c].ups = 1 /\ conn'[c].downs = 0
          /\ conn'[c].removed = 0 /\ ~conn'[c].readded /\ conn'[c].registered
      BY <2>3, <3>2
    <3>. QED
      BY <2>1, <2>5, <3>1, <3>2, <3>3 DEF LivesIn
  <2>7. \A d \in Conn : d # c => E(c) # E(d) /\ E(c) # D(d) /\ E(c) # R(d)
    BY Differ
  <2>8. \A k \in Loop : OnceFor(k, c)'
    BY <1>0, <2>3, <2>4, OnceKept
  <2>. QED
    BY <1>03, <2>1, <2>3, <2>4, <2>6, <2>7, <2>8
<1>14. ASSUME NEW c \in Conn, RemoveConnectionInLoop(c) PROVE Goal
  <2>1. /\ RunFunctor(Base, R(c)) /\ UNCHANGED <<server, nextConnId_, conn>>
        /\ connections_' = connections_ \ {c}
        /\ server # "gone" => server = "up"
        /\ server = "gone" => connections_ = {} /\ queue' = queue
        /\ server # "gone" => queue' = Push(queue, conn[c].loop, D(c))
    <3>1. /\ RunFunctor(Base, R(c)) /\ UNCHANGED <<server, nextConnId_, conn>>
          /\ connections_' = connections_ \ {c}
          /\ server = "gone" => queue' = queue
          /\ server # "gone" => queue' = Push(queue, conn[c].loop, D(c))
      BY <1>14 DEF RemoveConnectionInLoop, D, R
    <3>2. server # "dying" /\ server \in {"up", "dying", "gone"}
      BY <1>0, <3>1 DEF RunFunctor, Runs, TypeOK
    <3>3. server = "gone" => connections_ = {}
      BY <1>0 DEF Phases
    <3>. QED
      BY <3>1, <3>2, <3>3
  <2>2. PICK l \in Loop : conn[c].loop = l
    BY <1>0
  <2>3. /\ Has(Todo(Base), R(c)) /\ LivesIn(l, c) /\ conn[c].downs > 0
        /\ ~Has(Todo(l), E(c))
    <3>1. Todo(Base) # <<>> /\ Head(Todo(Base)) = R(c) /\ Todo(Base) \in Seq(Functor)
      BY <1>0, <2>1, TodoRun, TodoType
    <3>2. Has(Todo(Base), R(c))
      BY <3>1, HasHead
    <3>3. LivesIn(l, c)
      BY <1>0, <2>2
    <3>. QED
      BY <3>2, <3>3 DEF LivesIn
  <2>0. ~conn[c].readded => Once(Todo(Base), R(c))
    BY <1>0 DEF OnceFor
  <2>4. CASE server = "gone"
    <3>1. \A k \in Loop : \A g :
              /\ R(c) # g => (Has(Todo(k), g)' <=> Has(Todo(k), g))
              /\ Once(Todo(k), g) =>
                    /\ Once(Todo(k), g)'
                    /\ Has(Todo(k), g)' <=> Has(Todo(k), g) /\ ~(k = Base /\ g = R(c))
      BY <1>0, <2>1, <2>4, RanOnce
    <3>2. /\ Has(Todo(l), E(c))' <=> Has(Todo(l), E(c))
          /\ Has(Todo(l), D(c))' <=> Has(Todo(l), D(c))
      BY <3>1, Differ
    <3>3. LivesIn(l, c)'
      BY <1>0, <2>1, <2>3, <2>4, <3>2 DEF LivesIn
    <3>4. \A d \in Conn : d # c => R(c) # E(d) /\ R(c) # D(d) /\ R(c) # R(d)
      BY Differ
    <3>5. \A k \in Loop : OnceFor(k, c)'
      BY <1>0, <2>1, <3>1, OnceKept
    <3>. QED
      BY <1>03, <2>1, <2>2, <3>1, <3>3, <3>4, <3>5
  <2>5. CASE server # "gone"
    <3>1. D(c) \in Functor /\ server = "up"
      BY <2>1, <2>5, FunctorIs DEF D
    <3>2. ~conn[c].readded => ~Has(Todo(l), D(c)) /\ conn[c].removed = 0
      BY <2>3, <3>1 DEF LivesIn
    <3>3. \A k \in Loop : \A g :
              /\ k = l /\ g = D(c) => Has(Todo(k), g)'
              /\ ~(k = Base /\ g = R(c)) =>
                    (Has(Todo(k), g)' <=> Has(Todo(k), g) \/ (k = l /\ g = D(c)))
              /\ Once(Todo(k), g) =>
                    /\ D(c) # g \/ k # l \/ ~Has(Todo(k), g) => Once(Todo(k), g)'
                    /\ Has(Todo(k), g)' <=>
                          (Has(Todo(k), g) /\ ~(k = Base /\ g = R(c))) \/ (k = l /\ g = D(c))
      BY <1>0, <2>1, <2>2, <2>5, <3>1, RanAndQueuedOnce
    <3>4. /\ ~Has(Todo(l), E(c))' /\ Has(Todo(l), D(c))'
          /\ ~conn[c].readded => ~Has(Todo(Base), R(c))'
      BY <1>0, <2>0, <2>3, <3>3, Differ
    <3>5. LivesIn(l, c)'
      BY <1>0, <2>1, <2>3, <3>1, <3>2, <3>4 DEF LivesIn
    <3>6. \A d \in Conn : d # c =>
              /\ R(c) # E(d) /\ R(c) # D(d) /\ R(c) # R(d)
              /\ D(c) # E(d) /\ D(c) # D(d) /\ D(c) # R(d)
      BY Differ
    <3>7. \A k \in Loop : OnceFor(k, c)'
      BY <1>0, <2>1, <3>2, <3>3, OncePushed
    <3>8. \A k \in Loop, d \in Conn : d # c =>
              /\ Has(Todo(k), E(d))' <=> Has(Todo(k), E(d))
              /\ Has(Todo(k), D(d))' <=> Has(Todo(k), D(d))
              /\ Has(Todo(k), R(d))' <=> Has(Todo(k), R(d))
              /\ Once(Todo(k), E(d)) => Once(Todo(k), E(d))'
              /\ Once(Todo(k), D(d)) => Once(Todo(k), D(d))'
              /\ Once(Todo(k), R(d)) => Once(Todo(k), R(d))'
      BY <3>3, <3>6
    <3>. QED
      BY <1>03, <2>1, <2>2, <3>5, <3>7, <3>8
  <2>. QED
    BY <2>4, <2>5
<1>15. ASSUME NEW l \in Loop, NEW c \in Conn, ConnectDestroyed(l, c) PROVE Goal
  <2>1. /\ RunFunctor(l, D(c)) /\ UNCHANGED <<server, nextConnId_, connections_, queue>>
        /\ conn' = [conn EXCEPT ![c] = Destroyed(conn[c])]
    BY <1>15 DEF ConnectDestroyed, D
  <2>2. Has(Todo(l), D(c)) /\ conn[c].loop = l /\ LivesIn(l, c)
    BY <1>0, <2>1, Ran
  <2>3. /\ conn'[c].state =
              (IF conn[c].state = "connected" THEN "disconnected" ELSE conn[c].state)
        /\ conn'[c].downs =
              (IF conn[c].state = "connected" THEN conn[c].downs + 1 ELSE conn[c].downs)
        /\ conn'[c].registered = FALSE /\ conn'[c].removed = conn[c].removed + 1
        /\ conn'[c].ups = conn[c].ups /\ conn'[c].loop = l
        /\ conn'[c].readded = conn[c].readded
        /\ \A d \in Conn : d # c => conn'[d] = conn[d]
    BY <1>0, <2>1, <2>2, Effects DEF TypeOK
  <2>4. \A k \in Loop : \A g :
            /\ D(c) # g => (Has(Todo(k), g)' <=> Has(Todo(k), g))
            /\ Once(Todo(k), g) =>
                  /\ Once(Todo(k), g)'
                  /\ Has(Todo(k), g)' <=> Has(Todo(k), g) /\ ~(k = l /\ g = D(c))
    BY <1>0, <2>1, RanOnce
  <2>5. /\ Has(Todo(l), E(c))' <=> Has(Todo(l), E(c))
        /\ ~conn[c].readded => ~Has(Todo(l), D(c))'
        /\ Has(Todo(Base), R(c))' <=> Has(Todo(Base), R(c))
    <3>1. ~conn[c].readded => Once(Todo(l), D(c))
      BY <1>0 DEF OnceFor
    <3>. QED
      BY <1>0, <2>4, <3>1, Differ
  \* connectionEstablished came before: it is in front of connectDestroyed.
  <2>6. ~Has(Todo(l), E(c))
    <3>1. SUFFICES ASSUME Has(Todo(l), E(c)) PROVE FALSE
      OBVIOUS
    <3>2. c \notin connections_ /\ ~conn[c].readded
      BY <2>2, <3>1 DEF LivesIn
    <3>3. Kept(c) /\ Once(Todo(l), D(c))
      BY <1>0, <3>2 DEF NotForgotten, OnceFor
    <3>4. Follows(Todo(l), E(c), D(c))
      BY <2>2, <3>1, <3>2, <3>3, KeptIs DEF Needs, Comes, E, D
    <3>5. Todo(l) # <<>> /\ Head(Todo(l)) = D(c) /\ Todo(l) \in Seq(Functor)
      BY <1>0, <2>1, TodoRun, TodoType
    <3>. QED
      BY <3>1, <3>3, <3>4, <3>5, FollowsNone
  <2>7. /\ conn[c].state \in {"connected", "disconnecting", "disconnected"}
        /\ c \notin connections_ /\ ~(c >= nextConnId_) /\ conn[c].ups = 1
        /\ conn[c].removed \in Nat /\ conn[c].downs \in Nat
        /\ ~conn[c].readded => conn[c].removed = 0
    <3>1. /\ conn[c].state \in State /\ ~(c >= nextConnId_)
          /\ conn[c].removed \in Nat /\ conn[c].downs \in Nat
      BY <1>0, <2>2, Fields
    <3>. QED
      BY <2>2, <2>6, <3>1 DEF LivesIn, State
  <2>8. LivesIn(l, c)'
    <3>1. /\ conn'[c].removed > 0 /\ c \notin connections_'
          /\ ~conn'[c].readded => conn'[c].removed <= 1
      BY <2>1, <2>3, <2>7
    <3>2. CASE conn[c].state = "connected"
      <4>1. conn[c].downs = 0 /\ ~conn[c].readded
        BY <2>2, <3>2 DEF LivesIn
      <4>2. /\ conn'[c].state = "disconnected" /\ conn'[c].downs = 1
            /\ ~conn'[c].readded
        BY <2>3, <3>2, <4>1
      <4>. QED
        BY <2>1, <2>2, <2>3, <2>5, <2>6, <2>7, <3>1, <4>1, <4>2 DEF LivesIn
    <3>3. CASE conn[c].state # "connected"
      <4>1. conn'[c].state = conn[c].state /\ conn'[c].downs = conn[c].downs
        BY <2>3, <3>3
      <4>. QED
        BY <2>1, <2>2, <2>3, <2>5, <2>6, <2>7, <3>1, <3>3, <4>1 DEF LivesIn
    <3>. QED
      BY <3>2, <3>3
  <2>9. \A d \in Conn : d # c => D(c) # E(d) /\ D(c) # D(d) /\ D(c) # R(d)
    BY Differ
  <2>10. \A k \in Loop : OnceFor(k, c)'
    BY <1>0, <2>3, <2>4, OnceKept
  <2>. QED
    BY <1>03, <2>1, <2>3, <2>4, <2>8, <2>9, <2>10
<1>16. CASE BeginDestroy
  BY <1>16, <1>01 DEF BeginDestroy
<1>17. ASSUME NEW c \in Conn, DestroyConnection(c) PROVE Goal
  <2>1. /\ connections_' = connections_ \ {c} /\ c \in connections_ /\ server = "dying"
        /\ UNCHANGED <<server, nextConnId_, batch, ran>>
    BY <1>17 DEF DestroyConnection
  <2>2. PICK l \in Loop : conn[c].loop = l
    BY <1>0
  <2>3. /\ LivesIn(l, c) /\ ~Has(Todo(l), D(c)) /\ ~(c >= nextConnId_)
        /\ conn[c].removed = 0 /\ conn[c].state # "none"
    BY <1>0, <2>1, <2>2 DEF LivesIn
  <2>4. CASE l = Base
    <3>1. conn' = [conn EXCEPT ![c] = Destroyed(conn[c])] /\ queue' = queue
      BY <1>17, <2>2, <2>4 DEF DestroyConnection
    <3>2. /\ conn'[c].state =
                (IF conn[c].state = "connected" THEN "disconnected" ELSE conn[c].state)
          /\ conn'[c].downs =
                (IF conn[c].state = "connected" THEN conn[c].downs + 1 ELSE conn[c].downs)
          /\ conn'[c].registered = FALSE /\ conn'[c].removed = conn[c].removed + 1
          /\ conn'[c].ups = conn[c].ups /\ conn'[c].loop = l
          /\ conn'[c].readded = conn[c].readded
          /\ \A d \in Conn : d # c => conn'[d] = conn[d]
      BY <1>0, <2>2, <3>1, Effects DEF TypeOK
    <3>3. \A k \in Loop : \A g : /\ Has(Todo(k), g)' <=> Has(Todo(k), g)
                                 /\ Once(Todo(k), g)' <=> Once(Todo(k), g)
      BY <2>1, <3>1, TodoSame, NothingNew
    <3>4. /\ ~Has(Todo(l), E(c)) /\ conn[c].ups = 1
          /\ conn[c].state \in {"connected", "disconnecting", "disconnected"}
      <4>1. conn[c].state \in State /\ ~Has(Todo(l), E(c))
        BY <1>0, <2>4, Fields
      <4>. QED
        BY <2>3, <4>1 DEF LivesIn, State
    <3>5. LivesIn(l, c)'
      <4>1. conn'[c].removed = 1 /\ c \notin connections_'
        BY <2>1, <2>3, <3>2
      <4>2. CASE conn[c].state = "connected"
        <5>1. conn[c].downs = 0 /\ ~conn[c].readded
          BY <2>3, <4>2 DEF LivesIn
        <5>2. conn'[c].state = "disconnected" /\ conn'[c].downs = 1
          BY <3>2, <4>2, <5>1
        <5>. QED
          BY <2>1, <2>3, <3>2, <3>3, <3>4, <4>1, <5>1, <5>2 DEF LivesIn
      <4>3. CASE conn[c].state # "connected"
        <5>1. /\ conn'[c].state = conn[c].state /\ conn'[c].downs = conn[c].downs
              /\ conn[c].state \in {"disconnecting", "disconnected"}
          BY <3>2, <3>4, <4>3
        <5>2. /\ ~Has(Todo(l), E(c))' /\ ~Has(Todo(l), D(c))'
              /\ Has(Todo(Base), R(c))' => Has(Todo(Base), R(c))
              /\ ~(c >= nextConnId_') /\ server' = "dying"
          BY <1>0, <2>1, <2>3, <3>3, <3>4
        <5>. QED
          BY <2>3, <3>2, <4>1, <5>1, <5>2 DEF LivesIn
      <4>. QED
        BY <4>2, <4>3
    <3>6. \A k \in Loop : OnceFor(k, c)'
      BY <1>0, <3>2, <3>3, OnceKept
    <3>. QED
      BY <1>03, <2>1, <3>2, <3>3, <3>5, <3>6
  <2>5. CASE l # Base
    <3>1. queue' = Push(queue, l, D(c)) /\ conn' = conn /\ D(c) \in Functor
      BY <1>17, <2>2, <2>5, FunctorIs DEF DestroyConnection, D
    <3>2. \A k \in Loop : \A g :
              /\ Has(Todo(k), g)' <=> Has(Todo(k), g) \/ (k = l /\ g = D(c))
              /\ Once(Todo(k), g) /\ (D(c) # g \/ k # l \/ ~Has(Todo(k), g)) =>
                    Once(Todo(k), g)'
      BY <1>0, <2>1, <3>1, Queued, QueuedOnceMore
    <3>3. \A k \in Loop : \A g : Once(Todo(k), g) => Once(Todo(k), g)'
      BY <2>3, <3>2
    <3>4. /\ Has(Todo(l), E(c))' <=> Has(Todo(l), E(c))
          /\ Has(Todo(l), D(c))'
          /\ Has(Todo(Base), R(c))' <=> Has(Todo(Base), R(c))
      BY <1>0, <3>2, Differ
    <3>5. LivesIn(l, c)'
      BY <1>0, <2>1, <2>3, <3>1, <3>4 DEF LivesIn
    <3>6. \A d \in Conn : d # c => D(c) # E(d) /\ D(c) # D(d) /\ D(c) # R(d)
      BY Differ
    <3>7. \A k \in Loop : OnceFor(k, c)'
      BY <1>0, <3>1, <3>3, OnceKept
    <3>. QED
      BY <1>03, <2>1, <2>2, <3>1, <3>2, <3>5, <3>6, <3>7
  <2>. QED
    BY <2>4, <2>5
<1>18. CASE EndDestroy
  BY <1>18, <1>01 DEF EndDestroy
<1>19. CASE ClientConnects
  BY <1>19, <1>01 DEF ClientConnects
<1>20. ASSUME NEW c \in Conn, ClientCloses(c) PROVE Goal
  BY <1>20, <1>01 DEF ClientCloses
<1>21. CASE UNCHANGED vars
  BY <1>21, <1>01 DEF vars
<1>22. ASSUME NEW u \in User, NEW c \in Conn, NEW op \in {"send", "setState"},
              BeginCall(u, c, op)
       PROVE  Goal
  BY <1>22, <1>01 DEF BeginCall
<1>23. ASSUME NEW u \in User, NEW c \in Conn, SetDisconnecting(u, c) PROVE Goal
  <2>1. caller[u].c = c
    BY <1>23 DEF SetDisconnecting, In
  <2>2. c < nextConnId_ /\ conn[c].state # "connecting"
    BY <1>0, <2>1 DEF InOwnLoop
  <2>3. conn[c].state # "none"
    <3>1. LivesIn(conn[c].loop, c) /\ ~(c >= nextConnId_)
      BY <1>0, <2>2
    <3>. QED
      BY <3>1 DEF LivesIn
  <2>. QED
    BY <1>23, <1>04, <2>2, <2>3 DEF SetDisconnecting
<1>24. ASSUME NEW u \in User, NEW c \in Conn, NEW op \in {"send", "shutdown"}, EndCall(u, c, op)
       PROVE  Goal
  <2>1. /\ UNCHANGED <<server, nextConnId_, connections_, conn, batch, ran>>
        /\ queue' = Push(queue, conn[c].loop, F(op, c))
        /\ conn[c].loop \in Loop /\ F(op, c) \in Functor
    BY <1>0, <1>24, FunctorIs DEF EndCall
  <2>. QED
    BY <1>06, <2>1, Differ
<1>25. ASSUME NEW l \in Loop, NEW c \in Conn, SendInLoop(l, c) PROVE Goal
  <2>1. /\ RunFunctor(l, F("send", c))
        /\ UNCHANGED <<server, nextConnId_, connections_, queue>>
    BY <1>25 DEF SendInLoop
  <2>2. \A d \in Conn : F("send", c) # E(d) /\ F("send", c) # D(d) /\ F("send", c) # R(d)
    BY Differ
  <2>3. CASE conn' = conn
    BY <1>05, <2>1, <2>2, <2>3
  <2>4. CASE conn' = [conn EXCEPT ![c] = Registered(conn[c])]
    <3>1. Has(Todo(l), F("send", c))
      BY <1>0, <2>1, Ran
    <3>2. conn[c].loop = l /\ c < nextConnId_ /\ conn[c].state # "connecting"
      BY <1>0, <3>1 DEF InOwnLoop
    <3>3. /\ conn'[c].loop = l /\ conn'[c].state = conn[c].state
          /\ conn'[c].ups = conn[c].ups /\ conn'[c].downs = conn[c].downs
          /\ conn'[c].removed = conn[c].removed
          /\ conn'[c].registered /\ (~conn'[c].readded <=> ~conn[c].readded /\ conn[c].registered)
          /\ \A d \in Conn : d # c => conn'[d] = conn[d]
      <4>1. Registered(conn[c]) \in Connection /\ conn[c] \in Connection
        BY <1>0, RegisteredIs
      <4>2. /\ conn'[c] = Registered(conn[c])
            /\ \A d \in Conn : d # c => conn'[d] = conn[d]
        BY <1>0, <2>4, <4>1, OneChanges
      <4>. QED
        BY <3>2, <4>1, <4>2, RegisteredIs
    <3>4. \A k \in Loop : \A g : F("send", c) # g =>
              /\ Has(Todo(k), g)' <=> Has(Todo(k), g)
              /\ Once(Todo(k), g) => Once(Todo(k), g)'
      BY <1>0, <2>1, RanOnce
    <3>5. /\ Has(Todo(l), E(c))' <=> Has(Todo(l), E(c))
          /\ Has(Todo(l), D(c))' <=> Has(Todo(l), D(c))
          /\ Has(Todo(Base), R(c))' <=> Has(Todo(Base), R(c))
      BY <1>0, <2>2, <3>4
    <3>6. LivesIn(l, c)'
      <4>1. LivesIn(l, c) /\ ~(c >= nextConnId_)
        BY <1>0, <3>2
      <4>2. conn[c].state # "none"
        BY <4>1 DEF LivesIn
      <4>3. CASE ~conn[c].readded /\ conn[c].registered
        BY <2>1, <3>3, <3>5, <4>1, <4>3 DEF LivesIn
      <4>4. CASE ~(~conn[c].readded /\ conn[c].registered)
        <5>1. conn[c].state # "connected"
          BY <4>1, <4>4 DEF LivesIn
        <5>. QED
          BY <2>1, <3>2, <3>3, <3>5, <4>1, <4>2, <4>4, <5>1 DEF LivesIn
      <4>. QED
        BY <4>3, <4>4
    <3>7. ASSUME NEW k \in Loop PROVE OnceFor(k, c)'
      <4>1. OnceFor(k, c)
        BY <1>0
      <4>. QED
        BY <2>2, <3>3, <3>4, <4>1 DEF OnceFor
    <3>. QED
      BY <1>03, <2>1, <2>2, <3>3, <3>4, <3>6, <3>7
  <2>. QED
    BY <1>0, <1>25, <2>3, <2>4, SendIs
<1>26. ASSUME NEW l \in Loop, NEW c \in Conn, ShutdownInLoop(l, c) PROVE Goal
  <2>1. /\ RunFunctor(l, F("shutdown", c))
        /\ UNCHANGED <<server, nextConnId_, connections_, conn, queue>>
    BY <1>26 DEF ShutdownInLoop
  <2>. QED
    BY <1>05, <2>1, Differ
<1>. QED
  BY <1>1, <1>2, <1>3, <1>4, <1>5, <1>6, <1>7, <1>8, <1>9, <1>11, <1>12, <1>13, <1>14,
     <1>15, <1>16, <1>17, <1>18, <1>19, <1>20, <1>21, <1>22, <1>23, <1>24, <1>25, <1>26
  DEF Next, LoopStep, StartStep, DestroyStep, UserStep, Environment, CallSend, CallShutdown,
      PushSend, PushShutdown

LEMMA EndsInvInit == Init => EndsInv
<1> SUFFICES ASSUME Init PROVE EndsInv
  OBVIOUS
<1>1. \A l \in Loop : Todo(l) = <<>>
  <2> TAKE l \in Loop
  <2>1. batch[l] = <<>> /\ queue[l] = <<>> /\ ran[l] = 0
    BY DEF Init
  <2>2. SubSeq(batch[l], ran[l] + 1, Len(batch[l])) = <<>>
    BY <2>1, SubSeqEmpty
  <2>. QED
    BY <2>1, <2>2, ConcatEmptySeq, EmptySeq DEF Todo
<1>2. QueuedOnce
  BY <1>1 DEF QueuedOnce, Once
<1>3. ASSUME NEW c \in Conn PROVE Lives(c)
  <2>1. /\ conn[c].loop = Base /\ conn[c].state = "none" /\ ~conn[c].registered
        /\ ~conn[c].readded /\ conn[c].ups = 0 /\ conn[c].downs = 0 /\ conn[c].removed = 0
        /\ c >= nextConnId_ /\ c \notin connections_
    BY ServerAssumption DEF Init, Conn
  <2>2. \A f : ~Has(Todo(Base), f)
    BY <1>1, LoopIs DEF Has
  <2>3. LivesIn(Base, c)
    BY <2>1, <2>2 DEF LivesIn
  <2>. QED
    BY <2>1, <2>3, LivesIs
<1>. QED
  BY <1>2, <1>3, ServerInvInit DEF EndsInv

\* However a connection ends, and however many threads send on it and shut it down
\* meanwhile, its user sees "up" once and before any "down", and it is freed only after
\* a "down" and connectDestroyed; each comes once, and the poller has lost its channel,
\* unless a late sendInLoop registered it again.  "down" is missing only when its user
\* shut it down and ~TcpServer destroys it.
THEOREM ConnectionsEndProperly == Spec => []EndsProperly
<1>1. EndsInv /\ [Next]_vars => EndsInv'
  <2> SUFFICES ASSUME EndsInv, [Next]_vars PROVE EndsInv'
    OBVIOUS
  <2>1. ServerInv'
    BY TypeStep, PhasesStep, InOwnLoopStep, NotForgottenStep, StartedOnceStep
    DEF EndsInv, ServerInv
  <2>. QED
    BY <2>1, EndsStep DEF EndsInv
<1>2. EndsInv => EndsProperly
  <2> SUFFICES ASSUME EndsInv, NEW c \in Conn
               PROVE  /\ conn[c].ups <= 1
                      /\ conn[c].downs > 0 => conn[c].ups = 1
                      /\ ~conn[c].readded => conn[c].downs <= 1
                      /\ Freed(c) =>
                            /\ conn[c].removed > 0
                            /\ ~conn[c].readded => conn[c].removed = 1 /\ ~conn[c].registered
                            /\ \/ conn[c].downs > 0
                               \/ conn[c].state = "disconnecting" /\ server # "up"
    BY DEF EndsProperly
  <2>1. PICK k \in Loop : conn[c].loop = k
    BY EndsInvHas
  <2>2. /\ TypeOK /\ LivesIn(k, c) /\ conn[c].state \in State
        /\ conn[c].downs \in Nat /\ conn[c].removed \in Nat
    BY <2>1, EndsInvHas, Fields
  <2>3. /\ conn[c].ups <= 1
        /\ conn[c].downs > 0 => conn[c].ups = 1
        /\ ~conn[c].readded => conn[c].downs <= 1
    BY <2>2 DEF LivesIn
  <2>4. ASSUME Freed(c)
        PROVE  /\ conn[c].removed > 0
               /\ ~conn[c].readded => conn[c].removed = 1 /\ ~conn[c].registered
               /\ \/ conn[c].downs > 0
                  \/ conn[c].state = "disconnecting" /\ server # "up"
    <3>1. conn[c].state # "none" /\ ~Held(c) /\ c \notin connections_
      BY <2>4 DEF Freed, Held
    <3>2. /\ E(c).c = c /\ D(c).c = c
          /\ E(c).op \notin {"send", "shutdown"} /\ D(c).op \notin {"send", "shutdown"}
      BY DEF E, D, F
    <3>3. ~Has(Todo(k), E(c)) /\ ~Has(Todo(k), D(c))
      BY <2>2, <3>1, <3>2, PendingIsHeld
    <3>4. conn[c].state # "connecting" /\ conn[c].removed > 0
      BY <2>2, <3>1, <3>3 DEF LivesIn
    <3>5. conn[c].state \in {"disconnecting", "disconnected"}
      BY <2>2, <3>1, <3>4 DEF LivesIn, State
    <3>6. ~conn[c].readded => conn[c].removed = 1 /\ ~conn[c].registered
      BY <2>2, <3>4 DEF LivesIn
    <3>7. conn[c].downs > 0 \/ (conn[c].state = "disconnecting" /\ server # "up")
      BY <2>2, <3>1, <3>5 DEF LivesIn
    <3>. QED
      BY <3>4, <3>6, <3>7
  <2>. QED
    BY <2>3, <2>4
<1>. QED
  BY <1>1, <1>2, EndsInvInit, PTL DEF Spec
=============================================================================
