----------------------------- MODULE LogFileProofs ------------------------------
(***************************************************************************)
(* Proofs about LogFile, for every size, interval, length of a day and     *)
(* checkEveryN_: new days, large files and old buffers are noticed in      *)
(* time.                                                                   *)
(***************************************************************************)
EXTENDS LogFile, Integers, SequenceTheorems, TLAPS

-----------------------------------------------------------------------------
(* The clock.                                                              *)

LEMMA Constants ==
    /\ rollSize_ \in Nat /\ flushInterval_ \in Nat
    /\ checkEveryN_ \in Nat \ {0} /\ kRollPerSeconds_ \in Nat \ {0} /\ MaxLen \in Nat \ {0}
    /\ MaxTime \in Nat /\ MaxBytes \in Nat /\ kRollPerSeconds_ <= MaxTime
    /\ Never \notin Nat
  BY LogFileAssumption

LEMMA PeriodIsTime == \A t \in Nat : Period(t) \in Nat
<1>1. \A a \in Nat, k \in Nat \ {0} : a \div k \in Nat
  BY SMT
<1>. QED
  BY <1>1, Constants DEF Period

LEMMA PeriodGrows == \A t \in Nat : Period(t) <= Period(t + 1)
<1>. SUFFICES ASSUME NEW t \in Nat
              PROVE  Period(t) <= Period(t + 1)
  OBVIOUS
<1>1. \A a \in Nat, k \in Nat \ {0} :
         a \div k \in Nat /\ (a + 1) \div k \in Nat /\ a \div k <= (a + 1) \div k
  BY SMT
<1>2. \A a, b \in Nat, k \in Nat \ {0} : a <= b => a * k <= b * k
  BY SMT
<1>. QED
  BY <1>1, <1>2, Constants DEF Period

LEMMA FirstPeriod == Period(0) = 0
<1>1. \A k \in Nat \ {0} : (0 \div k) * k = 0
  BY SMT
<1>. QED
  BY <1>1, Constants DEF Period

-----------------------------------------------------------------------------
(* The invariant: what TypeOK says of the numbers, what each history       *)
(* counter means while it is not zero, and that count_ grows with them.    *)

Numbers ==
    /\ count_ \in Nat /\ count_ < checkEveryN_
    /\ lastRoll_ \in Nat /\ lastFlush_ \in Nat /\ now \in Nat
    /\ lastRoll_ <= lastFlush_ /\ lastFlush_ <= now /\ now <= MaxTime
    /\ startOfPeriod_ = Period(lastRoll_) /\ startOfPeriod_ <= Period(now)
    /\ writtenBytes_ \in Nat /\ writtenBytes_ <= MaxBytes + MaxLen
    /\ pc \in {"idle", "append", "check", "roll", "crashed"}
    /\ pc = "append" => writtenBytes_ <= MaxBytes
    /\ oldest \in Nat \union {Never}
    /\ oldest # Never => lastFlush_ <= oldest /\ oldest <= now
    /\ stale \in Nat /\ overdue \in Nat /\ late \in Nat

Causes ==
    /\ stale > 0 => startOfPeriod_ < Period(now)
    /\ overdue > 0 => oldest # Never /\ now > oldest + flushInterval_
    /\ late > 0 => writtenBytes_ > rollSize_ /\ now > lastRoll_

Counted ==
    /\ pc = "idle" => stale <= count_ /\ overdue <= count_ /\ late = 0
    /\ pc = "append" => stale <= count_ + 1 /\ overdue <= count_ + 1
    /\ pc = "check" => late = 0

RollInv == Numbers /\ Causes /\ Counted

LEMMA InitRolls == Init => RollInv
<1>1. \A t \in Nat : Period(t) \in Nat
  BY PeriodIsTime
<1>. QED
  BY <1>1, Constants, FirstPeriod DEF Init, RollInv, Numbers, Causes, Counted

LEMMA TickRolls == ASSUME RollInv, Tick PROVE RollInv'
<1>1. now \in Nat /\ now' = now + 1 /\ now' <= MaxTime
  BY Constants DEF RollInv, Numbers, Tick
<1>2. Period(now) \in Nat /\ Period(now') \in Nat /\ Period(now) <= Period(now')
  BY <1>1, PeriodIsTime, PeriodGrows
<1>3. Period(lastRoll_) \in Nat
  BY PeriodIsTime DEF RollInv, Numbers
<1>. QED
  BY <1>1, <1>2, <1>3, Constants
     DEF RollInv, Numbers, Causes, Counted, Tick, times, history, Period

\* A clock in a later period than the file's is past the file's first second.
LEMMA Periods ==
    ASSUME Numbers
    PROVE  /\ Period(now) \in Nat /\ startOfPeriod_ \in Nat
           /\ startOfPeriod_ < Period(now) => lastRoll_ < now
<1>1. Period(now) \in Nat /\ Period(lastRoll_) \in Nat
  BY PeriodIsTime DEF Numbers
<1>2. CASE lastRoll_ = now
  BY <1>1, <1>2 DEF Numbers
<1>3. CASE lastRoll_ # now
  BY <1>1, <1>3 DEF Numbers
<1>. QED
  BY <1>2, <1>3

LEMMA BeginAppendRolls ==
    ASSUME RollInv, NEW l \in 1 .. MaxLen, BeginAppend(l)
    PROVE  RollInv'
<1>1. Period(now) \in Nat /\ startOfPeriod_ \in Nat
  BY Periods DEF RollInv
<1>2. Period(now)' = Period(now) /\ Period(lastRoll_)' = Period(lastRoll_)
  BY DEF BeginAppend, times, Period
<1>3. Numbers'
  BY <1>1, <1>2, Constants DEF RollInv, Numbers, BeginAppend, Count, times
<1>4. Causes'
  BY <1>1, <1>2, Constants DEF RollInv, Numbers, Causes, BeginAppend, Count, times
<1>5. Counted'
  BY Constants DEF RollInv, Numbers, Counted, BeginAppend, Count, times
<1>. QED
  BY <1>3, <1>4, <1>5 DEF RollInv

LEMMA FwriteRolls ==
    ASSUME RollInv, len \in Nat, len <= MaxLen, NEW n \in 0 .. MaxLen, Fwrite(n)
    PROVE  RollInv'
<1>1. Period(now)' = Period(now) /\ Period(lastRoll_)' = Period(lastRoll_)
  BY DEF Fwrite, times, Period
<1>2. Numbers'
  BY <1>1, Constants DEF RollInv, Numbers, Fwrite, AfterWrite, times, history
<1>3. Causes'
  BY <1>1, Constants DEF RollInv, Numbers, Causes, Fwrite, AfterWrite, times, history
<1>4. Counted'
  BY Constants DEF RollInv, Numbers, Causes, Counted, Fwrite, AfterWrite, times, history
<1>. QED
  BY <1>2, <1>3, <1>4 DEF RollInv

\* A check that does not roll finds no append of a later day, and one that does
\* not flush none that an old buffer waited for.
LEMMA CheckRolls == ASSUME RollInv, Check PROVE RollInv'
<1>1. Period(now) \in Nat /\ startOfPeriod_ \in Nat
  BY Periods DEF RollInv
<1>2. Period(now)' = Period(now) /\ Period(lastRoll_)' = Period(lastRoll_)
  BY DEF Check, Period
<1>3. Numbers'
  BY <1>1, <1>2, Constants DEF RollInv, Numbers, Check, Flushed
<1>4. Causes'
  BY <1>1, <1>2, Constants DEF RollInv, Numbers, Causes, Check, Flushed
<1>5. Counted'
  BY <1>1, Constants DEF RollInv, Numbers, Causes, Counted, Check, Flushed
<1>. QED
  BY <1>3, <1>4, <1>5 DEF RollInv

\* A refused roll is one in the second of the last: no counter is above zero.
LEMMA RollRolls == ASSUME RollInv, Roll PROVE RollInv'
<1>1. /\ Period(now) \in Nat /\ startOfPeriod_ \in Nat
      /\ startOfPeriod_ < Period(now) => lastRoll_ < now
  BY Periods DEF RollInv
<1>2. Period(now)' = Period(now)
  BY DEF Roll, Period
<1>3. CASE now > lastRoll_
  <2>1. NewFile /\ count_' = count_ /\ now' = now
    BY <1>3 DEF Roll
  <2>2. Period(lastRoll_)' = Period(now)
    BY <2>1 DEF NewFile, Period
  <2>. QED
    BY <1>1, <1>2, <2>1, <2>2, Constants
       DEF RollInv, Numbers, Causes, Counted, NewFile, Flushed
<1>4. CASE ~(now > lastRoll_)
  <2>1. SameFile /\ count_' = count_ /\ now' = now
    BY <1>4 DEF Roll
  <2>2. Period(lastRoll_)' = Period(lastRoll_)
    BY <2>1 DEF SameFile, times, Period
  <2>3. stale = 0 /\ overdue = 0 /\ late = 0
    BY <1>1, <1>4, Constants DEF RollInv, Numbers, Causes
  <2>. QED
    BY <1>1, <1>2, <2>1, <2>2, <2>3, Constants
       DEF RollInv, Numbers, Causes, Counted, SameFile, times, history
<1>. QED
  BY <1>3, <1>4

LEMMA FlushRolls == ASSUME RollInv, Flush PROVE RollInv'
<1>1. Period(now)' = Period(now) /\ Period(lastRoll_)' = Period(lastRoll_)
  BY DEF Flush, times, Period
<1>. QED
  BY <1>1, Constants DEF RollInv, Numbers, Causes, Counted, Flush, Flushed, times

-----------------------------------------------------------------------------
(* The bytes of an append.                                                 *)

Identity(g) == [i \in 1 .. g |-> i]

GotInv ==
    /\ len \in Nat /\ len <= MaxLen
    /\ \E g \in Nat : got = Identity(g) /\ g <= len /\ (pc # "append" => g = len)

LEMMA Tabulated ==
    ASSUME NEW S, NEW n \in Nat, NEW f \in [1 .. n -> S]
    PROVE  f \in Seq(S) /\ Len(f) = n
<1>1. f \in Seq(S)
  BY SeqDef
<1>2. Len(f) \in Nat /\ DOMAIN f = 1 .. Len(f)
  BY <1>1, LenProperties
<1>3. 1 .. Len(f) = 1 .. n
  BY <1>2
<1>. QED
  BY <1>1, <1>2, <1>3

LEMMA ConcatAt ==
    ASSUME NEW a \in Seq(Nat), NEW b \in Seq(Nat), NEW g \in Nat, NEW n \in Nat,
           Len(a) = g, Len(b) = n
    PROVE  /\ a \o b \in Seq(Nat) /\ Len(a \o b) = g + n
           /\ \A i \in 1 .. g + n : (a \o b)[i] = IF i <= g THEN a[i] ELSE b[i - g]
  BY ConcatProperties

LEMMA IdentityIsSeq ==
    ASSUME NEW g \in Nat
    PROVE  Identity(g) \in Seq(1 .. g) /\ Identity(g) \in Seq(Nat) /\ Len(Identity(g)) = g
<1>1. Identity(g) \in [1 .. g -> 1 .. g] /\ Identity(g) \in [1 .. g -> Nat]
  BY DEF Identity
<1>. QED
  BY <1>1, Tabulated

\* fwrite()'s next n bytes.
LEMMA IdentityGrows ==
    ASSUME NEW g \in Nat, NEW n \in Nat, got = Identity(g)
    PROVE  Took(n) = Identity(g + n)
<1> DEFINE rest == [i \in 1 .. n |-> g + i]
<1>1. Identity(g) \in Seq(Nat) /\ Len(Identity(g)) = g
  BY IdentityIsSeq
<1>2. rest \in Seq(Nat) /\ Len(rest) = n
  <2>1. rest \in [1 .. n -> Nat]
    OBVIOUS
  <2>. QED
    BY <2>1, Tabulated
<1>3. Identity(g + n) \in Seq(Nat) /\ Len(Identity(g + n)) = g + n
  BY IdentityIsSeq
<1>4. Took(n) = Identity(g) \o rest
  BY <1>1 DEF Took
<1>5. /\ Identity(g) \o rest \in Seq(Nat)
      /\ Len(Identity(g) \o rest) = g + n
      /\ \A i \in 1 .. g + n : (Identity(g) \o rest)[i]
           = IF i <= g THEN Identity(g)[i] ELSE rest[i - g]
  <2> DEFINE head == Identity(g)
  <2>1. head \in Seq(Nat) /\ Len(head) = g
    BY <1>1
  <2>. HIDE DEF head, rest
  <2>2. /\ head \o rest \in Seq(Nat)
        /\ Len(head \o rest) = g + n
        /\ \A i \in 1 .. g + n : (head \o rest)[i] = IF i <= g THEN head[i] ELSE rest[i - g]
    <3>1. head \o rest \in Seq(Nat) /\ Len(head \o rest) = Len(head) + Len(rest)
      BY <1>2, <2>1, ConcatProperties
    <3>2. \A i \in 1 .. Len(head) + Len(rest) :
             (head \o rest)[i] = IF i <= Len(head) THEN head[i] ELSE rest[i - Len(head)]
      BY <1>2, <2>1, ConcatProperties
    <3>. QED
      BY <1>2, <2>1, <3>1, <3>2
  <2>. QED
    BY <2>2 DEF head
<1>6. \A i \in 1 .. g + n : (Identity(g) \o rest)[i] = Identity(g + n)[i]
  BY <1>5 DEF Identity
<1>. QED
  BY <1>3, <1>4, <1>5, <1>6, SeqEqual

LEMMA InitGot == Init => GotInv
<1>. SUFFICES ASSUME Init PROVE GotInv
  OBVIOUS
<1>1. got = Identity(0)
  BY DEF Init, Identity
<1>. QED
  BY <1>1, Constants DEF Init, GotInv

LEMMA BeginAppendGot ==
    ASSUME NEW l \in 1 .. MaxLen, BeginAppend(l)
    PROVE  GotInv'
<1>1. got' = Identity(0)
  BY DEF BeginAppend, Identity
<1>2. len' = l /\ l \in Nat /\ l <= MaxLen /\ pc' = "append"
  BY Constants DEF BeginAppend
<1>3. \E g \in Nat : got' = Identity(g) /\ g <= len' /\ (pc' # "append" => g = len')
  BY <1>1, <1>2
<1>. QED
  BY <1>2, <1>3 DEF GotInv, Identity

LEMMA FwriteGot ==
    ASSUME GotInv, NEW n \in 0 .. MaxLen, Fwrite(n)
    PROVE  GotInv'
<1>1. PICK g \in Nat : got = Identity(g) /\ g <= len
  BY DEF GotInv
<1>2. Len(got) = g /\ n \in Nat /\ len \in Nat /\ len' = len /\ g + n <= len
  BY <1>1, IdentityIsSeq, Constants DEF Fwrite, GotInv
<1>3. got' = Identity(g + n)
  BY <1>1, <1>2, IdentityGrows DEF Fwrite
<1>4. pc' # "append" => g + n = len
  BY <1>2 DEF Fwrite
<1>. QED
  BY <1>2, <1>3, <1>4 DEF GotInv, Identity

-----------------------------------------------------------------------------
(* The theorems.                                                           *)

FileInv == RollInv /\ GotInv

\* One step per action; what leaves len and got alone needs only to leave or
\* reach "append" as before.
LEMMA NextKeeps == FileInv /\ [Next]_vars => FileInv'
<1>. SUFFICES ASSUME FileInv, [Next]_vars PROVE FileInv'
  OBVIOUS
<1>1. CASE Tick
  <2>1. GotInv'
    BY <1>1 DEF FileInv, GotInv, Tick, Identity
  <2>. QED
    BY <1>1, <2>1, TickRolls DEF FileInv
<1>2. CASE Check
  <2>1. GotInv'
    BY <1>2 DEF FileInv, GotInv, Check, Identity
  <2>. QED
    BY <1>2, <2>1, CheckRolls DEF FileInv
<1>3. CASE Roll
  <2>1. GotInv'
    BY <1>3 DEF FileInv, GotInv, Roll, Identity
  <2>. QED
    BY <1>3, <2>1, RollRolls DEF FileInv
<1>4. CASE Flush
  <2>1. GotInv'
    BY <1>4 DEF FileInv, GotInv, Flush, Identity
  <2>. QED
    BY <1>4, <2>1, FlushRolls DEF FileInv
<1>5. ASSUME NEW l \in 1 .. MaxLen, BeginAppend(l) PROVE FileInv'
  BY <1>5, BeginAppendRolls, BeginAppendGot DEF FileInv
<1>6. ASSUME NEW n \in 0 .. MaxLen, Fwrite(n) PROVE FileInv'
  BY <1>6, FwriteRolls, FwriteGot DEF FileInv, GotInv
<1>7. CASE UNCHANGED vars
  <2>1. RollInv'
    BY <1>7 DEF FileInv, RollInv, Numbers, Causes, Counted, vars, times, history, Period
  <2>2. GotInv'
    BY <1>7 DEF FileInv, GotInv, vars, Identity
  <2>. QED
    BY <2>1, <2>2 DEF FileInv
<1>. QED
  BY <1>1, <1>2, <1>3, <1>4, <1>5, <1>6, <1>7 DEF Next

LEMMA InitKeeps == Init => FileInv
  BY InitRolls, InitGot DEF FileInv

\* What a LogFile is in at every moment, for all values of its parameters.
THEOREM FileInvariant == Spec => []FileInv
  BY InitKeeps, NextKeeps, PTL DEF Spec

LEMMA GotTyped ==
    ASSUME GotInv
    PROVE  /\ len \in 0 .. MaxLen /\ got \in Seq(1 .. MaxLen) /\ Len(got) <= len
           /\ pc # "append" => got = [i \in 1 .. len |-> i]
<1>1. PICK g \in Nat : got = Identity(g) /\ g <= len /\ (pc # "append" => g = len)
  BY DEF GotInv
<1>2. len \in 0 .. MaxLen
  BY Constants DEF GotInv
<1>3. Identity(g) \in [1 .. g -> 1 .. MaxLen]
  BY <1>1, <1>2, Constants DEF Identity
<1>4. got \in Seq(1 .. MaxLen) /\ Len(got) = g
  BY <1>1, <1>3, Tabulated
<1>5. pc # "append" => got = Identity(len)
  BY <1>1
<1>. QED
  BY <1>1, <1>2, <1>4, <1>5 DEF Identity

\* Type correctness (LogFile's members and the call in progress).
THEOREM TypeCorrect == Spec => []TypeOK
<1>1. FileInv => TypeOK
  <2>. SUFFICES ASSUME FileInv PROVE TypeOK
    OBVIOUS
  <2>1. /\ count_ \in 0 .. checkEveryN_ - 1
        /\ {lastRoll_, lastFlush_, now} \subseteq 0 .. MaxTime
        /\ writtenBytes_ \in 0 .. MaxBytes + MaxLen
    BY Constants DEF FileInv, RollInv, Numbers
  <2>2. len \in 0 .. MaxLen /\ got \in Seq(1 .. MaxLen) /\ Len(got) <= len
    BY GotTyped DEF FileInv
  <2>. QED
    BY <2>1, <2>2 DEF TypeOK, FileInv, RollInv, Numbers
<1>. QED
  BY <1>1, FileInvariant, PTL

\* FileUtil::append() writes every byte once and in order.
THEOREM AppendsAreWhole == Spec => []AppendIsWhole
<1>1. FileInv => AppendIsWhole
  BY GotTyped DEF FileInv, AppendIsWhole
<1>. QED
  BY <1>1, FileInvariant, PTL

\* appendInLock() notices a new day before checkEveryN_ appends.
THEOREM NewDayIsNoticed == Spec => []DayRolls
<1>1. FileInv => DayRolls
  BY Constants DEF FileInv, RollInv, Numbers, Counted, DayRolls
<1>. QED
  BY <1>1, FileInvariant, PTL

\* appendInLock() flushes before checkEveryN_ appends have found an old buffer.
THEOREM OldBufferIsNoticed == Spec => []FlushesInTime
<1>1. FileInv => FlushesInTime
  BY Constants DEF FileInv, RollInv, Numbers, Counted, FlushesInTime
<1>. QED
  BY <1>1, FileInvariant, PTL

\* rollFile() makes up for a roll it refused at the next append.
THEOREM LargeFileIsLeft == Spec => []SizeRolls
<1>1. FileInv => SizeRolls
  BY DEF FileInv, RollInv, Counted, SizeRolls
<1>. QED
  BY <1>1, FileInvariant, PTL
=============================================================================
