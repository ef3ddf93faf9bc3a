-------------------------------- MODULE LogFile --------------------------------
(***************************************************************************)
(* LogFile and the FileUtil under it: appends to the current file, and the *)
(* decision, taken from the file's size and, at every checkEveryN_th       *)
(* append, from the clock, when to begin a new file and when to flush.     *)
(* mutex_ makes the calls one after another.  The clock goes on between    *)
(* any two steps, so that the readings of time() in one append() differ,   *)
(* and is not set back.                                                    *)
(***************************************************************************)
EXTENDS Naturals, SequencesExt

CONSTANTS
    rollSize_, flushInterval_, checkEveryN_,
    kRollPerSeconds_,   \* the length of a day
    MaxLen,             \* bound on the length of an append
    MaxTime,            \* bound on the clock
    MaxBytes,           \* no append begins when the file has more
    Never               \* no time

ASSUME LogFileAssumption ==
    /\ {rollSize_, flushInterval_} \subseteq Nat
    /\ {checkEveryN_, kRollPerSeconds_, MaxLen} \subseteq Nat \ {0}
    /\ MaxBytes \in Nat /\ MaxTime \in Nat /\ kRollPerSeconds_ <= MaxTime
    /\ Never \notin Nat

VARIABLES
    count_, startOfPeriod_, lastRoll_, lastFlush_, writtenBytes_,
    now,                \* the clock
    pc,                 \* where the call in progress is
    len,                \* the length of the last append
    got,                \* which of its bytes fwrite() took, in this order
    oldest,             \* since when stdio's buffer holds something
    stale,              \* history: appends to this file that began on a later day
    overdue,            \* history: appends that began with oldest past flushInterval_
    late                \* history: appends that began with a file too large and old enough

times == <<startOfPeriod_, lastRoll_, lastFlush_>>
history == <<stale, overdue, late>>
vars == <<count_, times, writtenBytes_, now, pc, len, got, oldest, history>>

Period(t) == (t \div kRollPerSeconds_) * kRollPerSeconds_

TypeOK ==
    /\ count_ \in 0 .. checkEveryN_ - 1
    /\ {lastRoll_, lastFlush_, now} \subseteq 0 .. MaxTime
    /\ startOfPeriod_ = Period(lastRoll_) /\ lastRoll_ <= lastFlush_
    /\ writtenBytes_ \in 0 .. MaxBytes + MaxLen
    /\ pc \in {"idle", "append", "check", "roll", "crashed"}
    /\ len \in 0 .. MaxLen /\ got \in Seq(1 .. MaxLen) /\ Len(got) <= len
    /\ oldest \in Nat \union {Never}
    /\ {stale, overdue, late} \subseteq Nat

\* The constructor's rollFile() is the first step.
Init ==
    /\ count_ = 0
    /\ startOfPeriod_ = 0 /\ lastRoll_ = 0 /\ lastFlush_ = 0
    /\ writtenBytes_ = 0
    /\ now \in 1 .. kRollPerSeconds_
    /\ pc = "roll"
    /\ len = 0 /\ got = <<>>
    /\ oldest = Never
    /\ stale = 0 /\ overdue = 0 /\ late = 0

-----------------------------------------------------------------------------
Tick ==
    /\ now < MaxTime
    /\ now' = now + 1
    /\ UNCHANGED <<count_, times, writtenBytes_, pc, len, got, oldest, history>>

Count(b) == IF b THEN 1 ELSE 0

\* append() takes mutex_ and enters FileUtil::append().
BeginAppend(l) ==
    /\ pc = "idle" /\ writtenBytes_ <= MaxBytes
    /\ pc' = "append"
    /\ len' = l /\ got' = <<>>
    /\ oldest' = IF oldest = Never THEN now ELSE oldest
    /\ stale' = stale + Count(Period(now) # startOfPeriod_)
    /\ overdue' = overdue + Count(oldest # Never /\ now > oldest + flushInterval_)
    /\ late' = late + Count(writtenBytes_ > rollSize_ /\ now > lastRoll_)
    /\ UNCHANGED <<count_, times, writtenBytes_, now>>

\* What appendInLock() does when all is written: size first, then the count.
AfterWrite(bytes) ==
    IF bytes > rollSize_
      THEN pc' = "roll" /\ UNCHANGED count_
      ELSE IF count_ + 1 >= checkEveryN_
             THEN pc' = "check" /\ count_' = 0
             ELSE pc' = "idle" /\ count_' = count_ + 1

TookFromStart(n) == got \o [i \in 1 .. n |-> i]     \* a faulty variant: not data + written
Took(n) == got \o [i \in 1 .. n |-> Len(got) + i]

\* fwrite() of the remaining bytes takes n of them, fewer than all when the
\* stream is in error; the loop goes on all the same.
Fwrite(n) ==
    /\ pc = "append" /\ n <= len - Len(got)
    /\ got' = Took(n)
    /\ IF Len(got) + n = len
         THEN /\ writtenBytes_' = writtenBytes_ + len
              /\ AfterWrite(writtenBytes_ + len)
         ELSE UNCHANGED <<writtenBytes_, count_, pc>>
    /\ UNCHANGED <<times, now, len, oldest, history>>

Flushed == oldest' = Never /\ overdue' = 0

NeverFlushes ==                     \* a faulty variant: the time since the roll is not looked at
    /\ pc = "check"
    /\ pc' = IF Period(now) # startOfPeriod_ THEN "roll" ELSE "idle"
    /\ UNCHANGED <<count_, times, writtenBytes_, now, len, got, oldest, history>>
OnlyFlushes ==                      \* a faulty variant: the day is not looked at
    /\ pc = "check"
    /\ pc' = "idle"
    /\ IF now > lastFlush_ + flushInterval_
         THEN lastFlush_' = now /\ Flushed
         ELSE UNCHANGED <<lastFlush_, oldest, overdue>>
    /\ UNCHANGED <<count_, startOfPeriod_, lastRoll_, writtenBytes_, now, len, got, stale, late>>

Check ==
    /\ pc = "check"
    /\ IF Period(now) # startOfPeriod_
         THEN pc' = "roll" /\ UNCHANGED <<lastFlush_, oldest, overdue>>
         ELSE /\ pc' = "idle"
              /\ IF now > lastFlush_ + flushInterval_
                   THEN lastFlush_' = now /\ Flushed
                   ELSE UNCHANGED <<lastFlush_, oldest, overdue>>
    /\ UNCHANGED <<count_, startOfPeriod_, lastRoll_, writtenBytes_, now, len, got, stale, late>>

\* The new FileUtil opens its file, and the old one's fclose() flushes.  When
\* fopen() fails, setbuffer() is called on a null FILE.
NewFile ==
    /\ \E opened \in BOOLEAN : pc' = IF opened THEN "idle" ELSE "crashed"
    /\ lastRoll_' = now /\ lastFlush_' = now /\ startOfPeriod_' = Period(now)
    /\ writtenBytes_' = 0
    /\ stale' = 0 /\ late' = 0 /\ Flushed
SameFile == pc' = "idle" /\ UNCHANGED <<times, writtenBytes_, oldest, history>>

RollsByDay ==                       \* a faulty variant: one file a day
    /\ pc = "roll"
    /\ IF lastRoll_ = 0 \/ Period(now) > startOfPeriod_ THEN NewFile ELSE SameFile
    /\ UNCHANGED <<count_, now, len, got>>

\* rollFile() reads the clock again.  A second file in one second would have the
\* name of the first.
Roll ==
    /\ pc = "roll"
    /\ IF now > lastRoll_ THEN NewFile ELSE SameFile
    /\ UNCHANGED <<count_, now, len, got>>

\* flush() leaves lastFlush_ alone.
Flush ==
    /\ pc = "idle"
    /\ Flushed
    /\ UNCHANGED <<count_, times, writtenBytes_, now, pc, len, got, stale, late>>

-----------------------------------------------------------------------------
Next ==
    \/ Tick \/ Check \/ Roll \/ Flush
    \/ \E l \in 1 .. MaxLen : BeginAppend(l)
    \/ \E n \in 0 .. MaxLen : Fwrite(n)

Spec == Init /\ [][Next]_vars

-----------------------------------------------------------------------------
(* Properties.                                                             *)

\* append() writes each of its bytes once and in order, however fwrite() cuts it.
AppendIsWhole == pc \notin {"append", "crashed"} => got = [i \in 1 .. len |-> i]

\* At midnight the file changes after fewer than checkEveryN_ appends.
DayRolls == pc = "idle" => stale < checkEveryN_

\* What waits in memory for longer than flushInterval_ waits for fewer than
\* checkEveryN_ more appends, though rolls, refused rolls and flush() keep
\* count_ or lastFlush_ as they are.
FlushesInTime == pc = "idle" => overdue < checkEveryN_

\* A file over rollSize_, whose roll was refused in the second in which it was
\* opened, is left with the first append after that second.
SizeRolls == pc = "idle" => late = 0
=============================================================================
