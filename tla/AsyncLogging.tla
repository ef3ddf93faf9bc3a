----------------------------- MODULE AsyncLogging ------------------------------
(***************************************************************************)
(* AsyncLogging: threads append lines to currentBuffer_ under mutex_, and  *)
(* the logging thread swaps full buffers for empty ones and writes them to *)
(* the file.  Every line is appended once; an append is one critical       *)
(* section, so the appending threads need no names.                        *)
(*                                                                         *)
(* A FixedBuffer is Cap cells and a cursor; a line takes one cell, or all  *)
(* of them when it is in Long.  length() is the size of the array, not of  *)
(* what was appended: all cells are written, with the lines an earlier use *)
(* of the buffer left there.                                               *)
(***************************************************************************)
EXTENDS Naturals, SequencesExt

CONSTANTS
    Line,               \* the lines ever appended
    Long,               \* those as long as a buffer, which no buffer takes
    Cap,                \* SIZE of a FixedBuffer
    Blank,              \* a cell that holds no line
    None                \* a null BufferPtr

ASSUME LoggingAssumption ==
    /\ Long \subseteq Line
    /\ Cap \in Nat \ {0}
    /\ Blank \notin Line

VARIABLES
    running_,
    currentBuffer_, nextBuffer_, buffers_,      \* shared, guarded by mutex_
    newBuffer1, newBuffer2, buffersToWrite,     \* the logging thread's
    at,                 \* how many of buffersToWrite are written
    pc,                 \* where the logging thread is
    stopping,           \* stop() was called and has not returned
    appended,           \* history: lines append() was called with
    written             \* the lines in the file, by their first appearance

sharedVars == <<currentBuffer_, nextBuffer_, buffers_>>
spareVars == <<newBuffer1, newBuffer2>>
vars == <<running_, sharedVars, spareVars, buffersToWrite, at, pc, stopping, appended,
          written>>

-----------------------------------------------------------------------------
(* FixedBuffer.                                                            *)

FixedBuffer == [data : [1 .. Cap -> Line \union {Blank}], cur : 0 .. Cap - 1]
ASSUME NoneAssumption == None \notin FixedBuffer

\* Cleared by bzero(), or, when append() makes one, not initialized: no line.
NewBuffer == [data |-> [i \in 1 .. Cap |-> Blank], cur |-> 0]

Size(l) == IF l \in Long THEN Cap ELSE 1
Fits(b, l) == Cap - b.cur > Size(l)
Append1(b, l) ==
    IF Fits(b, l)
      THEN [data |-> [b.data EXCEPT ![b.cur + 1] = l], cur |-> b.cur + Size(l)] ELSE b
Reset(b) == [b EXCEPT !.cur = 0]

\* What was appended to b since its reset.
Fresh(b) == SubSeq(b.data, 1, b.cur)

-----------------------------------------------------------------------------
TypeOK ==
    /\ running_ \in BOOLEAN
    /\ currentBuffer_ \in FixedBuffer
    /\ {nextBuffer_, newBuffer1, newBuffer2} \subseteq FixedBuffer \union {None}
    /\ buffers_ \in Seq(FixedBuffer) /\ buffersToWrite \in Seq(FixedBuffer)
    /\ at \in 0 .. Len(buffersToWrite)
    /\ pc \in {"off", "test", "lock", "waiting", "swap", "write", "done"}
    /\ stopping \in BOOLEAN
    /\ appended \subseteq Line
    /\ written \in Seq(Line)

Init ==
    /\ running_ = FALSE
    /\ currentBuffer_ = NewBuffer /\ nextBuffer_ = NewBuffer /\ buffers_ = <<>>
    /\ newBuffer1 = NewBuffer /\ newBuffer2 = NewBuffer
    /\ buffersToWrite = <<>> /\ at = 0
    /\ pc = "off"
    /\ stopping = FALSE
    /\ appended = {} /\ written = <<>>

-----------------------------------------------------------------------------
(* The application's threads.                                              *)

\* cond_.notify_one: one thread at most waits.
Notified == IF pc = "waiting" THEN "swap" ELSE pc

AppendLine(l) ==
    /\ l \notin appended
    /\ appended' = appended \union {l}
    /\ IF Fits(currentBuffer_, l)
         THEN /\ currentBuffer_' = Append1(currentBuffer_, l)
              /\ UNCHANGED <<nextBuffer_, buffers_, pc>>
         ELSE /\ buffers_' = Append(buffers_, currentBuffer_)
              /\ currentBuffer_' =
                    Append1(IF nextBuffer_ = None THEN NewBuffer ELSE nextBuffer_, l)
              /\ nextBuffer_' = None
              /\ pc' = Notified
    /\ UNCHANGED <<running_, spareVars, buffersToWrite, at, stopping, written>>

Start ==
    /\ pc = "off"
    /\ running_' = TRUE
    /\ pc' = "test"
    /\ UNCHANGED <<sharedVars, spareVars, buffersToWrite, at, stopping, appended, written>>

\* stop(): neither running_ nor the notification is under mutex_, so both may
\* come between the logging thread's test of running_ and its wait.
Stop ==
    /\ running_
    /\ running_' = FALSE
    /\ stopping' = TRUE
    /\ pc' = Notified
    /\ UNCHANGED <<sharedVars, spareVars, buffersToWrite, at, appended, written>>

StopReturns ==
    /\ stopping /\ pc = "done"
    /\ stopping' = FALSE
    /\ UNCHANGED <<running_, sharedVars, spareVars, buffersToWrite, at, pc, appended, written>>

-----------------------------------------------------------------------------
(* ThreadFunc.                                                             *)

TestRunning ==
    /\ pc = "test"
    /\ pc' = IF running_ THEN "lock" ELSE "done"
    /\ UNCHANGED <<running_, sharedVars, spareVars, buffersToWrite, at, stopping, appended,
                   written>>

Lock ==
    /\ pc = "lock"
    /\ pc' = IF buffers_ = <<>> THEN "waiting" ELSE "swap"
    /\ UNCHANGED <<running_, sharedVars, spareVars, buffersToWrite, at, stopping, appended,
                   written>>

\* Faulty variants.
WaitAgain == pc = "waiting" /\ UNCHANGED vars       \* wait for a notification only
SwapFullOnly ==                     \* the current buffer is replaced, not taken
    /\ pc = "swap"
    /\ buffersToWrite' = buffers_
    /\ buffers_' = <<>>
    /\ currentBuffer_' = newBuffer1 /\ newBuffer1' = None
    /\ nextBuffer_' = IF nextBuffer_ = None THEN newBuffer2 ELSE nextBuffer_
    /\ newBuffer2' = IF nextBuffer_ = None THEN None ELSE newBuffer2
    /\ pc' = "write"
    /\ UNCHANGED <<running_, at, stopping, appended, written>>

\* wait_for returns after 3 seconds, or for no reason.
Timeout ==
    /\ pc = "waiting"
    /\ pc' = "swap"
    /\ UNCHANGED <<running_, sharedVars, spareVars, buffersToWrite, at, stopping, appended,
                   written>>

Swap ==
    /\ pc = "swap"
    /\ buffersToWrite' = Append(buffers_, currentBuffer_)
    /\ buffers_' = <<>>
    /\ currentBuffer_' = newBuffer1 /\ newBuffer1' = None
    /\ nextBuffer_' = IF nextBuffer_ = None THEN newBuffer2 ELSE nextBuffer_
    /\ newBuffer2' = IF nextBuffer_ = None THEN None ELSE newBuffer2
    /\ pc' = "write"
    /\ UNCHANGED <<running_, at, stopping, appended, written>>

\* The lines of a buffer that the file does not have, in the order of its cells.
NewLines(b) ==
    LET lines[i \in 0 .. Cap] ==
            IF i = 0 THEN <<>>
            ELSE IF b.data[i] \in Line /\ ~Contains(written, b.data[i])
                 THEN Append(lines[i - 1], b.data[i]) ELSE lines[i - 1]
    IN  lines[Cap]

\* A faulty variant: only the first buffer is written.
WriteFirst ==
    /\ pc = "write" /\ at < Len(buffersToWrite)
    /\ at' = Len(buffersToWrite)
    /\ written' = written \o NewLines(buffersToWrite[1])
    /\ UNCHANGED <<running_, sharedVars, spareVars, buffersToWrite, pc, stopping, appended>>

\* LogFile::append of a whole buffer.
WriteBuffer ==
    /\ pc = "write" /\ at < Len(buffersToWrite)
    /\ at' = at + 1
    /\ written' = written \o NewLines(buffersToWrite[at + 1])
    /\ UNCHANGED <<running_, sharedVars, spareVars, buffersToWrite, pc, stopping, appended>>

\* Two of the buffers just written become spare ones.
Recycled == SubSeq(buffersToWrite, 1, IF Len(buffersToWrite) > 2 THEN 2
                                      ELSE Len(buffersToWrite))

RecycleDirty ==                     \* a faulty variant: without reset()
    /\ pc = "write" /\ at = Len(buffersToWrite)
    /\ newBuffer1' = Last(Recycled)
    /\ newBuffer2' = IF newBuffer2 = None THEN Last(Front(Recycled)) ELSE newBuffer2
    /\ buffersToWrite' = <<>> /\ at' = 0
    /\ pc' = "test"
    /\ UNCHANGED <<running_, sharedVars, stopping, appended, written>>

Recycle ==
    /\ pc = "write" /\ at = Len(buffersToWrite)
    /\ newBuffer1' = Reset(Last(Recycled))
    /\ newBuffer2' = IF newBuffer2 = None THEN Reset(Last(Front(Recycled))) ELSE newBuffer2
    /\ buffersToWrite' = <<>> /\ at' = 0
    /\ pc' = "test"
    /\ UNCHANGED <<running_, sharedVars, stopping, appended, written>>

-----------------------------------------------------------------------------
ThreadStep == TestRunning \/ Lock \/ Timeout \/ Swap \/ WriteBuffer \/ Recycle

Next ==
    \/ \E l \in Line : AppendLine(l)
    \/ Start \/ Stop \/ StopReturns
    \/ TestRunning \/ Lock \/ Timeout \/ Swap \/ WriteBuffer \/ Recycle

\* The logging thread runs, its wait included, which times out.
Spec == Init /\ [][Next]_vars /\ WF_vars(ThreadStep) /\ WF_vars(StopReturns)

-----------------------------------------------------------------------------
(* Properties.                                                             *)

\* However many buffers the appending threads fill while the logging thread
\* writes, currentBuffer_ and the buffers of both vectors are never null (TypeOK;
\* append() and the writing loop use them unchecked), a swap finds a spare one
\* for each that it gives away, and what was written leaves enough buffers to
\* become spare ones again (back() is called unchecked).
SparesSuffice ==
    /\ TypeOK
    /\ pc \in {"off", "test", "lock", "waiting", "swap"} => None \notin {newBuffer1, newBuffer2}
    /\ pc = "write" => Len(buffersToWrite) >= IF newBuffer2 = None THEN 2 ELSE 1

\* The file gets the lines in the order of their append() calls, and none after
\* one that is missing: through full buffers, swaps, recycled buffers and what
\* they still hold of earlier lines.
FreshLines(bs) ==
    LET lines[i \in 0 .. Len(bs)] == IF i = 0 THEN <<>> ELSE lines[i - 1] \o Fresh(bs[i])
    IN  lines[Len(bs)]
Pending == FreshLines(SubSeq(buffersToWrite, at + 1, Len(buffersToWrite)))
               \o FreshLines(buffers_) \o Fresh(currentBuffer_)
Log == INSTANCE LineLog WITH pending <- Pending
LinesInOrder == Log!Spec

\* A line is written unless the logging thread is stopped, and even then when
\* the thread has taken its buffer.
LinesAreWritten ==
    \A l \in Line \ Long :
        /\ (l \in appended /\ running_) ~> (Contains(written, l) \/ ~running_)
        /\ (pc = "write" /\ Contains(FreshLines(buffersToWrite), l)) ~> Contains(written, l)

\* stop() returns, although its notification may come before the wait.
StopEnds == stopping ~> ~stopping
=============================================================================
