------------------------------ MODULE LogLine -------------------------------
(***************************************************************************)
(* Logger and LogStream: one thread that writes log lines.  A line is put  *)
(* together in the array of a FixedBuffer, a piece for every operator<<,   *)
(* and handed to g_output when the Logger is destroyed.  A piece is its    *)
(* length and, of an integer, the characters; what a text says is left     *)
(* out.  Threads share g_logLevel and g_output, which the application sets *)
(* before it logs, and the struct tm of localtime().                       *)
(***************************************************************************)
EXTENDS Integers, SequencesExt

CONSTANTS
    Size,               \* of data_: kSmallBuffer
    kMaxNumericSize,
    Integer,            \* integers the application logs
    LineNumber,         \* numbers of source lines
    TextLen,            \* lengths of the texts it logs, of file and function names
    MaxPieces,          \* bound on the pieces before the end of a line
    MaxLines            \* bound on the lines

ASSUME LogLineAssumption ==
    /\ Size \in Nat /\ kMaxNumericSize \in 20 .. Size
    /\ Integer \subseteq Int /\ LineNumber \subseteq Int /\ TextLen \subseteq Nat
    /\ MaxPieces \in Nat /\ MaxLines \in Nat

VARIABLES
    g_logLevel,
    level_,             \* of the line
    stream_,            \* the buffer of the line: cur_ - data_, and its pieces
    offered,            \* history: what a buffer without end would hold
    pc,                 \* where the thread is
    written,            \* history: the levels of the lines given to g_output
    flushed             \* history: how many of them g_flush was called after

vars == <<g_logLevel, level_, stream_, offered, pc, written, flushed>>

\* enum LogLevel, from DEBUG on: TRACE has no macro.
DEBUG == 1
INFO == 2
WARN == 3
ERROR == 4
FATAL == 5
LogLevel == DEBUG .. FATAL

\* A piece of text, and an integer with its characters: digits, and Minus.
Minus == 10
Text(n) == [len |-> n, chars |-> <<>>, value |-> 0]
Number(cs, n) == [len |-> Len(cs), chars |-> cs, value |-> n]

Empty == [cur |-> 0, pieces |-> <<>>]
Avail(stream) == Size - stream.cur
Add(stream, piece) ==
    [cur |-> stream.cur + piece.len, pieces |-> Append(stream.pieces, piece)]

TypeOK ==
    LET Piece == [len : Nat, chars : Seq(0 .. Minus), value : Int]
        Stream == [cur : Nat, pieces : Seq(Piece)]
    IN  /\ g_logLevel \in LogLevel
        /\ level_ \in LogLevel
        /\ stream_ \in Stream
        /\ offered \in Stream
        /\ pc \in {"idle", "message", "output", "flush", "aborted"}
        /\ written \in Seq(LogLevel)
        /\ flushed \in 0 .. Len(written)

Init ==
    /\ g_logLevel = INFO
    /\ level_ = INFO
    /\ stream_ = Empty
    /\ offered = Empty
    /\ pc = "idle"
    /\ written = <<>>
    /\ flushed = 0

-----------------------------------------------------------------------------
(* Faulty variants, none of them part of the specification.                *)

\* avail() is compared as if the text had no length.
AppendOverfull(stream, n) == IF Avail(stream) > 0 THEN Add(stream, Text(n)) ELSE stream
\* Room for a number is always kept.
AppendSparing(stream, n) ==
    IF Avail(stream) - kMaxNumericSize > n THEN Add(stream, Text(n)) ELSE stream
\* % as in mathematics.
DigitPositive(n) == n % 10
\* abort() without g_flush().
ReturnUnflushed ==
    /\ pc = "output"
    /\ pc' = IF level_ = FATAL THEN "aborted" ELSE "idle"
    /\ UNCHANGED <<g_logLevel, level_, stream_, offered, written, flushed>>

-----------------------------------------------------------------------------
(* LogStream.                                                              *)

\* FixedBuffer::append leaves out what would fill the array or more.
AppendText(stream, n) == IF Avail(stream) > n THEN Add(stream, Text(n)) ELSE stream

\* C++'s num / 10 and num % 10, rounding towards zero; zero[remainder] is a
\* table of digits that is the same on both sides of its 0.
Quotient(n) == IF n < 0 THEN -((-n) \div 10) ELSE n \div 10
Digit(n) == LET remainder == n - 10 * Quotient(n)
            IN  IF remainder < 0 THEN -remainder ELSE remainder

\* formatInteger puts down the digits from the last one, then the sign, and
\* reverses them.
Digits[n \in Int] ==
    IF Quotient(n) = 0 THEN <<Digit(n)>> ELSE <<Digit(n)>> \o Digits[Quotient(n)]
Characters(n) == Reverse(IF n < 0 THEN Append(Digits[n], Minus) ELSE Digits[n])

\* kMaxNumericSize holds every number with its sign and a '\0'.
ASSUME NumbersFit ==
    \A n \in Integer \union LineNumber : Len(Characters(n)) \in 1 .. kMaxNumericSize - 1

\* A number is left out when fewer than kMaxNumericSize bytes remain.
AppendNumber(stream, piece) ==
    IF Avail(stream) >= kMaxNumericSize THEN Add(stream, piece) ELSE stream
FormatInteger(stream, n) == AppendNumber(stream, Number(Characters(n), n))

\* The same without an end of the buffer.
AddText(stream, n) == Add(stream, Text(n))
AddInteger(stream, n) == Add(stream, Number(Characters(n), n))

-----------------------------------------------------------------------------
(* Logger.                                                                 *)

SetLogLevel(level) ==
    /\ pc = "idle"
    /\ g_logLevel' = level
    /\ UNCHANGED <<level_, stream_, offered, pc, written, flushed>>

\* LOG_DEBUG and LOG_INFO look at g_logLevel, the other macros do not.  The
\* constructor puts down 17 of the 19 characters of the time (its seconds are
\* cut off), the microseconds, the level's name, and for LOG_DEBUG the name of
\* the function.
BeginLine(level, n) ==
    /\ pc = "idle" /\ Len(written) < MaxLines
    /\ level \in {DEBUG, INFO} => g_logLevel <= level
    /\ level_' = level
    /\ LET Header(Put(_, _)) ==
              LET time == Put(Put(Put(Empty, 17), 7), 6)
              IN  IF level = DEBUG THEN Put(Put(time, n), 1) ELSE time
       IN  stream_' = Header(AppendText) /\ offered' = Header(AddText)
    /\ pc' = "message"
    /\ UNCHANGED <<g_logLevel, written, flushed>>

\* operator<< of a text, a character or a null pointer; of an integer; of a
\* double, which "%.12g" makes 1 to 19 characters of.
LogText(n) ==
    /\ stream_' = AppendText(stream_, n)
    /\ offered' = AddText(offered, n)
LogInteger(n) ==
    /\ stream_' = FormatInteger(stream_, n)
    /\ offered' = AddInteger(offered, n)
LogDouble(n) ==
    /\ stream_' = AppendNumber(stream_, Text(n))
    /\ offered' = AddText(offered, n)

LogPiece ==
    /\ pc = "message" /\ Len(offered.pieces) < MaxPieces
    /\ \/ \E n \in TextLen \union {1, 6} : LogText(n)
       \/ \E n \in Integer : LogInteger(n)
       \/ \E n \in {1, 19} : LogDouble(n)
    /\ UNCHANGED <<g_logLevel, level_, pc, written, flushed>>

\* ~Logger: finish() adds " - ", the file's name, ':', the number of the line
\* and its end; g_output gets the array, all of it whatever it holds ...
EndLine(n, line) ==
    /\ pc = "message"
    /\ LET Finish(Put(_, _), PutInteger(_, _), stream) ==
              Put(PutInteger(Put(Put(Put(stream, 3), n), 1), line), 1)
       IN  /\ stream_' = Finish(AppendText, FormatInteger, stream_)
           /\ offered' = Finish(AddText, AddInteger, offered)
    /\ written' = Append(written, level_)
    /\ pc' = "output"
    /\ UNCHANGED <<g_logLevel, level_, flushed>>

\* ... and a fatal line ends the process, after g_flush.
Return ==
    /\ pc = "output"
    /\ pc' = IF level_ = FATAL THEN "flush" ELSE "idle"
    /\ stream_' = Empty
    /\ offered' = Empty
    /\ UNCHANGED <<g_logLevel, level_, written, flushed>>
FlushAndAbort ==
    /\ pc = "flush"
    /\ flushed' = Len(written)
    /\ pc' = "aborted"
    /\ UNCHANGED <<g_logLevel, level_, stream_, offered, written>>

Next ==
    \/ \E level \in LogLevel :
         SetLogLevel(level) \/ \E n \in TextLen : BeginLine(level, n)
    \/ LogPiece
    \/ \E n \in TextLen, line \in LineNumber : EndLine(n, line)
    \/ Return \/ FlushAndAbort

\* A statement that logs ends, and so does a Logger's destructor.
Fairness ==
    /\ WF_vars(\E n \in TextLen, line \in LineNumber : EndLine(n, line))
    /\ WF_vars(Return) /\ WF_vars(FlushAndAbort)

Spec == Init /\ [][Next]_vars /\ Fairness

-----------------------------------------------------------------------------
(* Properties.                                                             *)

\* Whatever is logged, in whatever order and length, the pieces that append()
\* and formatInteger() let through stay in the array, with a byte to spare for
\* formatInteger's '\0'.
LineFits == stream_.cur < Size

\* A line is whole, up to its '\n', as long as it leaves room for a number:
\* only a line longer than that may lose pieces.
LinesAreWhole == offered.cur <= Size - kMaxNumericSize => stream_ = offered

\* Every piece is a text or digits with a sign (TypeOK), and the characters of an
\* integer read back as its value, of either sign.
Value(cs) ==
    LET value[k \in 0 .. Len(cs)] == IF k = 0 THEN 0 ELSE 10 * value[k - 1] + cs[k]
    IN  value[Len(cs)]
ReadBack(cs) == IF Head(cs) = Minus THEN -Value(Tail(cs)) ELSE Value(cs)
IntegersReadBack ==
    /\ TypeOK
    /\ \A i \in DOMAIN stream_.pieces :
         LET piece == stream_.pieces[i]
         IN  piece.chars # <<>> => ReadBack(piece.chars) = piece.value

\* The inductive invariant behind the first two.
LineInv ==
    /\ stream_.cur \in Nat /\ offered.cur \in Nat
    /\ LineFits
    /\ stream_ = offered \/ offered.cur > Size - kMaxNumericSize

\* A fatal line ends the process, and not before g_flush has been called after
\* it: the line that says why is not lost.
FatalLineIsOut ==
    (pc = "message" /\ level_ = FATAL)
        ~> (pc = "aborted" /\ flushed = Len(written) /\ Last(written) = FATAL)
=============================================================================
