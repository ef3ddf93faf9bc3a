-------------------------------- MODULE Buffer --------------------------------
(***************************************************************************)
(* Buffer: a vector of which [readerIndex_, writerIndex_) holds the bytes  *)
(* not yet taken.  A call is one step; a Buffer belongs to one thread.     *)
(* Index i of the vector is cell i + 1 of the sequence.  size_t wraps at   *)
(* SizeT, and int at IntMax, which makeSpace's parameter is.               *)
(***************************************************************************)
EXTENDS Integers, Sequences

CONSTANTS
    Byte,
    Zero,               \* what resize fills up with
    Data,               \* the byte strings appended or read at a time
    kCheapPrepend,      \* 8 in the code
    kInitialSize,       \* 1024 in the code
    ExtraSize,          \* of extrabuff in readFd, 65536 in the code
    MaxSize,            \* bound on the vector
    SizeT,              \* the number of values of size_t, 2^64
    IntMax              \* the number of non-negative values of int, 2^31

ASSUME BufferAssumption ==
    /\ Zero \in Byte
    /\ Data \subseteq Seq(Byte)
    /\ kCheapPrepend \in Nat \ {0} /\ kInitialSize \in Nat /\ ExtraSize \in Nat
    /\ MaxSize \in Nat /\ SizeT \in Nat /\ IntMax \in Nat
    /\ kCheapPrepend + kInitialSize <= MaxSize
    /\ MaxSize + kCheapPrepend < IntMax
    /\ 2 * IntMax <= SizeT

VARIABLES
    buf,                \* [cells |-> buffer_, r |-> readerIndex_, w |-> writerIndex_]
    last,               \* what the latest call was given or returned
    failed              \* readv failed; no caller uses the buffer after that

vars == <<buf, last, failed>>

TypeOK ==
    /\ buf \in [cells : Seq(Byte), r : Nat, w : Nat]
    /\ last \in Seq(Byte)
    /\ failed \in BOOLEAN

Init ==
    /\ buf = [cells |-> [i \in 1 .. kCheapPrepend + kInitialSize |-> Zero],
              r |-> kCheapPrepend, w |-> kCheapPrepend]
    /\ last = <<>>
    /\ failed = FALSE

-----------------------------------------------------------------------------
(* Arithmetic: an int where a size_t is expected, and the reverse for a    *)
(* size_t below IntMax or within IntMax of SizeT.                          *)

AsSize(x) == IF x < 0 THEN x + SizeT ELSE IF x >= SizeT THEN x - SizeT ELSE x
AsInt(x) == IF x < IntMax THEN x ELSE x - SizeT

Readable(s) == s.w - s.r
Writeable(s) == Len(s.cells) - s.w

-----------------------------------------------------------------------------
(* The parts of append.                                                    *)

Resize(cells, n) == [i \in 1 .. n |-> IF i <= Len(cells) THEN cells[i] ELSE Zero]

\* std::copy of d to beginWrite(), and writerIndex_ after it.
CopyIn(s, d) ==
    [cells |-> [i \in 1 .. Len(s.cells) |->
                   IF i \in s.w + 1 .. s.w + Len(d) THEN d[i - s.w] ELSE s.cells[i]],
     r |-> s.r, w |-> s.w + Len(d)]

\* A faulty variant: the indices move, the bytes do not.
MoveIndices(s) ==
    [cells |-> s.cells, r |-> kCheapPrepend, w |-> kCheapPrepend + Readable(s)]

\* std::copy of the readable bytes to begin() + kCheapPrepend.
MoveToFront(s) ==
    [cells |-> [i \in 1 .. Len(s.cells) |->
                   IF i \in kCheapPrepend + 1 .. kCheapPrepend + Readable(s)
                     THEN s.cells[i - kCheapPrepend + s.r] ELSE s.cells[i]],
     r |-> kCheapPrepend, w |-> kCheapPrepend + Readable(s)]

\* A faulty variant.
MakeSpaceNoPrepend(s, len) ==       \* takes the prepend area for room
    IF Writeable(s) + s.r < AsSize(len)
      THEN [s EXCEPT !.cells = Resize(@, AsSize(s.w + len))]
      ELSE MoveToFront(s)

MakeSpace(s, len) ==
    IF Writeable(s) + s.r < AsSize(len + kCheapPrepend)
      THEN [cells |-> Resize(s.cells, AsSize(s.w + len)), r |-> s.r, w |-> s.w]
      ELSE MoveToFront(s)

EnsureWritable(s, len) == IF Writeable(s) < len THEN MakeSpace(s, AsInt(len)) ELSE s

Appended(s, d) == CopyIn(EnsureWritable(s, Len(d)), d)

-----------------------------------------------------------------------------
(* The calls.                                                              *)

Contents(s) == [i \in 1 .. Readable(s) |-> s.cells[s.r + i]]

AppendBytes(d) ==
    /\ ~failed
    /\ buf.w + Len(d) <= MaxSize
    /\ buf' = Appended(buf, d)
    /\ last' = d
    /\ UNCHANGED failed

RetrieveAll(s) == [s EXCEPT !.r = kCheapPrepend, !.w = kCheapPrepend]

\* retrieve, retrieveUntil, retrieveAll and, with the bytes they return,
\* retrieveAsString and retrieveAllAsString.  What retrieveAsString returns of
\* more than there is is not defined; no caller asks for it.
Retrieve(len) ==
    /\ ~failed
    /\ buf' = IF len < Readable(buf) THEN [buf EXCEPT !.r = @ + len] ELSE RetrieveAll(buf)
    /\ last' = SubSeq(Contents(buf), 1, IF len < Readable(buf) THEN len ELSE Readable(buf))
    /\ UNCHANGED failed

\* readv fills the vector's free end, then extrabuff, which is appended.
ReadFd(d) ==
    /\ ~failed
    /\ buf.w + Len(d) <= MaxSize
    /\ LET writable == Writeable(buf)
       IN  /\ Len(d) <= IF writable < ExtraSize THEN writable + ExtraSize ELSE writable
           /\ buf' = IF Len(d) <= writable
                       THEN CopyIn(buf, d)
                       ELSE Appended(CopyIn(buf, SubSeq(d, 1, writable)),
                                     SubSeq(d, writable + 1, Len(d)))
    /\ last' = d
    /\ UNCHANGED failed

\* readv's -1 is the largest size_t, so the extrabuff branch runs, with
\* SizeT - 1 - writable bytes to append.  (Where std::copy does not end the
\* process on this length it copies nothing.)
ReadFdError ==
    /\ ~failed
    /\ LET len == SizeT - 1 - Writeable(buf)
           t == EnsureWritable([buf EXCEPT !.w = Len(buf.cells)], len)
       IN  buf' = [t EXCEPT !.w = AsSize(@ + len)]
    /\ failed' = TRUE
    /\ UNCHANGED last

Next ==
    \/ \E d \in Data : AppendBytes(d) \/ ReadFd(d)
    \/ \E len \in 0 .. Readable(buf) + 1 : Retrieve(len)
    \/ ReadFdError

Spec == Init /\ [][Next]_vars

-----------------------------------------------------------------------------
(* Properties.                                                             *)

\* The indices stay in order and in the vector, the prepend area stays free,
\* and even a failed read leaves writerIndex_ in the vector, at most one before
\* readerIndex_.
IndexInv ==
    /\ Len(buf.cells) <= MaxSize
    /\ buf.w <= Len(buf.cells)
    /\ kCheapPrepend <= buf.r
    /\ IF failed THEN buf.r <= buf.w + 1 ELSE buf.r <= buf.w

\* The vector grows only when the bytes it must hold, with the prepend area,
\* would not fit even after moving them to the front, and a call that succeeds
\* never shrinks it.
GrowsOnlyWhenFull ==
    [][ /\ Len(buf'.cells) > Len(buf.cells) => kCheapPrepend + Readable(buf') > Len(buf.cells)
        /\ failed' \/ Len(buf'.cells) >= Len(buf.cells) ]_vars

\* The bytes come out once and in the order they went in, whichever of moving
\* to the front, growing and extrabuff made room for them.
Promised == IF failed THEN <<>> ELSE Contents(buf)
Queue == INSTANCE ByteQueue WITH content <- Promised
BytesInOrder == Queue!Spec
=============================================================================
