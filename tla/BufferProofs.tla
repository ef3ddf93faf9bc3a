---------------------------- MODULE BufferProofs -----------------------------
(***************************************************************************)
(* Proofs about Buffer, for every alphabet, every set of byte strings and  *)
(* every size below what an int holds.                                     *)
(***************************************************************************)
EXTENDS Buffer, SequenceTheorems, TLAPS

\* A buffer the calls may be made on.
Sound(s) ==
    /\ s \in [cells : Seq(Byte), r : Nat, w : Nat]
    /\ kCheapPrepend <= s.r /\ s.r <= s.w /\ s.w <= Len(s.cells)
    /\ Len(s.cells) <= MaxSize

LEMMA Sizes ==
    /\ kCheapPrepend \in Nat \ {0} /\ kInitialSize \in Nat /\ ExtraSize \in Nat
    /\ MaxSize \in Nat /\ SizeT \in Nat /\ IntMax \in Nat
    /\ kCheapPrepend + kInitialSize <= MaxSize
    /\ MaxSize + kCheapPrepend < IntMax /\ 2 * IntMax <= SizeT
    /\ Zero \in Byte
  BY BufferAssumption

LEMMA SoundSizes ==
    ASSUME NEW s, Sound(s)
    PROVE  /\ s.cells \in Seq(Byte) /\ s.r \in Nat /\ s.w \in Nat /\ Len(s.cells) \in Nat
           /\ \A i \in 1 .. Len(s.cells) : s.cells[i] \in Byte
           /\ Readable(s) \in Nat /\ Writeable(s) \in Nat
           /\ s = [cells |-> s.cells, r |-> s.r, w |-> s.w]
  BY LenProperties, Sizes DEF Sound, Readable, Writeable

\* A function over 1 .. n is the sequence of that length.
LEMMA Tabulated ==
    ASSUME NEW n \in Nat, NEW f \in [1 .. n -> Byte]
    PROVE  f \in Seq(Byte) /\ Len(f) = n
<1>1. f \in Seq(Byte)
  BY SeqDef
<1>2. Len(f) \in Nat /\ DOMAIN f = 1 .. Len(f)
  BY <1>1, LenProperties
<1>3. 1 .. Len(f) = 1 .. n
  BY <1>2
<1>. QED
  BY <1>1, <1>2, <1>3

LEMMA ConcatAt ==
    ASSUME NEW a \in Seq(Byte), NEW b \in Seq(Byte), NEW n \in Nat, Len(a) = n
    PROVE  /\ a \o b \in Seq(Byte) /\ Len(a \o b) = n + Len(b)
           /\ \A i \in 1 .. n + Len(b) : (a \o b)[i] = IF i <= n THEN a[i] ELSE b[i - n]
  BY ConcatProperties

LEMMA ContentsTyped ==
    ASSUME NEW s, Sound(s)
    PROVE  /\ Contents(s) \in Seq(Byte) /\ Len(Contents(s)) = Readable(s)
           /\ \A i \in 1 .. Readable(s) : Contents(s)[i] = s.cells[s.r + i]
<1>1. \A i \in 1 .. Readable(s) : s.r + i \in 1 .. Len(s.cells)
  BY SoundSizes DEF Sound, Readable
<1>2. Contents(s) \in [1 .. Readable(s) -> Byte]
  BY <1>1, SoundSizes DEF Contents
<1>. QED
  BY <1>2, Tabulated, SoundSizes DEF Contents

(***************************************************************************)
(* The parts of append.                                                    *)
(***************************************************************************)
\* Copying in what there is room for appends it to the contents.
LEMMA CopyInAppends ==
    ASSUME NEW s, Sound(s), NEW d \in Seq(Byte), Len(d) <= Writeable(s)
    PROVE  LET t == CopyIn(s, d)
           IN  /\ Sound(t) /\ Len(t.cells) = Len(s.cells) /\ Readable(t) = Readable(s) + Len(d)
               /\ t.w = s.w + Len(d)
               /\ Contents(t) = Contents(s) \o d
<1> DEFINE t == CopyIn(s, d)
<1>1. /\ s.cells \in Seq(Byte) /\ s.r \in Nat /\ s.w \in Nat /\ Len(s.cells) \in Nat
      /\ \A i \in 1 .. Len(s.cells) : s.cells[i] \in Byte
      /\ s.r <= s.w /\ s.w + Len(d) <= Len(s.cells) /\ Len(d) \in Nat
      /\ \A i \in 1 .. Len(d) : d[i] \in Byte
  BY SoundSizes, LenProperties DEF Sound, Writeable
<1>2. /\ t.r = s.r /\ t.w = s.w + Len(d)
      /\ t.cells = [i \in 1 .. Len(s.cells) |->
                       IF i \in s.w + 1 .. s.w + Len(d) THEN d[i - s.w] ELSE s.cells[i]]
      /\ t = [cells |-> t.cells, r |-> t.r, w |-> t.w]
  BY DEF CopyIn
<1> HIDE DEF t
<1>3. t.cells \in Seq(Byte) /\ Len(t.cells) = Len(s.cells)
  <2>1. t.cells \in [1 .. Len(s.cells) -> Byte]
    BY <1>1, <1>2
  <2>. QED
    BY <1>1, <2>1, Tabulated
<1>4. Sound(t)
  <2>1. t \in [cells : Seq(Byte), r : Nat, w : Nat]
    BY <1>1, <1>3 DEF t, CopyIn
  <2>. QED
    BY <1>1, <1>2, <1>3, <2>1 DEF Sound
<1>5. Readable(t) = Readable(s) + Len(d)
  BY <1>1, <1>2 DEF Readable
<1>6. Contents(t) = Contents(s) \o d
  <2>1. /\ Contents(s) \in Seq(Byte) /\ Len(Contents(s)) = Readable(s)
        /\ \A i \in 1 .. Readable(s) : Contents(s)[i] = s.cells[s.r + i]
    BY ContentsTyped
  <2>2. /\ Contents(t) \in Seq(Byte) /\ Len(Contents(t)) = Readable(t)
        /\ \A i \in 1 .. Readable(t) : Contents(t)[i] = t.cells[t.r + i]
    BY <1>4, ContentsTyped
  <2>3. /\ Contents(s) \o d \in Seq(Byte) /\ Len(Contents(s) \o d) = Readable(s) + Len(d)
        /\ \A i \in 1 .. Readable(s) + Len(d) : (Contents(s) \o d)[i] =
              IF i <= Readable(s) THEN Contents(s)[i] ELSE d[i - Readable(s)]
    <3>1. Readable(s) \in Nat
      BY SoundSizes
    <3>. QED
      BY <2>1, <3>1, ConcatAt
  <2>4. ASSUME NEW i \in 1 .. Readable(t) PROVE Contents(t)[i] = (Contents(s) \o d)[i]
    <3>1. s.r + i \in 1 .. Len(s.cells) /\ Readable(s) = s.w - s.r
      BY <1>1, <1>5 DEF Readable
    <3>2. t.cells[s.r + i] = IF s.r + i \in s.w + 1 .. s.w + Len(d)
                               THEN d[s.r + i - s.w] ELSE s.cells[s.r + i]
      BY <1>1, <1>2, <3>1
    <3>3. Contents(t)[i] = t.cells[s.r + i]
      BY <1>2, <2>2
    <3>4. (Contents(s) \o d)[i] = IF i <= Readable(s) THEN Contents(s)[i] ELSE d[i - Readable(s)]
      BY <1>5, <2>3
    <3>5. CASE i <= Readable(s)
      <4>1. i \in 1 .. Readable(s) /\ s.r + i \notin s.w + 1 .. s.w + Len(d)
        BY <1>1, <3>1, <3>5
      <4>2. Contents(s)[i] = s.cells[s.r + i]
        BY <2>1, <4>1
      <4>. QED
        BY <3>2, <3>3, <3>4, <3>5, <4>1, <4>2
    <3>6. CASE ~(i <= Readable(s))
      <4>1. s.r + i \in s.w + 1 .. s.w + Len(d) /\ s.r + i - s.w = i - Readable(s)
        BY <1>1, <1>5, <3>1, <3>6
      <4>. QED
        BY <3>2, <3>3, <3>4, <3>6, <4>1
    <3>. QED
      BY <3>5, <3>6
  <2>. QED
    BY <1>5, <2>2, <2>3, <2>4, SeqEqual
<1>. QED
  BY <1>2, <1>3, <1>4, <1>5, <1>6 DEF t

\* ensureWritableBytes makes room and keeps the contents; it grows the vector
\* only when moving to the front is not enough.
LEMMA EnsureMakesRoom ==
    ASSUME NEW s, Sound(s), NEW n \in Nat, s.w + n <= MaxSize
    PROVE  LET t == EnsureWritable(s, n)
           IN  /\ Sound(t) /\ Writeable(t) >= n /\ Readable(t) = Readable(s)
               /\ Contents(t) = Contents(s)
               /\ Len(t.cells) >= Len(s.cells)
               /\ Len(t.cells) > Len(s.cells)
                     => kCheapPrepend + Readable(s) + n > Len(s.cells)
<1> DEFINE t == EnsureWritable(s, n)
<1>1. /\ s.cells \in Seq(Byte) /\ s.r \in Nat /\ s.w \in Nat /\ Len(s.cells) \in Nat
      /\ \A i \in 1 .. Len(s.cells) : s.cells[i] \in Byte
      /\ kCheapPrepend <= s.r /\ s.r <= s.w /\ s.w <= Len(s.cells) /\ Len(s.cells) <= MaxSize
  BY SoundSizes DEF Sound
<1>2. CASE Writeable(s) >= n
  <2>1. t = s
    BY <1>1, <1>2 DEF EnsureWritable, Writeable
  <2>. QED
    BY <1>1, <1>2, <2>1
<1>3. CASE Writeable(s) < n
  <2>1. t = MakeSpace(s, n)
    BY <1>1, <1>3, Sizes DEF EnsureWritable, AsInt
  <2>2. AsSize(n + kCheapPrepend) = n + kCheapPrepend /\ AsSize(s.w + n) = s.w + n
    BY <1>1, Sizes DEF AsSize
  <2>3. CASE Writeable(s) + s.r < n + kCheapPrepend
    <3>1. t = [cells |-> Resize(s.cells, s.w + n), r |-> s.r, w |-> s.w]
      BY <2>1, <2>2, <2>3 DEF MakeSpace
    <3>2. t.cells \in [1 .. s.w + n -> Byte] /\ s.w + n \in Nat
      BY <1>1, <3>1, Sizes DEF Resize
    <3>3. t.cells \in Seq(Byte) /\ Len(t.cells) = s.w + n
      BY <3>2, Tabulated
    <3>4. Sound(t)
      BY <1>1, <3>1, <3>3 DEF Sound
    <3>5. \A i \in 1 .. s.w : t.cells[i] = s.cells[i]
      BY <1>1, <3>1 DEF Resize
    <3>6. Contents(t) = Contents(s)
      <4>1. \A i \in 1 .. s.w - s.r : s.r + i \in 1 .. s.w
        BY <1>1
      <4>. QED
        BY <3>1, <3>5, <4>1 DEF Contents, Readable
    <3>7. Readable(t) = Readable(s) /\ Writeable(t) = n
      BY <1>1, <3>1, <3>3 DEF Readable, Writeable
    <3>8. Len(t.cells) >= Len(s.cells) /\ kCheapPrepend + Readable(s) + n > Len(s.cells)
      BY <1>1, <1>3, <2>3, <3>3, Sizes DEF Readable, Writeable
    <3>. QED
      BY <3>4, <3>6, <3>7, <3>8
  <2>4. CASE ~(Writeable(s) + s.r < n + kCheapPrepend)
    <3>1. t = MoveToFront(s)
      BY <2>1, <2>2, <2>4 DEF MakeSpace
    <3>2. /\ t.r = kCheapPrepend /\ t.w = kCheapPrepend + Readable(s)
          /\ Readable(s) = s.w - s.r
      BY <3>1 DEF MoveToFront, Readable
    <3>3. t.cells = [i \in 1 .. Len(s.cells) |->
                        IF i \in kCheapPrepend + 1 .. kCheapPrepend + Readable(s)
                          THEN s.cells[i - kCheapPrepend + s.r] ELSE s.cells[i]]
      BY <3>1 DEF MoveToFront
    <3>4. ASSUME NEW i \in kCheapPrepend + 1 .. kCheapPrepend + Readable(s)
          PROVE  i \in 1 .. Len(s.cells) /\ i - kCheapPrepend + s.r \in 1 .. Len(s.cells)
      BY <1>1, <3>2, Sizes
    <3>5. t.cells \in [1 .. Len(s.cells) -> Byte]
      BY <1>1, <3>3, <3>4
    <3>6. t.cells \in Seq(Byte) /\ Len(t.cells) = Len(s.cells)
      BY <1>1, <3>5, Tabulated
    <3>7. Sound(t)
      <4>1. t \in [cells : Seq(Byte), r : Nat, w : Nat]
        BY <1>1, <3>1, <3>2, <3>6, Sizes DEF MoveToFront
      <4>. QED
        BY <1>1, <3>2, <3>6, <4>1, Sizes DEF Sound
    <3>8. Readable(t) = Readable(s)
      BY <1>1, <3>2, Sizes DEF Readable
    <3>9. ASSUME NEW i \in 1 .. Readable(s) PROVE t.cells[t.r + i] = s.cells[s.r + i]
      <4>1. /\ kCheapPrepend + i \in kCheapPrepend + 1 .. kCheapPrepend + Readable(s)
            /\ (kCheapPrepend + i) - kCheapPrepend + s.r = s.r + i
        BY <1>1, <3>2, Sizes
      <4>. QED
        BY <3>2, <3>3, <3>4, <4>1
    <3>10. Contents(t) = Contents(s)
      BY <3>8, <3>9 DEF Contents
    <3>. QED
      BY <1>1, <1>3, <2>4, <3>2, <3>6, <3>7, <3>8, <3>10, Sizes DEF Writeable
  <2>. QED
    BY <2>3, <2>4
<1>4. Writeable(s) >= n \/ Writeable(s) < n
  BY <1>1 DEF Writeable
<1>. QED
  BY <1>2, <1>3, <1>4

\* append, which is the two in a row.
LEMMA AppendedAppends ==
    ASSUME NEW s, Sound(s), NEW d \in Seq(Byte), s.w + Len(d) <= MaxSize
    PROVE  LET t == Appended(s, d)
           IN  /\ Sound(t) /\ Contents(t) = Contents(s) \o d
               /\ Readable(t) = Readable(s) + Len(d)
               /\ Len(t.cells) >= Len(s.cells)
               /\ Len(t.cells) > Len(s.cells) => kCheapPrepend + Readable(t) > Len(s.cells)
<1> DEFINE e == EnsureWritable(s, Len(d))
<1>1. Len(d) \in Nat /\ Readable(s) \in Nat
  BY LenProperties, SoundSizes
<1>2. /\ Sound(e) /\ Writeable(e) >= Len(d) /\ Readable(e) = Readable(s)
      /\ Contents(e) = Contents(s) /\ Len(e.cells) >= Len(s.cells)
      /\ Len(e.cells) > Len(s.cells) => kCheapPrepend + Readable(s) + Len(d) > Len(s.cells)
  BY <1>1, EnsureMakesRoom
<1> HIDE DEF e
<1>3. Writeable(e) \in Nat
  BY <1>2, SoundSizes
<1>4. /\ Sound(CopyIn(e, d)) /\ Len(CopyIn(e, d).cells) = Len(e.cells)
      /\ Readable(CopyIn(e, d)) = Readable(e) + Len(d)
      /\ Contents(CopyIn(e, d)) = Contents(e) \o d
  BY <1>1, <1>2, <1>3, CopyInAppends
<1>5. Appended(s, d) = CopyIn(e, d)
  BY DEF Appended, e
<1>. QED
  BY <1>1, <1>2, <1>4, <1>5, Sizes

(***************************************************************************)
(* The calls.                                                              *)
(***************************************************************************)
\* readFd appends what readv delivered, through extrabuff or not.
LEMMA ReadFdAppends ==
    ASSUME Sound(buf), NEW d \in Seq(Byte), ReadFd(d)
    PROVE  /\ Sound(buf') /\ Contents(buf') = Contents(buf) \o d
           /\ Readable(buf') = Readable(buf) + Len(d)
           /\ Len(buf'.cells) >= Len(buf.cells)
           /\ Len(buf'.cells) > Len(buf.cells)
                 => kCheapPrepend + Readable(buf') > Len(buf.cells)
<1>1. /\ Len(d) \in Nat /\ Writeable(buf) \in Nat /\ Readable(buf) \in Nat
      /\ Len(buf.cells) \in Nat /\ buf.w \in Nat /\ Len(buf.cells) = buf.w + Writeable(buf)
      /\ \A i \in 1 .. Len(d) : d[i] \in Byte
      /\ buf.w + Len(d) <= MaxSize
  BY LenProperties, SoundSizes DEF Writeable, ReadFd
<1>2. CASE Len(d) <= Writeable(buf)
  <2>1. buf' = CopyIn(buf, d)
    BY <1>2 DEF ReadFd
  <2>2. /\ Sound(CopyIn(buf, d)) /\ Len(CopyIn(buf, d).cells) = Len(buf.cells)
        /\ Readable(CopyIn(buf, d)) = Readable(buf) + Len(d)
        /\ Contents(CopyIn(buf, d)) = Contents(buf) \o d
    BY <1>2, CopyInAppends
  <2>. QED
    BY <1>1, <2>1, <2>2
<1>3. CASE ~(Len(d) <= Writeable(buf))
  <2> DEFINE front == SubSeq(d, 1, Writeable(buf))
             rest == SubSeq(d, Writeable(buf) + 1, Len(d))
             full == CopyIn(buf, front)
  <2>1. buf' = Appended(full, rest)
    BY <1>3 DEF ReadFd
  <2>2. front \in Seq(Byte) /\ Len(front) = Writeable(buf)
    BY <1>1, <1>3, SubSeqProperties
  <2>3. rest \in Seq(Byte) /\ Len(rest) = Len(d) - Writeable(buf)
    BY <1>1, <1>3, SubSeqProperties
  <2>4. front \o rest = d
    <3>1. /\ 1 \in 1 .. Len(d) + 1 /\ Writeable(buf) \in 1 - 1 .. Len(d)
          /\ Len(d) \in Writeable(buf) .. Len(d)
      BY <1>1, <1>3
    <3>2. front \o rest = SubSeq(d, 1, Len(d))
      BY <3>1, ConcatAdjacentSubSeq
    <3>. QED
      BY <3>2, SubSeqFull
  <2> HIDE DEF front, rest
  <2>5. /\ Sound(full) /\ Len(full.cells) = Len(buf.cells) /\ full.w = buf.w + Len(front)
        /\ Readable(full) = Readable(buf) + Len(front)
        /\ Contents(full) = Contents(buf) \o front
    <3>1. Len(front) <= Writeable(buf)
      BY <1>1, <2>2
    <3>. QED
      BY <2>2, <3>1, CopyInAppends
  <2> HIDE DEF full
  <2>6. /\ Sound(buf') /\ Contents(buf') = Contents(full) \o rest
        /\ Readable(buf') = Readable(full) + Len(rest)
        /\ Len(buf'.cells) >= Len(full.cells)
        /\ Len(buf'.cells) > Len(full.cells)
              => kCheapPrepend + Readable(buf') > Len(full.cells)
    <3>1. full.w + Len(rest) <= MaxSize
      BY <1>1, <2>2, <2>3, <2>5
    <3>. QED
      BY <2>1, <2>3, <2>5, <3>1, AppendedAppends
  <2>7. (Contents(buf) \o front) \o rest = Contents(buf) \o (front \o rest)
    BY <2>2, <2>3, ContentsTyped, ConcatAssociative
  <2>. QED
    BY <1>1, <2>2, <2>3, <2>4, <2>5, <2>6, <2>7
<1>. QED
  BY <1>2, <1>3

\* retrieve takes a prefix of the contents.
LEMMA RetrieveTakes ==
    ASSUME Sound(buf), NEW len \in Nat, Retrieve(len)
    PROVE  LET n == IF len < Readable(buf) THEN len ELSE Readable(buf)
           IN  /\ Sound(buf') /\ Len(buf'.cells) = Len(buf.cells)
               /\ n \in 0 .. Readable(buf)
               /\ last' = SubSeq(Contents(buf), 1, n) /\ last' \in Seq(Byte)
               /\ Contents(buf') = SubSeq(Contents(buf), n + 1, Len(Contents(buf)))
<1> DEFINE n == IF len < Readable(buf) THEN len ELSE Readable(buf)
<1>1. /\ Contents(buf) \in Seq(Byte) /\ Len(Contents(buf)) = Readable(buf)
      /\ \A i \in 1 .. Readable(buf) : Contents(buf)[i] = buf.cells[buf.r + i]
      /\ \A i \in 1 .. Readable(buf) : Contents(buf)[i] \in Byte
  BY ContentsTyped, LenProperties
<1>2. /\ buf.cells \in Seq(Byte) /\ buf.r \in Nat /\ buf.w \in Nat
      /\ Len(buf.cells) \in Nat /\ Readable(buf) \in Nat /\ Readable(buf) = buf.w - buf.r
      /\ buf = [cells |-> buf.cells, r |-> buf.r, w |-> buf.w]
  BY SoundSizes DEF Readable
<1>3. n \in 0 .. Readable(buf)
  BY <1>2
<1>4. last' = SubSeq(Contents(buf), 1, n)
  BY DEF Retrieve
<1>5. last' \in Seq(Byte)
  BY <1>1, <1>2, <1>3, <1>4, SubSeqProperties
<1>6. CASE len < Readable(buf)
  <2>1. buf' = [cells |-> buf.cells, r |-> buf.r + len, w |-> buf.w]
    BY <1>2, <1>6 DEF Retrieve
  <2>2. Sound(buf')
    <3>1. buf' \in [cells : Seq(Byte), r : Nat, w : Nat]
      BY <1>2, <2>1
    <3>2. /\ kCheapPrepend <= buf.r /\ buf.w <= Len(buf.cells) /\ Len(buf.cells) <= MaxSize
      BY DEF Sound
    <3>. QED
      BY <1>2, <1>6, <2>1, <3>1, <3>2, Sizes DEF Sound
  <2>3. Readable(buf') = Readable(buf) - len
    BY <1>2, <2>1 DEF Readable
  <2>4. /\ Contents(buf') \in Seq(Byte) /\ Len(Contents(buf')) = Readable(buf) - len
        /\ \A i \in 1 .. Readable(buf) - len : Contents(buf')[i] = buf.cells[(buf.r + len) + i]
    BY <2>1, <2>2, <2>3, ContentsTyped
  <2>5. /\ SubSeq(Contents(buf), len + 1, Readable(buf)) \in Seq(Byte)
        /\ Len(SubSeq(Contents(buf), len + 1, Readable(buf))) = Readable(buf) - len
        /\ \A i \in 1 .. Readable(buf) - len :
              SubSeq(Contents(buf), len + 1, Readable(buf))[i] = Contents(buf)[(len + 1) + i - 1]
    BY <1>1, <1>2, <1>6, SubSeqProperties
  <2>6. ASSUME NEW i \in 1 .. Readable(buf) - len
        PROVE  Contents(buf')[i] = SubSeq(Contents(buf), len + 1, Readable(buf))[i]
    <3>1. /\ len + i \in 1 .. Readable(buf) /\ (len + 1) + i - 1 = len + i
          /\ (buf.r + len) + i = buf.r + (len + i)
      BY <1>2
    <3>. QED
      BY <1>1, <2>4, <2>5, <3>1
  <2>7. Contents(buf') = SubSeq(Contents(buf), len + 1, Readable(buf))
    BY <2>4, <2>5, <2>6, SeqEqual
  <2>. QED
    BY <1>1, <1>3, <1>4, <1>5, <1>6, <2>1, <2>2, <2>7
<1>7. CASE ~(len < Readable(buf))
  <2>1. buf' = [cells |-> buf.cells, r |-> kCheapPrepend, w |-> kCheapPrepend]
    BY <1>2, <1>7 DEF Retrieve, RetrieveAll
  <2>2. Sound(buf')
    BY <1>2, <2>1, Sizes DEF Sound
  <2>3. Readable(buf') = 0
    BY <2>1, Sizes DEF Readable
  <2>4. Contents(buf') = <<>>
    BY <2>2, <2>3, ContentsTyped, EmptySeq
  <2>5. SubSeq(Contents(buf), Readable(buf) + 1, Readable(buf)) = <<>>
    BY <1>2, SubSeqEmpty
  <2>. QED
    BY <1>1, <1>3, <1>4, <1>5, <1>7, <2>1, <2>2, <2>4, <2>5
<1>. QED
  BY <1>6, <1>7

(***************************************************************************)
(* The invariants.                                                         *)
(***************************************************************************)
BufferInv == TypeOK /\ IndexInv

LEMMA InvSound == BufferInv /\ ~failed => Sound(buf)
  BY DEF BufferInv, TypeOK, IndexInv, Sound

LEMMA SoundInv ==
    ASSUME Sound(buf'), ~failed', failed' \in BOOLEAN, last' \in Seq(Byte)
    PROVE  BufferInv'
  BY DEF BufferInv, TypeOK, IndexInv, Sound

LEMMA InitInv == Init => BufferInv /\ Readable(buf) = 0
<1> SUFFICES ASSUME Init PROVE BufferInv /\ Readable(buf) = 0
  OBVIOUS
<1>1. kCheapPrepend + kInitialSize \in Nat
  BY Sizes
<1>2. [i \in 1 .. kCheapPrepend + kInitialSize |-> Zero]
        \in [1 .. kCheapPrepend + kInitialSize -> Byte]
  BY Sizes
<1>3. buf.cells \in Seq(Byte) /\ Len(buf.cells) = kCheapPrepend + kInitialSize
  BY <1>1, <1>2, Tabulated DEF Init
<1>4. buf.r = kCheapPrepend /\ buf.w = kCheapPrepend /\ ~failed /\ failed \in BOOLEAN
      /\ last \in Seq(Byte)
  BY EmptySeq DEF Init
<1>5. buf \in [cells : Seq(Byte), r : Nat, w : Nat]
  BY <1>3, <1>4, Sizes DEF Init
<1>6. TypeOK
  BY <1>4, <1>5 DEF TypeOK
<1>7. IndexInv
  BY <1>3, <1>4, Sizes DEF IndexInv
<1>8. Readable(buf) = 0
  BY <1>4, Sizes DEF Readable
<1>. QED
  BY <1>6, <1>7, <1>8 DEF BufferInv

\* The integers of a failed read: readv's -1 as a size_t, passed on as an int.
LEMMA ErrorArithmetic ==
    ASSUME NEW size \in Nat, NEW w \in Nat, NEW r \in Nat,
           kCheapPrepend <= r, r <= w, w <= size, size <= MaxSize
    PROVE  /\ 0 < SizeT - 1 - (size - w)
           /\ AsInt(SizeT - 1 - (size - w)) = -1 - (size - w)
           /\ AsSize(size + (-1 - (size - w))) = w - 1
           /\ AsSize(size + (SizeT - 1 - (size - w))) = w - 1
           /\ AsSize((kCheapPrepend + (size - r)) + (SizeT - 1 - (size - w)))
                = kCheapPrepend + w - r - 1
           /\ w - 1 \in Nat /\ kCheapPrepend + w - r - 1 \in Nat
<1>1. PICK free \in Nat : free = size - w
  OBVIOUS
<1>2. /\ kCheapPrepend \in Nat /\ 0 < kCheapPrepend
      /\ MaxSize \in Nat /\ SizeT \in Nat /\ IntMax \in Nat
      /\ free <= MaxSize /\ MaxSize < IntMax /\ 2 * IntMax <= SizeT
  BY <1>1, Sizes
<1>3. /\ 0 < SizeT - 1 - free
      /\ AsInt(SizeT - 1 - free) = -1 - free
  BY <1>2 DEF AsInt
<1>4. /\ w - 1 \in Nat /\ w - 1 < SizeT
      /\ kCheapPrepend + w - r - 1 \in Nat
  BY <1>2
<1>5. size + (-1 - free) = w - 1
  BY <1>1
<1>6. size + (SizeT - 1 - free) = SizeT + (w - 1)
  BY <1>1, <1>2
<1>7. (kCheapPrepend + (size - r)) + (SizeT - 1 - free) = SizeT + (kCheapPrepend + w - r - 1)
  BY <1>1, <1>2
<1>8. ASSUME NEW x \in Nat PROVE AsSize(SizeT + x) = x
  BY <1>2 DEF AsSize
<1>9. AsSize(w - 1) = w - 1
  BY <1>2, <1>4 DEF AsSize
<1>. QED
  BY <1>1, <1>3, <1>4, <1>5, <1>6, <1>7, <1>8, <1>9

\* A failed read takes one byte off writerIndex_, whether it resizes the vector
\* (to one byte less) or moves the contents to the front.
LEMMA ErrorStep ==
    ASSUME BufferInv, ReadFdError
    PROVE  BufferInv' /\ ~(Len(buf'.cells) > Len(buf.cells))
<1>1. /\ buf.cells \in Seq(Byte) /\ buf.r \in Nat /\ buf.w \in Nat /\ Len(buf.cells) \in Nat
      /\ kCheapPrepend <= buf.r /\ buf.r <= buf.w /\ buf.w <= Len(buf.cells)
      /\ Len(buf.cells) <= MaxSize
      /\ \A i \in 1 .. Len(buf.cells) : buf.cells[i] \in Byte
      /\ buf = [cells |-> buf.cells, r |-> buf.r, w |-> buf.w]
      /\ Writeable(buf) = Len(buf.cells) - buf.w
      /\ last' \in Seq(Byte) /\ failed' = TRUE
  BY InvSound, SoundSizes DEF ReadFdError, Sound, Writeable, BufferInv, TypeOK
<1> DEFINE size == Len(buf.cells)
           len == SizeT - 1 - Writeable(buf)
           full == [cells |-> buf.cells, r |-> buf.r, w |-> size]
           t == EnsureWritable(full, len)
           short == -1 - (size - buf.w)
<1>2. buf' = [t EXCEPT !.w = AsSize(@ + len)]
  <2>1. [buf EXCEPT !.w = Len(buf.cells)] = full
    BY <1>1
  <2>. QED
    BY <2>1 DEF ReadFdError
<1>a. /\ 0 < len /\ AsInt(len) = short
      /\ AsSize(size + short) = buf.w - 1
      /\ AsSize(size + len) = buf.w - 1
      /\ AsSize((kCheapPrepend + (size - buf.r)) + len) = kCheapPrepend + buf.w - buf.r - 1
      /\ buf.w - 1 \in Nat /\ kCheapPrepend + buf.w - buf.r - 1 \in Nat
  BY <1>1, ErrorArithmetic
<1>3. t = MakeSpace(full, short)
  <2>1. Writeable(full) = 0
    BY <1>1 DEF Writeable
  <2>. HIDE DEF len, short
  <2>. QED
    BY <2>1, <1>a DEF EnsureWritable
<1>4. CASE Writeable(full) + full.r < AsSize(short + kCheapPrepend)
  <2>1. AsSize(full.w + short) = buf.w - 1 /\ buf.w - 1 \in Nat
    BY <1>a
  <2>2. t = [cells |-> Resize(buf.cells, buf.w - 1), r |-> buf.r, w |-> size]
    BY <1>3, <1>4, <2>1 DEF MakeSpace
  <2>3. AsSize(size + len) = buf.w - 1
    BY <1>a
  <2>4. buf' = [cells |-> Resize(buf.cells, buf.w - 1), r |-> buf.r, w |-> buf.w - 1]
    BY <1>2, <2>2, <2>3
  <2>5. Resize(buf.cells, buf.w - 1) \in [1 .. buf.w - 1 -> Byte]
    BY <1>1, Sizes DEF Resize
  <2>6. /\ Resize(buf.cells, buf.w - 1) \in Seq(Byte)
        /\ Len(Resize(buf.cells, buf.w - 1)) = buf.w - 1
    BY <2>1, <2>5, Tabulated
  <2>7. buf' \in [cells : Seq(Byte), r : Nat, w : Nat]
    BY <1>1, <2>1, <2>4, <2>6
  <2>8. /\ Len(buf'.cells) = buf.w - 1 /\ buf'.w = buf.w - 1 /\ buf'.r = buf.r
    BY <2>4, <2>6
  <2>. QED
    BY <1>1, <2>7, <2>8, Sizes DEF BufferInv, TypeOK, IndexInv
<1>5. CASE ~(Writeable(full) + full.r < AsSize(short + kCheapPrepend))
  <2>1. t = MoveToFront(full)
    BY <1>3, <1>5 DEF MakeSpace
  <2>2. /\ t.r = kCheapPrepend /\ t.w = kCheapPrepend + (size - buf.r)
        /\ t = [cells |-> t.cells, r |-> t.r, w |-> t.w]
        /\ t.cells = [i \in 1 .. size |->
                        IF i \in kCheapPrepend + 1 .. kCheapPrepend + (size - buf.r)
                          THEN buf.cells[i - kCheapPrepend + buf.r] ELSE buf.cells[i]]
    BY <2>1 DEF MoveToFront, Readable
  <2> HIDE DEF t
  <2>3. ASSUME NEW i \in kCheapPrepend + 1 .. kCheapPrepend + (size - buf.r)
        PROVE  i \in 1 .. size /\ i - kCheapPrepend + buf.r \in 1 .. size
    <3>1. /\ size \in Nat /\ buf.r \in Nat /\ kCheapPrepend \in Nat
          /\ kCheapPrepend <= buf.r /\ buf.r <= size
      BY <1>1, Sizes
    <3>. HIDE DEF size
    <3>. QED
      BY <2>3, <3>1
  <2>4. t.cells \in [1 .. size -> Byte]
    <3>1. ASSUME NEW i \in 1 .. size
          PROVE  (IF i \in kCheapPrepend + 1 .. kCheapPrepend + (size - buf.r)
                    THEN buf.cells[i - kCheapPrepend + buf.r] ELSE buf.cells[i]) \in Byte
      BY <1>1, <2>3
    <3>. QED
      BY <2>2, <3>1
  <2>5. t.cells \in Seq(Byte) /\ Len(t.cells) = size
    BY <1>1, <2>4, Tabulated
  <2>6. /\ AsSize((kCheapPrepend + (size - buf.r)) + len) = kCheapPrepend + buf.w - buf.r - 1
        /\ kCheapPrepend + buf.w - buf.r - 1 \in Nat
    BY <1>a
  <2>7. buf' = [cells |-> t.cells, r |-> kCheapPrepend, w |-> kCheapPrepend + buf.w - buf.r - 1]
    BY <1>2, <2>2, <2>6
  <2>8. buf' \in [cells : Seq(Byte), r : Nat, w : Nat]
    BY <2>5, <2>6, <2>7, Sizes
  <2>9. /\ Len(buf'.cells) = size /\ buf'.r = kCheapPrepend
        /\ buf'.w = kCheapPrepend + buf.w - buf.r - 1
    BY <2>5, <2>7
  <2>. QED
    BY <1>1, <2>8, <2>9, Sizes DEF BufferInv, TypeOK, IndexInv
<1>. QED
  BY <1>4, <1>5

\* What a call does to the contents, the invariant and the size.
LEMMA CallStep ==
    ASSUME BufferInv, Next
    PROVE  /\ BufferInv'
           /\ Len(buf'.cells) > Len(buf.cells)
                 => kCheapPrepend + Readable(buf') > Len(buf.cells)
           /\ failed' \/ Len(buf'.cells) >= Len(buf.cells)
           /\ Queue!Next
<1>1. Len(buf.cells) \in Nat
  BY LenProperties DEF BufferInv, TypeOK
<1>2. ASSUME NEW d \in Data, AppendBytes(d) \/ ReadFd(d)
      PROVE  /\ BufferInv'
             /\ Len(buf'.cells) > Len(buf.cells)
                   => kCheapPrepend + Readable(buf') > Len(buf.cells)
             /\ Len(buf'.cells) >= Len(buf.cells)
             /\ Queue!Put(d)
  <2>1. d \in Seq(Byte) /\ ~failed /\ ~failed' /\ Sound(buf) /\ last' = d
    BY <1>2, InvSound, BufferAssumption DEF AppendBytes, ReadFd, BufferInv, TypeOK
  <2>5. /\ UNCHANGED failed /\ failed' \in BOOLEAN
        /\ Promised = Contents(buf) /\ Promised' = Contents(buf')
    BY <1>2, <2>1 DEF AppendBytes, ReadFd, Promised, BufferInv, TypeOK
  <2>2. CASE AppendBytes(d)
    <3>1. buf' = Appended(buf, d) /\ buf.w + Len(d) <= MaxSize
      BY <2>2 DEF AppendBytes
    <3>2. /\ Sound(buf') /\ Contents(buf') = Contents(buf) \o d
          /\ Len(buf'.cells) >= Len(buf.cells)
          /\ Len(buf'.cells) > Len(buf.cells)
                => kCheapPrepend + Readable(buf') > Len(buf.cells)
      BY <2>1, <3>1, AppendedAppends
    <3>. QED
      BY <2>1, <2>5, <3>2, SoundInv DEF Queue!Put
  <2>3. CASE ReadFd(d)
    <3>1. /\ Sound(buf') /\ Contents(buf') = Contents(buf) \o d
          /\ Len(buf'.cells) >= Len(buf.cells)
          /\ Len(buf'.cells) > Len(buf.cells)
                => kCheapPrepend + Readable(buf') > Len(buf.cells)
      BY <2>1, <2>3, ReadFdAppends
    <3>. QED
      BY <2>1, <2>5, <3>1, SoundInv DEF Queue!Put
  <2>. QED
    BY <1>2, <2>2, <2>3
<1>3. ASSUME NEW len \in 0 .. Readable(buf) + 1, Retrieve(len)
      PROVE  BufferInv' /\ Len(buf'.cells) = Len(buf.cells) /\ Queue!Next
  <2>1. ~failed /\ ~failed' /\ UNCHANGED failed /\ Sound(buf) /\ failed' \in BOOLEAN
    BY <1>3, InvSound DEF Retrieve, BufferInv, TypeOK
  <2>5. Promised = Contents(buf) /\ Promised' = Contents(buf')
    BY <2>1 DEF Promised
  <2>2. len \in Nat /\ Len(Contents(buf)) = Readable(buf)
    BY <2>1, SoundSizes, ContentsTyped
  <2>3. PICK n \in 0 .. Readable(buf) :
          /\ Sound(buf') /\ Len(buf'.cells) = Len(buf.cells) /\ last' \in Seq(Byte)
          /\ last' = SubSeq(Contents(buf), 1, n)
          /\ Contents(buf') = SubSeq(Contents(buf), n + 1, Len(Contents(buf)))
    BY <1>3, <2>1, <2>2, RetrieveTakes
  <2>4. Queue!Take(n)
    BY <2>1, <2>3, <2>5 DEF Queue!Take
  <2>. QED
    BY <2>1, <2>2, <2>3, <2>4, <2>5, SoundInv DEF Queue!Next
<1>4. CASE ReadFdError
  <2>1. failed' = TRUE /\ last' = last
    BY <1>4 DEF ReadFdError
  <2>2. Queue!Fail
    BY <2>1 DEF Queue!Fail, Promised
  <2>. QED
    BY <1>4, <2>1, <2>2, ErrorStep DEF Queue!Next
<1>. QED
  BY <1>1, <1>2, <1>3, <1>4 DEF Next, Queue!Next

LEMMA InvStep == BufferInv /\ [Next]_vars => BufferInv'
<1>1. BufferInv /\ Next => BufferInv'
  BY CallStep
<1>2. BufferInv /\ UNCHANGED vars => BufferInv'
  BY DEF vars, BufferInv, TypeOK, IndexInv
<1>. QED
  BY <1>1, <1>2

\* Types and indices together, which the theorems below rest on.
THEOREM BufferInvariant == Spec => []BufferInv
<1>1. Init => BufferInv
  BY InitInv
<1>. QED
  BY <1>1, InvStep, PTL DEF Spec

\* Types of the vector and its indices.
THEOREM TypeCorrect == Spec => []TypeOK
<1>1. BufferInv => TypeOK
  BY DEF BufferInv
<1>. QED
  BY <1>1, BufferInvariant, PTL

\* No call moves an index out of the vector or into the prepend area.
THEOREM IndicesStayInVector == Spec => []IndexInv
<1>1. BufferInv => IndexInv
  BY DEF BufferInv
<1>. QED
  BY <1>1, BufferInvariant, PTL

\* makeSpace grows the vector only when moving to the front cannot make room.
THEOREM GrowthIsNeeded == Spec => GrowsOnlyWhenFull
<1>1. BufferInv /\ [Next]_vars
        => [ /\ Len(buf'.cells) > Len(buf.cells)
                   => kCheapPrepend + Readable(buf') > Len(buf.cells)
             /\ failed' \/ Len(buf'.cells) >= Len(buf.cells) ]_vars
  BY CallStep
<1>. QED
  BY <1>1, BufferInvariant, PTL DEF Spec, GrowsOnlyWhenFull

\* A Buffer is a FIFO queue of bytes.
THEOREM BytesStayInOrder == Spec => BytesInOrder
<1>1. Init => Queue!Init
  <2> SUFFICES ASSUME Init PROVE Queue!Init
    OBVIOUS
  <2>1. BufferInv /\ Readable(buf) = 0 /\ ~failed
    BY InitInv DEF Init
  <2>2. Contents(buf) = <<>>
    BY <2>1, InvSound, ContentsTyped, EmptySeq
  <2>. QED
    BY <2>1, <2>2 DEF Init, Queue!Init, Promised
<1>2. BufferInv /\ [Next]_vars
        => [Queue!Next]_<<Promised, last, failed>>
  <2>1. BufferInv /\ Next => Queue!Next
    BY CallStep
  <2>2. UNCHANGED vars => UNCHANGED <<Promised, last, failed>>
    BY DEF vars, Promised, Contents, Readable
  <2>. QED
    BY <2>1, <2>2
<1>. QED
  BY <1>1, <1>2, BufferInvariant, PTL DEF Spec, BytesInOrder, Queue!Spec
=============================================================================
