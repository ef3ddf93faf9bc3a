-------------------------- MODULE AsyncLoggingProofs ---------------------------
(***************************************************************************)
(* Proofs about AsyncLogging: spare buffers suffice, and the lines reach   *)
(* the file in the order in which they were appended, whatever the buffers *)
(* that are used again still hold.                                         *)
(*                                                                         *)
(* FreshLines and NewLines are defined by recursion.  What they return is  *)
(* proved by induction in the form of a set of numbers that holds 0 and,   *)
(* with each number, the next one: it holds them all, since a number left  *)
(* out would have a least one among its likes.                             *)
(***************************************************************************)
EXTENDS AsyncLogging, WellFoundedInduction, TLAPS

-----------------------------------------------------------------------------
(* Induction, and functions defined by recursion.                          *)

\* A set of numbers that is not empty has a least one.
LEMMA LeastNatural ==
    ASSUME NEW T \in SUBSET Nat, T # {}
    PROVE  \E n \in T : \A m \in T : n <= m
<1>1. PICK n \in T : \A m \in T : <<m, n>> \notin OpToRel(<, Nat)
  BY NatLessThanWellFounded, WFMin
<1>2. ASSUME NEW m \in T
      PROVE  n <= m
  <2>1. ~ (m < n)
    BY <1>1 DEF OpToRel
  <2> QED
    BY <2>1
<1> QED
  BY <1>2

\* Induction over the numbers, for a set.
LEMMA SetInduction ==
    ASSUME NEW T, 0 \in T, \A n \in Nat : n \in T => n + 1 \in T
    PROVE  Nat \subseteq T
<1> SUFFICES ASSUME Nat \ T # {}
             PROVE  FALSE
  OBVIOUS
<1>1. PICK n \in Nat \ T : \A m \in Nat \ T : n <= m
  BY LeastNatural
<1>2. n # 0 /\ n - 1 \in Nat
  BY <1>1
<1>3. n - 1 \in T
  BY <1>1, <1>2
<1>4. (n - 1) + 1 \in T
  BY <1>2, <1>3
<1> QED
  BY <1>1, <1>4

\* g starts with a and takes n steps.
Iterates(g, n, a, step) == g[0] = a /\ \A i \in 1 .. n : g[i] = step[i][g[i - 1]]

\* A function defined by recursion on its index exists, and has its type.
LEMMA RecursiveFunction ==
    ASSUME NEW n \in Nat, NEW S, NEW a \in S, NEW step \in [1 .. n -> [S -> S]]
    PROVE  \E g \in [0 .. n -> S] : Iterates(g, n, a, step)
<1> DEFINE Good(g, m) == /\ g \in [0 .. m -> S] /\ g[0] = a
                         /\ \A i \in 1 .. m : g[i] = step[i][g[i - 1]]
           T == {m \in Nat : m <= n => \E g : Good(g, m)}
<1>1. 0 \in T
  <2>1. Good([i \in 0 .. 0 |-> a], 0)
    OBVIOUS
  <2> QED
    BY <2>1
<1>2. ASSUME NEW m \in Nat, m \in T
      PROVE  m + 1 \in T
  <2>1. SUFFICES ASSUME m + 1 <= n
                 PROVE  \E g : Good(g, m + 1)
    OBVIOUS
  <2>2. PICK g : Good(g, m)
    BY <1>2, <2>1
  <2> DEFINE h == [i \in 0 .. (m + 1) |-> IF i = m + 1 THEN step[m + 1][g[m]] ELSE g[i]]
  <2>3. g[m] \in S /\ m + 1 \in 1 .. n
    BY <2>1, <2>2
  <2>4. step[m + 1][g[m]] \in S
    BY <2>3
  <2>5. h \in [0 .. (m + 1) -> S]
    BY <2>2, <2>4
  <2>6. h[0] = a
    BY <2>2
  <2>7. \A i \in 1 .. (m + 1) : h[i] = step[i][h[i - 1]]
    <3>1. \A i \in 1 .. m : h[i] = g[i] /\ h[i - 1] = g[i - 1]
      OBVIOUS
    <3>2. h[m + 1] = step[m + 1][g[m]] /\ h[m] = g[m]
      OBVIOUS
    <3>3. \A i \in 1 .. m : g[i] = step[i][g[i - 1]]
      BY <2>2
    <3>4. \A i \in 1 .. m : h[i] = step[i][h[i - 1]]
      BY <3>1, <3>3
    <3>5. h[m + 1] = step[m + 1][h[(m + 1) - 1]]
      BY <3>2
    <3> HIDE DEF h
    <3>6. \A i \in 1 .. (m + 1) : i \in 1 .. m \/ i = m + 1
      OBVIOUS
    <3> QED
      BY <3>4, <3>5, <3>6
  <2>8. Good(h, m + 1)
    BY <2>5, <2>6, <2>7
  <2> QED
    BY <2>8
<1>3. Nat \subseteq T
  BY <1>1, <1>2, SetInduction
<1>4. PICK g : Good(g, n)
  BY <1>3
<1> QED
  BY <1>4 DEF Iterates

\* f and g start alike and stay alike.
StepsAgree(f, g, n) ==
    f[0] = g[0] /\ \A i \in 1 .. n : f[i - 1] = g[i - 1] => f[i] = g[i]

LEMMA RecursiveFunctionUnique ==
    ASSUME NEW n \in Nat, NEW f, NEW g, StepsAgree(f, g, n)
    PROVE  \A i \in 0 .. n : f[i] = g[i]
<1> USE DEF StepsAgree
<1> DEFINE T == {m \in Nat : m <= n => f[m] = g[m]}
<1>1. 0 \in T
  OBVIOUS
<1>2. ASSUME NEW m \in Nat, m \in T
      PROVE  m + 1 \in T
  <2>1. SUFFICES ASSUME m + 1 <= n
                 PROVE  f[m + 1] = g[m + 1]
    OBVIOUS
  <2>2. f[m] = g[m] /\ m + 1 \in 1 .. n /\ (m + 1) - 1 = m
    BY <1>2, <2>1
  <2> QED
    BY <2>2
<1>3. Nat \subseteq T
  BY <1>1, <1>2, SetInduction
<1> QED
  BY <1>3

-----------------------------------------------------------------------------
(* FixedBuffer.                                                            *)

Cell == Line \union {Blank}

LEMMA FreshType ==
    ASSUME NEW b \in FixedBuffer
    PROVE  Fresh(b) \in Seq(Cell) /\ Len(Fresh(b)) = b.cur
<1>1. b.data \in Seq(Cell) /\ Len(b.data) = Cap /\ b.cur \in 0 .. Cap
  BY LoggingAssumption DEF FixedBuffer, Cell
<1> QED
  BY <1>1 DEF Fresh

LEMMA BufferFacts ==
    /\ NewBuffer \in FixedBuffer
    /\ \A b \in FixedBuffer : Reset(b) \in FixedBuffer
    /\ \A b \in FixedBuffer, l \in Line : Append1(b, l) \in FixedBuffer
<1> USE LoggingAssumption
<1>1. NewBuffer \in FixedBuffer
  BY DEF NewBuffer, FixedBuffer
<1>2. \A b \in FixedBuffer : Reset(b) \in FixedBuffer
  BY DEF Reset, FixedBuffer
<1>3. ASSUME NEW b \in FixedBuffer, NEW l \in Line
      PROVE  Append1(b, l) \in FixedBuffer
  <2>1. CASE ~Fits(b, l)
    BY <2>1 DEF Append1
  <2>2. CASE Fits(b, l)
    <3>1. Size(l) = 1 /\ b.cur + 1 <= Cap - 1 /\ b.cur \in 0 .. Cap - 1
      BY <2>2 DEF Fits, Size, FixedBuffer
    <3>2. [b.data EXCEPT ![b.cur + 1] = l] \in [1 .. Cap -> Line \union {Blank}]
      BY <3>1 DEF FixedBuffer
    <3>3. b.cur + 1 \in 0 .. Cap - 1
      BY <3>1
    <3> QED
      BY <2>2, <3>1, <3>2, <3>3 DEF Append1, FixedBuffer
  <2> QED
    BY <2>1, <2>2
<1> QED
  BY <1>1, <1>2, <1>3

\* The buffers that Recycle makes spare ones.
LEMMA RecycledBuffers ==
    ASSUME NEW bs \in Seq(FixedBuffer), Len(bs) >= 1,
           NEW r, r = SubSeq(bs, 1, IF Len(bs) > 2 THEN 2 ELSE Len(bs))
    PROVE  /\ \E i \in 1 .. Len(bs) : Last(r) = bs[i]
           /\ Len(bs) >= 2 => Last(Front(r)) = bs[1]
<1>1. CASE Len(bs) = 1
  <2>1. r = SubSeq(bs, 1, 1)
    BY <1>1
  <2>2. r \in Seq(FixedBuffer) /\ Len(r) = 1 /\ r[1] = bs[1]
    BY <1>1, <2>1
  <2> QED
    BY <1>1, <2>2 DEF Last
<1>2. CASE Len(bs) >= 2
  <2>1. r = SubSeq(bs, 1, 2)
    BY <1>2
  <2>2. r \in Seq(FixedBuffer) /\ Len(r) = 2 /\ r[1] = bs[1] /\ r[2] = bs[2]
    BY <1>2, <2>1
  <2>3. Front(r) = SubSeq(r, 1, 1)
    BY <2>2 DEF Front
  <2>4. Len(Front(r)) = 1 /\ Front(r)[1] = bs[1]
    BY <2>2, <2>3
  <2> QED
    BY <1>2, <2>2, <2>4 DEF Last
<1>3. Len(bs) = 1 \/ Len(bs) >= 2
  <2>1. Len(bs) \in Nat
    OBVIOUS
  <2> QED
    BY <2>1
<1> HIDE DEF Last, Front
<1> QED
  BY <1>1, <1>2, <1>3

-----------------------------------------------------------------------------
(* FreshLines.                                                             *)

\* The recursive function of FreshLines, and what it is for.
LEMMA FreshLinesFunction ==
    ASSUME NEW bs \in Seq(FixedBuffer)
    PROVE  \E f :
              /\ \A i \in 0 .. Len(bs) : f[i] \in Seq(Cell)
              /\ f[0] = <<>>
              /\ \A i \in 1 .. Len(bs) : f[i] = f[i - 1] \o Fresh(bs[i])
              /\ FreshLines(bs) = f[Len(bs)]
<1> DEFINE n == Len(bs)
           step == [i \in 1 .. n |-> [s \in Seq(Cell) |-> s \o Fresh(bs[i])]]
           f == CHOOSE f : f = [i \in 0 .. n |-> IF i = 0 THEN <<>> ELSE f[i - 1] \o Fresh(bs[i])]
<1>1. n \in Nat /\ \A i \in 1 .. n : bs[i] \in FixedBuffer
  OBVIOUS
<1>2. \A i \in 1 .. n, s \in Seq(Cell) : s \o Fresh(bs[i]) \in Seq(Cell)
  BY <1>1, FreshType
<1>3. PICK S : S = Seq(Cell)
  OBVIOUS
<1>4. step \in [1 .. n -> [S -> S]] /\ <<>> \in S
  BY <1>2, <1>3
<1>5. \A i \in 1 .. n, s \in S : step[i][s] = s \o Fresh(bs[i])
  BY <1>3
<1> HIDE DEF n, step
<1>6. PICK g \in [0 .. n -> S] : g[0] = <<>> /\ \A i \in 1 .. n : g[i] = step[i][g[i - 1]]
  <2>1. \E g \in [0 .. n -> S] : Iterates(g, n, <<>>, step)
    BY <1>1, <1>4, RecursiveFunction
  <2> QED
    BY <2>1 DEF Iterates
<1>7. ASSUME NEW i \in 1 .. n
      PROVE  g[i] = g[i - 1] \o Fresh(bs[i])
  <2>1. g[i - 1] \in S
    BY <1>1, <1>6
  <2> QED
    BY <1>5, <1>6, <2>1
<1>8. g = [i \in 0 .. n |-> IF i = 0 THEN <<>> ELSE g[i - 1] \o Fresh(bs[i])]
  <2>1. \A i \in 0 .. n : g[i] = IF i = 0 THEN <<>> ELSE g[i - 1] \o Fresh(bs[i])
    <3>1. \A i \in 0 .. n : i = 0 \/ (i # 0 /\ i \in 1 .. n)
      BY <1>1
    <3>2. \A i \in 1 .. n : g[i] = g[i - 1] \o Fresh(bs[i])
      BY <1>7
    <3> QED
      BY <1>6, <3>1, <3>2, Zenon
  <2>2. g = [i \in 0 .. n |-> g[i]]
    BY <1>6
  <2> QED
    BY <2>1, <2>2
<1>9. f = [i \in 0 .. n |-> IF i = 0 THEN <<>> ELSE f[i - 1] \o Fresh(bs[i])]
  BY <1>8
<1>a. FreshLines(bs) = f[n]
  BY DEF FreshLines, n
<1> HIDE DEF f
<1>10. PICK h : /\ h = [i \in 0 .. n |-> IF i = 0 THEN <<>> ELSE h[i - 1] \o Fresh(bs[i])]
                /\ FreshLines(bs) = h[n]
  BY <1>9, <1>a
<1>11. h[0] = <<>>
  BY <1>1, <1>10
<1>12. \A i \in 1 .. n : h[i] = h[i - 1] \o Fresh(bs[i])
  <2>1. \A i \in 1 .. n : i \in 0 .. n /\ i # 0
    BY <1>1
  <2>2. \A i \in 0 .. n : h[i] = IF i = 0 THEN <<>> ELSE h[i - 1] \o Fresh(bs[i])
    BY <1>10, Zenon
  <2> QED
    BY <2>1, <2>2, Zenon
<1>13. \A i \in 1 .. n : h[i - 1] = g[i - 1] => h[i] = g[i]
  BY <1>7, <1>12
<1>14. \A i \in 0 .. n : h[i] = g[i]
  <2>1. StepsAgree(h, g, n)
    BY <1>6, <1>11, <1>13 DEF StepsAgree
  <2> QED
    BY <1>1, <2>1, RecursiveFunctionUnique
<1>15. FreshLines(bs) = g[n]
  BY <1>1, <1>10, <1>14
<1>16. \A i \in 0 .. n : g[i] \in Seq(Cell)
  BY <1>3, <1>6
<1> QED
  BY <1>6, <1>7, <1>15, <1>16 DEF n

LEMMA ConcatCells ==
    ASSUME NEW x \in Seq(Cell), NEW y \in Seq(Cell), NEW z \in Seq(Cell)
    PROVE  (x \o y) \o z = x \o (y \o z)
OBVIOUS

\* A function that satisfies the recursion gives FreshLines.
LEMMA FreshLinesIs ==
    ASSUME NEW bs \in Seq(FixedBuffer), NEW h, h[0] = <<>>,
           \A i \in 1 .. Len(bs) : h[i] = h[i - 1] \o Fresh(bs[i])
    PROVE  FreshLines(bs) = h[Len(bs)]
<1>1. PICK f :
              /\ \A i \in 0 .. Len(bs) : f[i] \in Seq(Cell)
              /\ f[0] = <<>>
              /\ \A i \in 1 .. Len(bs) : f[i] = f[i - 1] \o Fresh(bs[i])
              /\ FreshLines(bs) = f[Len(bs)]
  BY FreshLinesFunction
<1>2. StepsAgree(h, f, Len(bs))
  <2>1. h[0] = f[0]
    BY <1>1
  <2>2. ASSUME NEW i \in 1 .. Len(bs), h[i - 1] = f[i - 1]
        PROVE  h[i] = f[i]
    BY <1>1, <2>2
  <2> QED
    BY <2>1, <2>2 DEF StepsAgree
<1>3. Len(bs) \in Nat
  OBVIOUS
<1>4. \A i \in 0 .. Len(bs) : h[i] = f[i]
  BY <1>2, <1>3, RecursiveFunctionUnique
<1> QED
  BY <1>1, <1>3, <1>4

LEMMA FreshLinesType ==
    ASSUME NEW bs \in Seq(FixedBuffer)
    PROVE  FreshLines(bs) \in Seq(Cell)
<1>1. Len(bs) \in 0 .. Len(bs)
  OBVIOUS
<1> QED
  BY <1>1, FreshLinesFunction

LEMMA FreshLinesEmpty == FreshLines(<<>>) = <<>>
<1>1. <<>> \in Seq(FixedBuffer) /\ Len(<<>>) = 0
  OBVIOUS
<1> QED
  BY <1>1, FreshLinesFunction

\* FreshLines of buffers with one more at the end, or at the front.
LEMMA FreshLinesAppend ==
    ASSUME NEW bs \in Seq(FixedBuffer), NEW b \in FixedBuffer
    PROVE  FreshLines(Append(bs, b)) = FreshLines(bs) \o Fresh(b)
<1>1. PICK cs : cs = Append(bs, b)
  OBVIOUS
<1>2. /\ cs \in Seq(FixedBuffer) /\ Len(cs) = Len(bs) + 1 /\ cs[Len(bs) + 1] = b
      /\ \A i \in 1 .. Len(bs) : cs[i] = bs[i]
  BY <1>1
<1>3. PICK f : /\ f[0] = <<>>
               /\ \A i \in 1 .. Len(cs) : f[i] = f[i - 1] \o Fresh(cs[i])
               /\ FreshLines(cs) = f[Len(cs)]
  BY <1>2, FreshLinesFunction
<1>4. \A i \in 1 .. Len(bs) : f[i] = f[i - 1] \o Fresh(bs[i])
  <2>1. \A i \in 1 .. Len(bs) : i \in 1 .. Len(cs)
    BY <1>2
  <2> QED
    BY <1>2, <1>3, <2>1
<1>5. FreshLines(bs) = f[Len(bs)]
  BY <1>3, <1>4, FreshLinesIs
<1>6. Len(cs) \in 1 .. Len(cs) /\ Len(cs) - 1 = Len(bs)
  BY <1>2
<1>7. f[Len(cs)] = f[Len(bs)] \o Fresh(cs[Len(cs)])
  BY <1>3, <1>6
<1>8. cs[Len(cs)] = b
  BY <1>2
<1> QED
  BY <1>1, <1>3, <1>5, <1>7, <1>8

LEMMA FreshLinesPrepend ==
    ASSUME NEW ts \in Seq(FixedBuffer), NEW b \in FixedBuffer, NEW bs \in Seq(FixedBuffer),
           Len(bs) = Len(ts) + 1, bs[1] = b, \A i \in 1 .. Len(ts) : bs[i + 1] = ts[i]
    PROVE  FreshLines(bs) = Fresh(b) \o FreshLines(ts)
<1>1. PICK f :
              /\ \A i \in 0 .. Len(bs) : f[i] \in Seq(Cell)
              /\ f[0] = <<>>
              /\ \A i \in 1 .. Len(bs) : f[i] = f[i - 1] \o Fresh(bs[i])
              /\ FreshLines(bs) = f[Len(bs)]
  BY FreshLinesFunction
<1>2. PICK t :
              /\ \A i \in 0 .. Len(ts) : t[i] \in Seq(Cell)
              /\ t[0] = <<>>
              /\ \A i \in 1 .. Len(ts) : t[i] = t[i - 1] \o Fresh(ts[i])
              /\ FreshLines(ts) = t[Len(ts)]
  BY FreshLinesFunction
<1>3. PICK F : F = [i \in 0 .. Len(ts) |-> f[i + 1]]
  OBVIOUS
<1>4. PICK H : H = [i \in 0 .. Len(ts) |-> Fresh(b) \o t[i]]
  OBVIOUS
<1>5. Len(ts) \in Nat /\ Fresh(b) \in Seq(Cell)
  BY FreshType
<1>6. F[0] = H[0]
  <2>1. F[0] = f[1] /\ H[0] = Fresh(b) \o t[0]
    BY <1>3, <1>4, <1>5
  <2>2. f[1] = f[0] \o Fresh(b)
    <3>1. 1 \in 1 .. Len(bs) /\ 1 - 1 = 0
      BY <1>5
    <3> QED
      BY <1>1, <3>1
  <2>3. <<>> \o Fresh(b) = Fresh(b) /\ Fresh(b) \o <<>> = Fresh(b)
    BY <1>5
  <2> QED
    BY <1>1, <1>2, <2>1, <2>2, <2>3
<1>7. ASSUME NEW i \in 1 .. Len(ts), F[i - 1] = H[i - 1]
      PROVE  F[i] = H[i]
  <2>1. /\ i \in 0 .. Len(ts) /\ i - 1 \in 0 .. Len(ts)
        /\ i + 1 \in 1 .. Len(bs) /\ (i - 1) + 1 = i /\ (i + 1) - 1 = i
    BY <1>5
  <2>2. F[i] = f[i + 1] /\ F[i - 1] = f[i]
    BY <1>3, <2>1
  <2>3. H[i] = Fresh(b) \o t[i] /\ H[i - 1] = Fresh(b) \o t[i - 1]
    BY <1>4, <2>1
  <2>4. f[i + 1] = f[i] \o Fresh(ts[i])
    BY <1>1, <2>1
  <2>5. t[i] = t[i - 1] \o Fresh(ts[i])
    BY <1>2
  <2>6. t[i - 1] \in Seq(Cell) /\ Fresh(ts[i]) \in Seq(Cell)
    <3>1. t[i - 1] \in Seq(Cell)
      BY <1>2, <2>1
    <3>2. ts[i] \in FixedBuffer
      OBVIOUS
    <3> QED
      BY <3>1, <3>2, FreshType
  <2>7. (Fresh(b) \o t[i - 1]) \o Fresh(ts[i]) = Fresh(b) \o (t[i - 1] \o Fresh(ts[i]))
    BY <1>5, <2>6, ConcatCells, Zenon
  <2>8. F[i] = H[i - 1] \o Fresh(ts[i])
    BY <1>7, <2>2, <2>4, Zenon
  <2>9. H[i] = Fresh(b) \o (t[i - 1] \o Fresh(ts[i]))
    BY <2>3, <2>5, Zenon
  <2>10. H[i - 1] \o Fresh(ts[i]) = (Fresh(b) \o t[i - 1]) \o Fresh(ts[i])
    BY <2>3, Zenon
  <2> QED
    BY <2>7, <2>8, <2>9, <2>10, Zenon
<1>8. StepsAgree(F, H, Len(ts))
  BY <1>6, <1>7 DEF StepsAgree
<1>9. \A i \in 0 .. Len(ts) : F[i] = H[i]
  BY <1>5, <1>8, RecursiveFunctionUnique
<1>10. F[Len(ts)] = f[Len(bs)] /\ H[Len(ts)] = Fresh(b) \o t[Len(ts)]
  BY <1>3, <1>4, <1>5
<1> QED
  <2>1. F[Len(ts)] = H[Len(ts)]
    BY <1>5, <1>9
  <2> QED
    BY <1>1, <1>2, <1>10, <2>1, Zenon

-----------------------------------------------------------------------------
(* NewLines.                                                               *)

IsNew(c) == c \in Line /\ ~Contains(written, c)

\* The recursive function of NewLines, and what it is for.
LEMMA NewLinesFunction ==
    ASSUME NEW b \in FixedBuffer
    PROVE  \E f :
              /\ \A i \in 0 .. Cap : f[i] \in Seq(Line)
              /\ f[0] = <<>>
              /\ \A i \in 1 .. Cap :
                    f[i] = IF IsNew(b.data[i]) THEN Append(f[i - 1], b.data[i]) ELSE f[i - 1]
              /\ NewLines(b) = f[Cap]
<1> DEFINE step == [i \in 1 .. Cap |-> [s \in Seq(Line) |->
                        IF IsNew(b.data[i]) THEN Append(s, b.data[i]) ELSE s]]
           f == CHOOSE f : f = [i \in 0 .. Cap |->
                    IF i = 0 THEN <<>>
                    ELSE IF IsNew(b.data[i]) THEN Append(f[i - 1], b.data[i]) ELSE f[i - 1]]
<1>1. Cap \in Nat
  BY LoggingAssumption
<1>2. \A i \in 1 .. Cap, s \in Seq(Line) :
          (IF IsNew(b.data[i]) THEN Append(s, b.data[i]) ELSE s) \in Seq(Line)
  BY DEF IsNew
<1>3. PICK S : S = Seq(Line)
  OBVIOUS
<1>4. step \in [1 .. Cap -> [S -> S]] /\ <<>> \in S
  BY <1>2, <1>3
<1>5. \A i \in 1 .. Cap, s \in S :
          step[i][s] = IF IsNew(b.data[i]) THEN Append(s, b.data[i]) ELSE s
  BY <1>3
<1> HIDE DEF step
<1>6. PICK g \in [0 .. Cap -> S] : g[0] = <<>> /\ \A i \in 1 .. Cap : g[i] = step[i][g[i - 1]]
  <2>1. \E g \in [0 .. Cap -> S] : Iterates(g, Cap, <<>>, step)
    BY <1>1, <1>4, RecursiveFunction
  <2> QED
    BY <2>1 DEF Iterates
<1>7. ASSUME NEW i \in 1 .. Cap
      PROVE  g[i] = IF IsNew(b.data[i]) THEN Append(g[i - 1], b.data[i]) ELSE g[i - 1]
  <2>1. g[i - 1] \in S
    BY <1>1, <1>6
  <2> QED
    BY <1>5, <1>6, <2>1
<1>8. g = [i \in 0 .. Cap |-> IF i = 0 THEN <<>> ELSE
              IF IsNew(b.data[i]) THEN Append(g[i - 1], b.data[i]) ELSE g[i - 1]]
  <2>1. \A i \in 0 .. Cap : g[i] = IF i = 0 THEN <<>> ELSE
              IF IsNew(b.data[i]) THEN Append(g[i - 1], b.data[i]) ELSE g[i - 1]
    <3>1. \A i \in 0 .. Cap : i = 0 \/ (i # 0 /\ i \in 1 .. Cap)
      BY <1>1
    <3>2. \A i \in 1 .. Cap :
              g[i] = IF IsNew(b.data[i]) THEN Append(g[i - 1], b.data[i]) ELSE g[i - 1]
      BY <1>7
    <3> QED
      BY <1>6, <3>1, <3>2, Zenon
  <2>2. g = [i \in 0 .. Cap |-> g[i]]
    BY <1>6
  <2> QED
    BY <2>1, <2>2, Zenon
<1>9. f = [i \in 0 .. Cap |-> IF i = 0 THEN <<>> ELSE
              IF IsNew(b.data[i]) THEN Append(f[i - 1], b.data[i]) ELSE f[i - 1]]
  BY <1>8, Zenon
<1>10. NewLines(b) = f[Cap]
  BY DEF NewLines, IsNew
<1> HIDE DEF f
<1>11. PICK h : /\ h = [i \in 0 .. Cap |-> IF i = 0 THEN <<>> ELSE
                       IF IsNew(b.data[i]) THEN Append(h[i - 1], b.data[i]) ELSE h[i - 1]]
                /\ NewLines(b) = h[Cap]
  BY <1>9, <1>10, Zenon
<1>12. h[0] = <<>>
  BY <1>1, <1>11
<1>13. \A i \in 1 .. Cap :
          h[i] = IF IsNew(b.data[i]) THEN Append(h[i - 1], b.data[i]) ELSE h[i - 1]
  <2>1. \A i \in 1 .. Cap : i \in 0 .. Cap /\ i # 0
    BY <1>1
  <2>2. \A i \in 0 .. Cap : h[i] = IF i = 0 THEN <<>> ELSE
              IF IsNew(b.data[i]) THEN Append(h[i - 1], b.data[i]) ELSE h[i - 1]
    BY <1>11, Zenon
  <2> QED
    BY <2>1, <2>2, Zenon
<1>14. \A i \in 0 .. Cap : h[i] = g[i]
  <2>1. \A i \in 1 .. Cap : h[i - 1] = g[i - 1] => h[i] = g[i]
    BY <1>7, <1>13, Zenon
  <2>2. StepsAgree(h, g, Cap)
    BY <1>6, <1>12, <2>1 DEF StepsAgree
  <2> QED
    BY <1>1, <2>2, RecursiveFunctionUnique
<1>15. Cap \in 0 .. Cap /\ \A i \in 0 .. Cap : h[i] \in Seq(Line)
  BY <1>1, <1>3, <1>6, <1>14
<1> QED
  BY <1>11, <1>12, <1>13, <1>15, Zenon

LEMMA NewLinesType ==
    ASSUME NEW b \in FixedBuffer
    PROVE  NewLines(b) \in Seq(Line)
<1>1. Cap \in 0 .. Cap
  BY LoggingAssumption
<1> QED
  BY <1>1, NewLinesFunction

\* What a buffer that still holds older lines adds to the file.
LEMMA NewLinesAreFresh ==
    ASSUME NEW b \in FixedBuffer,
           \A i \in 1 .. Cap : i <= b.cur <=> IsNew(b.data[i])
    PROVE  NewLines(b) = Fresh(b)
<1>1. /\ Cap \in Nat /\ b.data \in Seq(Cell) /\ Len(b.data) = Cap
      /\ b.cur \in 0 .. Cap
  BY LoggingAssumption DEF FixedBuffer, Cell
<1>2. PICK f :
              /\ f[0] = <<>>
              /\ \A i \in 1 .. Cap :
                    f[i] = IF IsNew(b.data[i]) THEN Append(f[i - 1], b.data[i]) ELSE f[i - 1]
              /\ NewLines(b) = f[Cap]
  BY NewLinesFunction
<1>3. PICK d : d = b.data
  OBVIOUS
<1>4. PICK n : n = b.cur
  OBVIOUS
<1>5. PICK g : \A i \in 0 .. Cap : /\ i <= n => g[i] = SubSeq(d, 1, i)
                                   /\ i >= n => g[i] = SubSeq(d, 1, n)
  <2>1. PICK g : g = [i \in 0 .. Cap |-> IF i <= n THEN SubSeq(d, 1, i) ELSE SubSeq(d, 1, n)]
    OBVIOUS
  <2>2. n \in 0 .. Cap
    BY <1>1, <1>4
  <2>3. ASSUME NEW i \in 0 .. Cap
        PROVE  /\ i <= n => g[i] = SubSeq(d, 1, i)
               /\ i >= n => g[i] = SubSeq(d, 1, n)
    <3>1. g[i] = IF i <= n THEN SubSeq(d, 1, i) ELSE SubSeq(d, 1, n)
      BY <2>1
    <3>2. i < n \/ i = n \/ i > n
      BY <1>1, <2>2
    <3>5. CASE i = n
      BY <3>1, <3>5
    <3>6. CASE i < n
      BY <1>1, <2>2, <3>1, <3>6
    <3>7. CASE i > n
      BY <1>1, <2>2, <3>1, <3>7
    <3> QED
      BY <3>2, <3>5, <3>6, <3>7
  <2> QED
    BY <2>3
<1>6. g[0] = <<>> /\ g[Cap] = Fresh(b)
  <2>1. g[0] = SubSeq(d, 1, 0) /\ g[Cap] = SubSeq(d, 1, n)
    BY <1>1, <1>4, <1>5
  <2>2. SubSeq(d, 1, 0) = <<>>
    BY <1>1, <1>3
  <2> QED
    BY <1>3, <1>4, <2>1, <2>2 DEF Fresh
<1>7. ASSUME NEW i \in 1 .. Cap, f[i - 1] = g[i - 1]
      PROVE  f[i] = g[i]
  <2>1. i \in 0 .. Cap /\ i - 1 \in 0 .. Cap
    BY <1>1
  <2>2. CASE i <= n
    <3>1. f[i] = Append(g[i - 1], d[i])
      BY <1>2, <1>3, <1>4, <1>7, <2>2
    <3>2. g[i - 1] = SubSeq(d, 1, i - 1) /\ g[i] = SubSeq(d, 1, i)
      <4>1. i - 1 <= n /\ i <= n
        BY <1>1, <1>4, <2>2
      <4> QED
        BY <1>5, <2>1, <4>1
    <3>3. SubSeq(d, 1, i) = Append(SubSeq(d, 1, i - 1), d[i])
      BY <1>1, <1>3, <2>1
    <3> QED
      BY <3>1, <3>2, <3>3, Zenon
  <2>3. CASE ~(i <= n)
    <3>1. f[i] = g[i - 1]
      BY <1>2, <1>3, <1>4, <1>7, <2>3
    <3>2. g[i - 1] = SubSeq(d, 1, n) /\ g[i] = SubSeq(d, 1, n)
      <4>1. i - 1 >= n /\ i >= n
        BY <1>1, <1>4, <2>3
      <4> QED
        BY <1>5, <2>1, <4>1
    <3> QED
      BY <3>1, <3>2
  <2> QED
    BY <2>2, <2>3
<1>8. StepsAgree(f, g, Cap)
  BY <1>2, <1>6, <1>7 DEF StepsAgree
<1>9. f[Cap] = g[Cap]
  BY <1>1, <1>8, RecursiveFunctionUnique
<1> QED
  BY <1>2, <1>6, <1>9

-----------------------------------------------------------------------------
(* Spare buffers suffice.                                                  *)

\* Every state variable has its type, a swap finds a spare buffer for each that
\* it gives away, and the buffers just written are enough to become spare ones:
\* nextBuffer_ is null only while the full buffer it replaced is in buffers_.
SparesInv ==
    /\ TypeOK
    /\ pc # "write" => /\ newBuffer1 # None /\ newBuffer2 # None
                       /\ buffersToWrite = <<>> /\ at = 0
    /\ pc = "write" => /\ newBuffer1 = None
                       /\ Len(buffersToWrite) >= IF newBuffer2 = None THEN 2 ELSE 1
    /\ nextBuffer_ = None => buffers_ # <<>>

LEMMA SparesInit == Init => SparesInv
<1> SUFFICES ASSUME Init
             PROVE  SparesInv
  OBVIOUS
<1>1. NewBuffer \in FixedBuffer /\ NewBuffer # None
  BY BufferFacts, NoneAssumption
<1>2. {nextBuffer_, newBuffer1, newBuffer2} \subseteq FixedBuffer \union {None}
  BY <1>1 DEF Init
<1>3. buffers_ \in Seq(FixedBuffer) /\ buffersToWrite \in Seq(FixedBuffer) /\ written \in Seq(Line)
  BY DEF Init
<1>4. at \in 0 .. Len(buffersToWrite)
  BY DEF Init
<1>5. TypeOK
  BY <1>1, <1>2, <1>3, <1>4 DEF Init, TypeOK
<1> QED
  BY <1>1, <1>5 DEF Init, SparesInv

LEMMA NotifiedIs ==
    /\ pc = "waiting" => Notified = "swap"
    /\ pc # "waiting" => Notified = pc
BY DEF Notified

LEMMA AppendLineKeepsSpares ==
    ASSUME SparesInv, NEW l \in Line, AppendLine(l)
    PROVE  SparesInv'
<1> USE DEF SparesInv, TypeOK
<1>1. CASE Fits(currentBuffer_, l)
  <2>1. /\ currentBuffer_' = Append1(currentBuffer_, l) /\ appended' = appended \union {l}
        /\ UNCHANGED <<nextBuffer_, buffers_, pc, running_, newBuffer1, newBuffer2,
                       buffersToWrite, at, stopping, written>>
    BY <1>1 DEF AppendLine, spareVars
  <2>2. currentBuffer_' \in FixedBuffer
    BY <2>1, BufferFacts
  <2> QED
    BY <2>1, <2>2
<1>2. CASE ~Fits(currentBuffer_, l)
  <2>1. /\ buffers_' = Append(buffers_, currentBuffer_)
        /\ currentBuffer_' = Append1(IF nextBuffer_ = None THEN NewBuffer ELSE nextBuffer_, l)
        /\ nextBuffer_' = None /\ pc' = Notified /\ appended' = appended \union {l}
        /\ UNCHANGED <<running_, newBuffer1, newBuffer2, buffersToWrite, at, stopping, written>>
    BY <1>2 DEF AppendLine, spareVars
  <2>2. (IF nextBuffer_ = None THEN NewBuffer ELSE nextBuffer_) \in FixedBuffer
    BY BufferFacts
  <2>3. currentBuffer_' \in FixedBuffer
    BY <2>1, <2>2, BufferFacts
  <2>4. buffers_' \in Seq(FixedBuffer) /\ buffers_' # <<>>
    BY <2>1
  <2>5. /\ pc' \in {"off", "test", "lock", "waiting", "swap", "write", "done"}
        /\ pc' = "write" <=> pc = "write"
    BY <2>1, NotifiedIs
  <2> QED
    BY <2>1, <2>3, <2>4, <2>5
<1> QED
  BY <1>1, <1>2

LEMMA StopKeepsSpares ==
    ASSUME SparesInv, Stop
    PROVE  SparesInv'
<1>1. /\ pc' \in {"off", "test", "lock", "waiting", "swap", "write", "done"}
      /\ pc' = "write" <=> pc = "write"
  BY NotifiedIs DEF Stop, SparesInv, TypeOK
<1> QED
  BY <1>1 DEF Stop, SparesInv, TypeOK, sharedVars, spareVars

LEMMA SwapKeepsSpares ==
    ASSUME SparesInv, Swap
    PROVE  SparesInv'
<1> USE DEF SparesInv, TypeOK
<1>1. /\ pc = "swap" /\ pc' = "write"
      /\ buffersToWrite' = Append(buffers_, currentBuffer_) /\ buffers_' = <<>>
      /\ currentBuffer_' = newBuffer1 /\ newBuffer1' = None
      /\ nextBuffer_' = IF nextBuffer_ = None THEN newBuffer2 ELSE nextBuffer_
      /\ newBuffer2' = IF nextBuffer_ = None THEN None ELSE newBuffer2
      /\ UNCHANGED <<running_, at, stopping, appended, written>>
  BY DEF Swap
<1>2. newBuffer1 # None /\ newBuffer2 # None /\ at = 0
  BY <1>1
<1>3. buffersToWrite' \in Seq(FixedBuffer) /\ Len(buffersToWrite') = Len(buffers_) + 1
  BY <1>1
<1>4. nextBuffer_ = None => Len(buffers_) >= 1
  OBVIOUS
<1>5. Len(buffers_) \in Nat
  OBVIOUS
<1>6. buffers_' \in Seq(FixedBuffer)
  BY <1>1
<1>7. /\ nextBuffer_' \in FixedBuffer /\ nextBuffer_' # None
      /\ newBuffer2' \in FixedBuffer \union {None}
      /\ newBuffer2' = None => nextBuffer_ = None
      /\ currentBuffer_' \in FixedBuffer
  BY <1>1, <1>2, NoneAssumption
<1>8. Len(buffersToWrite') >= IF newBuffer2' = None THEN 2 ELSE 1
  BY <1>3, <1>4, <1>5, <1>7
<1>9. at' \in 0 .. Len(buffersToWrite')
  BY <1>1, <1>2, <1>3, <1>5
<1> QED
  BY <1>1, <1>2, <1>3, <1>6, <1>7, <1>8, <1>9

LEMMA WriteBufferKeepsSpares ==
    ASSUME SparesInv, WriteBuffer
    PROVE  SparesInv'
<1> USE DEF SparesInv, TypeOK
<1>1. /\ pc = "write" /\ at < Len(buffersToWrite) /\ at' = at + 1
      /\ written' = written \o NewLines(buffersToWrite[at + 1])
      /\ UNCHANGED <<running_, currentBuffer_, nextBuffer_, buffers_, newBuffer1, newBuffer2,
                     buffersToWrite, pc, stopping, appended>>
  BY DEF WriteBuffer, sharedVars, spareVars
<1>2. at + 1 \in 1 .. Len(buffersToWrite) /\ Len(buffersToWrite) \in Nat
  BY <1>1
<1>3. buffersToWrite[at + 1] \in FixedBuffer
  BY <1>2
<1>4. NewLines(buffersToWrite[at + 1]) \in Seq(Line)
  BY <1>3, NewLinesType
<1>5. written' \in Seq(Line)
  BY <1>1, <1>4
<1>6. at' \in 0 .. Len(buffersToWrite)
  BY <1>1, <1>2
<1> QED
  BY <1>1, <1>5, <1>6

LEMMA RecycleKeepsSpares ==
    ASSUME SparesInv, Recycle
    PROVE  SparesInv'
<1> USE DEF SparesInv, TypeOK
<1>1. /\ pc = "write" /\ pc' = "test"
      /\ newBuffer1' = Reset(Last(Recycled))
      /\ newBuffer2' = IF newBuffer2 = None THEN Reset(Last(Front(Recycled))) ELSE newBuffer2
      /\ buffersToWrite' = <<>> /\ at' = 0
      /\ UNCHANGED <<running_, currentBuffer_, nextBuffer_, buffers_, stopping, appended,
                     written>>
  BY DEF Recycle, sharedVars
<1>2. /\ buffersToWrite \in Seq(FixedBuffer) /\ Len(buffersToWrite) >= 1
      /\ newBuffer2 = None => Len(buffersToWrite) >= 2
  BY <1>1
<1>3. /\ Last(Recycled) \in FixedBuffer
      /\ Len(buffersToWrite) >= 2 => Last(Front(Recycled)) \in FixedBuffer
  <2>1. \E i \in 1 .. Len(buffersToWrite) : Last(Recycled) = buffersToWrite[i]
    BY <1>2, RecycledBuffers DEF Recycled
  <2>2. Len(buffersToWrite) >= 2 => Last(Front(Recycled)) = buffersToWrite[1]
    BY <1>2, RecycledBuffers DEF Recycled
  <2>3. Len(buffersToWrite) >= 2 => 1 \in 1 .. Len(buffersToWrite)
    BY <1>2
  <2> QED
    BY <1>2, <2>1, <2>2, <2>3
<1>4. newBuffer1' \in FixedBuffer /\ newBuffer1' # None
  BY <1>1, <1>3, BufferFacts, NoneAssumption
<1>5. newBuffer2' \in FixedBuffer /\ newBuffer2' # None
  BY <1>1, <1>2, <1>3, BufferFacts, NoneAssumption
<1>6. buffersToWrite' \in Seq(FixedBuffer) /\ at' \in 0 .. Len(buffersToWrite')
  BY <1>1
<1> QED
  BY <1>1, <1>4, <1>5, <1>6

LEMMA SparesInvStep ==
    ASSUME SparesInv, [Next]_vars
    PROVE  SparesInv'
<1>1. CASE \E l \in Line : AppendLine(l)
  BY <1>1, AppendLineKeepsSpares
<1>2. CASE Start
  BY <1>2 DEF Start, SparesInv, TypeOK, sharedVars, spareVars
<1>3. CASE Stop
  BY <1>3, StopKeepsSpares
<1>4. CASE StopReturns
  BY <1>4 DEF StopReturns, SparesInv, TypeOK, sharedVars, spareVars
<1>5. CASE TestRunning
  BY <1>5 DEF TestRunning, SparesInv, TypeOK, sharedVars, spareVars
<1>6. CASE Lock
  BY <1>6 DEF Lock, SparesInv, TypeOK, sharedVars, spareVars
<1>7. CASE Timeout
  BY <1>7 DEF Timeout, SparesInv, TypeOK, sharedVars, spareVars
<1>8. CASE Swap
  BY <1>8, SwapKeepsSpares
<1>9. CASE WriteBuffer
  BY <1>9, WriteBufferKeepsSpares
<1>10. CASE Recycle
  BY <1>10, RecycleKeepsSpares
<1>11. CASE UNCHANGED vars
  BY <1>11 DEF vars, SparesInv, TypeOK, sharedVars, spareVars
<1> QED
  BY <1>1, <1>2, <1>3, <1>4, <1>5, <1>6, <1>7, <1>8, <1>9, <1>10, <1>11 DEF Next

\* The inductive invariant of the buffers.
THEOREM SparesInvariant == Spec => []SparesInv
<1>1. Init => SparesInv
  BY SparesInit
<1>2. SparesInv /\ [Next]_vars => SparesInv'
  BY SparesInvStep
<1> QED
  BY <1>1, <1>2, PTL DEF Spec

\* No null buffer is used: not by append(), nor by the logging thread's loop, nor
\* by the two back() of its recycling.
THEOREM SparesAlwaysSuffice == Spec => []SparesSuffice
<1>1. SparesInv => SparesSuffice
  BY DEF SparesInv, SparesSuffice
<1> QED
  BY <1>1, SparesInvariant, PTL

-----------------------------------------------------------------------------
(* The lines stay in order.                                                *)

\* A cell that holds nothing the file does not have; a buffer that can be used
\* again; one in use; one that has been written.
Settled(w, c) == c = Blank \/ Contains(w, c)
Done(w, b) == \A i \in 1 .. Cap : Settled(w, b.data[i])
Spare(w, b) == b.cur = 0 /\ Done(w, b)
Clean(w, b) ==
    \A i \in 1 .. Cap : /\ i <= b.cur => b.data[i] \in Line
                        /\ i > b.cur => Settled(w, b.data[i])

NoRepeats(s) == \A i, j \in 1 .. Len(s) : i # j => s[i] # s[j]
AllFrom(s, S) == \A i \in 1 .. Len(s) : s[i] \in S

\* Besides SparesInv: what a buffer holds after its cursor is in the file already,
\* and no line is twice in the file and the buffers.
LinesInv ==
    /\ SparesInv
    /\ \A b \in {nextBuffer_, newBuffer1, newBuffer2} : b = None \/ Spare(written, b)
    /\ Clean(written, currentBuffer_)
    /\ \A i \in 1 .. Len(buffers_) : Clean(written, buffers_[i])
    /\ \A i \in 1 .. at : Done(written, buffersToWrite[i])
    /\ \A i \in at + 1 .. Len(buffersToWrite) : Clean(written, buffersToWrite[i])
    /\ NoRepeats(written \o Pending)
    /\ AllFrom(written \o Pending, appended)

\* The operators of FixedBuffer keep these.
LEMMA SpareFacts ==
    ASSUME NEW w, NEW b \in FixedBuffer, Spare(w, b)
    PROVE  Clean(w, b) /\ Fresh(b) = <<>>
<1>1. b.data \in Seq(Cell) /\ b.cur = 0
  BY LoggingAssumption DEF FixedBuffer, Cell, Spare
<1>2. Fresh(b) = <<>>
  BY <1>1 DEF Fresh
<1>3. ASSUME NEW i \in 1 .. Cap
      PROVE  ~(i <= b.cur) /\ Settled(w, b.data[i])
  BY <1>1, LoggingAssumption DEF Spare, Done
<1> QED
  BY <1>2, <1>3 DEF Clean

LEMMA NewBufferIsSpare ==
    ASSUME NEW w
    PROVE  Spare(w, NewBuffer)
BY DEF Spare, Done, Settled, NewBuffer

LEMMA DoneFacts ==
    ASSUME NEW w, NEW b \in FixedBuffer, Done(w, b)
    PROVE  Spare(w, Reset(b))
<1>1. Reset(b).cur = 0 /\ Reset(b).data = b.data
  BY DEF Reset, FixedBuffer
<1> QED
  BY <1>1 DEF Spare, Done

LEMMA Append1Facts ==
    ASSUME NEW w, NEW b \in FixedBuffer, NEW l \in Line, Clean(w, b)
    PROVE  /\ Clean(w, Append1(b, l))
           /\ Fits(b, l) => Fresh(Append1(b, l)) = Append(Fresh(b), l)
           /\ ~Fits(b, l) => Append1(b, l) = b
<1>0. PICK c : c = Append1(b, l)
  OBVIOUS
<1>1. CASE ~Fits(b, l)
  BY <1>1 DEF Append1
<1>2. CASE Fits(b, l)
  <2>1. Size(l) = 1 /\ b.cur + 1 <= Cap - 1 /\ b.cur \in 0 .. Cap - 1 /\ Cap \in Nat
    BY <1>2, LoggingAssumption DEF Fits, Size, FixedBuffer
  <2>2. b.data \in [1 .. Cap -> Cell]
    BY DEF FixedBuffer, Cell
  <2>3. PICK d : d = [b.data EXCEPT ![b.cur + 1] = l]
    OBVIOUS
  <2>4. c.data = d /\ c.cur = b.cur + 1
    BY <1>0, <1>2, <2>1, <2>3 DEF Append1
  <2>5. /\ d \in [1 .. Cap -> Cell] /\ d[b.cur + 1] = l
        /\ \A i \in 1 .. Cap : i # b.cur + 1 => d[i] = b.data[i]
    BY <2>1, <2>2, <2>3 DEF Cell
  <2>6. ASSUME NEW i \in 1 .. Cap
        PROVE  /\ i <= c.cur => c.data[i] \in Line
               /\ i > c.cur => Settled(w, c.data[i])
    <3>1. CASE i = b.cur + 1
      BY <2>1, <2>4, <2>5, <3>1
    <3>2. CASE i # b.cur + 1
      <4>1. c.data[i] = b.data[i] /\ (i <= c.cur => i <= b.cur) /\ (i > c.cur => i > b.cur)
        BY <2>1, <2>4, <2>5, <3>2
      <4> QED
        BY <4>1 DEF Clean
    <3> QED
      BY <3>1, <3>2
  <2>7. Fresh(c) = Append(Fresh(b), l)
    <3>1. PICK n : n = b.cur
      OBVIOUS
    <3>2. PICK e : e = b.data
      OBVIOUS
    <3>3. /\ e \in Seq(Cell) /\ Len(e) = Cap /\ d \in Seq(Cell) /\ Len(d) = Cap
          /\ n \in 0 .. Cap - 1 /\ n + 1 \in 1 .. Cap
      BY <2>1, <2>2, <2>5, <3>1, <3>2
    <3>4. SubSeq(d, 1, n + 1) = Append(SubSeq(d, 1, n), d[n + 1])
      BY <3>3
    <3>5. SubSeq(d, 1, n) = SubSeq(e, 1, n)
      <4>1. \A i \in 1 .. n : d[i] = e[i]
        BY <2>1, <2>5, <3>1, <3>2
      <4> QED
        BY <3>3, <4>1
    <3>6. Fresh(c) = SubSeq(d, 1, n + 1) /\ Fresh(b) = SubSeq(e, 1, n)
      BY <2>4, <3>1, <3>2 DEF Fresh
    <3> QED
      BY <2>5, <3>1, <3>4, <3>5, <3>6
  <2> QED
    BY <1>0, <1>2, <2>6, <2>7 DEF Clean
<1> QED
  BY <1>1, <1>2

\* The file only grows.
LEMMA SettledGrows ==
    ASSUME NEW w \in Seq(Line), NEW x \in Seq(Line)
    PROVE  /\ \A c : Settled(w, c) => Settled(w \o x, c)
           /\ \A i \in 1 .. Len(x) : Settled(w \o x, x[i])
<1>1. PICK u : u = w \o x
  OBVIOUS
<1>2. /\ \A k \in 1 .. Len(w) : u[k] = w[k] /\ k \in 1 .. Len(u)
      /\ \A i \in 1 .. Len(x) : u[Len(w) + i] = x[i] /\ Len(w) + i \in 1 .. Len(u)
  BY <1>1
<1>3. ASSUME NEW c, Settled(w, c)
      PROVE  Settled(u, c)
  BY <1>2, <1>3 DEF Settled, Contains
<1>4. ASSUME NEW i \in 1 .. Len(x)
      PROVE  Settled(u, x[i])
  BY <1>2 DEF Settled, Contains
<1> QED
  BY <1>1, <1>3, <1>4

\* A buffer is clean, and no fresh line of it is in the file: its new lines are
\* its fresh ones.
LEMMA FreshIsNew ==
    ASSUME NEW b \in FixedBuffer, NEW s \in Seq(Cell), NEW t \in Seq(Cell),
           written \in Seq(Line), Clean(written, b), s = Fresh(b) \o t,
           NoRepeats(written \o s)
    PROVE  NewLines(b) = Fresh(b)
<1>1. /\ Cap \in Nat /\ b.data \in Seq(Cell) /\ Len(b.data) = Cap /\ b.cur \in 0 .. Cap
  BY LoggingAssumption DEF FixedBuffer, Cell
<1>2. PICK r : r = Fresh(b)
  OBVIOUS
<1>3. r \in Seq(Cell) /\ Len(r) = b.cur /\ \A i \in 1 .. b.cur : r[i] = b.data[i]
  BY <1>1, <1>2 DEF Fresh
<1>4. PICK all : all = written \o s
  OBVIOUS
<1>5. written \in Seq(Cell)
  BY DEF Cell
<1>6. /\ Len(all) = Len(written) + Len(s) /\ Len(s) = Len(r) + Len(t)
      /\ \A k \in 1 .. Len(written) : all[k] = written[k]
      /\ \A i \in 1 .. Len(s) : all[Len(written) + i] = s[i]
      /\ \A i \in 1 .. Len(r) : s[i] = r[i]
  BY <1>2, <1>3, <1>4, <1>5
<1>7. Len(written) \in Nat /\ Len(s) \in Nat /\ Len(t) \in Nat
  BY <1>5
<1>8. ASSUME NEW i \in 1 .. Cap, i <= b.cur
      PROVE  IsNew(b.data[i])
  <2>1. b.data[i] \in Line
    BY <1>8 DEF Clean
  <2>2. ASSUME NEW k \in 1 .. Len(written), written[k] = b.data[i]
        PROVE  FALSE
    <3>1. i \in 1 .. Len(r) /\ i \in 1 .. Len(s)
      BY <1>3, <1>6, <1>7, <1>8
    <3>2. all[Len(written) + i] = b.data[i] /\ all[k] = b.data[i]
      BY <1>3, <1>6, <1>8, <2>2, <3>1
    <3>3. k \in 1 .. Len(all) /\ Len(written) + i \in 1 .. Len(all) /\ k # Len(written) + i
      BY <1>6, <1>7, <3>1
    <3> QED
      BY <1>4, <3>2, <3>3 DEF NoRepeats
  <2> QED
    BY <2>1, <2>2 DEF IsNew, Contains
<1>9. ASSUME NEW i \in 1 .. Cap, IsNew(b.data[i])
      PROVE  i <= b.cur
  <2>1. b.data[i] # Blank /\ ~Settled(written, b.data[i])
    BY <1>9, LoggingAssumption DEF IsNew, Settled
  <2> QED
    BY <1>1, <2>1 DEF Clean
<1> QED
  BY <1>8, <1>9, NewLinesAreFresh

LEMMA NoRepeatsAppend ==
    ASSUME NEW s \in Seq(Cell), NEW l \in Cell, NEW S, NoRepeats(s), AllFrom(s, S), l \notin S,
           NEW r, r = Append(s, l)
    PROVE  NoRepeats(r) /\ AllFrom(r, S \union {l})
<1>1. /\ Len(r) = Len(s) + 1 /\ Len(s) \in Nat /\ r[Len(s) + 1] = l
      /\ \A i \in 1 .. Len(s) : r[i] = s[i]
  OBVIOUS
<1>2. \A i \in 1 .. Len(r) : i \in 1 .. Len(s) \/ i = Len(s) + 1
  BY <1>1
<1> QED
  BY <1>1, <1>2 DEF NoRepeats, AllFrom

LEMMA ConcatAppendCells ==
    ASSUME NEW x \in Seq(Cell), NEW y \in Seq(Cell), NEW c \in Cell
    PROVE  x \o Append(y, c) = Append(x \o y, c)
OBVIOUS

Unwritten == FreshLines(SubSeq(buffersToWrite, at + 1, Len(buffersToWrite)))

\* The three parts of Pending and their types.
LEMMA PendingParts ==
    ASSUME SparesInv
    PROVE  /\ SubSeq(buffersToWrite, at + 1, Len(buffersToWrite)) \in Seq(FixedBuffer)
           /\ Unwritten \in Seq(Cell)
           /\ FreshLines(buffers_) \in Seq(Cell)
           /\ Fresh(currentBuffer_) \in Seq(Cell)
           /\ Pending = Unwritten \o FreshLines(buffers_) \o Fresh(currentBuffer_)
           /\ Pending \in Seq(Cell)
           /\ written \in Seq(Cell)
           /\ written \o Pending \in Seq(Cell)
<1> USE DEF SparesInv, TypeOK
<1>1. SubSeq(buffersToWrite, at + 1, Len(buffersToWrite)) \in Seq(FixedBuffer)
  OBVIOUS
<1>2. Unwritten \in Seq(Cell)
  BY <1>1, FreshLinesType DEF Unwritten
<1>3. FreshLines(buffers_) \in Seq(Cell) /\ Fresh(currentBuffer_) \in Seq(Cell)
  BY FreshLinesType, FreshType
<1>4. Pending = Unwritten \o FreshLines(buffers_) \o Fresh(currentBuffer_)
  BY DEF Pending, Unwritten
<1>5. Pending \in Seq(Cell)
  BY <1>2, <1>3, <1>4
<1>6. written \in Seq(Cell)
  BY DEF Cell
<1>7. written \o Pending \in Seq(Cell)
  BY <1>5, <1>6
<1> QED
  BY <1>1, <1>2, <1>3, <1>4, <1>5, <1>6, <1>7

\* An appended line is the last one pending, or goes nowhere.
LEMMA AppendLinePuts ==
    ASSUME LinesInv, NEW l \in Line, AppendLine(l)
    PROVE  Pending' = Append(Pending, l) \/ Pending' = Pending
<1>1. /\ Unwritten \in Seq(Cell) /\ FreshLines(buffers_) \in Seq(Cell)
      /\ Fresh(currentBuffer_) \in Seq(Cell)
      /\ Pending = Unwritten \o FreshLines(buffers_) \o Fresh(currentBuffer_)
      /\ Pending \in Seq(Cell)
  BY PendingParts DEF LinesInv
<1>2. Unwritten' = Unwritten
  BY DEF AppendLine, Unwritten
<1>3. Pending' = Unwritten \o FreshLines(buffers_') \o Fresh(currentBuffer_')
  BY <1>2 DEF Pending, Unwritten
<1>4. /\ currentBuffer_ \in FixedBuffer /\ buffers_ \in Seq(FixedBuffer)
      /\ Clean(written, currentBuffer_) /\ l \in Cell
  BY DEF LinesInv, SparesInv, TypeOK, Cell
<1>5. CASE Fits(currentBuffer_, l)
  <2>1. currentBuffer_' = Append1(currentBuffer_, l) /\ buffers_' = buffers_
    BY <1>5 DEF AppendLine
  <2>2. Fresh(currentBuffer_') = Append(Fresh(currentBuffer_), l)
    BY <1>4, <1>5, <2>1, Append1Facts
  <2>3. Unwritten \o FreshLines(buffers_) \in Seq(Cell)
    BY <1>1
  <2>4. Pending' = Append(Unwritten \o FreshLines(buffers_) \o Fresh(currentBuffer_), l)
    BY <1>1, <1>3, <1>4, <2>1, <2>2, <2>3, ConcatAppendCells
  <2> QED
    BY <1>1, <2>4
<1>6. CASE ~Fits(currentBuffer_, l)
  <2>1. PICK b : b = IF nextBuffer_ = None THEN NewBuffer ELSE nextBuffer_
    OBVIOUS
  <2>2. currentBuffer_' = Append1(b, l) /\ buffers_' = Append(buffers_, currentBuffer_)
    BY <1>6, <2>1 DEF AppendLine
  <2>3. b \in FixedBuffer /\ Spare(written, b)
    BY <2>1, BufferFacts, NewBufferIsSpare DEF LinesInv, SparesInv, TypeOK
  <2>4. Clean(written, b) /\ Fresh(b) = <<>>
    BY <2>3, SpareFacts
  <2>5. FreshLines(buffers_') = FreshLines(buffers_) \o Fresh(currentBuffer_)
    BY <1>4, <2>2, FreshLinesAppend
  <2>6. Unwritten \o FreshLines(buffers_') = Pending
    <3>1. Unwritten \o FreshLines(buffers_) \o Fresh(currentBuffer_)
            = Unwritten \o (FreshLines(buffers_) \o Fresh(currentBuffer_))
      BY <1>1, ConcatCells
    <3>2. Pending = Unwritten \o (FreshLines(buffers_) \o Fresh(currentBuffer_))
      BY <1>1, <3>1, Zenon
    <3> QED
      BY <2>5, <3>2, Zenon
  <2>7. Pending' = Pending \o Fresh(currentBuffer_')
    BY <1>3, <2>6
  <2>8. Fresh(currentBuffer_') = Append(<<>>, l) \/ Fresh(currentBuffer_') = <<>>
    <3>1. CASE Fits(b, l)
      <4>1. Fresh(Append1(b, l)) = Append(Fresh(b), l)
        BY <2>3, <2>4, <3>1, Append1Facts
      <4> QED
        BY <2>2, <2>4, <4>1, Zenon
    <3>2. CASE ~Fits(b, l)
      <4>1. Append1(b, l) = b
        BY <2>3, <2>4, <3>2, Append1Facts
      <4> QED
        BY <2>2, <2>4, <4>1
    <3> QED
      BY <3>1, <3>2
  <2>9. <<>> \in Seq(Cell) /\ Pending \o <<>> = Pending
    BY <1>1
  <2>10. Pending \o Append(<<>>, l) = Append(Pending, l)
    BY <1>1, <1>4, <2>9, ConcatAppendCells
  <2> QED
    BY <2>7, <2>8, <2>9, <2>10
<1> QED
  BY <1>5, <1>6

LEMMA AppendLineKeepsLines ==
    ASSUME LinesInv, NEW l \in Line, AppendLine(l)
    PROVE  LinesInv'
<1>1. SparesInv'
  BY AppendLineKeepsSpares DEF LinesInv
<1>2. /\ UNCHANGED <<newBuffer1, newBuffer2, buffersToWrite, at, written>>
      /\ l \notin appended /\ appended' = appended \union {l}
  BY DEF AppendLine, spareVars
<1>3. NoRepeats((written \o Pending)') /\ AllFrom((written \o Pending)', appended')
  <2>1. /\ written \in Seq(Cell) /\ Pending \in Seq(Cell) /\ written \o Pending \in Seq(Cell)
        /\ l \in Cell
    BY PendingParts DEF LinesInv, Cell
  <2>2. NoRepeats(written \o Pending) /\ AllFrom(written \o Pending, appended)
    BY DEF LinesInv
  <2>3. CASE Pending' = Append(Pending, l)
    <3>1. (written \o Pending)' = Append(written \o Pending, l)
      BY <1>2, <2>1, <2>3, ConcatAppendCells
    <3> QED
      BY <1>2, <2>1, <2>2, <3>1, NoRepeatsAppend
  <2>4. CASE Pending' = Pending
    <3>1. (written \o Pending)' = written \o Pending
      BY <1>2, <2>4
    <3> QED
      BY <1>2, <2>2, <3>1 DEF AllFrom
  <2> QED
    BY <2>3, <2>4, AppendLinePuts
<1>4. /\ currentBuffer_ \in FixedBuffer /\ buffers_ \in Seq(FixedBuffer)
      /\ Clean(written, currentBuffer_) /\ \A i \in 1 .. Len(buffers_) : Clean(written, buffers_[i])
  BY DEF LinesInv, SparesInv, TypeOK
<1>5. /\ Clean(written, currentBuffer_')
      /\ \A i \in 1 .. Len(buffers_') : Clean(written, buffers_'[i])
      /\ nextBuffer_' = None \/ nextBuffer_' = nextBuffer_
  <2>1. CASE Fits(currentBuffer_, l)
    <3>1. currentBuffer_' = Append1(currentBuffer_, l) /\ UNCHANGED <<buffers_, nextBuffer_>>
      BY <2>1 DEF AppendLine
    <3>2. Clean(written, currentBuffer_')
      BY <1>4, <3>1, Append1Facts
    <3> QED
      BY <1>4, <3>1, <3>2
  <2>2. CASE ~Fits(currentBuffer_, l)
    <3>1. PICK b : b = IF nextBuffer_ = None THEN NewBuffer ELSE nextBuffer_
      OBVIOUS
    <3>2. /\ currentBuffer_' = Append1(b, l) /\ buffers_' = Append(buffers_, currentBuffer_)
          /\ nextBuffer_' = None
      BY <2>2, <3>1 DEF AppendLine
    <3>3. b \in FixedBuffer /\ Spare(written, b)
      BY <3>1, BufferFacts, NewBufferIsSpare DEF LinesInv, SparesInv, TypeOK
    <3>4. Clean(written, currentBuffer_')
      BY <3>2, <3>3, SpareFacts, Append1Facts
    <3>5. \A i \in 1 .. Len(buffers_') : buffers_'[i] = currentBuffer_ \/
                 (i \in 1 .. Len(buffers_) /\ buffers_'[i] = buffers_[i])
      BY <1>4, <3>2
    <3> QED
      BY <1>4, <3>2, <3>4, <3>5
  <2> QED
    BY <2>1, <2>2
<1>6. \A b \in {nextBuffer_', newBuffer1', newBuffer2'} : b = None \/ Spare(written, b)
  BY <1>2, <1>5 DEF LinesInv
<1>7. /\ \A i \in 1 .. at : Done(written, buffersToWrite[i])
      /\ \A i \in at + 1 .. Len(buffersToWrite) : Clean(written, buffersToWrite[i])
  BY DEF LinesInv
<1> QED
  BY <1>1, <1>2, <1>3, <1>5, <1>6, <1>7 DEF LinesInv

\* Swapped buffers are pending as before.
LEMMA SwapKeepsPending ==
    ASSUME LinesInv, Swap
    PROVE  Pending' = Pending
<1>1. /\ Fresh(currentBuffer_) \in Seq(Cell) /\ FreshLines(buffers_) \in Seq(Cell)
      /\ Pending = Unwritten \o FreshLines(buffers_) \o Fresh(currentBuffer_)
  BY PendingParts DEF LinesInv
<1>2. /\ currentBuffer_ \in FixedBuffer /\ buffers_ \in Seq(FixedBuffer)
      /\ newBuffer1 \in FixedBuffer /\ Spare(written, newBuffer1)
      /\ buffersToWrite = <<>> /\ at = 0
  BY DEF LinesInv, SparesInv, TypeOK, Swap
<1>3. Unwritten = <<>>
  <2>1. SubSeq(buffersToWrite, at + 1, Len(buffersToWrite)) = <<>>
    BY <1>2
  <2> QED
    BY <2>1, FreshLinesEmpty DEF Unwritten
<1>4. PICK bs : bs = Append(buffers_, currentBuffer_)
  OBVIOUS
<1>5. bs \in Seq(FixedBuffer) /\ SubSeq(bs, 1, Len(bs)) = bs
  BY <1>2, <1>4
<1>6. Unwritten' = FreshLines(buffers_) \o Fresh(currentBuffer_)
  <2>1. buffersToWrite' = bs /\ at' = 0 /\ 0 + 1 = 1
    BY <1>2, <1>4 DEF Swap
  <2>2. Unwritten' = FreshLines(bs)
    BY <1>5, <2>1 DEF Unwritten
  <2> QED
    BY <1>2, <1>4, <2>2, FreshLinesAppend
<1>7. buffers_' = <<>> /\ currentBuffer_' = newBuffer1
  BY DEF Swap
<1>8. FreshLines(buffers_') = <<>> /\ Fresh(currentBuffer_') = <<>>
  BY <1>2, <1>7, FreshLinesEmpty, SpareFacts
<1>9. Pending' = Unwritten' \o FreshLines(buffers_') \o Fresh(currentBuffer_')
  BY DEF Pending, Unwritten
<1>10. Pending' = FreshLines(buffers_) \o Fresh(currentBuffer_) \o <<>> \o <<>>
  BY <1>6, <1>8, <1>9, Zenon
<1>11. Pending = <<>> \o FreshLines(buffers_) \o Fresh(currentBuffer_)
  BY <1>1, <1>3, Zenon
<1>12. <<>> \o FreshLines(buffers_) = FreshLines(buffers_)
  BY <1>1
<1>13. FreshLines(buffers_) \o Fresh(currentBuffer_) \o <<>> \o <<>>
         = FreshLines(buffers_) \o Fresh(currentBuffer_)
  BY <1>1
<1> QED
  BY <1>10, <1>11, <1>12, <1>13, Zenon

LEMMA SwapKeepsLines ==
    ASSUME LinesInv, Swap
    PROVE  LinesInv'
<1>1. SparesInv'
  BY SwapKeepsSpares DEF LinesInv
<1>2. /\ newBuffer1 # None /\ at = 0
      /\ currentBuffer_ \in FixedBuffer /\ buffers_ \in Seq(FixedBuffer)
      /\ newBuffer1 \in FixedBuffer
  BY DEF LinesInv, SparesInv, TypeOK, Swap
<1>3. /\ buffersToWrite' = Append(buffers_, currentBuffer_) /\ buffers_' = <<>>
      /\ currentBuffer_' = newBuffer1 /\ newBuffer1' = None
      /\ nextBuffer_' \in {nextBuffer_, newBuffer2} /\ newBuffer2' \in {None, newBuffer2}
      /\ at' = 0 /\ written' = written /\ appended' = appended
  BY <1>2 DEF Swap
<1>4. \A b \in {nextBuffer_', newBuffer1', newBuffer2'} : b = None \/ Spare(written, b)
  BY <1>3 DEF LinesInv
<1>5. Clean(written, currentBuffer_')
  BY <1>2, <1>3, SpareFacts DEF LinesInv
<1>6. \A i \in 1 .. Len(buffersToWrite') : Clean(written, buffersToWrite'[i])
  <2>1. \A i \in 1 .. Len(buffersToWrite') : buffersToWrite'[i] = currentBuffer_ \/
             (i \in 1 .. Len(buffers_) /\ buffersToWrite'[i] = buffers_[i])
    BY <1>2, <1>3
  <2> QED
    BY <2>1 DEF LinesInv
<1>7. /\ \A i \in 1 .. at' : Done(written, buffersToWrite'[i])
      /\ \A i \in at' + 1 .. Len(buffersToWrite') : Clean(written, buffersToWrite'[i])
      /\ \A i \in 1 .. Len(buffers_') : Clean(written, buffers_'[i])
  BY <1>3, <1>6
<1>8. (written \o Pending)' = written \o Pending
  BY <1>3, SwapKeepsPending
<1>9. NoRepeats((written \o Pending)') /\ AllFrom((written \o Pending)', appended')
  BY <1>3, <1>8 DEF LinesInv
<1> QED
  BY <1>1, <1>3, <1>4, <1>5, <1>7, <1>9 DEF LinesInv

\* The buffer written next holds the oldest pending lines, and they are what it
\* adds to the file.
LEMMA WriteBufferWrites ==
    ASSUME LinesInv, WriteBuffer
    PROVE  LET b == buffersToWrite[at + 1]
           IN  /\ b \in FixedBuffer /\ Clean(written, b)
               /\ NewLines(b) = Fresh(b)
               /\ Fresh(b) \in Seq(Cell) /\ NewLines(b) \in Seq(Line)
               /\ Pending' \in Seq(Cell)
               /\ Pending = Fresh(b) \o Pending'
               /\ written' = written \o Fresh(b)
<1>1. PICK b : b = buffersToWrite[at + 1]
  OBVIOUS
<1>2. PICK bs : bs = SubSeq(buffersToWrite, at + 1, Len(buffersToWrite))
  OBVIOUS
<1>3. PICK ts : ts = SubSeq(buffersToWrite, at + 2, Len(buffersToWrite))
  OBVIOUS
<1>4. /\ buffersToWrite \in Seq(FixedBuffer) /\ at \in 0 .. Len(buffersToWrite)
      /\ at < Len(buffersToWrite) /\ written \in Seq(Line)
  BY DEF LinesInv, SparesInv, TypeOK, WriteBuffer
<1>5. at + 1 \in 1 .. Len(buffersToWrite) /\ at + 1 \in at + 1 .. Len(buffersToWrite)
  BY <1>4
<1>6. b \in FixedBuffer /\ Clean(written, b)
  BY <1>1, <1>4, <1>5 DEF LinesInv
<1>7. FreshLines(bs) = Fresh(b) \o FreshLines(ts)
  <2>1. /\ bs \in Seq(FixedBuffer) /\ ts \in Seq(FixedBuffer)
        /\ Len(bs) = Len(buffersToWrite) - at /\ Len(ts) = Len(buffersToWrite) - (at + 1)
    BY <1>2, <1>3, <1>4
  <2>2. Len(bs) = Len(ts) + 1
    BY <1>4, <2>1
  <2>3. \A i \in 1 .. Len(bs) : bs[i] = buffersToWrite[at + i]
    BY <1>2, <1>4, <2>1
  <2>4. \A i \in 1 .. Len(ts) : ts[i] = buffersToWrite[at + 1 + i]
    BY <1>3, <1>4, <2>1
  <2>5. bs[1] = b
    BY <1>1, <1>4, <2>1, <2>3
  <2>6. ASSUME NEW i \in 1 .. Len(ts)
        PROVE  bs[i + 1] = ts[i]
    <3>1. i + 1 \in 1 .. Len(bs) /\ at + (i + 1) = at + 1 + i
      BY <1>4, <2>1, <2>2
    <3> QED
      BY <2>3, <2>4, <3>1
  <2> QED
    BY <1>6, <2>1, <2>2, <2>5, <2>6, FreshLinesPrepend
<1>8. /\ Fresh(b) \in Seq(Cell) /\ FreshLines(ts) \in Seq(Cell)
      /\ FreshLines(buffers_) \in Seq(Cell) /\ Fresh(currentBuffer_) \in Seq(Cell)
  <2>1. ts \in Seq(FixedBuffer)
    BY <1>3, <1>4
  <2> QED
    BY <1>6, <2>1, FreshType, FreshLinesType, PendingParts DEF LinesInv
<1>9. Pending' = FreshLines(ts) \o FreshLines(buffers_) \o Fresh(currentBuffer_)
  <2>1. UNCHANGED <<buffersToWrite, buffers_, currentBuffer_>> /\ at' = at + 1
    BY DEF WriteBuffer, sharedVars
  <2>2. at' + 1 = at + 2
    BY <1>4, <2>1
  <2> QED
    BY <1>3, <2>1, <2>2 DEF Pending
<1>10. Pending = FreshLines(bs) \o FreshLines(buffers_) \o Fresh(currentBuffer_)
  BY <1>2, PendingParts DEF LinesInv, Unwritten
<1>11. Pending' \in Seq(Cell)
  BY <1>8, <1>9
<1>12. Pending = Fresh(b) \o Pending'
  <2>1. PICK x, y, z, u : /\ x = Fresh(b) /\ y = FreshLines(ts)
                          /\ z = FreshLines(buffers_) /\ u = Fresh(currentBuffer_)
    OBVIOUS
  <2>2. x \in Seq(Cell) /\ y \in Seq(Cell) /\ z \in Seq(Cell) /\ u \in Seq(Cell)
    BY <1>8, <2>1
  <2>3. Pending' = y \o z \o u /\ Pending = x \o y \o z \o u
    <3>1. Pending' = y \o z \o u
      BY <1>9, <2>1, Zenon
    <3>2. FreshLines(bs) = x \o y
      BY <1>7, <2>1, Zenon
    <3>3. Pending = x \o y \o z \o u
      BY <1>10, <2>1, <3>2, Zenon
    <3> QED
      BY <3>1, <3>3
  <2>4. PICK v : v = y \o z
    OBVIOUS
  <2>5. v \in Seq(Cell)
    BY <2>2, <2>4
  <2>6. (x \o v) \o u = x \o (v \o u)
    BY <2>2, <2>5
  <2>7. (x \o y) \o z = x \o v
    BY <2>2, <2>4, ConcatCells
  <2>8. Pending' = v \o u /\ Pending = (x \o v) \o u
    BY <2>3, <2>4, <2>7, Zenon
  <2> QED
    BY <2>1, <2>6, <2>8, Zenon
<1>13. NewLines(b) = Fresh(b)
  <2>1. PICK p, q : p = Pending /\ q = Pending'
    OBVIOUS
  <2>2. NoRepeats(written \o p) /\ p \in Seq(Cell) /\ q \in Seq(Cell) /\ p = Fresh(b) \o q
    BY <1>11, <1>12, <2>1, PendingParts DEF LinesInv
  <2> QED
    BY <1>4, <1>6, <2>2, FreshIsNew
<1>14. written' = written \o Fresh(b)
  BY <1>1, <1>13 DEF WriteBuffer
<1>15. NewLines(b) \in Seq(Line)
  BY <1>6, NewLinesType
<1> QED
  BY <1>1, <1>6, <1>8, <1>11, <1>12, <1>13, <1>14, <1>15

LEMMA WriteBufferKeepsLines ==
    ASSUME LinesInv, WriteBuffer
    PROVE  LinesInv'
<1>1. SparesInv'
  BY WriteBufferKeepsSpares DEF LinesInv
<1>2. PICK b : b = buffersToWrite[at + 1]
  OBVIOUS
<1>3. PICK x : x = Fresh(b)
  OBVIOUS
<1>4. /\ b \in FixedBuffer /\ Clean(written, b) /\ x \in Seq(Cell) /\ x \in Seq(Line)
      /\ Pending' \in Seq(Cell) /\ Pending = x \o Pending' /\ written' = written \o x
  BY <1>2, <1>3, WriteBufferWrites
<1>5. /\ buffersToWrite \in Seq(FixedBuffer) /\ at \in 0 .. Len(buffersToWrite)
      /\ at < Len(buffersToWrite) /\ written \in Seq(Line) /\ written \in Seq(Cell)
  BY DEF LinesInv, SparesInv, TypeOK, WriteBuffer, Cell
<1>6. /\ UNCHANGED <<buffersToWrite, buffers_, currentBuffer_, nextBuffer_, newBuffer1,
                     newBuffer2, appended>>
      /\ at' = at + 1
  BY DEF WriteBuffer, sharedVars, spareVars
<1>7. \A c : Settled(written, c) => Settled(written', c)
  BY <1>4, <1>5, SettledGrows
<1>8. /\ \A a : Clean(written, a) => Clean(written', a)
      /\ \A a : Spare(written, a) => Spare(written', a)
      /\ \A a : Done(written, a) => Done(written', a)
  BY <1>7 DEF Clean, Spare, Done
<1>9. Done(written', b)
  <2>1. /\ b.cur \in Nat /\ Cap \in Nat /\ Len(x) = b.cur
        /\ \A i \in 1 .. b.cur : x[i] = b.data[i]
    <3>1. b.data \in Seq(Cell) /\ Len(b.data) = Cap /\ b.cur \in 0 .. Cap /\ Cap \in Nat
      BY <1>4, LoggingAssumption DEF FixedBuffer, Cell
    <3> QED
      BY <1>3, <3>1 DEF Fresh
  <2>2. \A i \in 1 .. Len(x) : Settled(written', x[i])
    BY <1>4, <1>5, SettledGrows
  <2>3. ASSUME NEW i \in 1 .. Cap
        PROVE  Settled(written', b.data[i])
    <3>1. CASE i <= b.cur
      <4>1. i \in 1 .. b.cur /\ i \in 1 .. Len(x)
        BY <2>1, <3>1
      <4>2. x[i] = b.data[i]
        BY <2>1, <4>1
      <4> QED
        BY <2>2, <4>1, <4>2, Zenon
    <3>2. CASE ~(i <= b.cur)
      <4>1. i > b.cur
        BY <2>1, <3>2
      <4> QED
        BY <1>4, <1>7, <4>1 DEF Clean
    <3> QED
      BY <3>1, <3>2
  <2> QED
    BY <2>3 DEF Done
<1>10. \A i \in 1 .. at' : Done(written', buffersToWrite'[i])
  <2>1. \A i \in 1 .. at' : i \in 1 .. at \/ i = at + 1
    BY <1>5, <1>6
  <2>2. \A i \in 1 .. at : Done(written', buffersToWrite[i])
    BY <1>8 DEF LinesInv
  <2> QED
    BY <1>2, <1>6, <1>9, <2>1, <2>2
<1>11. \A i \in at' + 1 .. Len(buffersToWrite') : Clean(written', buffersToWrite'[i])
  <2>1. \A i \in at' + 1 .. Len(buffersToWrite') : i \in at + 1 .. Len(buffersToWrite)
    BY <1>5, <1>6
  <2> QED
    BY <1>6, <1>8, <2>1 DEF LinesInv
<1>12. (written \o Pending)' = written \o Pending
  <2>1. (written \o Pending)' = (written \o x) \o Pending'
    BY <1>4
  <2>2. (written \o x) \o Pending' = written \o (x \o Pending')
    BY <1>4, <1>5, ConcatCells
  <2> QED
    BY <1>4, <2>1, <2>2, Zenon
<1>13. NoRepeats((written \o Pending)') /\ AllFrom((written \o Pending)', appended')
  BY <1>6, <1>12 DEF LinesInv
<1>14. /\ \A a \in {nextBuffer_', newBuffer1', newBuffer2'} : a = None \/ Spare(written', a)
       /\ Clean(written', currentBuffer_')
       /\ \A i \in 1 .. Len(buffers_') : Clean(written', buffers_'[i])
  BY <1>6, <1>8 DEF LinesInv
<1> QED
  BY <1>1, <1>10, <1>11, <1>13, <1>14 DEF LinesInv

LEMMA RecycleKeepsPending ==
    ASSUME LinesInv, Recycle
    PROVE  Pending' = Pending
<1>1. /\ at = Len(buffersToWrite) /\ buffersToWrite' = <<>> /\ at' = 0
      /\ UNCHANGED <<buffers_, currentBuffer_>>
  BY DEF Recycle, sharedVars
<1>2. SubSeq(buffersToWrite, at + 1, Len(buffersToWrite)) = <<>>
  BY <1>1 DEF LinesInv, SparesInv, TypeOK
<1>3. SubSeq(buffersToWrite', at' + 1, Len(buffersToWrite')) = <<>>
  BY <1>1
<1> QED
  BY <1>1, <1>2, <1>3, Zenon DEF Pending

LEMMA RecycleKeepsLines ==
    ASSUME LinesInv, Recycle
    PROVE  LinesInv'
<1>1. SparesInv'
  BY RecycleKeepsSpares DEF LinesInv
<1>2. /\ at = Len(buffersToWrite) /\ buffersToWrite' = <<>> /\ at' = 0
      /\ newBuffer1' = Reset(Last(Recycled))
      /\ newBuffer2' = IF newBuffer2 = None THEN Reset(Last(Front(Recycled))) ELSE newBuffer2
      /\ UNCHANGED <<buffers_, currentBuffer_, nextBuffer_, written, appended>>
  BY DEF Recycle, sharedVars
<1>3. /\ buffersToWrite \in Seq(FixedBuffer) /\ Len(buffersToWrite) >= 1
      /\ newBuffer2 = None => Len(buffersToWrite) >= 2
  BY DEF LinesInv, SparesInv, TypeOK, Recycle
<1>4. \A i \in 1 .. Len(buffersToWrite) :
          buffersToWrite[i] \in FixedBuffer /\ Done(written, buffersToWrite[i])
  BY <1>2, <1>3 DEF LinesInv
<1>5. \A i \in 1 .. Len(buffersToWrite) : Spare(written, Reset(buffersToWrite[i]))
  BY <1>4, DoneFacts
<1>6. Spare(written, newBuffer1')
  <2>1. \E i \in 1 .. Len(buffersToWrite) : Last(Recycled) = buffersToWrite[i]
    BY <1>3, RecycledBuffers DEF Recycled
  <2> QED
    BY <1>2, <1>5, <2>1
<1>7. newBuffer2' = newBuffer2 \/ Spare(written, newBuffer2')
  <2>1. CASE newBuffer2 = None
    <3>1. Len(buffersToWrite) >= 2 => Last(Front(Recycled)) = buffersToWrite[1]
      BY <1>3, RecycledBuffers DEF Recycled
    <3>2. Len(buffersToWrite) >= 2 /\ 1 \in 1 .. Len(buffersToWrite)
      BY <1>3, <2>1
    <3> QED
      BY <1>2, <1>5, <2>1, <3>1, <3>2
  <2>2. CASE newBuffer2 # None
    BY <1>2, <2>2
  <2> QED
    BY <2>1, <2>2
<1>8. \A b \in {nextBuffer_', newBuffer1', newBuffer2'} : b = None \/ Spare(written', b)
  BY <1>2, <1>6, <1>7 DEF LinesInv
<1>9. /\ \A i \in 1 .. at' : Done(written', buffersToWrite'[i])
      /\ \A i \in at' + 1 .. Len(buffersToWrite') : Clean(written', buffersToWrite'[i])
  BY <1>2
<1>10. /\ Clean(written', currentBuffer_')
       /\ \A i \in 1 .. Len(buffers_') : Clean(written', buffers_'[i])
  BY <1>2 DEF LinesInv
<1>11. (written \o Pending)' = written \o Pending
  BY <1>2, RecycleKeepsPending
<1>12. NoRepeats((written \o Pending)') /\ AllFrom((written \o Pending)', appended')
  BY <1>2, <1>11 DEF LinesInv
<1> QED
  BY <1>1, <1>8, <1>9, <1>10, <1>12 DEF LinesInv

\* The other steps leave the buffers and the file alone.
LEMMA QuietSteps ==
    ASSUME \/ Start \/ Stop \/ StopReturns \/ TestRunning \/ Lock \/ Timeout
           \/ UNCHANGED vars
    PROVE  UNCHANGED <<currentBuffer_, nextBuffer_, buffers_, newBuffer1, newBuffer2,
                       buffersToWrite, at, appended, written>>
BY DEF Start, Stop, StopReturns, TestRunning, Lock, Timeout, vars, sharedVars, spareVars

LEMMA QuietKeepsPending ==
    ASSUME UNCHANGED <<currentBuffer_, buffers_, buffersToWrite, at>>
    PROVE  Pending' = Pending
BY DEF Pending

LEMMA QuietKeepsLines ==
    ASSUME LinesInv, SparesInv',
           UNCHANGED <<currentBuffer_, nextBuffer_, buffers_, newBuffer1, newBuffer2,
                       buffersToWrite, at, appended, written>>
    PROVE  LinesInv'
<1>1. Pending' = Pending
  BY QuietKeepsPending
<1>2. (written \o Pending)' = written \o Pending
  BY <1>1
<1> QED
  BY <1>2 DEF LinesInv

LEMMA LinesInit == Init => LinesInv
<1> SUFFICES ASSUME Init
             PROVE  LinesInv
  OBVIOUS
<1>1. SparesInv
  BY SparesInit
<1>2. NewBuffer \in FixedBuffer /\ Spare(written, NewBuffer)
  BY BufferFacts, NewBufferIsSpare
<1>3. Clean(written, NewBuffer) /\ Fresh(NewBuffer) = <<>>
  BY <1>2, SpareFacts
<1>4. Pending = <<>>
  <2>1. SubSeq(buffersToWrite, at + 1, Len(buffersToWrite)) = <<>>
    BY DEF Init
  <2>2. Pending = <<>> \o <<>> \o <<>>
    BY <1>3, <2>1, FreshLinesEmpty DEF Init, Pending
  <2> QED
    BY <2>2
<1>5. written \o Pending = <<>>
  BY <1>4 DEF Init
<1>6. NoRepeats(written \o Pending) /\ AllFrom(written \o Pending, appended)
  BY <1>5 DEF NoRepeats, AllFrom
<1> QED
  BY <1>1, <1>2, <1>3, <1>6 DEF LinesInv, Init

LEMMA LinesInvStep ==
    ASSUME LinesInv, [Next]_vars
    PROVE  LinesInv'
<1>1. CASE \E l \in Line : AppendLine(l)
  BY <1>1, AppendLineKeepsLines
<1>2. CASE Swap
  BY <1>2, SwapKeepsLines
<1>3. CASE WriteBuffer
  BY <1>3, WriteBufferKeepsLines
<1>4. CASE Recycle
  BY <1>4, RecycleKeepsLines
<1>5. CASE \/ Start \/ Stop \/ StopReturns \/ TestRunning \/ Lock \/ Timeout
           \/ UNCHANGED vars
  <2>1. SparesInv'
    BY SparesInvStep DEF LinesInv
  <2> QED
    BY <1>5, <2>1, QuietSteps, QuietKeepsLines
<1> QED
  BY <1>1, <1>2, <1>3, <1>4, <1>5 DEF Next

\* The inductive invariant of the lines: no spare buffer holds a line that the
\* file does not have, and no line is in two places.
THEOREM LinesInvariant == Spec => []LinesInv
<1>1. Init => LinesInv
  BY LinesInit
<1>2. LinesInv /\ [Next]_vars => LinesInv'
  BY LinesInvStep
<1> QED
  BY <1>1, <1>2, PTL DEF Spec

LEMMA StepMapsToLog ==
    ASSUME LinesInv, [Next]_vars
    PROVE  [Log!Next]_<<Pending, written>>
<1>1. CASE \E l \in Line : AppendLine(l)
  <2>1. PICK l \in Line : AppendLine(l)
    BY <1>1
  <2>2. written' = written
    BY <2>1 DEF AppendLine
  <2>3. CASE Pending' = Append(Pending, l)
    <3>1. Log!Put(l)
      BY <2>2, <2>3 DEF Log!Put
    <3> QED
      BY <3>1 DEF Log!Next
  <2>4. CASE Pending' = Pending
    BY <2>2, <2>4
  <2> QED
    BY <2>1, <2>3, <2>4, AppendLinePuts
<1>2. CASE Swap
  BY <1>2, SwapKeepsPending DEF Swap
<1>3. CASE WriteBuffer
  <2>1. PICK x : x = Fresh(buffersToWrite[at + 1])
    OBVIOUS
  <2>2. /\ x \in Seq(Cell) /\ Pending' \in Seq(Cell)
        /\ Pending = x \o Pending' /\ written' = written \o x
    BY <1>3, <2>1, WriteBufferWrites
  <2>3. CASE x = <<>>
    <3>1. written \in Seq(Cell)
      BY PendingParts DEF LinesInv
    <3>2. Pending = Pending' /\ written' = written
      BY <2>2, <2>3, <3>1
    <3> QED
      BY <3>2
  <2>4. CASE x # <<>>
    <3>1. PICK p, q : p = Pending /\ q = Pending'
      OBVIOUS
    <3>2. p \in Seq(Cell) /\ q \in Seq(Cell) /\ p = x \o q
      BY <2>2, <3>1
    <3>3. Len(x) \in 1 .. Len(p) /\ SubSeq(p, 1, Len(x)) = x
          /\ SubSeq(p, Len(x) + 1, Len(p)) = q
      BY <2>2, <2>4, <3>2
    <3>4. Log!Write(Len(x))
      BY <2>2, <3>1, <3>3 DEF Log!Write
    <3> QED
      BY <3>1, <3>3, <3>4 DEF Log!Next
  <2> QED
    BY <2>3, <2>4
<1>4. CASE Recycle
  BY <1>4, RecycleKeepsPending DEF Recycle
<1>5. CASE \/ Start \/ Stop \/ StopReturns \/ TestRunning \/ Lock \/ Timeout
           \/ UNCHANGED vars
  BY <1>5, QuietSteps, QuietKeepsPending
<1> QED
  BY <1>1, <1>2, <1>3, <1>4, <1>5 DEF Next

\* AsyncLogging implements LineLog: a line appended becomes the last one pending
\* (or is dropped, when it is as long as a buffer), a buffer written is a prefix
\* of the pending lines, and every other step changes neither.
THEOREM LinesStayInOrder == Spec => LinesInOrder
<1>1. Init => Log!Init
  <2> SUFFICES ASSUME Init
               PROVE  Log!Init
    OBVIOUS
  <2>1. Fresh(NewBuffer) = <<>>
    BY BufferFacts, NewBufferIsSpare, SpareFacts
  <2>2. SubSeq(buffersToWrite, at + 1, Len(buffersToWrite)) = <<>>
    BY DEF Init
  <2>3. Pending = <<>> \o <<>> \o <<>>
    BY <2>1, <2>2, FreshLinesEmpty DEF Init, Pending
  <2> QED
    BY <2>3 DEF Init, Log!Init
<1>2. LinesInv /\ [Next]_vars => [Log!Next]_<<Pending, written>>
  BY StepMapsToLog
<1> QED
  BY <1>1, <1>2, LinesInvariant, PTL DEF Spec, LinesInOrder, Log!Spec
=============================================================================
