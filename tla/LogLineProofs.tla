---------------------------- MODULE LogLineProofs ---------------------------
(***************************************************************************)
(* Proofs about LogLine, for every size of the buffer and whatever is      *)
(* logged: a line stays in its array, a short one is whole, and integers   *)
(* read back.  NumbersFit says how many characters a number may have, and  *)
(* NumbersAreShort how many one of 64 bits has.                            *)
(***************************************************************************)
EXTENDS LogLine, WellFoundedInduction, TLAPS

\* What the buffer of a line is, next to what one without end would be.
Holds(stream, all) ==
    /\ stream.cur \in Nat /\ all.cur \in Nat
    /\ stream.cur < Size
    /\ stream = all \/ all.cur > Size - kMaxNumericSize

\* One text.
LEMMA TextHolds ==
    ASSUME NEW stream, NEW all, Holds(stream, all), NEW n \in Nat
    PROVE  Holds(AppendText(stream, n), AddText(all, n))
<1>1. AddText(all, n).cur = all.cur + n
  BY DEF AddText, Add, Text
<1>2. CASE Avail(stream) > n
  <2>1. AppendText(stream, n) = AddText(stream, n) /\ AddText(stream, n).cur = stream.cur + n
    BY <1>2 DEF AppendText, AddText, Add, Text
  <2>. QED
    BY <1>1, <1>2, <2>1, LogLineAssumption DEF Holds, Avail
<1>3. CASE ~(Avail(stream) > n)
  <2>1. AppendText(stream, n) = stream
    BY <1>3 DEF AppendText
  <2>. QED
    BY <1>1, <1>3, <2>1, LogLineAssumption DEF Holds, Avail
<1>. QED
  BY <1>2, <1>3

\* One piece of at most kMaxNumericSize - 1 characters, put down only when
\* kMaxNumericSize remain.
LEMMA NumberHolds ==
    ASSUME NEW stream, NEW all, Holds(stream, all), NEW piece,
           piece.len \in 0 .. kMaxNumericSize - 1
    PROVE  Holds(AppendNumber(stream, piece), Add(all, piece))
<1>1. Add(all, piece).cur = all.cur + piece.len
  BY DEF Add
<1>2. CASE Avail(stream) >= kMaxNumericSize
  <2>1. /\ AppendNumber(stream, piece) = Add(stream, piece)
        /\ Add(stream, piece).cur = stream.cur + piece.len
    BY <1>2 DEF AppendNumber, Add
  <2>. QED
    BY <1>1, <1>2, <2>1, LogLineAssumption DEF Holds, Avail
<1>3. CASE ~(Avail(stream) >= kMaxNumericSize)
  <2>1. AppendNumber(stream, piece) = stream
    BY <1>3 DEF AppendNumber
  <2>. QED
    BY <1>1, <1>3, <2>1, LogLineAssumption DEF Holds, Avail
<1>. QED
  BY <1>2, <1>3

LEMMA IntegerHolds ==
    ASSUME NEW stream, NEW all, Holds(stream, all), NEW n \in Integer \union LineNumber
    PROVE  Holds(FormatInteger(stream, n), AddInteger(all, n))
<1>1. Number(Characters(n), n).len \in 0 .. kMaxNumericSize - 1
  BY NumbersFit, LogLineAssumption DEF Number
<1>. QED
  BY <1>1, NumberHolds DEF FormatInteger, AddInteger

LEMMA EmptyHolds == Holds(Empty, Empty)
  BY LogLineAssumption DEF Holds, Empty

LEMMA LineInvInit == Init => LineInv
  BY EmptyHolds DEF Init, LineInv, LineFits, Holds

LEMMA LineInvStep == LineInv /\ [Next]_vars => LineInv'
<1> SUFFICES ASSUME LineInv, [Next]_vars PROVE Holds(stream_', offered')
  BY DEF LineInv, LineFits, Holds
<1>0. Holds(stream_, offered)
  BY DEF LineInv, LineFits, Holds
<1>1. ASSUME NEW level \in LogLevel, SetLogLevel(level) PROVE Holds(stream_', offered')
  BY <1>0, <1>1 DEF SetLogLevel
\* The header.
<1>2. ASSUME NEW level \in LogLevel, NEW n \in TextLen, BeginLine(level, n)
      PROVE  Holds(stream_', offered')
  <2>1. n \in Nat /\ 17 \in Nat /\ 7 \in Nat /\ 6 \in Nat /\ 1 \in Nat
    BY LogLineAssumption
  <2> DEFINE a1 == AppendText(Empty, 17)  b1 == AddText(Empty, 17)
             a2 == AppendText(a1, 7)      b2 == AddText(b1, 7)
             a3 == AppendText(a2, 6)      b3 == AddText(b2, 6)
             a4 == AppendText(a3, n)      b4 == AddText(b3, n)
             a5 == AppendText(a4, 1)      b5 == AddText(b4, 1)
  <2>2. Holds(a1, b1)
    BY <2>1, EmptyHolds, TextHolds
  <2>3. Holds(a2, b2)
    BY <2>1, <2>2, TextHolds
  <2>4. Holds(a3, b3)
    BY <2>1, <2>3, TextHolds
  <2>5. Holds(a4, b4)
    BY <2>1, <2>4, TextHolds
  <2>6. Holds(a5, b5)
    BY <2>1, <2>5, TextHolds
  <2>7. /\ stream_' = (IF level = DEBUG THEN a5 ELSE a3)
        /\ offered' = (IF level = DEBUG THEN b5 ELSE b3)
    BY <1>2 DEF BeginLine
  <2>. QED
    BY <2>4, <2>6, <2>7
\* The application's pieces.
<1>3. CASE LogPiece
  <2>1. ASSUME NEW n \in TextLen \union {1, 6}, LogText(n) PROVE Holds(stream_', offered')
    <3>1. n \in Nat
      BY LogLineAssumption
    <3>. QED
      BY <1>0, <2>1, <3>1, TextHolds DEF LogText
  <2>2. ASSUME NEW n \in Integer, LogInteger(n) PROVE Holds(stream_', offered')
    BY <1>0, <2>2, IntegerHolds DEF LogInteger
  <2>3. ASSUME NEW n \in {1, 19}, LogDouble(n) PROVE Holds(stream_', offered')
    <3>1. Text(n).len \in 0 .. kMaxNumericSize - 1
      BY LogLineAssumption DEF Text
    <3>. QED
      BY <1>0, <2>3, <3>1, NumberHolds DEF LogDouble, AddText
  <2>. QED
    BY <1>3, <2>1, <2>2, <2>3 DEF LogPiece
\* finish().
<1>4. ASSUME NEW n \in TextLen, NEW line \in LineNumber, EndLine(n, line)
      PROVE  Holds(stream_', offered')
  <2>1. n \in Nat /\ 3 \in Nat /\ 1 \in Nat
    BY LogLineAssumption
  <2> DEFINE a1 == AppendText(stream_, 3)      b1 == AddText(offered, 3)
             a2 == AppendText(a1, n)           b2 == AddText(b1, n)
             a3 == AppendText(a2, 1)           b3 == AddText(b2, 1)
             a4 == FormatInteger(a3, line)     b4 == AddInteger(b3, line)
             a5 == AppendText(a4, 1)           b5 == AddText(b4, 1)
  <2>2. Holds(a1, b1)
    BY <1>0, <2>1, TextHolds
  <2>3. Holds(a2, b2)
    BY <2>1, <2>2, TextHolds
  <2>4. Holds(a3, b3)
    BY <2>1, <2>3, TextHolds
  <2>5. Holds(a4, b4)
    BY <2>4, IntegerHolds
  <2>6. Holds(a5, b5)
    BY <2>1, <2>5, TextHolds
  <2>7. stream_' = a5 /\ offered' = b5
    BY <1>4 DEF EndLine
  <2>. QED
    BY <2>6, <2>7
<1>5. CASE Return
  BY <1>5, EmptyHolds DEF Return
<1>6. CASE FlushAndAbort
  BY <1>0, <1>6 DEF FlushAndAbort
<1>7. CASE UNCHANGED vars
  BY <1>0, <1>7 DEF vars
<1>. QED
  BY <1>1, <1>2, <1>3, <1>4, <1>5, <1>6, <1>7 DEF Next

\* The inductive invariant of the buffer of a line.
THEOREM LineInvariant == Spec => []LineInv
  BY LineInvInit, LineInvStep, PTL DEF Spec

\* Nothing that is logged, however much, leaves the array.
THEOREM LineStaysInArray == Spec => []LineFits
<1>1. LineInv => LineFits
  BY DEF LineInv
<1>. QED
  BY <1>1, LineInvariant, PTL

\* A line that leaves room for a number is complete.
THEOREM ShortLinesAreWhole == Spec => []LinesAreWhole
<1>1. LineInv => LinesAreWhole
  BY LogLineAssumption DEF LineInv, LinesAreWhole
<1>. QED
  BY <1>1, LineInvariant, PTL

-----------------------------------------------------------------------------
(* Induction, without a theorem about operators: on a set.                  *)

\* A set of naturals has a least one (the same lemmas as in AsyncLoggingProofs).
LEMMA LeastNatural ==
    ASSUME NEW T \in SUBSET Nat, T # {}
    PROVE  \E n \in T : \A m \in T : n <= m
<1>1. PICK n \in T : \A m \in T : <<m, n>> \notin OpToRel(<, Nat)
  BY NatLessThanWellFounded, WFMin
<1>2. ASSUME NEW m \in T
      PROVE  n <= m
  <2>1. ~ (m < n)
    BY <1>1 DEF OpToRel
  <2> QED
    BY <2>1
<1> QED
  BY <1>2

\* Induction: a set that holds 0 and every successor holds every natural.
LEMMA SetInduction ==
    ASSUME NEW T, 0 \in T, \A n \in Nat : n \in T => n + 1 \in T
    PROVE  Nat \subseteq T
<1> SUFFICES ASSUME Nat \ T # {}
             PROVE  FALSE
  OBVIOUS
<1>1. PICK n \in Nat \ T : \A m \in Nat \ T : n <= m
  BY LeastNatural
<1>2. n # 0 /\ n - 1 \in Nat
  BY <1>1
<1>3. n - 1 \in T
  BY <1>1, <1>2
<1>4. (n - 1) + 1 \in T
  BY <1>2, <1>3
<1> QED
  BY <1>1, <1>4

-----------------------------------------------------------------------------
(* Recursive functions on 0 .. n.                                          *)

Iterates(g, n, a, step) == g[0] = a /\ \A i \in 1 .. n : g[i] = step[i][g[i - 1]]

\* A function defined by recursion on its index exists, and has its type.
LEMMA RecursiveFunction ==
    ASSUME NEW n \in Nat, NEW S, NEW a \in S, NEW step \in [1 .. n -> [S -> S]]
    PROVE  \E g \in [0 .. n -> S] : Iterates(g, n, a, step)
<1> DEFINE Good(g, m) == /\ g \in [0 .. m -> S] /\ g[0] = a
                         /\ \A i \in 1 .. m : g[i] = step[i][g[i - 1]]
           T == {m \in Nat : m <= n => \E g : Good(g, m)}
<1>1. 0 \in T
  <2>1. Good([i \in 0 .. 0 |-> a], 0)
    OBVIOUS
  <2> QED
    BY <2>1
<1>2. ASSUME NEW m \in Nat, m \in T
      PROVE  m + 1 \in T
  <2>1. SUFFICES ASSUME m + 1 <= n
                 PROVE  \E g : Good(g, m + 1)
    OBVIOUS
  <2>2. PICK g : Good(g, m)
    BY <1>2, <2>1
  <2> DEFINE h == [i \in 0 .. (m + 1) |-> IF i = m + 1 THEN step[m + 1][g[m]] ELSE g[i]]
  <2>3. g[m] \in S /\ m + 1 \in 1 .. n
    BY <2>1, <2>2
  <2>4. step[m + 1][g[m]] \in S
    BY <2>3
  <2>5. h \in [0 .. (m + 1) -> S]
    BY <2>2, <2>4
  <2>6. h[0] = a
    BY <2>2
  <2>7. \A i \in 1 .. (m + 1) : h[i] = step[i][h[i - 1]]
    <3>1. \A i \in 1 .. m : h[i] = g[i] /\ h[i - 1] = g[i - 1]
      OBVIOUS
    <3>2. h[m + 1] = step[m + 1][g[m]] /\ h[m] = g[m]
      OBVIOUS
    <3>3. \A i \in 1 .. m : g[i] = step[i][g[i - 1]]
      BY <2>2
    <3>4. \A i \in 1 .. m : h[i] = step[i][h[i - 1]]
      BY <3>1, <3>3
    <3>5. h[m + 1] = step[m + 1][h[(m + 1) - 1]]
      BY <3>2
    <3> HIDE DEF h
    <3>6. \A i \in 1 .. (m + 1) : i \in 1 .. m \/ i = m + 1
      OBVIOUS
    <3> QED
      BY <3>4, <3>5, <3>6
  <2>8. Good(h, m + 1)
    BY <2>5, <2>6, <2>7
  <2> QED
    BY <2>8
<1>3. Nat \subseteq T
  BY <1>1, <1>2, SetInduction
<1>4. PICK g : Good(g, n)
  BY <1>3
<1> QED
  BY <1>4 DEF Iterates

StepsAgree(f, g, n) ==
    f[0] = g[0] /\ \A i \in 1 .. n : f[i - 1] = g[i - 1] => f[i] = g[i]

\* Two functions with the same recursion are the same.
LEMMA RecursiveFunctionUnique ==
    ASSUME NEW n \in Nat, NEW f, NEW g, StepsAgree(f, g, n)
    PROVE  \A i \in 0 .. n : f[i] = g[i]
<1> USE DEF StepsAgree
<1> DEFINE T == {m \in Nat : m <= n => f[m] = g[m]}
<1>1. 0 \in T
  OBVIOUS
<1>2. ASSUME NEW m \in Nat, m \in T
      PROVE  m + 1 \in T
  <2>1. SUFFICES ASSUME m + 1 <= n
                 PROVE  f[m + 1] = g[m + 1]
    OBVIOUS
  <2>2. f[m] = g[m] /\ m + 1 \in 1 .. n /\ (m + 1) - 1 = m
    BY <1>2, <2>1
  <2> QED
    BY <2>2
<1>3. Nat \subseteq T
  BY <1>1, <1>2, SetInduction
<1> QED
  BY <1>3

-----------------------------------------------------------------------------
(* formatInteger: the digits of a number.                                  *)

\* C++'s division: the quotient has the number's sign, the digit none.
LEMMA DigitFacts ==
    ASSUME NEW n \in Int
    PROVE  /\ Quotient(n) \in Int /\ Digit(n) \in 0 .. 9
           /\ n >= 0 => Quotient(n) >= 0 /\ n = 10 * Quotient(n) + Digit(n)
           /\ n <= 0 => Quotient(n) <= 0 /\ n = 10 * Quotient(n) - Digit(n)
BY DEF Quotient, Digit

Magnitude(n) == IF n < 0 THEN -n ELSE n
Upto(k) == -k .. k

\* A quotient is nearer to 0: what the recursion of Digits rests on.
LEMMA QuotientShrinks ==
    ASSUME NEW n \in Int
    PROVE  /\ Quotient(n) \in Int
           /\ Quotient(n) # 0 => Magnitude(Quotient(n)) < Magnitude(n)
           /\ Magnitude(Quotient(n)) <= Magnitude(n)
           /\ Magnitude(n) \in Nat /\ n \in Upto(Magnitude(n))
BY DEF Quotient, Magnitude, Upto

LEMMA UptoFacts ==
    ASSUME NEW k \in Nat, NEW n \in Int
    PROVE  n \in Upto(k) <=> Magnitude(n) <= k
BY DEF Magnitude, Upto

\* What Digits gives of n, when d is what it gives of the quotient.
DigitsOf(n, d) == IF Quotient(n) = 0 THEN <<Digit(n)>> ELSE <<Digit(n)>> \o d

\* g satisfies the recursion of Digits up to k.
DigitsUpto(g, k) ==
    /\ g = [n \in Upto(k) |-> g[n]]
    /\ \A n \in Upto(k) : g[n] = DigitsOf(n, g[Quotient(n)])

\* Such a function exists, and any two of them agree: the recursion, which goes
\* down on both sides of 0, defines Digits.
LEMMA DigitsUptoExists ==
    ASSUME NEW k \in Nat
    PROVE  \E g : DigitsUpto(g, k)
<1> DEFINE T == {j \in Nat : \E g : DigitsUpto(g, j)}
<1>1. 0 \in T
  <2>1. PICK g : g = [n \in Upto(0) |-> <<Digit(n)>>]
    OBVIOUS
  <2>2. \A n \in Upto(0) : Quotient(n) = 0
    BY DEF Upto, Quotient
  <2>3. \A n \in Upto(0) : g[n] = DigitsOf(n, g[Quotient(n)])
    BY <2>1, <2>2, Zenon DEF DigitsOf
  <2>4. g = [n \in Upto(0) |-> g[n]]
    BY <2>1, Zenon
  <2> QED
    BY <2>3, <2>4 DEF DigitsUpto
<1>2. ASSUME NEW j \in Nat, j \in T
      PROVE  j + 1 \in T
  <2>1. PICK g : DigitsUpto(g, j)
    BY <1>2
  <2>2. PICK h : h = [n \in Upto(j + 1) |->
                        IF n \in Upto(j) THEN g[n] ELSE DigitsOf(n, g[Quotient(n)])]
    OBVIOUS
  <2>3. ASSUME NEW n \in Upto(j + 1)
        PROVE  h[n] = DigitsOf(n, h[Quotient(n)])
    <3>1. n \in Int
      BY DEF Upto
    <3>2. h[n] = IF n \in Upto(j) THEN g[n] ELSE DigitsOf(n, g[Quotient(n)])
      BY <2>2, Zenon
    <3>3. h[n] = DigitsOf(n, g[Quotient(n)])
      BY <2>1, <3>2, Zenon DEF DigitsUpto
    <3>4. CASE Quotient(n) = 0
      BY <3>3, <3>4 DEF DigitsOf
    <3>5. CASE Quotient(n) # 0
      <4>1. Quotient(n) \in Upto(j) /\ Quotient(n) \in Upto(j + 1)
        <5>1. Magnitude(n) <= j + 1 /\ Magnitude(n) \in Nat
          BY <3>1, UptoFacts, QuotientShrinks
        <5>2. Magnitude(Quotient(n)) <= j /\ Magnitude(Quotient(n)) <= j + 1
          BY <3>1, <3>5, <5>1, QuotientShrinks
        <5> QED
          BY <3>1, <5>2, UptoFacts, QuotientShrinks
      <4>2. h[Quotient(n)] = g[Quotient(n)]
        BY <2>2, <4>1, Zenon
      <4> QED
        BY <3>3, <4>2, Zenon
    <3> QED
      BY <3>4, <3>5
  <2>4. h = [n \in Upto(j + 1) |-> h[n]]
    BY <2>2, Zenon
  <2>5. DigitsUpto(h, j + 1)
    BY <2>3, <2>4 DEF DigitsUpto
  <2> QED
    BY <2>5
<1>3. Nat \subseteq T
  BY <1>1, <1>2, SetInduction
<1> QED
  BY <1>3

LEMMA DigitsUptoUnique ==
    ASSUME NEW j \in Nat, NEW k \in Nat, NEW g, NEW h,
           DigitsUpto(g, j), DigitsUpto(h, k),
           NEW n \in Upto(j), n \in Upto(k)
    PROVE  g[n] = h[n]
<1> DEFINE Common(i) == \A m \in Upto(i) : m \in Upto(j) /\ m \in Upto(k) => g[m] = h[m]
           T == {i \in Nat : Common(i)}
<1>0. ASSUME NEW m \in Upto(j), m \in Upto(k), Quotient(m) # 0 => g[Quotient(m)] = h[Quotient(m)]
      PROVE  g[m] = h[m]
  <2>1. g[m] = DigitsOf(m, g[Quotient(m)]) /\ h[m] = DigitsOf(m, h[Quotient(m)])
    BY <1>0, Zenon DEF DigitsUpto
  <2> QED
    BY <1>0, <2>1, Zenon DEF DigitsOf
<1>1. 0 \in T
  <2>1. \A m \in Upto(0) : Quotient(m) = 0
    BY DEF Upto, Quotient
  <2>2. Common(0)
    BY <1>0, <2>1
  <2> QED
    BY <2>2
<1>2. ASSUME NEW i \in Nat, i \in T
      PROVE  i + 1 \in T
  <2>1. ASSUME NEW m \in Upto(i + 1), m \in Upto(j), m \in Upto(k), Quotient(m) # 0
        PROVE  g[Quotient(m)] = h[Quotient(m)]
    <3>1. m \in Int
      BY DEF Upto
    <3>2. /\ Magnitude(m) <= i + 1 /\ Magnitude(m) <= j /\ Magnitude(m) <= k
          /\ Magnitude(m) \in Nat
      BY <2>1, <3>1, UptoFacts, QuotientShrinks
    <3>3. /\ Magnitude(Quotient(m)) <= i /\ Magnitude(Quotient(m)) <= j
          /\ Magnitude(Quotient(m)) <= k
      BY <2>1, <3>1, <3>2, QuotientShrinks DEF Magnitude
    <3>4. Quotient(m) \in Upto(i) /\ Quotient(m) \in Upto(j) /\ Quotient(m) \in Upto(k)
      BY <3>1, <3>3, UptoFacts, QuotientShrinks
    <3> QED
      BY <1>2, <3>4
  <2>2. Common(i + 1)
    BY <1>0, <2>1
  <2> QED
    BY <2>2
<1>3. Nat \subseteq T
  BY <1>1, <1>2, SetInduction
<1>4. Common(j)
  BY <1>3
<1> QED
  BY <1>4

\* The recursive function of LogLine.
LEMMA DigitsDefined ==
    /\ Digits = [n \in Int |-> Digits[n]]
    /\ \A n \in Int : Digits[n] = DigitsOf(n, Digits[Quotient(n)])
<1> DEFINE Some(k) == CHOOSE g : DigitsUpto(g, k)
<1>1. \A k \in Nat : DigitsUpto(Some(k), k)
  BY DigitsUptoExists, Zenon
<1> HIDE DEF Some
<1>2. PICK G : G = [n \in Int |-> Some(Magnitude(n))[n]]
  OBVIOUS
<1>3. ASSUME NEW n \in Int
      PROVE  G[n] = DigitsOf(n, G[Quotient(n)])
  <2>1. /\ Quotient(n) \in Int /\ Magnitude(n) \in Nat /\ Magnitude(Quotient(n)) \in Nat
        /\ n \in Upto(Magnitude(n)) /\ Quotient(n) \in Upto(Magnitude(n))
        /\ Quotient(n) \in Upto(Magnitude(Quotient(n)))
    <3>1. Quotient(n) \in Int /\ Magnitude(n) \in Nat /\ n \in Upto(Magnitude(n))
      BY QuotientShrinks
    <3>2. Magnitude(Quotient(n)) \in Nat /\ Quotient(n) \in Upto(Magnitude(Quotient(n)))
      BY <3>1, QuotientShrinks
    <3>3. Quotient(n) \in Upto(Magnitude(n))
      BY <3>1, QuotientShrinks, UptoFacts
    <3> QED
      BY <3>1, <3>2, <3>3
  <2>2. PICK g, h : g = Some(Magnitude(n)) /\ h = Some(Magnitude(Quotient(n)))
    OBVIOUS
  <2>3. DigitsUpto(g, Magnitude(n)) /\ DigitsUpto(h, Magnitude(Quotient(n)))
    BY <1>1, <2>1, <2>2
  <2>4. g[Quotient(n)] = h[Quotient(n)]
    BY <2>1, <2>3, DigitsUptoUnique
  <2>5. g[n] = DigitsOf(n, g[Quotient(n)])
    BY <2>1, <2>3, Zenon DEF DigitsUpto
  <2>6. G[n] = g[n] /\ G[Quotient(n)] = h[Quotient(n)]
    BY <1>2, <2>1, <2>2, Zenon
  <2> QED
    BY <2>4, <2>5, <2>6, Zenon
<1>4. G = [n \in Int |-> IF Quotient(n) = 0 THEN <<Digit(n)>>
                         ELSE <<Digit(n)>> \o G[Quotient(n)]]
  <2>1. \A n \in Int : G[n] = IF Quotient(n) = 0 THEN <<Digit(n)>>
                              ELSE <<Digit(n)>> \o G[Quotient(n)]
    BY <1>3, Zenon DEF DigitsOf
  <2>2. G = [n \in Int |-> G[n]]
    BY <1>2, Zenon
  <2> QED
    BY <2>1, <2>2, Zenon
<1>5. Digits = [n \in Int |-> IF Quotient(n) = 0 THEN <<Digit(n)>>
                              ELSE <<Digit(n)>> \o Digits[Quotient(n)]]
  BY <1>4, Zenon DEF Digits
<1>6. Digits = [n \in Int |-> Digits[n]]
  BY <1>5, Zenon
<1>7. \A n \in Int : Digits[n] = DigitsOf(n, Digits[Quotient(n)])
  BY <1>5, Zenon DEF DigitsOf
<1> QED
  BY <1>6, <1>7

-----------------------------------------------------------------------------
(* What digits are worth.                                                  *)

DigitSet == 0 .. 9

\* There is always a digit, 0 has one too.
LEMMA DigitsType ==
    \A n \in Int : Digits[n] \in Seq(DigitSet) /\ Digits[n] # <<>>
<1> DEFINE T == {k \in Nat : \A n \in Upto(k) : Digits[n] \in Seq(DigitSet) /\ Digits[n] # <<>>}
<1>0. ASSUME NEW n \in Int,
             Quotient(n) # 0 => Digits[Quotient(n)] \in Seq(DigitSet)
      PROVE  Digits[n] \in Seq(DigitSet) /\ Digits[n] # <<>>
  <2>1. Digits[n] = DigitsOf(n, Digits[Quotient(n)]) /\ Digit(n) \in DigitSet
    BY DigitsDefined, DigitFacts DEF DigitSet
  <2>2. CASE Quotient(n) = 0
    <3>1. Digits[n] = <<Digit(n)>>
      BY <2>1, <2>2, Zenon DEF DigitsOf
    <3> QED
      BY <2>1, <3>1
  <2>3. CASE Quotient(n) # 0
    <3>1. PICK d : d = Digits[Quotient(n)]
      OBVIOUS
    <3>2. Digits[n] = <<Digit(n)>> \o d /\ d \in Seq(DigitSet)
      BY <1>0, <2>1, <2>3, <3>1, Zenon DEF DigitsOf
    <3>3. <<Digit(n)>> \in Seq(DigitSet) /\ Len(<<Digit(n)>>) = 1
      BY <2>1
    <3>4. <<Digit(n)>> \o d \in Seq(DigitSet) /\ Len(<<Digit(n)>> \o d) # 0
      BY <3>2, <3>3
    <3> QED
      BY <3>2, <3>4
  <2> QED
    BY <2>2, <2>3
<1>1. 0 \in T
  <2>1. \A n \in Upto(0) : n \in Int /\ Quotient(n) = 0
    BY DEF Upto, Quotient
  <2> QED
    BY <1>0, <2>1
<1>2. ASSUME NEW k \in Nat, k \in T
      PROVE  k + 1 \in T
  <2>1. ASSUME NEW n \in Upto(k + 1)
        PROVE  Digits[n] \in Seq(DigitSet) /\ Digits[n] # <<>>
    <3>1. n \in Int
      BY DEF Upto
    <3>2. Magnitude(n) <= k + 1 /\ Magnitude(n) \in Nat
      BY <3>1, UptoFacts, QuotientShrinks
    <3>3. Quotient(n) # 0 => Quotient(n) \in Upto(k)
      BY <3>1, <3>2, QuotientShrinks, UptoFacts DEF Magnitude
    <3> QED
      BY <1>0, <1>2, <3>1, <3>3
  <2> QED
    BY <2>1
<1>3. Nat \subseteq T
  BY <1>1, <1>2, SetInduction
<1>4. ASSUME NEW n \in Int
      PROVE  Digits[n] \in Seq(DigitSet) /\ Digits[n] # <<>>
  <2>1. Magnitude(n) \in Nat /\ n \in Upto(Magnitude(n))
    BY QuotientShrinks
  <2>2. Magnitude(n) \in T
    BY <1>3, <2>1
  <2> QED
    BY <2>1, <2>2
<1> QED
  BY <1>4

\* The recursive function of Value, and what it is for.
LEMMA ValueFunction ==
    ASSUME NEW cs \in Seq(DigitSet)
    PROVE  \E f : /\ \A k \in 0 .. Len(cs) : f[k] \in Nat
                  /\ f[0] = 0
                  /\ \A k \in 1 .. Len(cs) : f[k] = 10 * f[k - 1] + cs[k]
                  /\ Value(cs) = f[Len(cs)]
<1> DEFINE n == Len(cs)
           step == [k \in 1 .. n |-> [v \in Nat |-> 10 * v + cs[k]]]
           f == CHOOSE f : f = [k \in 0 .. n |-> IF k = 0 THEN 0 ELSE 10 * f[k - 1] + cs[k]]
<1>1. n \in Nat /\ \A k \in 1 .. n : cs[k] \in 0 .. 9
  BY DEF DigitSet
<1>2. \A k \in 1 .. n, v \in Nat : 10 * v + cs[k] \in Nat
  BY <1>1
<1>3. step \in [1 .. n -> [Nat -> Nat]]
  BY <1>2
<1>4. \A k \in 1 .. n, v \in Nat : step[k][v] = 10 * v + cs[k]
  OBVIOUS
<1> HIDE DEF n, step
<1>5. PICK g \in [0 .. n -> Nat] : g[0] = 0 /\ \A k \in 1 .. n : g[k] = step[k][g[k - 1]]
  <2>1. \E g \in [0 .. n -> Nat] : Iterates(g, n, 0, step)
    BY <1>1, <1>3, RecursiveFunction
  <2> QED
    BY <2>1 DEF Iterates
<1>6. ASSUME NEW k \in 1 .. n
      PROVE  g[k] = 10 * g[k - 1] + cs[k]
  <2>1. g[k - 1] \in Nat
    BY <1>1, <1>5
  <2> QED
    BY <1>4, <1>5, <2>1
<1>7. g = [k \in 0 .. n |-> IF k = 0 THEN 0 ELSE 10 * g[k - 1] + cs[k]]
  <2>1. \A k \in 0 .. n : g[k] = IF k = 0 THEN 0 ELSE 10 * g[k - 1] + cs[k]
    <3>1. \A k \in 0 .. n : k = 0 \/ (k # 0 /\ k \in 1 .. n)
      BY <1>1
    <3> QED
      BY <1>5, <1>6, <3>1, Zenon
  <2>2. g = [k \in 0 .. n |-> g[k]]
    BY <1>5
  <2> QED
    BY <2>1, <2>2, Zenon
<1>8. f = [k \in 0 .. n |-> IF k = 0 THEN 0 ELSE 10 * f[k - 1] + cs[k]]
  BY <1>7, Zenon
<1>9. Value(cs) = f[n]
  BY DEF Value, n
<1> HIDE DEF f
<1>10. PICK h : /\ h = [k \in 0 .. n |-> IF k = 0 THEN 0 ELSE 10 * h[k - 1] + cs[k]]
                /\ Value(cs) = h[n]
  BY <1>8, <1>9, Zenon
<1>11. h[0] = 0
  BY <1>1, <1>10
<1>12. \A k \in 1 .. n : h[k] = 10 * h[k - 1] + cs[k]
  <2>1. \A k \in 1 .. n : k \in 0 .. n /\ k # 0
    BY <1>1
  <2>2. \A k \in 0 .. n : h[k] = IF k = 0 THEN 0 ELSE 10 * h[k - 1] + cs[k]
    BY <1>10, Zenon
  <2> QED
    BY <2>1, <2>2, Zenon
<1>13. \A k \in 0 .. n : h[k] = g[k]
  <2>1. \A k \in 1 .. n : h[k - 1] = g[k - 1] => h[k] = g[k]
    BY <1>6, <1>12, Zenon
  <2>2. StepsAgree(h, g, n)
    BY <1>5, <1>11, <2>1 DEF StepsAgree
  <2> QED
    BY <1>1, <2>2, RecursiveFunctionUnique
<1>14. Value(cs) = h[n] /\ \A k \in 0 .. n : h[k] \in Nat
  BY <1>5, <1>10, <1>13
<1> QED
  BY <1>11, <1>12, <1>14 DEF n

LEMMA ValueIs ==
    ASSUME NEW cs \in Seq(DigitSet), NEW h, h[0] = 0,
           \A k \in 1 .. Len(cs) : h[k] = 10 * h[k - 1] + cs[k]
    PROVE  Value(cs) = h[Len(cs)]
<1>1. PICK f : /\ f[0] = 0
               /\ \A k \in 1 .. Len(cs) : f[k] = 10 * f[k - 1] + cs[k]
               /\ Value(cs) = f[Len(cs)]
  BY ValueFunction
<1>2. Len(cs) \in Nat
  OBVIOUS
<1>3. StepsAgree(h, f, Len(cs))
  <2>1. \A k \in 1 .. Len(cs) : h[k - 1] = f[k - 1] => h[k] = f[k]
    BY <1>1, Zenon
  <2> QED
    BY <1>1, <2>1 DEF StepsAgree
<1>4. \A k \in 0 .. Len(cs) : h[k] = f[k]
  BY <1>2, <1>3, RecursiveFunctionUnique
<1> QED
  BY <1>1, <1>2, <1>4

LEMMA ValueEmpty == Value(<<>>) = 0
<1>1. <<>> \in Seq(DigitSet) /\ Len(<<>>) = 0
  OBVIOUS
<1> QED
  BY <1>1, ValueFunction

\* A digit more at the end is worth its own value and ten times the rest.
LEMMA ValueAppend ==
    ASSUME NEW cs \in Seq(DigitSet), NEW d \in DigitSet
    PROVE  Value(Append(cs, d)) = 10 * Value(cs) + d
<1>1. PICK r : r = Append(cs, d)
  OBVIOUS
<1>2. /\ r \in Seq(DigitSet) /\ Len(r) = Len(cs) + 1 /\ r[Len(cs) + 1] = d /\ Len(cs) \in Nat
      /\ \A k \in 1 .. Len(cs) : r[k] = cs[k]
  BY <1>1
<1>3. PICK f : /\ f[0] = 0
               /\ \A k \in 1 .. Len(r) : f[k] = 10 * f[k - 1] + r[k]
               /\ Value(r) = f[Len(r)]
  BY <1>2, ValueFunction
<1>4. \A k \in 1 .. Len(cs) : f[k] = 10 * f[k - 1] + cs[k]
  <2>1. \A k \in 1 .. Len(cs) : k \in 1 .. Len(r)
    BY <1>2
  <2> QED
    BY <1>2, <1>3, <2>1
<1>5. Value(cs) = f[Len(cs)]
  BY <1>3, <1>4, ValueIs
<1>6. Len(r) \in 1 .. Len(r) /\ Len(r) - 1 = Len(cs)
  BY <1>2
<1>7. f[Len(r)] = 10 * f[Len(cs)] + d
  BY <1>2, <1>3, <1>6
<1> QED
  BY <1>1, <1>3, <1>5, <1>7

-----------------------------------------------------------------------------
(* Digits put down backwards.                                              *)

LEMMA WiderSequence ==
    ASSUME NEW S, NEW U, S \subseteq U, NEW s \in Seq(S)
    PROVE  s \in Seq(U)
<1>1. s = [i \in 1 .. Len(s) |-> s[i]] /\ \A i \in 1 .. Len(s) : s[i] \in U /\ Len(s) \in Nat
  OBVIOUS
<1> QED
  BY <1>1

LEMMA SameSequence ==
    ASSUME NEW S, NEW s \in Seq(S), NEW t \in Seq(S), Len(s) = Len(t),
           \A i \in 1 .. Len(s) : s[i] = t[i]
    PROVE  s = t
OBVIOUS

LEMMA ReverseFacts ==
    ASSUME NEW S, NEW s \in Seq(S), NEW t, t = Reverse(s)
    PROVE  /\ t \in Seq(S) /\ Len(t) = Len(s)
           /\ \A i \in 1 .. Len(s) : t[i] = s[(Len(s) - i) + 1]
<1>1. Len(s) \in Nat
  OBVIOUS
<1>2. \A i \in 1 .. Len(s) : s[(Len(s) - i) + 1] \in S
  BY <1>1
<1>3. t = [i \in 1 .. Len(s) |-> s[(Len(s) - i) + 1]]
  BY DEF Reverse
<1> QED
  BY <1>1, <1>2, <1>3

\* What is put down first comes last, and what is put down last first.
LEMMA ReversePrepend ==
    ASSUME NEW S, NEW s \in Seq(S), NEW e \in S
    PROVE  Reverse(<<e>> \o s) = Append(Reverse(s), e) /\ Reverse(s) \in Seq(S)
<1>0. PICK r : r = <<e>> \o s
  OBVIOUS
<1>1. /\ r \in Seq(S) /\ Len(r) = Len(s) + 1 /\ Len(s) \in Nat /\ r[1] = e
      /\ \A i \in 1 .. Len(s) : r[i + 1] = s[i]
  BY <1>0
<1>2. PICK t : t = Reverse(s)
  OBVIOUS
<1>4. /\ t \in Seq(S) /\ Len(t) = Len(s)
      /\ \A i \in 1 .. Len(s) : t[i] = s[(Len(s) - i) + 1]
  BY <1>2, ReverseFacts
<1>5. PICK u : u = Reverse(r)
  OBVIOUS
<1>6. /\ u \in Seq(S) /\ Len(u) = Len(r)
      /\ \A i \in 1 .. Len(r) : u[i] = r[(Len(r) - i) + 1]
  <2>1. r \in Seq(S)
    BY <1>1
  <2> QED
    BY <1>5, <2>1, ReverseFacts
<1>7. u = Append(t, e)
  <2>1. PICK a : a = Append(t, e)
    OBVIOUS
  <2>2. /\ a \in Seq(S) /\ Len(a) = Len(s) + 1 /\ a[Len(s) + 1] = e
        /\ \A i \in 1 .. Len(s) : a[i] = t[i]
    BY <1>1, <1>4, <2>1
  <2>3. ASSUME NEW i \in 1 .. Len(s) + 1
        PROVE  u[i] = a[i]
    <3>1. u[i] = r[(Len(s) + 1 - i) + 1]
      <4>1. i \in 1 .. Len(r) /\ Len(r) - i = Len(s) + 1 - i
        BY <1>1
      <4> QED
        BY <1>6, <4>1
    <3>2. CASE i = Len(s) + 1
      <4>1. (Len(s) + 1 - i) + 1 = 1
        BY <1>1, <3>2
      <4> QED
        BY <1>1, <2>2, <3>1, <3>2, <4>1
    <3>3. CASE i # Len(s) + 1
      <4>1. i \in 1 .. Len(s) /\ Len(s) - i + 1 \in 1 .. Len(s)
        BY <1>1, <3>3
      <4>2. r[(Len(s) - i + 1) + 1] = s[Len(s) - i + 1]
        BY <1>1, <4>1
      <4>3. Len(s) + 1 - i = Len(s) - i + 1
        BY <1>1
      <4> QED
        BY <1>4, <2>2, <3>1, <4>1, <4>2, <4>3
    <3> QED
      BY <3>2, <3>3
  <2>4. Len(u) = Len(a) /\ \A i \in 1 .. Len(u) : u[i] = a[i]
    BY <1>1, <1>6, <2>2, <2>3
  <2>5. u = a
    BY <1>6, <2>2, <2>4, SameSequence
  <2> QED
    BY <2>1, <2>5
<1>8. Reverse(r) = Append(Reverse(s), e) /\ Reverse(s) \in Seq(S)
  BY <1>2, <1>4, <1>5, <1>7
<1> QED
  BY <1>0, <1>8, Zenon

LEMMA ReverseAppend ==
    ASSUME NEW S, NEW s \in Seq(S), NEW e \in S
    PROVE  /\ Reverse(Append(s, e)) \in Seq(S) /\ Reverse(Append(s, e)) # <<>>
           /\ Head(Reverse(Append(s, e))) = e /\ Tail(Reverse(Append(s, e))) = Reverse(s)
<1>0. PICK r : r = Append(s, e)
  OBVIOUS
<1>1. /\ r \in Seq(S) /\ Len(r) = Len(s) + 1 /\ Len(s) \in Nat /\ r[Len(s) + 1] = e
      /\ \A i \in 1 .. Len(s) : r[i] = s[i]
  BY <1>0
<1>2. PICK t : t = Reverse(s)
  OBVIOUS
<1>3. /\ t \in Seq(S) /\ Len(t) = Len(s)
      /\ \A i \in 1 .. Len(s) : t[i] = s[(Len(s) - i) + 1]
  BY <1>2, ReverseFacts
<1>4. PICK u : u = Reverse(r)
  OBVIOUS
<1>5. /\ u \in Seq(S) /\ Len(u) = Len(r)
      /\ \A i \in 1 .. Len(r) : u[i] = r[(Len(r) - i) + 1]
  <2>1. r \in Seq(S)
    BY <1>1
  <2> QED
    BY <1>4, <2>1, ReverseFacts
<1>6. u # <<>> /\ Head(u) = e
  <2>1. u[1] = r[(Len(r) - 1) + 1] /\ (Len(r) - 1) + 1 = Len(s) + 1
    BY <1>1, <1>5
  <2>2. Head(u) = u[1] /\ u # <<>>
    BY <1>1, <1>5
  <2> QED
    BY <1>1, <2>1, <2>2
<1>7. Tail(u) = t
  <2>1. PICK v : v = Tail(u)
    OBVIOUS
  <2>2. v \in Seq(S) /\ Len(v) = Len(s) /\ \A i \in 1 .. Len(s) : v[i] = u[i + 1]
    BY <1>1, <1>5, <2>1
  <2>3. ASSUME NEW i \in 1 .. Len(s)
        PROVE  v[i] = t[i]
    <3>1. i + 1 \in 1 .. Len(r) /\ (Len(r) - (i + 1)) + 1 = (Len(s) - i) + 1
      BY <1>1
    <3>2. (Len(s) - i) + 1 \in 1 .. Len(s)
      BY <1>1
    <3>3. v[i] = r[(Len(s) - i) + 1]
      BY <1>5, <2>2, <3>1
    <3>4. r[(Len(s) - i) + 1] = s[(Len(s) - i) + 1]
      BY <1>1, <3>2
    <3> QED
      BY <1>3, <3>3, <3>4
  <2>4. v = t
    BY <1>3, <2>2, <2>3, SameSequence
  <2> QED
    BY <2>1, <2>4
<1>8. /\ Reverse(r) \in Seq(S) /\ Reverse(r) # <<>>
      /\ Head(Reverse(r)) = e /\ Tail(Reverse(r)) = Reverse(s)
  BY <1>1, <1>2, <1>4, <1>5, <1>6, <1>7
<1> QED
  BY <1>0, <1>8, Zenon

\* The digits of a number, the first one first, are those of its magnitude.
LEMMA DigitsReadBack ==
    \A n \in Int : Value(Reverse(Digits[n])) = Magnitude(n)
<1> DEFINE T == {k \in Nat : \A n \in Upto(k) : Value(Reverse(Digits[n])) = Magnitude(n)}
<1>0. ASSUME NEW n \in Int,
             Quotient(n) # 0 => Value(Reverse(Digits[Quotient(n)])) = Magnitude(Quotient(n))
      PROVE  Value(Reverse(Digits[n])) = Magnitude(n)
  <2>1. Digits[n] = DigitsOf(n, Digits[Quotient(n)]) /\ Digit(n) \in DigitSet
    BY DigitsDefined, DigitFacts DEF DigitSet
  <2>2. Quotient(n) \in Int /\ Magnitude(n) = 10 * Magnitude(Quotient(n)) + Digit(n)
    <3>1. PICK q, e : q = Quotient(n) /\ e = Digit(n)
      OBVIOUS
    <3>2. /\ q \in Int /\ e \in 0 .. 9
          /\ n >= 0 => q >= 0 /\ n = 10 * q + e
          /\ n <= 0 => q <= 0 /\ n = 10 * q - e
      BY <3>1, DigitFacts
    <3>3. Magnitude(n) = 10 * Magnitude(q) + e
      BY <3>2 DEF Magnitude
    <3> QED
      BY <3>1, <3>2, <3>3
  <2>3. PICK d : d = IF Quotient(n) = 0 THEN <<>> ELSE Digits[Quotient(n)]
    OBVIOUS
  <2>4. d \in Seq(DigitSet)
    BY <2>2, <2>3, DigitsType
  <2>5. Digits[n] = <<Digit(n)>> \o d
    <3>1. CASE Quotient(n) = 0
      <4>1. Digits[n] = <<Digit(n)>> /\ d = <<>>
        BY <2>1, <2>3, <3>1, Zenon DEF DigitsOf
      <4>2. <<Digit(n)>> \o <<>> = <<Digit(n)>>
        OBVIOUS
      <4> QED
        BY <4>1, <4>2, Zenon
    <3>2. CASE Quotient(n) # 0
      BY <2>1, <2>3, <3>2, Zenon DEF DigitsOf
    <3> QED
      BY <3>1, <3>2
  <2>6. Value(Reverse(d)) = Magnitude(Quotient(n))
    <3>1. CASE Quotient(n) = 0
      <4>1. d = <<>>
        BY <2>3, <3>1
      <4>2. Reverse(d) = <<>>
        BY <4>1 DEF Reverse
      <4> QED
        BY <3>1, <4>2, ValueEmpty DEF Magnitude
    <3>2. CASE Quotient(n) # 0
      BY <1>0, <2>3, <3>2
    <3> QED
      BY <3>1, <3>2
  <2>7. Reverse(Digits[n]) = Append(Reverse(d), Digit(n)) /\ Reverse(d) \in Seq(DigitSet)
    <3>1. PICK r, e : r = Digits[n] /\ e = Digit(n)
      OBVIOUS
    <3>2. e \in DigitSet /\ r = <<e>> \o d
      BY <2>1, <2>5, <3>1
    <3>3. Reverse(r) = Append(Reverse(d), e) /\ Reverse(d) \in Seq(DigitSet)
      BY <2>4, <3>2, ReversePrepend
    <3> QED
      BY <3>1, <3>3
  <2>8. Value(Reverse(Digits[n])) = 10 * Value(Reverse(d)) + Digit(n)
    BY <2>1, <2>7, ValueAppend
  <2> QED
    BY <2>2, <2>6, <2>8
<1>1. 0 \in T
  <2>1. \A n \in Upto(0) : n \in Int /\ Quotient(n) = 0
    BY DEF Upto, Quotient
  <2> QED
    BY <1>0, <2>1
<1>2. ASSUME NEW k \in Nat, k \in T
      PROVE  k + 1 \in T
  <2>1. ASSUME NEW n \in Upto(k + 1)
        PROVE  Value(Reverse(Digits[n])) = Magnitude(n)
    <3>1. n \in Int
      BY DEF Upto
    <3>2. Magnitude(n) <= k + 1 /\ Magnitude(n) \in Nat
      BY <3>1, UptoFacts, QuotientShrinks
    <3>3. Quotient(n) # 0 => Quotient(n) \in Upto(k)
      BY <3>1, <3>2, QuotientShrinks, UptoFacts DEF Magnitude
    <3> QED
      BY <1>0, <1>2, <3>1, <3>3
  <2> QED
    BY <2>1
<1>3. Nat \subseteq T
  BY <1>1, <1>2, SetInduction
<1>4. ASSUME NEW n \in Int
      PROVE  Value(Reverse(Digits[n])) = Magnitude(n)
  <2>1. Magnitude(n) \in Nat /\ n \in Upto(Magnitude(n))
    BY QuotientShrinks
  <2>2. Magnitude(n) \in T
    BY <1>3, <2>1
  <2> QED
    BY <2>1, <2>2
<1> QED
  BY <1>4

LEMMA ReverseType ==
    ASSUME NEW S, NEW s \in Seq(S), s # <<>>
    PROVE  Reverse(s) \in Seq(S) /\ Reverse(s) # <<>>
<1>1. Len(s) \in Nat /\ Len(s) # 0
  OBVIOUS
<1>2. PICK t : t = Reverse(s)
  OBVIOUS
<1>3. t = [i \in 1 .. Len(s) |-> s[(Len(s) - i) + 1]]
  BY <1>2 DEF Reverse
<1>4. \A i \in 1 .. Len(s) : s[(Len(s) - i) + 1] \in S
  BY <1>1
<1>5. t \in Seq(S) /\ Len(t) = Len(s)
  BY <1>1, <1>3, <1>4
<1> QED
  BY <1>1, <1>2, <1>5

\* What formatInteger puts down reads back as the number.
THEOREM CharactersReadBack ==
    \A n \in Int : /\ Characters(n) \in Seq(0 .. Minus) /\ Characters(n) # <<>>
                   /\ ReadBack(Characters(n)) = n
<1> SUFFICES ASSUME NEW n \in Int
             PROVE  /\ Characters(n) \in Seq(0 .. Minus) /\ Characters(n) # <<>>
                    /\ ReadBack(Characters(n)) = n
  OBVIOUS
<1>1. PICK d : d = Digits[n]
  OBVIOUS
<1>2. /\ d \in Seq(DigitSet) /\ d # <<>> /\ d \in Seq(0 .. Minus)
      /\ Value(Reverse(d)) = Magnitude(n)
  <2>1. d \in Seq(DigitSet) /\ d # <<>> /\ Value(Reverse(d)) = Magnitude(n)
    BY <1>1, DigitsType, DigitsReadBack
  <2>2. DigitSet \subseteq 0 .. Minus
    BY DEF DigitSet, Minus
  <2>4. d \in Seq(0 .. Minus)
    BY <2>1, <2>2, WiderSequence
  <2> QED
    BY <2>1, <2>4
<1>3. CASE n < 0
  <2>1. Characters(n) = Reverse(Append(d, Minus))
    BY <1>1, <1>3 DEF Characters
  <2>2. Minus \in 0 .. Minus
    BY DEF Minus
  <2>3. /\ Characters(n) \in Seq(0 .. Minus) /\ Characters(n) # <<>>
        /\ Head(Characters(n)) = Minus /\ Tail(Characters(n)) = Reverse(d)
    <3> DEFINE S == 0 .. Minus
    <3>0. d \in Seq(S) /\ Minus \in S
      BY <1>2, <2>2
    <3> HIDE DEF S
    <3>1. /\ Reverse(Append(d, Minus)) \in Seq(S)
          /\ Reverse(Append(d, Minus)) # <<>>
          /\ Head(Reverse(Append(d, Minus))) = Minus
          /\ Tail(Reverse(Append(d, Minus))) = Reverse(d)
      BY <3>0, ReverseAppend
    <3> QED
      BY <2>1, <3>1, Zenon DEF S
  <2>4. ReadBack(Characters(n)) = -Value(Reverse(d))
    BY <2>3 DEF ReadBack
  <2> QED
    BY <1>2, <1>3, <2>3, <2>4 DEF Magnitude
<1>4. CASE ~(n < 0)
  <2>1. Characters(n) = Reverse(d)
    BY <1>1, <1>4 DEF Characters
  <2>2. Reverse(d) \in Seq(DigitSet) /\ Reverse(d) \in Seq(0 .. Minus) /\ Reverse(d) # <<>>
    BY <1>2, ReverseType
  <2>3. Head(Reverse(d)) # Minus
    <3>1. Head(Reverse(d)) \in DigitSet
      BY <2>2
    <3> QED
      BY <3>1 DEF DigitSet, Minus
  <2>4. ReadBack(Characters(n)) = Value(Reverse(d))
    BY <2>1, <2>3 DEF ReadBack
  <2> QED
    BY <1>2, <1>4, <2>1, <2>2, <2>4 DEF Magnitude
<1> QED
  BY <1>3, <1>4

-----------------------------------------------------------------------------
(* How many they are.                                                      *)

\* The number of digits of a number.
LEMMA OneDigitMore ==
    ASSUME NEW m \in Nat, NEW k \in Nat,
           \A n \in Int : Magnitude(n) <= m => Len(Digits[n]) <= k
    PROVE  \A n \in Int : Magnitude(n) <= 10 * m + 9 => Len(Digits[n]) <= k + 1
<1> SUFFICES ASSUME NEW n \in Int, Magnitude(n) <= 10 * m + 9
             PROVE  Len(Digits[n]) <= k + 1
  OBVIOUS
<1>1. Digits[n] = DigitsOf(n, Digits[Quotient(n)]) /\ Digit(n) \in DigitSet
  BY DigitsDefined, DigitFacts DEF DigitSet
<1>2. CASE Quotient(n) = 0
  <2>1. Digits[n] = <<Digit(n)>>
    BY <1>1, <1>2, Zenon DEF DigitsOf
  <2> QED
    BY <2>1
<1>3. CASE Quotient(n) # 0
  <2>1. Quotient(n) \in Int /\ Magnitude(Quotient(n)) <= m
    BY DEF Quotient, Magnitude
  <2>2. PICK d : d = Digits[Quotient(n)]
    OBVIOUS
  <2>3. d \in Seq(DigitSet) /\ Len(d) <= k
    BY <2>1, <2>2, DigitsType
  <2>4. Digits[n] = <<Digit(n)>> \o d
    BY <1>1, <1>3, <2>2, Zenon DEF DigitsOf
  <2>5. <<Digit(n)>> \in Seq(DigitSet) /\ Len(<<Digit(n)>>) = 1
    BY <1>1
  <2>6. Len(<<Digit(n)>> \o d) = 1 + Len(d)
    BY <2>3, <2>5
  <2> QED
    BY <2>3, <2>4, <2>6
<1> QED
  BY <1>2, <1>3

\* m bounds numbers of at most k digits.
Short(m, k) == \A n \in Int : Magnitude(n) <= m => Len(Digits[n]) <= k

LEMMA OneDigit == Short(9, 1)
<1> SUFFICES ASSUME NEW n \in Int, Magnitude(n) <= 9
             PROVE  Len(Digits[n]) <= 1
  BY DEF Short
<1>1. Quotient(n) = 0
  BY DEF Quotient, Magnitude
<1>2. Digits[n] = <<Digit(n)>>
  BY <1>1, DigitsDefined, Zenon DEF DigitsOf
<1>3. Len(<<Digit(n)>>) = 1
  OBVIOUS
<1> QED
  BY <1>2, <1>3

LEMMA ShortStep ==
    ASSUME NEW m \in Nat, NEW k \in Nat, Short(m, k)
    PROVE  Short(10 * m + 9, k + 1)
  BY OneDigitMore DEF Short

LEMMA TwentyDigits ==
    Short(9999999999999999999, 19) /\ Short(99999999999999999999, 20)
<1>2. Short(99, 2)
  BY OneDigit, ShortStep
<1>3. Short(999, 3)
  BY <1>2, ShortStep
<1>4. Short(9999, 4)
  BY <1>3, ShortStep
<1>5. Short(99999, 5)
  BY <1>4, ShortStep
<1>6. Short(999999, 6)
  BY <1>5, ShortStep
<1>7. Short(9999999, 7)
  BY <1>6, ShortStep
<1>8. Short(99999999, 8)
  BY <1>7, ShortStep
<1>9. Short(999999999, 9)
  BY <1>8, ShortStep
<1>10. Short(9999999999, 10)
  BY <1>9, ShortStep
<1>11. Short(99999999999, 11)
  BY <1>10, ShortStep
<1>12. Short(999999999999, 12)
  BY <1>11, ShortStep
<1>13. Short(9999999999999, 13)
  BY <1>12, ShortStep
<1>14. Short(99999999999999, 14)
  BY <1>13, ShortStep
<1>15. Short(999999999999999, 15)
  BY <1>14, ShortStep
<1>16. Short(9999999999999999, 16)
  BY <1>15, ShortStep
<1>17. Short(99999999999999999, 17)
  BY <1>16, ShortStep
<1>18. Short(999999999999999999, 18)
  BY <1>17, ShortStep
<1>19. Short(9999999999999999999, 19)
  BY <1>18, ShortStep
<1>20. Short(99999999999999999999, 20)
  BY <1>19, ShortStep
<1> QED
  BY <1>19, <1>20

LEMMA ReverseLength ==
    ASSUME NEW S, NEW s \in Seq(S)
    PROVE  Len(Reverse(s)) = Len(s)
<1>1. PICK t : t = Reverse(s)
  OBVIOUS
<1>2. Len(t) = Len(s)
  BY <1>1, ReverseFacts
<1> QED
  BY <1>1, <1>2

LowestLong == -9223372036854775808
HighestUnsignedLong == 18446744073709551615

\* NumbersFit holds of the integers operator<< takes: one of 64 bits, signed or
\* not, has at most 20 characters.
THEOREM NumbersAreShort ==
    \A n \in Int : LowestLong <= n /\ n <= HighestUnsignedLong =>
       Len(Characters(n)) \in Nat \ {0} /\ Len(Characters(n)) <= 20
<1> SUFFICES ASSUME NEW n \in Int, LowestLong <= n, n <= HighestUnsignedLong
             PROVE  Len(Characters(n)) \in Nat \ {0} /\ Len(Characters(n)) <= 20
  OBVIOUS
<1>1. PICK d : d = Digits[n]
  OBVIOUS
<1>2. d \in Seq(DigitSet) /\ d # <<>> /\ Len(d) \in Nat \ {0}
  BY <1>1, DigitsType
<1>3. CASE n < 0
  <2>1. Magnitude(n) <= 9999999999999999999
    BY <1>3, SMT DEF Magnitude, LowestLong
  <2>6. Len(d) <= 19
    BY <1>1, <2>1, TwentyDigits, SMT DEF Short
  <2>2. Characters(n) = Reverse(Append(d, Minus))
    BY <1>1, <1>3 DEF Characters
  <2>3. PICK r : r = Append(d, Minus)
    OBVIOUS
  <2>4. r \in Seq(DigitSet \union {Minus}) /\ Len(r) = Len(d) + 1
    BY <1>2, <2>3
  <2>5. Len(Reverse(r)) = Len(r)
    BY <2>4, ReverseLength
  <2>7. Len(Characters(n)) = Len(d) + 1
    BY <2>2, <2>3, <2>4, <2>5, Zenon
  <2> QED
    BY <1>2, <2>6, <2>7
<1>4. CASE ~(n < 0)
  <2>1. Magnitude(n) <= 99999999999999999999
    BY <1>4, SMT DEF Magnitude, HighestUnsignedLong
  <2>4. Len(d) <= 20
    BY <1>1, <2>1, TwentyDigits, SMT DEF Short
  <2>2. Characters(n) = Reverse(d)
    BY <1>1, <1>4 DEF Characters
  <2>3. Len(Reverse(d)) = Len(d)
    BY <1>2, ReverseLength
  <2>5. Len(Characters(n)) = Len(d)
    BY <2>2, <2>3, Zenon
  <2> QED
    BY <1>2, <2>4, <2>5
<1> QED
  BY <1>3, <1>4

-----------------------------------------------------------------------------
(* The invariant of the pieces of a line.                                  *)

Piece == [len : Nat, chars : Seq(0 .. Minus), value : Int]
Stream == [cur : Nat, pieces : Seq(Piece)]

\* What is true of every piece, and so of a buffer of them.
ReadsBack(piece) == piece.chars # <<>> => ReadBack(piece.chars) = piece.value
Legible(stream) ==
    /\ stream \in Stream
    /\ \A i \in 1 .. Len(stream.pieces) : ReadsBack(stream.pieces[i])

\* A legible piece leaves a buffer legible.
LEMMA AddLegible ==
    ASSUME NEW stream, Legible(stream), NEW piece \in Piece, ReadsBack(piece)
    PROVE  Legible(Add(stream, piece))
<1>1. PICK ps, c : ps = stream.pieces /\ c = stream.cur
  OBVIOUS
<1>2. /\ ps \in Seq(Piece) /\ c \in Nat
      /\ \A i \in 1 .. Len(ps) : ReadsBack(ps[i])
  BY <1>1 DEF Legible, Stream
<1>3. PICK qs : qs = Append(ps, piece)
  OBVIOUS
<1>4. /\ qs \in Seq(Piece) /\ Len(qs) = Len(ps) + 1 /\ Len(ps) \in Nat
      /\ qs[Len(ps) + 1] = piece /\ \A i \in 1 .. Len(ps) : qs[i] = ps[i]
  BY <1>2, <1>3
<1>5. \A i \in 1 .. Len(qs) : ReadsBack(qs[i])
  <2> SUFFICES ASSUME NEW i \in 1 .. Len(qs)
               PROVE  ReadsBack(qs[i])
    OBVIOUS
  <2>1. CASE i \in 1 .. Len(ps)
    BY <1>2, <1>4, <2>1
  <2>2. CASE i = Len(ps) + 1
    BY <1>4, <2>2
  <2> QED
    BY <1>4, <2>1, <2>2
<1>6. c + piece.len \in Nat
  BY <1>2 DEF Piece
<1>7. Add(stream, piece) = [cur |-> c + piece.len, pieces |-> qs]
  BY <1>1, <1>3, Zenon DEF Add
<1>8. PICK s : s = [cur |-> c + piece.len, pieces |-> qs]
  OBVIOUS
<1>9. s \in Stream /\ s.pieces = qs
  BY <1>4, <1>6, <1>8 DEF Stream
<1>10. Legible(s)
  BY <1>5, <1>9 DEF Legible
<1> QED
  BY <1>7, <1>8, <1>10

LEMMA TextIsPiece ==
    ASSUME NEW n \in Nat
    PROVE  Text(n) \in Piece /\ ReadsBack(Text(n))
BY DEF Text, Piece, ReadsBack

LEMMA NumberIsPiece ==
    ASSUME NEW n \in Int
    PROVE  Number(Characters(n), n) \in Piece /\ ReadsBack(Number(Characters(n), n))
<1>1. PICK cs : cs = Characters(n)
  OBVIOUS
<1>2. cs \in Seq(0 .. Minus) /\ ReadBack(cs) = n /\ Len(cs) \in Nat
  BY <1>1, CharactersReadBack
<1>3. Number(cs, n) \in Piece /\ Number(cs, n).chars = cs /\ Number(cs, n).value = n
  BY <1>2 DEF Number, Piece
<1> QED
  BY <1>1, <1>2, <1>3 DEF ReadsBack

LEMMA EmptyLegible == Legible(Empty)
BY DEF Legible, Empty, Stream

LEMMA TextLegible ==
    ASSUME NEW stream, Legible(stream), NEW n \in Nat
    PROVE  /\ Legible(AppendText(stream, n)) /\ Legible(AddText(stream, n))
           /\ Legible(AppendNumber(stream, Text(n)))
<1>1. Legible(Add(stream, Text(n)))
  BY TextIsPiece, AddLegible
<1> QED
  BY <1>1, Zenon DEF AppendText, AddText, AppendNumber

LEMMA IntegerLegible ==
    ASSUME NEW stream, Legible(stream), NEW n \in Int
    PROVE  Legible(FormatInteger(stream, n)) /\ Legible(AddInteger(stream, n))
<1>1. Legible(Add(stream, Number(Characters(n), n)))
  BY NumberIsPiece, AddLegible
<1> QED
  BY <1>1, Zenon DEF FormatInteger, AddInteger, AppendNumber

\* IntegersReadBack with the same of what a buffer without end holds.
ControlType ==
    /\ g_logLevel \in LogLevel /\ level_ \in LogLevel
    /\ pc \in {"idle", "message", "output", "flush", "aborted"}
    /\ written \in Seq(LogLevel)
    /\ flushed \in 0 .. Len(written)
DigitsInv == ControlType /\ Legible(stream_) /\ Legible(offered)

LEMMA DigitsInvInit == Init => DigitsInv
<1> SUFFICES ASSUME Init
             PROVE  DigitsInv
  OBVIOUS
<1>1. ControlType
  BY DEF Init, ControlType, LogLevel, DEBUG, INFO, FATAL
<1>2. Legible(stream_) /\ Legible(offered)
  BY EmptyLegible, Zenon DEF Init
<1> QED
  BY <1>1, <1>2 DEF DigitsInv

\* Every line begins empty and grows by pieces of the kinds above.
LEMMA DigitsInvStep == DigitsInv /\ [Next]_vars => DigitsInv'
<1> SUFFICES ASSUME DigitsInv, [Next]_vars
             PROVE  DigitsInv'
  OBVIOUS
<1>0. ControlType /\ Legible(stream_) /\ Legible(offered)
  BY DEF DigitsInv
<1>1. ASSUME NEW level \in LogLevel, SetLogLevel(level)
      PROVE  DigitsInv'
  <2>1. ControlType'
    BY <1>0, <1>1 DEF SetLogLevel, ControlType
  <2>2. stream_' = stream_ /\ offered' = offered
    BY <1>1 DEF SetLogLevel
  <2> QED
    BY <1>0, <2>1, <2>2 DEF DigitsInv
\* The header.
<1>2. ASSUME NEW level \in LogLevel, NEW n \in TextLen, BeginLine(level, n)
      PROVE  DigitsInv'
  <2>0. ControlType'
    BY <1>0, <1>2 DEF BeginLine, ControlType
  <2>1. n \in Nat /\ 17 \in Nat /\ 7 \in Nat /\ 6 \in Nat /\ 1 \in Nat
    BY LogLineAssumption
  <2> DEFINE a1 == AppendText(Empty, 17)  b1 == AddText(Empty, 17)
             a2 == AppendText(a1, 7)      b2 == AddText(b1, 7)
             a3 == AppendText(a2, 6)      b3 == AddText(b2, 6)
             a4 == AppendText(a3, n)      b4 == AddText(b3, n)
             a5 == AppendText(a4, 1)      b5 == AddText(b4, 1)
  <2>2. Legible(a1) /\ Legible(b1)
    BY <2>1, EmptyLegible, TextLegible
  <2>3. Legible(a2) /\ Legible(b2)
    BY <2>1, <2>2, TextLegible
  <2>4. Legible(a3) /\ Legible(b3)
    BY <2>1, <2>3, TextLegible
  <2>5. Legible(a4) /\ Legible(b4)
    BY <2>1, <2>4, TextLegible
  <2>6. Legible(a5) /\ Legible(b5)
    BY <2>1, <2>5, TextLegible
  <2>7. /\ stream_' = (IF level = DEBUG THEN a5 ELSE a3)
        /\ offered' = (IF level = DEBUG THEN b5 ELSE b3)
    BY <1>2 DEF BeginLine
  <2> QED
    BY <2>0, <2>4, <2>6, <2>7, Zenon DEF DigitsInv
\* The application's pieces.
<1>3. CASE LogPiece
  <2>0. ControlType'
    BY <1>0, <1>3 DEF LogPiece, ControlType
  <2>1. ASSUME NEW n \in TextLen \union {1, 6}, LogText(n)
        PROVE  Legible(stream_') /\ Legible(offered')
    <3>1. n \in Nat
      BY LogLineAssumption
    <3> QED
      BY <1>0, <2>1, <3>1, TextLegible DEF LogText
  <2>2. ASSUME NEW n \in Integer, LogInteger(n)
        PROVE  Legible(stream_') /\ Legible(offered')
    <3>1. n \in Int
      BY LogLineAssumption
    <3> QED
      BY <1>0, <2>2, <3>1, IntegerLegible DEF LogInteger
  <2>3. ASSUME NEW n \in {1, 19}, LogDouble(n)
        PROVE  Legible(stream_') /\ Legible(offered')
    BY <1>0, <2>3, TextLegible DEF LogDouble
  <2> QED
    BY <1>3, <2>0, <2>1, <2>2, <2>3 DEF LogPiece, DigitsInv
\* finish().
<1>4. ASSUME NEW n \in TextLen, NEW line \in LineNumber, EndLine(n, line)
      PROVE  DigitsInv'
  <2>0. ControlType'
    BY <1>0, <1>4 DEF EndLine, ControlType
  <2>1. n \in Nat /\ line \in Int /\ 3 \in Nat /\ 1 \in Nat
    BY LogLineAssumption
  <2> DEFINE a1 == AppendText(stream_, 3)      b1 == AddText(offered, 3)
             a2 == AppendText(a1, n)           b2 == AddText(b1, n)
             a3 == AppendText(a2, 1)           b3 == AddText(b2, 1)
             a4 == FormatInteger(a3, line)     b4 == AddInteger(b3, line)
             a5 == AppendText(a4, 1)           b5 == AddText(b4, 1)
  <2>2. Legible(a1) /\ Legible(b1)
    BY <1>0, <2>1, TextLegible
  <2>3. Legible(a2) /\ Legible(b2)
    BY <2>1, <2>2, TextLegible
  <2>4. Legible(a3) /\ Legible(b3)
    BY <2>1, <2>3, TextLegible
  <2>5. Legible(a4) /\ Legible(b4)
    BY <2>1, <2>4, IntegerLegible
  <2>6. Legible(a5) /\ Legible(b5)
    BY <2>1, <2>5, TextLegible
  <2>7. stream_' = a5 /\ offered' = b5
    BY <1>4 DEF EndLine
  <2> QED
    BY <2>0, <2>6, <2>7, Zenon DEF DigitsInv
<1>5. CASE Return
  <2>1. ControlType'
    BY <1>0, <1>5 DEF Return, ControlType
  <2>2. stream_' = Empty /\ offered' = Empty
    BY <1>5 DEF Return
  <2> QED
    BY <2>1, <2>2, EmptyLegible, Zenon DEF DigitsInv
<1>6. CASE FlushAndAbort
  <2>1. ControlType'
    BY <1>0, <1>6 DEF FlushAndAbort, ControlType
  <2>2. stream_' = stream_ /\ offered' = offered
    BY <1>6 DEF FlushAndAbort
  <2> QED
    BY <1>0, <2>1, <2>2, Zenon DEF DigitsInv
<1>7. CASE UNCHANGED vars
  <2>1. ControlType'
    BY <1>0, <1>7 DEF vars, ControlType
  <2>2. stream_' = stream_ /\ offered' = offered
    BY <1>7 DEF vars
  <2> QED
    BY <1>0, <2>1, <2>2, Zenon DEF DigitsInv
<1> QED
  BY <1>1, <1>2, <1>3, <1>4, <1>5, <1>6, <1>7 DEF Next

LEMMA LegibleLinesReadBack == DigitsInv => IntegersReadBack
<1> SUFFICES ASSUME DigitsInv
             PROVE  IntegersReadBack
  OBVIOUS
<1>1. ControlType /\ Legible(stream_) /\ Legible(offered)
  BY DEF DigitsInv
<1>2. stream_ \in Stream /\ offered \in Stream
  BY <1>1 DEF Legible
<1>3. TypeOK
  BY <1>1, <1>2 DEF TypeOK, ControlType, Stream, Piece
<1>4. DOMAIN stream_.pieces = 1 .. Len(stream_.pieces)
  BY <1>2 DEF Stream
<1>5. \A i \in DOMAIN stream_.pieces : ReadsBack(stream_.pieces[i])
  BY <1>1, <1>4, Zenon DEF Legible
<1> QED
  BY <1>3, <1>5, Zenon DEF IntegersReadBack, ReadsBack

\* Every integer in a line, of either sign, is there as digits that read back as
\* its value: formatInteger's digits of a negative number included.
THEOREM LinesReadBack == Spec => []IntegersReadBack
<1>1. Spec => []DigitsInv
  BY DigitsInvInit, DigitsInvStep, PTL DEF Spec
<1> QED
  BY <1>1, LegibleLinesReadBack, PTL
=============================================================================
