--------------------------- MODULE TextStoreProofs ---------------------------
(***************************************************************************)
(* Theorems about TextStore, for any keys, any frame size and any interval *)
(* of the line index, and texts and pages of any length.                   *)
(***************************************************************************)
EXTENDS TextStoreInv, SequenceTheorems, FiniteSetTheorems, WellFoundedInduction, TLAPS

-----------------------------------------------------------------------------
(* Numbers, places and induction.                                          *)

\* What the assumptions say of the constants.
LEMMA Consts ==
  /\ TEXT_FRAME_SIZE \in Nat \ {0} /\ LINE_INDEX_INTERVAL \in Nat \ {0}
  /\ Key \subseteq Nat /\ PieceLen \subseteq Nat \ {0} /\ PageLimit \subseteq Nat
  /\ MaxBytes \in Nat /\ MaxOffset \in Nat
BY TextAssump DEF TextAssump

LEMMA Products ==
  ASSUME NEW d \in Nat \ {0}
  PROVE  /\ \A n \in Nat : n * d \in Nat /\ (n + 1) * d = n * d + d
         /\ \A m, n \in Nat : m <= n => m * d <= n * d
         /\ \A m, n \in Nat : m < n => m * d + d <= n * d
<1>1. \A n \in Nat : n * d \in Nat /\ (n + 1) * d = n * d + d
  OBVIOUS
<1>2. ASSUME NEW m \in Nat, NEW n \in Nat, m <= n PROVE m * d <= n * d
  <2>1. PICK k \in Nat : n = m + k
    BY <1>2
  <2>2. n * d = m * d + k * d /\ k * d \in Nat /\ m * d \in Nat
    BY <2>1
  <2> QED
    BY <2>2
<1>3. ASSUME NEW m \in Nat, NEW n \in Nat, m < n PROVE m * d + d <= n * d
  <2>1. m + 1 \in Nat /\ m + 1 <= n
    BY <1>3
  <2> QED
    BY <1>1, <1>2, <2>1
<1> QED
  BY <1>1, <1>2, <1>3

LEMMA DivMod ==
  ASSUME NEW p \in Nat, NEW d \in Nat \ {0}
  PROVE  /\ p \div d \in Nat /\ p % d \in 0 .. d - 1
         /\ p = (p \div d) * d + (p % d)
OBVIOUS

\* A place is where its frame and its position say.
LEMMA PlaceIs ==
  ASSUME NEW f \in Nat, NEW q \in 0 .. TEXT_FRAME_SIZE - 1
  PROVE  /\ Place(f, q) \in Nat
         /\ Place(f, q) \div TEXT_FRAME_SIZE = f
         /\ Place(f, q) % TEXT_FRAME_SIZE = q
<1> DEFINE d == TEXT_FRAME_SIZE
           p == f * d + q
<1>1. d \in Nat \ {0}
  BY Consts
<1>2. f * d \in Nat /\ p \in Nat
  BY <1>1, Products
<1> DEFINE g == p \div d
           r == p % d
<1>3. g \in Nat /\ r \in 0 .. d - 1 /\ p = g * d + r
  BY <1>1, <1>2, DivMod
<1>4. g * d \in Nat
  BY <1>1, <1>3, Products
<1> HIDE DEF g, r
<1>5. ~(f < g)
  <2>1. f < g => f * d + d <= g * d
    BY <1>1, <1>3, Products
  <2> QED
    BY <1>1, <1>2, <1>3, <1>4, <2>1
<1>6. ~(g < f)
  <2>1. g < f => g * d + d <= f * d
    BY <1>1, <1>3, Products
  <2> QED
    BY <1>1, <1>2, <1>3, <1>4, <2>1
<1>7. g = f
  BY <1>3, <1>5, <1>6
<1>8. r = q
  BY <1>1, <1>2, <1>3, <1>7
<1> QED
  BY <1>2, <1>7, <1>8 DEF Place, g, r

LEMMA PlaceNext ==
  ASSUME NEW f \in Nat
  PROVE  /\ Place(f + 1, 0) = Place(f, TEXT_FRAME_SIZE)
         /\ \A q \in Nat : Place(f, q) \in Nat /\ Place(f, q) = Place(f, 0) + q
BY Consts, Products DEF Place

\* Induction, over a set instead of a predicate.
LEMMA NatSet ==
  ASSUME NEW S, 0 \in S, \A n \in Nat : n \in S => n + 1 \in S
  PROVE  \A n \in Nat : n \in S
<1> DEFINE T == Nat \ S
           R == OpToRel(<, Nat)
<1> SUFFICES ASSUME T # {} PROVE FALSE
  OBVIOUS
<1>1. T \subseteq Nat
  OBVIOUS
<1>2. PICK k \in T : \A y \in T : <<y, k>> \notin R
  <2> HIDE DEF T
  <2> QED
    BY <1>1, NatLessThanWellFounded, WFMin, Zenon
<1>3. k \in Nat /\ k \notin S /\ k # 0
  OBVIOUS
<1>4. k - 1 \in Nat /\ k - 1 < k /\ (k - 1) + 1 = k
  BY <1>3
<1>5. k - 1 \in T
  BY <1>3, <1>4
<1>6. <<k - 1, k>> \in R
  BY <1>3, <1>4 DEF OpToRel
<1> QED
  BY <1>2, <1>5, <1>6, Zenon

\* The steps of a fold over n elements whose values are in S.
Steps(n, S) == [1 .. n -> [S -> S]]

\* A fold whose steps stay in a set has a value after each step.
LEMMA FoldExists ==
  ASSUME NEW S, NEW w \in S, NEW n \in Nat, NEW g \in Steps(n, S)
  PROVE  \E f \in [0 .. n -> S] : f[0] = w /\ \A k \in 1 .. n : f[k] = g[k][f[k - 1]]
<1> DEFINE Upto(f, m) == f[0] = w /\ \A k \in 1 .. m : f[k] = g[k][f[k - 1]]
           T == {m \in Nat : m <= n => \E f \in [0 .. m -> S] : Upto(f, m)}
<1>1. 0 \in T
  <2>1. [k \in 0 .. 0 |-> w] \in [0 .. 0 -> S] /\ Upto([k \in 0 .. 0 |-> w], 0)
    OBVIOUS
  <2> QED
    BY <2>1
<1>2. ASSUME NEW m \in Nat, m \in T PROVE m + 1 \in T
  <2> SUFFICES ASSUME m + 1 <= n PROVE \E f \in [0 .. m + 1 -> S] : Upto(f, m + 1)
    OBVIOUS
  <2>1. PICK f \in [0 .. m -> S] : Upto(f, m)
    BY <1>2
  <2>2. f[m] \in S /\ m + 1 \in 1 .. n /\ g[m + 1][f[m]] \in S
    BY <2>1 DEF Steps
  <2> DEFINE h == [k \in 0 .. m + 1 |-> IF k <= m THEN f[k] ELSE g[m + 1][f[m]]]
  <2>3. h \in [0 .. m + 1 -> S]
    BY <2>1, <2>2
  <2>4. Upto(h, m + 1)
    <3>1. h[0] = w
      BY <2>1
    <3>2. ASSUME NEW k \in 1 .. m + 1 PROVE h[k] = g[k][h[k - 1]]
      <4>1. k - 1 \in 0 .. m /\ h[k - 1] = f[k - 1]
        OBVIOUS
      <4>2. CASE k <= m
        BY <2>1, <4>1, <4>2
      <4>3. CASE k = m + 1
        BY <4>1, <4>3
      <4> QED
        BY <4>2, <4>3
    <3> QED
      BY <3>1, <3>2
  <2> QED
    BY <2>3, <2>4
<1> HIDE DEF T
<1>3. n \in T
  BY <1>1, <1>2, NatSet
<1> QED
  BY <1>3 DEF T

\* Whatever such a fold is, its values are in the set.
LEMMA FoldStays ==
  ASSUME NEW S, NEW w \in S, NEW n \in Nat, NEW g \in Steps(n, S), NEW f,
         f[0] = w, \A k \in 1 .. n : f[k - 1] \in S => f[k] = g[k][f[k - 1]]
  PROVE  \A k \in 0 .. n : f[k] \in S
<1> DEFINE T == {k \in Nat : k <= n => f[k] \in S}
<1>1. 0 \in T
  OBVIOUS
<1>2. ASSUME NEW k \in Nat, k \in T PROVE k + 1 \in T
  <2> SUFFICES ASSUME k + 1 <= n PROVE f[k + 1] \in S
    OBVIOUS
  <2>1. f[k] \in S /\ k + 1 \in 1 .. n /\ (k + 1) - 1 = k
    BY <1>2
  <2>2. f[k + 1] = g[k + 1][f[k]]
    BY <2>1
  <2> QED
    BY <2>1, <2>2 DEF Steps
<1> HIDE DEF T
<1>3. \A k \in Nat : k \in T
  BY <1>1, <1>2, NatSet
<1> QED
  BY <1>3 DEF T

-----------------------------------------------------------------------------
(* The lines of a text.                                                    *)

Line == Seq(Nat)
Cut == [lines : Seq(Line), cur : Line]
NoLines == [lines |-> <<>>, cur |-> <<>>]

LEMMA CutByteType ==
  ASSUME NEW w \in Cut, NEW b \in Nat
  PROVE  /\ CutByte(w, b) \in Cut
         /\ b # NL => CutByte(w, b) = [lines |-> w.lines, cur |-> Append(w.cur, b)]
         /\ b = NL => CutByte(w, b) = IF w.cur = <<>> THEN w
                                      ELSE [lines |-> Append(w.lines, w.cur), cur |-> <<>>]
<1>1. w = [lines |-> w.lines, cur |-> w.cur] /\ w.lines \in Seq(Line) /\ w.cur \in Line
  BY DEF Cut
<1>2. /\ Append(w.cur, b) \in Line /\ Append(w.lines, w.cur) \in Seq(Line)
      /\ <<>> \in Line
  BY <1>1 DEF Line
<1>3. \A l, u, v : [[lines |-> l, cur |-> u] EXCEPT !.cur = v] = [lines |-> l, cur |-> v]
  OBVIOUS
<1>4. [w EXCEPT !.cur = Append(w.cur, b)] = [lines |-> w.lines, cur |-> Append(w.cur, b)]
  <2>1. [[lines |-> w.lines, cur |-> w.cur] EXCEPT !.cur = Append(w.cur, b)]
          = [lines |-> w.lines, cur |-> Append(w.cur, b)]
    BY <1>3
  <2> QED
    BY <1>1, <2>1, Zenon
<1> QED
  BY <1>1, <1>2, <1>4 DEF Cut, CutByte

\* The recursion that defines Cuts, solved.
LEMMA CutsAre ==
  ASSUME NEW c \in Seq(Nat)
  PROVE  /\ Cuts(c)[0] = NoLines
         /\ \A k \in 1 .. Len(c) : Cuts(c)[k] = CutByte(Cuts(c)[k - 1], c[k])
         /\ \A k \in 0 .. Len(c) : Cuts(c)[k] \in Cut
<1> DEFINE n == Len(c)
           g == [k \in 1 .. n |-> [w \in Cut |-> CutByte(w, c[k])]]
           Solves(f) == f = [k \in 0 .. n |-> IF k = 0 THEN NoLines ELSE CutByte(f[k - 1], c[k])]
<1>1. n \in Nat /\ NoLines \in Cut /\ \A k \in 1 .. n : c[k] \in Nat
  BY DEF Cut, NoLines, Line
<1>2. g \in Steps(n, Cut)
  BY <1>1, CutByteType DEF Steps
<1>3. \A w \in Cut, k \in 1 .. n : g[k][w] = CutByte(w, c[k])
  OBVIOUS
<1> HIDE DEF g, n
<1>4. PICK f \in [0 .. n -> Cut] : f[0] = NoLines /\ \A k \in 1 .. n : f[k] = g[k][f[k - 1]]
  <2>1. n \in Nat /\ NoLines \in Cut
    BY <1>1
  <2> QED
    BY <1>2, <2>1, FoldExists
<1>5. Solves(f)
  <2>1. ASSUME NEW k \in 0 .. n PROVE f[k] = IF k = 0 THEN NoLines ELSE CutByte(f[k - 1], c[k])
    <3>1. k # 0 => k \in 1 .. n /\ k - 1 \in 0 .. n
      BY <1>1
    <3> QED
      BY <1>3, <1>4, <3>1
  <2>2. f = [k \in 0 .. n |-> f[k]]
    BY <1>4
  <2> QED
    BY <2>1, <2>2
<1>6. Cuts(c) = CHOOSE h : Solves(h)
  BY DEF Cuts, NoLines, n
<1>7. Solves(Cuts(c))
  <2> HIDE DEF Solves
  <2> QED
    BY <1>5, <1>6
<1>8. \A k \in 0 .. n : Cuts(c)[k] = IF k = 0 THEN NoLines ELSE CutByte(Cuts(c)[k - 1], c[k])
  BY <1>7
<1>9. /\ Cuts(c)[0] = NoLines
      /\ \A k \in 1 .. n : Cuts(c)[k] = CutByte(Cuts(c)[k - 1], c[k])
  BY <1>1, <1>8
<1>10. \A k \in 0 .. n : Cuts(c)[k] \in Cut
  <2>1. \A k \in 1 .. n : Cuts(c)[k - 1] \in Cut => Cuts(c)[k] = g[k][Cuts(c)[k - 1]]
    BY <1>3, <1>9
  <2>2. NoLines \in Cut /\ Cuts(c)[0] = NoLines
    BY <1>1, <1>9
  <2> QED
    BY <1>1, <1>2, <2>1, <2>2, FoldStays
<1> QED
  BY <1>9, <1>10 DEF n

\* The first bytes decide the lines up to them.
LEMMA SameCuts ==
  ASSUME NEW c \in Seq(Nat), NEW d \in Seq(Nat), NEW m \in Nat, m <= Len(c), m <= Len(d),
         \A i \in 1 .. m : c[i] = d[i]
  PROVE  \A k \in 0 .. m : Cuts(c)[k] = Cuts(d)[k]
<1> DEFINE T == {k \in Nat : k <= m => Cuts(c)[k] = Cuts(d)[k]}
<1>1. 0 \in T
  BY CutsAre
<1>2. ASSUME NEW k \in Nat, k \in T PROVE k + 1 \in T
  <2> SUFFICES ASSUME k + 1 <= m PROVE Cuts(c)[k + 1] = Cuts(d)[k + 1]
    OBVIOUS
  <2>1. k + 1 \in 1 .. Len(c) /\ k + 1 \in 1 .. Len(d) /\ k + 1 \in 1 .. m /\ (k + 1) - 1 = k
    OBVIOUS
  <2>2. Cuts(c)[k + 1] = CutByte(Cuts(c)[k], c[k + 1])
    BY <2>1, CutsAre
  <2>3. Cuts(d)[k + 1] = CutByte(Cuts(d)[k], d[k + 1])
    BY <2>1, CutsAre
  <2>4. Cuts(c)[k] = Cuts(d)[k]
    BY <1>2
  <2> QED
    BY <2>1, <2>2, <2>3, <2>4
<1> HIDE DEF T
<1>3. \A k \in Nat : k \in T
  BY <1>1, <1>2, NatSet
<1> QED
  BY <1>3 DEF T

\* One byte more at the end.
LEMMA CutsAppend ==
  ASSUME NEW c \in Seq(Nat), NEW b \in Nat
  PROVE  /\ Cuts(Append(c, b))[Len(c) + 1] = CutByte(Cuts(c)[Len(c)], b)
         /\ \A k \in 0 .. Len(c) : Cuts(Append(c, b))[k] = Cuts(c)[k]
<1> DEFINE d == Append(c, b)
<1>1. d \in Seq(Nat) /\ Len(d) = Len(c) + 1 /\ d[Len(c) + 1] = b
      /\ \A i \in 1 .. Len(c) : d[i] = c[i]
  OBVIOUS
<1> HIDE DEF d
<1>2. \A k \in 0 .. Len(c) : Cuts(d)[k] = Cuts(c)[k]
  <2>1. Len(c) \in Nat /\ Len(c) <= Len(d) /\ Len(c) <= Len(c)
    BY <1>1
  <2> QED
    BY <1>1, <2>1, SameCuts
<1>3. Len(c) \in 0 .. Len(c) /\ Len(c) + 1 \in 1 .. Len(d) /\ (Len(c) + 1) - 1 = Len(c)
  BY <1>1
<1>4. Cuts(d)[Len(c) + 1] = CutByte(Cuts(d)[Len(c)], d[Len(c) + 1])
  BY <1>1, <1>3, CutsAre
<1> QED
  BY <1>1, <1>2, <1>3, <1>4 DEF d

\* What one byte does to the lines.
LEMMA CutsNext ==
  ASSUME NEW c \in Seq(Nat), NEW k \in Nat, k < Len(c)
  PROVE  LET w == Cuts(c)[k]  v == Cuts(c)[k + 1]
         IN  /\ w \in Cut /\ v \in Cut
             /\ c[k + 1] # NL => v.lines = w.lines /\ v.cur = Append(w.cur, c[k + 1])
             /\ c[k + 1] = NL => /\ v.cur = <<>>
                                 /\ v.lines = IF w.cur = <<>> THEN w.lines
                                              ELSE Append(w.lines, w.cur)
<1>1. k \in 0 .. Len(c) /\ k + 1 \in 1 .. Len(c) /\ k + 1 \in 0 .. Len(c) /\ (k + 1) - 1 = k
  OBVIOUS
<1>2. Cuts(c)[k] \in Cut /\ Cuts(c)[k + 1] \in Cut /\ c[k + 1] \in Nat
  BY <1>1, CutsAre
<1>3. Cuts(c)[k + 1] = CutByte(Cuts(c)[k], c[k + 1])
  BY <1>1, CutsAre
<1>4. CASE c[k + 1] # NL
  <2>1. Cuts(c)[k + 1] = [lines |-> Cuts(c)[k].lines, cur |-> Append(Cuts(c)[k].cur, c[k + 1])]
    BY <1>2, <1>3, <1>4, CutByteType
  <2> QED
    BY <1>2, <1>4, <2>1, SMTT(30)
<1>5. CASE c[k + 1] = NL
  <2>1. Cuts(c)[k + 1] = IF Cuts(c)[k].cur = <<>> THEN Cuts(c)[k]
          ELSE [lines |-> Append(Cuts(c)[k].lines, Cuts(c)[k].cur), cur |-> <<>>]
    BY <1>2, <1>3, <1>5, CutByteType
  <2> QED
    BY <1>2, <1>5, <2>1
<1> QED
  BY <1>4, <1>5

LEMMA AddLine ==
  ASSUME NEW ls \in Seq(Line), NEW l \in Line
  PROVE  /\ Append(ls, l) \in Seq(Line) /\ Len(Append(ls, l)) = Len(ls) + 1 /\ Len(ls) \in Nat
         /\ \A i \in 1 .. Len(ls) : Append(ls, l)[i] = ls[i]
         /\ Append(ls, l)[Len(ls) + 1] = l
OBVIOUS

LEMMA AddByte ==
  ASSUME NEW s \in Seq(Nat), NEW b \in Nat
  PROVE  /\ Append(s, b) \in Seq(Nat) /\ Len(Append(s, b)) = Len(s) + 1 /\ Len(s) \in Nat
         /\ Append(s, b) # <<>>
         /\ \A i \in 1 .. Len(s) : Append(s, b)[i] = s[i]
         /\ Append(s, b)[Len(s) + 1] = b
OBVIOUS

LEMMA SubSeqIs ==
  ASSUME NEW s \in Seq(Nat), NEW a \in Nat, NEW b \in Nat, a <= b, b <= Len(s)
  PROVE  /\ SubSeq(s, a + 1, b) \in Seq(Nat) /\ Len(SubSeq(s, a + 1, b)) = b - a
         /\ \A i \in 1 .. b - a : SubSeq(s, a + 1, b)[i] = s[a + i]
<1>1. PICK t : t = SubSeq(s, a + 1, b)
  OBVIOUS
<1>2. Len(t) = b - a
  BY <1>1
<1>3. t \in Seq(Nat)
  BY <1>1
<1>4. \A i \in 1 .. b - a : t[i] = s[a + i]
  BY <1>1, SMTT(30)
<1> QED
  BY <1>1, <1>2, <1>3, <1>4

LEMMA SubSeqAppend ==
  ASSUME NEW s \in Seq(Nat), NEW a \in Nat, NEW b \in Nat, a <= b, b < Len(s)
  PROVE  SubSeq(s, a + 1, b + 1) = Append(SubSeq(s, a + 1, b), s[b + 1])
<1> DEFINE t == SubSeq(s, a + 1, b)
           u == SubSeq(s, a + 1, b + 1)
<1>1. t \in Seq(Nat) /\ Len(t) = b - a /\ \A i \in 1 .. b - a : t[i] = s[a + i]
  <2>1. b <= Len(s)
    OBVIOUS
  <2> QED
    BY <2>1, SubSeqIs, Zenon
<1>2. u \in Seq(Nat) /\ Len(u) = b - a + 1 /\ \A i \in 1 .. b - a + 1 : u[i] = s[a + i]
  <2>1. b + 1 \in Nat /\ a <= b + 1 /\ b + 1 <= Len(s) /\ (b + 1) - a = b - a + 1
    OBVIOUS
  <2> QED
    BY <2>1, SubSeqIs
<1> HIDE DEF t, u
<1> DEFINE v == Append(t, s[b + 1])
<1>0. s[b + 1] \in Nat
  OBVIOUS
<1>3. v \in Seq(Nat) /\ Len(v) = b - a + 1
  BY <1>0, <1>1, AddByte, SMTT(30)
<1>6. (\A i \in 1 .. b - a : v[i] = t[i]) /\ v[b - a + 1] = s[b + 1]
  BY <1>0, <1>1, AddByte, SMTT(30)
<1> HIDE DEF v
<1>4. ASSUME NEW i \in 1 .. Len(u) PROVE u[i] = v[i]
  <2>1. i \in 1 .. b - a + 1 /\ u[i] = s[a + i]
    BY <1>2
  <2>2. CASE i = b - a + 1
    BY <1>6, <2>1, <2>2
  <2>3. CASE i # b - a + 1
    BY <1>1, <1>6, <2>1, <2>3
  <2> QED
    BY <2>2, <2>3
<1>5. u = v
  BY <1>2, <1>3, <1>4, SeqEqual
<1> QED
  BY <1>5 DEF t, u, v

LEMMA ConcatAppend ==
  ASSUME NEW s \in Seq(Nat), NEW t \in Seq(Nat), NEW b \in Nat
  PROVE  s \o Append(t, b) = Append(s \o t, b)
OBVIOUS

\* The lines begun.
Begun(w) == Len(w.lines) + (IF w.cur = <<>> THEN 0 ELSE 1)

\* A text has at most as many lines as bytes.
LEMMA LinesBound ==
  ASSUME NEW c \in Seq(Nat)
  PROVE  /\ \A k \in 0 .. Len(c) : Begun(Cuts(c)[k]) <= k
         /\ LinesOf(c) \in Seq(Line) /\ Len(LinesOf(c)) <= Len(c)
         /\ Len(LinesOf(c)) = Begun(Cuts(c)[Len(c)])
<1> DEFINE T == {k \in Nat : k <= Len(c) => Begun(Cuts(c)[k]) <= k}
<1>1. 0 \in T
  <2>1. Cuts(c)[0].lines = <<>> /\ Cuts(c)[0].cur = <<>>
    BY CutsAre DEF NoLines
  <2>2. Begun(Cuts(c)[0]) <= 0
    BY <2>1 DEF Begun
  <2> QED
    BY <2>2
<1>2. ASSUME NEW k \in Nat, k \in T PROVE k + 1 \in T
  <2> SUFFICES ASSUME k + 1 <= Len(c) PROVE Begun(Cuts(c)[k + 1]) <= k + 1
    OBVIOUS
  <2> DEFINE w == Cuts(c)[k]
             v == Cuts(c)[k + 1]
  <2>1. k < Len(c) /\ Begun(w) <= k
    BY <1>2
  <2>2. /\ w \in Cut /\ v \in Cut
        /\ c[k + 1] # NL => v.lines = w.lines /\ v.cur = Append(w.cur, c[k + 1])
        /\ c[k + 1] = NL => /\ v.cur = <<>>
                            /\ v.lines = IF w.cur = <<>> THEN w.lines ELSE Append(w.lines, w.cur)
    BY <2>1, CutsNext
  <2> HIDE DEF w, v
  <2>3. w.lines \in Seq(Line) /\ w.cur \in Line
    BY <2>2 DEF Cut
  <2>4. Begun(v) <= k + 1
    <3>1. Len(Append(w.lines, w.cur)) = Len(w.lines) + 1 /\ Len(w.lines) \in Nat
      BY <2>3, AddLine
    <3>2. Append(w.cur, c[k + 1]) # <<>>
      BY <2>1, <2>3, SMTT(30) DEF Line
    <3>3. CASE c[k + 1] # NL
      <4>1. v.lines = w.lines /\ v.cur # <<>>
        BY <2>2, <3>2, <3>3
      <4>2. Begun(v) = Len(w.lines) + 1
        BY <3>1, <4>1 DEF Begun
      <4>3. Begun(w) = Len(w.lines) \/ Begun(w) = Len(w.lines) + 1
        <5>1. CASE w.cur = <<>>
          BY <3>1, <5>1 DEF Begun
        <5>2. CASE w.cur # <<>>
          BY <3>1, <5>2 DEF Begun
        <5> QED
          BY <5>1, <5>2
      <4> QED
        BY <2>1, <3>1, <4>2, <4>3
    <3>4. CASE c[k + 1] = NL /\ w.cur = <<>>
      <4>1. v.lines = w.lines /\ v.cur = <<>>
        BY <2>2, <3>4
      <4>2. Begun(v) = Begun(w) /\ Begun(w) = Len(w.lines)
        BY <3>1, <3>4, <4>1 DEF Begun
      <4> QED
        BY <2>1, <3>1, <4>2
    <3>5. CASE c[k + 1] = NL /\ w.cur # <<>>
      <4>1. v.lines = Append(w.lines, w.cur) /\ v.cur = <<>>
        BY <2>2, <3>5
      <4>2. Begun(v) = Len(w.lines) + 1 /\ Begun(w) = Len(w.lines) + 1
        BY <3>1, <3>5, <4>1 DEF Begun
      <4> QED
        BY <2>1, <3>1, <4>2
    <3> QED
      BY <3>3, <3>4, <3>5
  <2> QED
    BY <2>4 DEF v
<1>3. \A k \in Nat : k \in T
  <2> HIDE DEF T
  <2> QED
    BY <1>1, <1>2, NatSet
<1>4. \A k \in 0 .. Len(c) : Begun(Cuts(c)[k]) <= k
  <2> QED
    BY <1>3
<1> DEFINE e == Cuts(c)[Len(c)]
<1>5. Len(c) \in 0 .. Len(c) /\ e \in Cut /\ Begun(e) <= Len(c)
  <2> QED
    BY <1>4, CutsAre
<1>6. e.lines \in Seq(Line) /\ e.cur \in Line
  BY <1>5 DEF Cut
<1>7. LinesOf(c) = IF e.cur = <<>> THEN e.lines ELSE Append(e.lines, e.cur)
  BY DEF LinesOf
<1> HIDE DEF e
<1>8. /\ LinesOf(c) \in Seq(Line)
      /\ Len(LinesOf(c)) = Begun(e)
  <2>1. CASE e.cur = <<>>
    <3>1. Len(e.lines) \in Nat
      BY <1>6
    <3> QED
      BY <1>6, <1>7, <2>1, <3>1 DEF Begun
  <2>2. CASE e.cur # <<>>
    <3>1. /\ Append(e.lines, e.cur) \in Seq(Line)
          /\ Len(Append(e.lines, e.cur)) = Len(e.lines) + 1
      BY <1>6, AddLine
    <3> QED
      BY <1>6, <1>7, <2>2, <3>1 DEF Begun
  <2> QED
    BY <2>1, <2>2
<1> QED
  BY <1>4, <1>5, <1>8 DEF e

\* Lines that are complete stay.
LEMMA LinesStay ==
  ASSUME NEW c \in Seq(Nat), NEW j \in 0 .. Len(c)
  PROVE  /\ Len(Cuts(c)[j].lines) <= Len(LinesOf(c))
         /\ \A i \in 1 .. Len(Cuts(c)[j].lines) : LinesOf(c)[i] = Cuts(c)[j].lines[i]
<1> DEFINE u == Cuts(c)[j].lines
           Before(ls) == Len(u) <= Len(ls) /\ \A i \in 1 .. Len(u) : ls[i] = u[i]
           T == {k \in Nat : j + k <= Len(c) => Before(Cuts(c)[j + k].lines)}
<1>0. u \in Seq(Line)
  BY CutsAre DEF Cut
<1>1. 0 \in T
  BY <1>0
<1>2. ASSUME NEW k \in Nat, k \in T PROVE k + 1 \in T
  <2> SUFFICES ASSUME j + (k + 1) <= Len(c) PROVE Before(Cuts(c)[j + (k + 1)].lines)
    OBVIOUS
  <2> DEFINE w == Cuts(c)[j + k]
             v == Cuts(c)[(j + k) + 1]
  <2>1. j + k \in Nat /\ j + k < Len(c) /\ Before(w.lines) /\ j + (k + 1) = (j + k) + 1
    BY <1>2
  <2>2. w \in Cut /\ v \in Cut /\ (v.lines = w.lines \/ v.lines = Append(w.lines, w.cur))
    BY <2>1, CutsNext
  <2> HIDE DEF w, v, u
  <2>3. w.lines \in Seq(Line) /\ w.cur \in Line
    BY <2>2 DEF Cut
  <2>4. Before(v.lines)
    <3>1. CASE v.lines = w.lines
      BY <2>1, <3>1
    <3>2. CASE v.lines = Append(w.lines, w.cur)
      <4>1. /\ Len(v.lines) = Len(w.lines) + 1 /\ Len(w.lines) \in Nat
            /\ \A i \in 1 .. Len(w.lines) : v.lines[i] = w.lines[i]
        BY <2>3, <3>2, AddLine
      <4>2. \A i \in 1 .. Len(u) : i \in 1 .. Len(w.lines)
        BY <1>0, <2>1, <4>1
      <4> QED
        BY <1>0, <2>1, <4>1, <4>2
    <3> QED
      BY <2>2, <3>1, <3>2
  <2> QED
    BY <2>1, <2>4 DEF v
<1>3. \A k \in Nat : k \in T
  <2> HIDE DEF T
  <2> QED
    BY <1>1, <1>2, NatSet
<1>4. Before(Cuts(c)[Len(c)].lines)
  <2> DEFINE k == Len(c) - j
  <2>1. k \in Nat /\ j + k = Len(c) /\ j + k <= Len(c)
    OBVIOUS
  <2> HIDE DEF k, Before
  <2>2. Before(Cuts(c)[j + k].lines)
    BY <1>3, <2>1
  <2> QED
    BY <2>1, <2>2
<1>5. Cuts(c)[Len(c)] \in Cut
  BY CutsAre
<1>6. Cuts(c)[Len(c)].lines \in Seq(Line) /\ Cuts(c)[Len(c)].cur \in Line
  BY <1>5 DEF Cut
<1>7. Before(LinesOf(c))
  <2> DEFINE e == Cuts(c)[Len(c)]
  <2>1. LinesOf(c) = e.lines \/ LinesOf(c) = Append(e.lines, e.cur)
    BY DEF LinesOf
  <2> HIDE DEF e, u
  <2> QED
    <3>1. CASE LinesOf(c) = e.lines
      BY <1>4, <3>1 DEF e
    <3>2. CASE LinesOf(c) = Append(e.lines, e.cur)
      <4>1. /\ Len(LinesOf(c)) = Len(e.lines) + 1 /\ Len(e.lines) \in Nat
            /\ \A i \in 1 .. Len(e.lines) : LinesOf(c)[i] = e.lines[i]
        BY <1>6, <3>2, AddLine DEF e
      <4>2. Len(u) <= Len(e.lines) /\ \A i \in 1 .. Len(u) : e.lines[i] = u[i]
        BY <1>4 DEF e
      <4>3. \A i \in 1 .. Len(u) : i \in 1 .. Len(e.lines)
        BY <1>0, <4>1, <4>2
      <4> QED
        BY <1>0, <4>1, <4>2, <4>3
    <3> QED
      BY <2>1, <3>1, <3>2
<1> QED
  BY <1>7

\* Bytes without a newline belong to the line they are in.
LEMMA CutsPiece ==
  ASSUME NEW c \in Seq(Nat), NEW j \in Nat, NEW m \in Nat, j <= m, m <= Len(c),
         \A i \in j + 1 .. m : c[i] # NL
  PROVE  /\ Cuts(c)[m].lines = Cuts(c)[j].lines
         /\ Cuts(c)[m].cur = Cuts(c)[j].cur \o SubSeq(c, j + 1, m)
<1> DEFINE w == Cuts(c)[j]
           Runs(k) == /\ Cuts(c)[j + k].lines = w.lines
                      /\ Cuts(c)[j + k].cur = w.cur \o SubSeq(c, j + 1, j + k)
           T == {k \in Nat : j + k <= m => Runs(k)}
<1>0. w.lines \in Seq(Line) /\ w.cur \in Line
  BY CutsAre DEF Cut
<1>1. 0 \in T
  <2>1. SubSeq(c, j + 1, j) = <<>> /\ w.cur \o <<>> = w.cur /\ j + 0 = j
    BY <1>0 DEF Line
  <2>2. Runs(0)
    BY <2>1
  <2> HIDE DEF Runs
  <2> QED
    BY <2>2
<1>2. ASSUME NEW k \in Nat, k \in T PROVE k + 1 \in T
  <2> HIDE DEF Runs
  <2> SUFFICES ASSUME j + (k + 1) <= m PROVE Runs(k + 1)
    OBVIOUS
  <2> DEFINE n == j + k
  <2>1. n \in Nat /\ n < Len(c) /\ n + 1 \in j + 1 .. m /\ Runs(k) /\ j + (k + 1) = n + 1
    BY <1>2
  <2>2. /\ Cuts(c)[n + 1].lines = Cuts(c)[n].lines
        /\ Cuts(c)[n + 1].cur = Append(Cuts(c)[n].cur, c[n + 1])
    BY <2>1, CutsNext
  <2>3. SubSeq(c, j + 1, n + 1) = Append(SubSeq(c, j + 1, n), c[n + 1])
    BY <2>1, SubSeqAppend
  <2>4. SubSeq(c, j + 1, n) \in Seq(Nat) /\ c[n + 1] \in Nat
    BY <2>1
  <2>5. Append(w.cur \o SubSeq(c, j + 1, n), c[n + 1]) = w.cur \o Append(SubSeq(c, j + 1, n), c[n + 1])
    <3> HIDE DEF w, n
    <3> QED
      BY <1>0, <2>4, ConcatAppend DEF Line
  <2> QED
    BY <2>1, <2>2, <2>3, <2>5 DEF Runs
<1>3. \A k \in Nat : k \in T
  <2> HIDE DEF T
  <2> QED
    BY <1>1, <1>2, NatSet
<1>4. m - j \in Nat /\ j + (m - j) = m
  OBVIOUS
<1>5. Runs(m - j)
  <2> HIDE DEF Runs
  <2> QED
    BY <1>3, <1>4
<1> QED
  BY <1>4, <1>5

-----------------------------------------------------------------------------
(* The bytes in the frames.                                                *)

\* All frames are full while the store is open, and the one being filled is not.
Packed == {w \in [frames : Seq(Line), buf : Line] :
             /\ Len(w.buf) < TEXT_FRAME_SIZE
             /\ \A i \in DOMAIN w.frames : Len(w.frames[i]) = TEXT_FRAME_SIZE}

\* Where the next byte goes.
End(fs, buf) == TEXT_FRAME_SIZE * Len(fs) + Len(buf)

LEMMA EndIs ==
  ASSUME NEW fs \in Seq(Line), NEW buf \in Line
  PROVE  End(fs, buf) \in Nat /\ End(fs, buf) = Place(Len(fs), Len(buf))
<1>1. Len(fs) \in Nat /\ Len(buf) \in Nat /\ TEXT_FRAME_SIZE \in Nat
  BY Consts DEF Line
<1>2. TEXT_FRAME_SIZE * Len(fs) = Len(fs) * TEXT_FRAME_SIZE /\ Len(fs) * TEXT_FRAME_SIZE \in Nat
  BY <1>1
<1> QED
  BY <1>1, <1>2 DEF End, Place

\* A byte more changes the last chunk only, whether or not that flushes it.
LEMMA CopyByteDoes ==
  ASSUME NEW w \in Packed, NEW b \in Nat
  PROVE  LET v == CopyByte(w, b)
         IN  /\ v \in Packed
             /\ \A n \in Nat : n # Len(w.frames) =>
                  Chunk(v.frames, v.buf, n) = Chunk(w.frames, w.buf, n)
             /\ Chunk(v.frames, v.buf, Len(w.frames)) = Append(w.buf, b)
             /\ End(v.frames, v.buf) = End(w.frames, w.buf) + 1
<1> DEFINE fs == w.frames
           buf == w.buf
           more == Append(buf, b)
           v == CopyByte(w, b)
<1>1. /\ w = [frames |-> fs, buf |-> buf] /\ fs \in Seq(Line) /\ buf \in Line
      /\ Len(buf) < TEXT_FRAME_SIZE /\ \A i \in DOMAIN fs : Len(fs[i]) = TEXT_FRAME_SIZE
  BY DEF Packed
<1>2. /\ more \in Line /\ Len(more) = Len(buf) + 1 /\ Len(buf) \in Nat
  BY <1>1, AddByte DEF Line
<1>3. Len(fs) \in Nat /\ TEXT_FRAME_SIZE \in Nat \ {0}
  BY <1>1, Consts
<1>4. v = IF Len(more) = TEXT_FRAME_SIZE THEN [frames |-> Append(fs, more), buf |-> <<>>]
          ELSE [frames |-> fs, buf |-> more]
  <2>1. \A f, x, y : [[frames |-> f, buf |-> x] EXCEPT !.buf = y] = [frames |-> f, buf |-> y]
    OBVIOUS
  <2>2. [w EXCEPT !.buf = more] = [frames |-> fs, buf |-> more]
    <3>1. [[frames |-> fs, buf |-> buf] EXCEPT !.buf = more] = [frames |-> fs, buf |-> more]
      BY <2>1
    <3> QED
      BY <1>1, <3>1, Zenon
  <2> QED
    BY <2>2 DEF CopyByte
<1>5. /\ Append(fs, more) \in Seq(Line) /\ Len(Append(fs, more)) = Len(fs) + 1
      /\ \A i \in 1 .. Len(fs) : Append(fs, more)[i] = fs[i]
      /\ Append(fs, more)[Len(fs) + 1] = more
  BY <1>1, <1>2, AddLine
<1> HIDE DEF fs, buf, more, v
<1>6. CASE Len(more) = TEXT_FRAME_SIZE
  <2> DEFINE gs == Append(fs, more)
  <2>1. v = [frames |-> gs, buf |-> <<>>] /\ v.frames = gs /\ v.buf = <<>>
    BY <1>4, <1>6
  <2> HIDE DEF gs
  <2>2. \A i \in DOMAIN gs : Len(gs[i]) = TEXT_FRAME_SIZE
    <3> SUFFICES ASSUME NEW i \in DOMAIN gs PROVE Len(gs[i]) = TEXT_FRAME_SIZE
      OBVIOUS
    <3>1. i \in 1 .. Len(fs) \/ i = Len(fs) + 1
      BY <1>3, <1>5 DEF gs
    <3>2. \A j \in 1 .. Len(fs) : j \in DOMAIN fs
      BY <1>1
    <3>3. CASE i \in 1 .. Len(fs)
      BY <1>1, <1>5, <3>2, <3>3 DEF gs
    <3>4. CASE i = Len(fs) + 1
      BY <1>5, <1>6, <3>4 DEF gs
    <3> QED
      BY <3>1, <3>3, <3>4
  <2>3. v \in Packed
    <3>1. <<>> \in Line /\ Len(<<>>) = 0
      BY DEF Line
    <3>2. gs \in Seq(Line) /\ 0 < TEXT_FRAME_SIZE
      BY <1>3, <1>5 DEF gs
    <3>3. v \in [frames : Seq(Line), buf : Line] /\ Len(v.buf) < TEXT_FRAME_SIZE
      BY <2>1, <3>1, <3>2
    <3> QED
      BY <2>1, <2>2, <3>3 DEF Packed
  <2>4. \A n \in Nat : n # Len(fs) => Chunk(gs, <<>>, n) = Chunk(fs, buf, n)
    BY <1>3, <1>5 DEF Chunk, gs
  <2>5. Chunk(gs, <<>>, Len(fs)) = more
    BY <1>3, <1>5 DEF Chunk, gs
  <2>6. End(gs, <<>>) = End(fs, buf) + 1
    <3>1. TEXT_FRAME_SIZE * (Len(fs) + 1) = TEXT_FRAME_SIZE * Len(fs) + TEXT_FRAME_SIZE
      BY <1>3
    <3>2. TEXT_FRAME_SIZE * Len(fs) \in Nat /\ Len(gs) = Len(fs) + 1 /\ Len(<<>>) = 0
      BY <1>3, <1>5 DEF gs
    <3> QED
      BY <1>2, <1>3, <1>6, <3>1, <3>2 DEF End
  <2> QED
    BY <2>1, <2>3, <2>4, <2>5, <2>6 DEF fs, buf, more, v
<1>7. CASE Len(more) # TEXT_FRAME_SIZE
  <2>1. v = [frames |-> fs, buf |-> more] /\ v.frames = fs /\ v.buf = more
    BY <1>4, <1>7
  <2>2. v \in Packed
    BY <1>1, <1>2, <1>3, <1>7, <2>1 DEF Packed
  <2>3. /\ \A n \in Nat : n # Len(fs) => Chunk(fs, more, n) = Chunk(fs, buf, n)
        /\ Chunk(fs, more, Len(fs)) = more
    BY <1>3 DEF Chunk
  <2>4. End(fs, more) = End(fs, buf) + 1
    <3>1. TEXT_FRAME_SIZE * Len(fs) \in Nat
      BY <1>3
    <3> QED
      BY <1>2, <3>1 DEF End
  <2> QED
    BY <2>1, <2>2, <2>3, <2>4 DEF fs, buf, more, v
<1> QED
  BY <1>6, <1>7

\* What is stored stays, and the byte is at the end.
LEMMA CopyByteStores ==
  ASSUME NEW w \in Packed, NEW b \in Nat
  PROVE  LET v == CopyByte(w, b)
         IN  /\ \A p, x \in Nat : Stored(w.frames, w.buf, p, x) => Stored(v.frames, v.buf, p, x)
             /\ Stored(v.frames, v.buf, End(w.frames, w.buf), b)
<1> DEFINE fs == w.frames
           buf == w.buf
           v == CopyByte(w, b)
<1>1. fs \in Seq(Line) /\ buf \in Line /\ Len(buf) < TEXT_FRAME_SIZE
  BY DEF Packed
<1>2. /\ \A n \in Nat : n # Len(fs) => Chunk(v.frames, v.buf, n) = Chunk(fs, buf, n)
      /\ Chunk(v.frames, v.buf, Len(fs)) = Append(buf, b)
  BY CopyByteDoes
<1>3. /\ Append(buf, b) \in Line /\ Len(Append(buf, b)) = Len(buf) + 1 /\ Len(buf) \in Nat
      /\ \A i \in 1 .. Len(buf) : Append(buf, b)[i] = buf[i]
      /\ Append(buf, b)[Len(buf) + 1] = b
  BY <1>1, AddByte DEF Line
<1>4. DOMAIN buf = 1 .. Len(buf) /\ DOMAIN Append(buf, b) = 1 .. Len(buf) + 1
  BY <1>1, <1>3 DEF Line
<1>5. Len(fs) \in Nat /\ Chunk(fs, buf, Len(fs)) = buf
  BY <1>1 DEF Chunk
<1>6. Len(buf) \in 0 .. TEXT_FRAME_SIZE - 1
  BY <1>1, <1>3, Consts
<1> DEFINE e == End(fs, buf)
<1>7. e \in Nat /\ e \div TEXT_FRAME_SIZE = Len(fs) /\ e % TEXT_FRAME_SIZE = Len(buf)
  BY <1>1, <1>5, <1>6, EndIs, PlaceIs
<1> HIDE DEF fs, buf, v, e
<1>8. ASSUME NEW p \in Nat, NEW x \in Nat, Stored(fs, buf, p, x) PROVE Stored(v.frames, v.buf, p, x)
  <2> DEFINE n == p \div TEXT_FRAME_SIZE
             r == (p % TEXT_FRAME_SIZE) + 1
  <2>1. n \in Nat
    BY Consts, DivMod
  <2>2. r \in DOMAIN Chunk(fs, buf, n) /\ Chunk(fs, buf, n)[r] = x
    BY <1>8 DEF Stored
  <2> HIDE DEF n, r
  <2>3. r \in DOMAIN Chunk(v.frames, v.buf, n) /\ Chunk(v.frames, v.buf, n)[r] = x
    <3>1. CASE n # Len(fs)
      BY <1>2, <2>1, <2>2, <3>1
    <3>2. CASE n = Len(fs)
      <4>1. Chunk(fs, buf, n) = buf /\ Chunk(v.frames, v.buf, n) = Append(buf, b)
        BY <1>2, <1>5, <3>2
      <4>2. r \in 1 .. Len(buf) /\ buf[r] = x
        BY <1>4, <2>2, <4>1
      <4> QED
        BY <1>3, <1>4, <4>1, <4>2
    <3> QED
      BY <3>1, <3>2
  <2> QED
    BY <2>3 DEF Stored, n, r
<1>9. Stored(v.frames, v.buf, e, b)
  <2>1. Chunk(v.frames, v.buf, e \div TEXT_FRAME_SIZE) = Append(buf, b)
    BY <1>2, <1>7
  <2>2. Len(buf) + 1 \in DOMAIN Append(buf, b) /\ Append(buf, b)[Len(buf) + 1] = b
    BY <1>3, <1>4
  <2> QED
    BY <1>7, <2>1, <2>2 DEF Stored
<1> QED
  BY <1>8, <1>9 DEF fs, buf, v, e

\* The recursion that defines Pass2, solved.
LEMMA Pass2Is ==
  ASSUME NEW s \in Packed, NEW data \in Seq(Nat)
  PROVE  /\ Pass2(s, data)[0] = s
         /\ \A k \in 1 .. Len(data) : Pass2(s, data)[k] = CopyByte(Pass2(s, data)[k - 1], data[k])
         /\ \A k \in 0 .. Len(data) : Pass2(s, data)[k] \in Packed
<1> DEFINE n == Len(data)
           g == [k \in 1 .. n |-> [w \in Packed |-> CopyByte(w, data[k])]]
           Solves(f) == f = [k \in 0 .. n |-> IF k = 0 THEN s ELSE CopyByte(f[k - 1], data[k])]
           h == Pass2(s, data)
<1>1. n \in Nat /\ \A k \in 1 .. n : data[k] \in Nat
  OBVIOUS
<1>2. g \in Steps(n, Packed)
  BY <1>1, CopyByteDoes DEF Steps
<1>3. \A w \in Packed, k \in 1 .. n : g[k][w] = CopyByte(w, data[k])
  OBVIOUS
<1>4. h = CHOOSE f : Solves(f)
  BY DEF Pass2
<1> HIDE DEF g, n, h
<1>5. PICK f \in [0 .. n -> Packed] : f[0] = s /\ \A k \in 1 .. n : f[k] = g[k][f[k - 1]]
  BY <1>1, <1>2, FoldExists
<1>6. Solves(f)
  <2>1. ASSUME NEW k \in 0 .. n PROVE f[k] = IF k = 0 THEN s ELSE CopyByte(f[k - 1], data[k])
    <3>1. k # 0 => k \in 1 .. n /\ k - 1 \in 0 .. n
      BY <1>1
    <3> QED
      BY <1>3, <1>5, <3>1
  <2>2. f = [k \in 0 .. n |-> f[k]]
    BY <1>5
  <2> QED
    BY <2>1, <2>2
<1>7. Solves(h)
  <2> HIDE DEF Solves
  <2> QED
    BY <1>4, <1>6
<1>8. \A k \in 0 .. n : h[k] = IF k = 0 THEN s ELSE CopyByte(h[k - 1], data[k])
  BY <1>7
<1>9. h[0] = s /\ \A k \in 1 .. n : h[k] = CopyByte(h[k - 1], data[k])
  BY <1>1, <1>8
<1>10. \A k \in 0 .. n : h[k] \in Packed
  <2>1. \A k \in 1 .. n : h[k - 1] \in Packed => h[k] = g[k][h[k - 1]]
    BY <1>3, <1>9
  <2> QED
    BY <1>1, <1>2, <1>9, <2>1, FoldStays
<1> QED
  BY <1>9, <1>10 DEF n, h

\* What v stores is at least what w stores.
Keeps(w, v) ==
  \A p, x \in Nat : Stored(w.frames, w.buf, p, x) => Stored(v.frames, v.buf, p, x)

\* Pass 2 keeps what is stored and adds the data at the end.
LEMMA Pass2Stores ==
  ASSUME NEW s \in Packed, NEW data \in Seq(Nat)
  PROVE  LET v == Pass2(s, data)[Len(data)]
             e == End(s.frames, s.buf)
         IN  /\ v \in Packed /\ Keeps(s, v)
             /\ End(v.frames, v.buf) = e + Len(data)
             /\ \A i \in 1 .. Len(data) : Stored(v.frames, v.buf, e + i - 1, data[i])
<1> DEFINE n == Len(data)
           e == End(s.frames, s.buf)
           h == Pass2(s, data)
           Has(v, k) == \A i \in 1 .. k : Stored(v.frames, v.buf, e + i - 1, data[i])
           Done(v, k) == Keeps(s, v) /\ End(v.frames, v.buf) = e + k /\ Has(v, k)
           T == {k \in Nat : k <= n => Done(h[k], k)}
<1>1. n \in Nat /\ \A k \in 1 .. n : data[k] \in Nat
  OBVIOUS
<1>2. e \in Nat
  BY EndIs DEF Packed
<1>3. /\ h[0] = s /\ \A k \in 1 .. n : h[k] = CopyByte(h[k - 1], data[k])
      /\ \A k \in 0 .. n : h[k] \in Packed
  BY Pass2Is
<1> HIDE DEF n, h, e
<1>4. 0 \in T
  <2>1. Done(s, 0)
    BY <1>2 DEF e, Keeps
  <2> HIDE DEF Done
  <2> QED
    BY <1>3, <2>1
<1>5. ASSUME NEW k \in Nat, k \in T PROVE k + 1 \in T
  <2> HIDE DEF Done
  <2> SUFFICES ASSUME k + 1 <= n PROVE Done(h[k + 1], k + 1)
    OBVIOUS
  <2> DEFINE w == h[k]
             v == h[k + 1]
             b == data[k + 1]
  <2>1. k + 1 \in 1 .. n /\ k \in 0 .. n /\ (k + 1) - 1 = k /\ k <= n
    BY <1>1
  <2>2. w \in Packed /\ v = CopyByte(w, b) /\ b \in Nat /\ Done(w, k)
    BY <1>1, <1>3, <1>5, <2>1
  <2> USE DEF Done
  <2> HIDE DEF w, v, b
  <2>3. /\ Keeps(w, v) /\ Stored(v.frames, v.buf, End(w.frames, w.buf), b)
        /\ End(v.frames, v.buf) = End(w.frames, w.buf) + 1
    BY <2>2, CopyByteDoes, CopyByteStores DEF Keeps
  <2>4. Keeps(s, v)
    BY <2>2, <2>3 DEF Keeps
  <2>5. End(v.frames, v.buf) = e + (k + 1)
    BY <1>2, <2>2, <2>3
  <2>6. Has(v, k + 1)
    <3> SUFFICES ASSUME NEW i \in 1 .. k + 1 PROVE Stored(v.frames, v.buf, e + i - 1, data[i])
      OBVIOUS
    <3>1. CASE i = k + 1
      <4>1. e + i - 1 = End(w.frames, w.buf) /\ data[i] = b
        BY <1>2, <2>2, <3>1 DEF b
      <4> QED
        BY <2>3, <4>1
    <3>2. CASE i # k + 1
      <4>1. i \in 1 .. k /\ e + i - 1 \in Nat /\ data[i] \in Nat
        BY <1>1, <1>2, <2>1, <3>2
      <4>2. Stored(w.frames, w.buf, e + i - 1, data[i])
        BY <2>2, <4>1
      <4> QED
        BY <2>3, <4>1, <4>2 DEF Keeps
    <3> QED
      BY <3>1, <3>2
  <2> QED
    BY <2>4, <2>5, <2>6 DEF v
<1>6. n \in T
  <2> HIDE DEF T
  <2> QED
    BY <1>1, <1>4, <1>5, NatSet
<1>7. n \in 0 .. n /\ n <= n
  BY <1>1
<1> QED
  BY <1>3, <1>6, <1>7 DEF n, h, e

-----------------------------------------------------------------------------
(* The notes of the lines.                                                 *)

Simmed == [frame : Nat, pos : 0 .. TEXT_FRAME_SIZE - 1, byte : Nat, lines : Nat,
           has : BOOLEAN, sparse : Seq(Note)]
NoteOf(w) == [frame |-> w.frame, pos |-> w.pos, byte |-> w.byte]

LEMMA SimByteDoes ==
  ASSUME NEW w \in Simmed, NEW b \in Nat
  PROVE  LET v == SimByte(w, b)
         IN  /\ v \in Simmed /\ v.byte = w.byte + 1
             /\ Place(v.frame, v.pos) = Place(w.frame, w.pos) + 1
             /\ b # NL => v.has = TRUE /\ v.lines = w.lines /\ v.sparse = w.sparse
             /\ b = NL => /\ v.has = FALSE
                          /\ v.lines = w.lines + (IF w.has THEN 1 ELSE 0)
                          /\ v.sparse = IF w.has /\ v.lines % LINE_INDEX_INTERVAL = 0
                                          THEN Append(w.sparse, NoteOf(v)) ELSE w.sparse
<1> DEFINE over == w.pos + 1 = TEXT_FRAME_SIZE
           f == IF over THEN w.frame + 1 ELSE w.frame
           q == IF over THEN 0 ELSE w.pos + 1
           at == [w EXCEPT !.frame = f, !.pos = q, !.byte = w.byte + 1]
           n == w.lines + (IF w.has THEN 1 ELSE 0)
           sp == IF w.has /\ n % LINE_INDEX_INTERVAL = 0 THEN NoteLine(w.sparse, at) ELSE w.sparse
           v == SimByte(w, b)
<1>1. /\ w.frame \in Nat /\ w.pos \in 0 .. TEXT_FRAME_SIZE - 1 /\ w.byte \in Nat
      /\ w.lines \in Nat /\ w.has \in BOOLEAN /\ w.sparse \in Seq(Note)
  BY DEF Simmed
<1>2. TEXT_FRAME_SIZE \in Nat \ {0} /\ LINE_INDEX_INTERVAL \in Nat \ {0}
  BY Consts
<1>3. f \in Nat /\ q \in 0 .. TEXT_FRAME_SIZE - 1
  BY <1>1, <1>2
<1>4. Place(f, q) = Place(w.frame, w.pos) + 1
  <2>1. w.pos \in Nat /\ w.pos + 1 \in Nat /\ 0 \in Nat /\ TEXT_FRAME_SIZE \in Nat
    BY <1>1, <1>2
  <2>2. /\ Place(w.frame + 1, 0) = Place(w.frame, 0) + TEXT_FRAME_SIZE /\ Place(w.frame, 0) \in Nat
        /\ Place(w.frame, w.pos) = Place(w.frame, 0) + w.pos
        /\ Place(w.frame, w.pos + 1) = Place(w.frame, 0) + (w.pos + 1)
    BY <1>1, <2>1, PlaceNext
  <2>3. CASE over
    BY <1>1, <2>1, <2>2, <2>3
  <2>4. CASE ~over
    BY <1>1, <2>1, <2>2, <2>4
  <2> QED
    BY <2>3, <2>4
<1>5. n \in Nat
  BY <1>1
<1> HIDE DEF f, q, n
<1>6. /\ at \in Simmed /\ at.frame = f /\ at.pos = q /\ at.byte = w.byte + 1
      /\ at.lines = w.lines /\ at.has = w.has /\ at.sparse = w.sparse
  <2>1. w.byte + 1 \in Nat
    BY <1>1
  <2>2. at \in Simmed
    BY <1>1, <1>3, <2>1 DEF Simmed
  <2>3. DOMAIN w = {"frame", "pos", "byte", "lines", "has", "sparse"}
    BY DEF Simmed
  <2> QED
    BY <2>2, <2>3
<1>7. v = IF b # NL THEN [at EXCEPT !.has = TRUE]
          ELSE [at EXCEPT !.has = FALSE, !.lines = n, !.sparse = sp]
  <2> HIDE DEF at
  <2>1. v = IF b # NL THEN [at EXCEPT !.has = TRUE]
            ELSE [at EXCEPT !.has = FALSE, !.lines = n, !.sparse =
                    IF w.has /\ n % LINE_INDEX_INTERVAL = 0 THEN NoteLine(at.sparse, at)
                    ELSE at.sparse]
    BY DEF SimByte, at, n, f, q
  <2> QED
    BY <1>6, <2>1
<1> DEFINE note == [frame |-> at.frame, pos |-> at.pos, byte |-> at.byte]
<1>8. note \in Note /\ NoteLine(w.sparse, at) = Append(w.sparse, note)
  BY <1>1, <1>3, <1>6 DEF Note, NoteLine
<1>9. sp \in Seq(Note) /\ sp = IF w.has /\ n % LINE_INDEX_INTERVAL = 0
                                 THEN Append(w.sparse, note) ELSE w.sparse
  <2> HIDE DEF note, at
  <2> QED
    BY <1>1, <1>8
<1> HIDE DEF at, sp, v
<1>10. CASE b # NL
  <2>1. v = [at EXCEPT !.has = TRUE]
    BY <1>7, <1>10
  <2>2. /\ v \in Simmed /\ v.frame = at.frame /\ v.pos = at.pos /\ v.byte = at.byte
        /\ v.lines = at.lines /\ v.has = TRUE /\ v.sparse = at.sparse
    BY <1>6, <2>1 DEF Simmed
  <2> QED
    BY <1>4, <1>6, <1>10, <2>2 DEF v
<1>11. CASE b = NL
  <2>1. v = [at EXCEPT !.has = FALSE, !.lines = n, !.sparse = sp]
    BY <1>7, <1>11
  <2>2. /\ v \in Simmed /\ v.frame = at.frame /\ v.pos = at.pos /\ v.byte = at.byte
        /\ v.lines = n /\ v.has = FALSE /\ v.sparse = sp
    BY <1>5, <1>6, <1>9, <2>1 DEF Simmed
  <2>3. NoteOf(v) = note
    BY <2>2 DEF NoteOf
  <2> QED
    BY <1>4, <1>6, <1>9, <1>11, <2>2, <2>3 DEF v, n
<1> QED
  BY <1>10, <1>11

\* The recursion that defines Pass1, solved.
LEMMA Pass1Is ==
  ASSUME NEW s \in Simmed, NEW data \in Seq(Nat)
  PROVE  /\ Pass1(s, data)[0] = s
         /\ \A k \in 1 .. Len(data) : Pass1(s, data)[k] = SimByte(Pass1(s, data)[k - 1], data[k])
         /\ \A k \in 0 .. Len(data) : Pass1(s, data)[k] \in Simmed
<1> DEFINE n == Len(data)
           g == [k \in 1 .. n |-> [w \in Simmed |-> SimByte(w, data[k])]]
           Solves(f) == f = [k \in 0 .. n |-> IF k = 0 THEN s ELSE SimByte(f[k - 1], data[k])]
           h == Pass1(s, data)
<1>1. n \in Nat /\ \A k \in 1 .. n : data[k] \in Nat
  OBVIOUS
<1>2. g \in Steps(n, Simmed)
  BY <1>1, SimByteDoes DEF Steps
<1>3. \A w \in Simmed, k \in 1 .. n : g[k][w] = SimByte(w, data[k])
  OBVIOUS
<1>4. h = CHOOSE f : Solves(f)
  BY DEF Pass1
<1> HIDE DEF g, n, h
<1>5. PICK f \in [0 .. n -> Simmed] : f[0] = s /\ \A k \in 1 .. n : f[k] = g[k][f[k - 1]]
  BY <1>1, <1>2, FoldExists
<1>6. Solves(f)
  <2>1. ASSUME NEW k \in 0 .. n PROVE f[k] = IF k = 0 THEN s ELSE SimByte(f[k - 1], data[k])
    <3>1. k # 0 => k \in 1 .. n /\ k - 1 \in 0 .. n
      BY <1>1
    <3> QED
      BY <1>3, <1>5, <3>1
  <2>2. f = [k \in 0 .. n |-> f[k]]
    BY <1>5
  <2> QED
    BY <2>1, <2>2
<1>7. Solves(h)
  <2> HIDE DEF Solves
  <2> QED
    BY <1>4, <1>6
<1>8. \A k \in 0 .. n : h[k] = IF k = 0 THEN s ELSE SimByte(h[k - 1], data[k])
  BY <1>7
<1>9. h[0] = s /\ \A k \in 1 .. n : h[k] = SimByte(h[k - 1], data[k])
  BY <1>1, <1>8
<1>10. \A k \in 0 .. n : h[k] \in Simmed
  <2>1. \A k \in 1 .. n : h[k - 1] \in Simmed => h[k] = g[k][h[k - 1]]
    BY <1>3, <1>9
  <2> QED
    BY <1>1, <1>2, <1>9, <2>1, FoldStays
<1> QED
  BY <1>9, <1>10 DEF n, h

\* A multiple of d reached from below is the next one.
LEMMA NextMultiple ==
  ASSUME NEW d \in Nat \ {0}, NEW m \in Nat, NEW n \in Nat, m * d < n, n <= m * d + d
  PROVE  (n % d = 0) <=> (n = (m + 1) * d)
<1> DEFINE g == n \div d
           r == n % d
<1>1. g \in Nat /\ r \in 0 .. d - 1 /\ n = g * d + r
  BY DivMod
<1>2. m * d \in Nat /\ (m + 1) * d = m * d + d /\ g * d \in Nat /\ m + 1 \in Nat
  BY <1>1, Products
<1> HIDE DEF g, r
<1>3. r = 0 => n = (m + 1) * d
  <2> SUFFICES ASSUME r = 0 PROVE n = (m + 1) * d
    OBVIOUS
  <2>1. n = g * d
    BY <1>1, <1>2
  <2>2. g <= m => g * d <= m * d
    BY <1>1, Products
  <2>3. m + 1 < g => (m + 1) * d + d <= g * d
    BY <1>1, <1>2, Products
  <2>4. g = m + 1
    BY <1>1, <1>2, <2>1, <2>2, <2>3
  <2> QED
    BY <2>1, <2>4
<1>4. n = (m + 1) * d => r = 0
  <2> SUFFICES ASSUME n = (m + 1) * d PROVE r = 0
    OBVIOUS
  <2>1. g < m + 1 => g * d + d <= (m + 1) * d
    BY <1>1, <1>2, Products
  <2>2. m + 1 < g => (m + 1) * d + d <= g * d
    BY <1>1, <1>2, Products
  <2>3. g = m + 1
    BY <1>1, <1>2, <2>1, <2>2
  <2> QED
    BY <1>1, <1>2, <2>3
<1> QED
  BY <1>3, <1>4 DEF r

\* What is noted after text c, and where it is.
InStep(w, c, place) ==
  /\ w.byte = Len(c) /\ Place(w.frame, w.pos) = place + Len(c)
  /\ w.lines = Len(Cuts(c)[Len(c)].lines) /\ (w.has <=> Cuts(c)[Len(c)].cur # <<>>)
  /\ NotesInSync(w.sparse, c, place)
  /\ Len(w.sparse) * LINE_INDEX_INTERVAL <= w.lines
  /\ w.lines < Len(w.sparse) * LINE_INDEX_INTERVAL + LINE_INDEX_INTERVAL

\* A note about the bytes up to its own is about every longer text.
LEMMA NotesStay ==
  ASSUME NEW c \in Seq(Nat), NEW b \in Nat, NEW sparse \in Seq(Note), NEW place \in Nat,
         NotesInSync(sparse, c, place)
  PROVE  NotesInSync(sparse, Append(c, b), place)
<1> DEFINE d == Append(c, b)
<1>1. \A k \in 0 .. Len(c) : Cuts(d)[k] = Cuts(c)[k]
  BY CutsAppend
<1>2. Len(d) = Len(c) + 1 /\ Len(c) \in Nat
  BY AddByte
<1> HIDE DEF d
<1>3. ASSUME NEW e \in DOMAIN sparse
      PROVE  LET n == sparse[e]
             IN  /\ n.byte \in 1 .. Len(d) /\ Place(n.frame, n.pos) = place + n.byte
                 /\ Cuts(d)[n.byte].cur = <<>>
                 /\ Len(Cuts(d)[n.byte].lines) = e * LINE_INDEX_INTERVAL
  <2> DEFINE n == sparse[e]
  <2>1. /\ n.byte \in 1 .. Len(c) /\ Place(n.frame, n.pos) = place + n.byte
        /\ Cuts(c)[n.byte].cur = <<>> /\ Len(Cuts(c)[n.byte].lines) = e * LINE_INDEX_INTERVAL
    BY DEF NotesInSync
  <2> HIDE DEF n
  <2>2. n.byte \in 0 .. Len(c) /\ n.byte \in 1 .. Len(d)
    BY <1>2, <2>1
  <2> QED
    BY <1>1, <2>1, <2>2 DEF n
<1>4. NotesInSync(sparse, d, place)
  BY <1>3 DEF NotesInSync
<1> QED
  BY <1>4 DEF d

\* One byte more is noted as it lies in the text.
LEMMA SimByteInStep ==
  ASSUME NEW w \in Simmed, NEW c \in Seq(Nat), NEW place \in Nat, NEW b \in Nat,
         InStep(w, c, place)
  PROVE  InStep(SimByte(w, b), Append(c, b), place)
<1> DEFINE v == SimByte(w, b)
           d == Append(c, b)
           old == Cuts(c)[Len(c)]
           new == Cuts(d)[Len(d)]
           I == LINE_INDEX_INTERVAL
           m == Len(w.sparse)
<1>1. /\ w.byte = Len(c) /\ Place(w.frame, w.pos) = place + Len(c)
      /\ w.lines = Len(old.lines) /\ (w.has <=> old.cur # <<>>)
      /\ NotesInSync(w.sparse, c, place)
      /\ m * I <= w.lines /\ w.lines < m * I + I
  BY DEF InStep
<1>2. /\ v \in Simmed /\ v.byte = w.byte + 1
      /\ Place(v.frame, v.pos) = Place(w.frame, w.pos) + 1
      /\ b # NL => v.has = TRUE /\ v.lines = w.lines /\ v.sparse = w.sparse
      /\ b = NL => /\ v.has = FALSE
                   /\ v.lines = w.lines + (IF w.has THEN 1 ELSE 0)
                   /\ v.sparse = IF w.has /\ v.lines % I = 0
                                   THEN Append(w.sparse, NoteOf(v)) ELSE w.sparse
  BY SimByteDoes
<1>3. Len(d) = Len(c) + 1 /\ d \in Seq(Nat) /\ Len(c) \in Nat /\ Len(c) \in 0 .. Len(c)
  BY AddByte
<1>4. old \in Cut /\ new = CutByte(old, b)
  BY <1>3, CutsAre, CutsAppend
<1>5. NotesInSync(w.sparse, d, place)
  BY <1>1, NotesStay DEF Simmed
<1>6. /\ w.lines \in Nat /\ w.has \in BOOLEAN /\ w.sparse \in Seq(Note) /\ m \in Nat
      /\ old.lines \in Seq(Line) /\ old.cur \in Line /\ I \in Nat \ {0} /\ m * I \in Nat
  BY <1>4, Consts, Products, SMTT(30) DEF Simmed, Cut
<1> HIDE DEF v, d, old, new
<1>7. CASE b # NL
  <2>1. new = [lines |-> old.lines, cur |-> Append(old.cur, b)]
    BY <1>4, <1>7, CutByteType
  <2>2. new.lines = old.lines /\ new.cur # <<>>
    <3>1. Append(old.cur, b) # <<>>
      <4>1. old.cur \in Seq(Nat)
        BY <1>6 DEF Line
      <4> QED
        BY <4>1, AddByte
    <3> QED
      BY <2>1, <3>1
  <2>3. v.sparse = w.sparse /\ v.lines = w.lines /\ v.has = TRUE
    BY <1>2, <1>7
  <2> QED
    BY <1>1, <1>2, <1>3, <1>5, <2>2, <2>3 DEF InStep, v, d, new
<1>8. CASE b = NL /\ ~w.has
  <2>1. new = old /\ old.cur = <<>>
    <3>1. old.cur = <<>>
      BY <1>1, <1>8
    <3> QED
      BY <1>4, <1>8, <3>1, CutByteType
  <2>2. v.sparse = w.sparse /\ v.lines = w.lines /\ v.has = FALSE
    BY <1>2, <1>6, <1>8
  <2> QED
    BY <1>1, <1>2, <1>3, <1>5, <2>1, <2>2 DEF InStep, v, d, new
<1>9. CASE b = NL /\ w.has
  <2>1. new = [lines |-> Append(old.lines, old.cur), cur |-> <<>>]
    <3>1. old.cur # <<>>
      BY <1>1, <1>9
    <3> QED
      BY <1>4, <1>9, <3>1, CutByteType
  <2>2. new.cur = <<>> /\ Len(new.lines) = w.lines + 1
    BY <1>1, <1>6, <2>1, AddLine
  <2>3. v.has = FALSE /\ v.lines = w.lines + 1
    BY <1>2, <1>6, <1>9
  <2>4. (v.lines % I = 0) <=> (v.lines = (m + 1) * I)
    <3>1. m * I < v.lines /\ v.lines <= m * I + I /\ v.lines \in Nat
      BY <1>1, <1>6, <2>3, SMTT(30)
    <3> QED
      BY <1>6, <3>1, NextMultiple
  <2>5. (m + 1) * I = m * I + I
    BY <1>6, Products
  <2>6. CASE v.lines = (m + 1) * I
    <3> DEFINE note == NoteOf(v)
               sp == Append(w.sparse, note)
    <3>1. v.sparse = sp
      BY <1>2, <1>9, <2>4, <2>6
    <3>2. note.frame = v.frame /\ note.pos = v.pos /\ note.byte = v.byte
      BY DEF NoteOf
    <3>3. note \in Note
      BY <1>2 DEF NoteOf, Note, Simmed
    <3>4. /\ Len(sp) = m + 1 /\ DOMAIN sp = 1 .. m + 1 /\ sp[m + 1] = note
          /\ \A e \in 1 .. m : sp[e] = w.sparse[e]
      BY <1>6, <3>3
    <3> HIDE DEF note, sp
    <3>5. v.byte \in 1 .. Len(d) /\ v.byte = Len(d)
      BY <1>1, <1>2, <1>3
    <3>6. Place(v.frame, v.pos) = place + v.byte
      BY <1>1, <1>2, <1>3
    <3>7. Cuts(d)[v.byte].cur = <<>> /\ Len(Cuts(d)[v.byte].lines) = (m + 1) * I
      BY <2>2, <2>3, <2>6, <3>5 DEF new
    <3>8. NotesInSync(sp, d, place)
      <4> SUFFICES ASSUME NEW e \in DOMAIN sp
                   PROVE  /\ sp[e].byte \in 1 .. Len(d)
                          /\ Place(sp[e].frame, sp[e].pos) = place + sp[e].byte
                          /\ Cuts(d)[sp[e].byte].cur = <<>>
                          /\ Len(Cuts(d)[sp[e].byte].lines) = e * I
        BY DEF NotesInSync
      <4>1. CASE e = m + 1
        BY <3>2, <3>4, <3>5, <3>6, <3>7, <4>1
      <4>2. CASE e # m + 1
        <5>1. e \in 1 .. m /\ e \in DOMAIN w.sparse
          BY <1>6, <3>4, <4>2, SMTT(30)
        <5> QED
          BY <1>5, <3>4, <5>1 DEF NotesInSync
      <4> QED
        BY <4>1, <4>2
    <3>9. Len(v.sparse) * I <= v.lines /\ v.lines < Len(v.sparse) * I + I
      BY <1>6, <2>5, <2>6, <3>1, <3>4
    <3> QED
      BY <1>1, <1>2, <1>3, <2>2, <2>3, <3>1, <3>8, <3>9 DEF InStep, v, d, new
  <2>7. CASE v.lines # (m + 1) * I
    <3>1. v.sparse = w.sparse
      BY <1>2, <2>4, <2>7
    <3>2. Len(v.sparse) * I <= v.lines /\ v.lines < Len(v.sparse) * I + I
      <4> DEFINE x == m * I
      <4>1. x \in Nat /\ x <= w.lines /\ w.lines < x + I /\ w.lines + 1 # x + I
        BY <1>1, <1>6, <2>3, <2>5, <2>7
      <4>2. Len(v.sparse) * I = x
        BY <3>1
      <4> HIDE DEF x, I
      <4>3. x <= w.lines + 1 /\ w.lines + 1 < x + I
        BY <1>6, <4>1
      <4> QED
        BY <2>3, <4>2, <4>3
    <3> QED
      BY <1>1, <1>2, <1>3, <1>5, <2>2, <2>3, <3>1, <3>2 DEF InStep, v, d, new
  <2> QED
    BY <2>6, <2>7
<1> QED
  BY <1>6, <1>7, <1>8, <1>9 DEF v, d

\* Pass 1 notes the lines of the text with the data added.
LEMMA Pass1InStep ==
  ASSUME NEW s \in Simmed, NEW c \in Seq(Nat), NEW place \in Nat, NEW data \in Seq(Nat),
         InStep(s, c, place)
  PROVE  LET v == Pass1(s, data)[Len(data)]
         IN  v \in Simmed /\ InStep(v, c \o data, place)
<1> DEFINE n == Len(data)
           m == Len(c)
           d == c \o data
           h == Pass1(s, data)
           T == {k \in Nat : k <= n => InStep(h[k], SubSeq(d, 1, m + k), place)}
<1>1. /\ n \in Nat /\ m \in Nat /\ d \in Seq(Nat) /\ Len(d) = m + n
      /\ \A k \in 1 .. m : d[k] = c[k]
      /\ \A k \in 1 .. n : data[k] \in Nat /\ d[m + k] = data[k]
  OBVIOUS
<1>2. /\ h[0] = s /\ \A k \in 1 .. n : h[k] = SimByte(h[k - 1], data[k])
      /\ \A k \in 0 .. n : h[k] \in Simmed
  BY Pass1Is
<1> HIDE DEF n, m, h, d
<1>3. 0 \in T
  <2>1. SubSeq(d, 0 + 1, m) = c
    <3>1. 0 \in Nat /\ 0 <= m /\ m <= Len(d) /\ m - 0 = m
      BY <1>1
    <3>2. /\ SubSeq(d, 0 + 1, m) \in Seq(Nat) /\ Len(SubSeq(d, 0 + 1, m)) = m
          /\ \A i \in 1 .. m : SubSeq(d, 0 + 1, m)[i] = d[i]
      BY <1>1, <3>1, SubSeqIs, SMTT(30)
    <3> QED
      BY <1>1, <3>2, SeqEqual DEF m
  <2>2. InStep(h[0], SubSeq(d, 1, m + 0), place)
    <3>1. m + 0 = m /\ 0 + 1 = 1
      BY <1>1
    <3> QED
      BY <1>2, <2>1, <3>1
  <2> QED
    BY <2>2
<1>4. ASSUME NEW k \in Nat, k \in T PROVE k + 1 \in T
  <2> SUFFICES ASSUME k + 1 <= n PROVE InStep(h[k + 1], SubSeq(d, 1, m + (k + 1)), place)
    OBVIOUS
  <2>1. k + 1 \in 1 .. n /\ k \in 0 .. n /\ (k + 1) - 1 = k /\ k <= n /\ m + k \in Nat
        /\ m + k < Len(d) /\ m + (k + 1) = (m + k) + 1 /\ 0 + 1 = 1 /\ 0 <= m + k
    BY <1>1
  <2>2. h[k] \in Simmed /\ h[k + 1] = SimByte(h[k], data[k + 1]) /\ data[k + 1] \in Nat
    BY <1>1, <1>2, <2>1
  <2>3. SubSeq(d, 1, (m + k) + 1) = Append(SubSeq(d, 1, m + k), data[k + 1])
    <3>1. d[(m + k) + 1] = data[k + 1]
      BY <1>1, <2>1
    <3>2. SubSeq(d, 0 + 1, (m + k) + 1) = Append(SubSeq(d, 0 + 1, m + k), d[(m + k) + 1])
      BY <1>1, <2>1, SubSeqAppend
    <3> QED
      BY <2>1, <3>1, <3>2
  <2>4. SubSeq(d, 1, m + k) \in Seq(Nat) /\ InStep(h[k], SubSeq(d, 1, m + k), place)
    BY <1>1, <1>4, <2>1
  <2>5. InStep(SimByte(h[k], data[k + 1]), Append(SubSeq(d, 1, m + k), data[k + 1]), place)
    BY <2>2, <2>4, SimByteInStep
  <2> QED
    BY <2>1, <2>2, <2>3, <2>5
<1>5. n \in T
  <2> HIDE DEF T
  <2> QED
    BY <1>1, <1>3, <1>4, NatSet
<1>6. SubSeq(d, 1, m + n) = d /\ n \in 0 .. n /\ n <= n
  BY <1>1
<1> QED
  BY <1>2, <1>5, <1>6 DEF n, h, d

-----------------------------------------------------------------------------
(* What a step leaves alone.                                               *)

StartOf(s) == Place(s.start_frame, s.start_pos)

LEMMA SectionType ==
  ASSUME NEW s \in Section
  PROVE  /\ s.key \in Key /\ s.key \in Nat /\ s.start_frame \in Nat /\ s.len \in Nat
         /\ s.start_pos \in 0 .. TEXT_FRAME_SIZE - 1
         /\ s.lines \in Nat /\ s.sparse \in Seq(Note) /\ StartOf(s) \in Nat
BY Consts, PlaceIs DEF Section, StartOf

LEMMA TextType ==
  ASSUME NEW t \in Text
  PROVE  t.key \in Key /\ t.key \in Nat /\ t.content \in Seq(Nat) /\ Len(t.content) \in Nat
<1>1. t.key \in Key /\ t.content \in Seq(Nat)
  BY DEF Text
<1>2. t.key \in Nat
  BY <1>1, Consts
<1>3. Len(t.content) \in Nat
  BY <1>1
<1> QED
  BY <1>1, <1>2, <1>3

\* What an entry found it finds again, as long as the bytes are there.
LEMMA EntryStays ==
  ASSUME NEW s \in Section, NEW t \in Text, Entry(s, t),
         \A p, x \in Nat : Stored(frames, frame_buf, p, x) => Stored(frames, frame_buf, p, x)'
  PROVE  Entry(s, t)'
<1>1. \A i \in DOMAIN t.content : Stored(frames, frame_buf, StartOf(s) + i - 1, t.content[i])
  BY DEF Entry, Lies, StartOf
<1>2. \A i \in DOMAIN t.content : Stored(frames, frame_buf, StartOf(s) + i - 1, t.content[i])'
  <2> SUFFICES ASSUME NEW i \in DOMAIN t.content
               PROVE  Stored(frames, frame_buf, StartOf(s) + i - 1, t.content[i])'
    OBVIOUS
  <2>1. StartOf(s) + i - 1 \in Nat /\ t.content[i] \in Nat
    BY SectionType, TextType
  <2> QED
    BY <1>1, <2>1
<1> QED
  BY <1>2 DEF Entry, Lies, StartOf

\* No reader is there before the store is ready.
LEMMA NoReader ==
  ASSUME rd' = Idle
  PROVE  Reading'
BY DEF Reading, Reads, Idle

\* The invariant as the steps use it.
LEMMA Parts ==
  ASSUME IInv
  PROVE  /\ frames \in Seq(Line) /\ frame_buf \in Line /\ Len(frame_buf) < TEXT_FRAME_SIZE
         /\ sections \in Seq(Section) /\ text \in Seq(Text) /\ Len(sections) \in Nat
         /\ DOMAIN sections = 1 .. Len(sections) /\ DOMAIN text = 1 .. Len(text)
         /\ sw \in Writer \cup {NoWriter} /\ (sw.active => sw \in Writer)
         /\ (~sw.active => sw = NoWriter) /\ sw.active \in BOOLEAN
         /\ Len(text) = Len(sections) + (IF sw.active THEN 1 ELSE 0)
         /\ Len(text) \in Nat /\ Len(sections) <= Len(text)
         /\ (~sw.active => Len(text) = Len(sections)) /\ (sw.active => Len(text) = Len(sections) + 1)
         /\ \E q \in Orders(Len(sections)) : \A i \in DOMAIN sections : Entry(sections[i], text[q[i]])
         /\ \A i \in 1 .. Len(sections) : sections[i] \in Section
         /\ \A j \in 1 .. Len(text) : text[j] \in Text
         /\ \A n \in Nat : \A q \in Orders(n), i \in 1 .. n : q[i] \in 1 .. n
<1>1. Shape /\ TypeOK
  BY DEF IInv, EntriesFindText
<1>2. frames \in Seq(Line) /\ frame_buf \in Line /\ sections \in Seq(Section) /\ text \in Seq(Text)
  BY <1>1 DEF Shape, Line
<1>3. Len(frame_buf) < TEXT_FRAME_SIZE
  BY <1>1, Consts DEF TypeOK
<1>4. sw \in Writer \cup {NoWriter} /\ (sw.active => sw \in Writer) /\ (~sw.active => sw = NoWriter)
  <2>1. sw \in Writer \cup {NoWriter}
    BY <1>1 DEF Shape
  <2>2. sw \in Writer => sw.active
    BY DEF Writer
  <2>3. ~NoWriter.active
    BY DEF NoWriter
  <2> HIDE <1>1
  <2> QED
    BY <2>1, <2>2, <2>3
<1>5. \A n \in Nat : \A q \in Orders(n), i \in 1 .. n : q[i] \in 1 .. n
  BY DEF Orders
<1>6. /\ Len(text) = Len(sections) + (IF sw.active THEN 1 ELSE 0)
      /\ \E q \in Orders(Len(sections)) : \A i \in DOMAIN sections : Entry(sections[i], text[q[i]])
      /\ sw.active \in BOOLEAN
  BY <1>1 DEF IInv, EntriesFindText, TypeOK
<1>7. /\ Len(sections) \in Nat /\ DOMAIN sections = 1 .. Len(sections) /\ DOMAIN text = 1 .. Len(text)
      /\ \A i \in 1 .. Len(sections) : sections[i] \in Section
      /\ \A j \in 1 .. Len(text) : text[j] \in Text
  BY <1>2
<1>8. Len(text) \in Nat
  BY <1>2
<1>9. /\ (~sw.active => Len(text) = Len(sections)) /\ (sw.active => Len(text) = Len(sections) + 1)
      /\ Len(sections) <= Len(text)
  <2>1. CASE sw.active
    BY <1>6, <1>7, <2>1
  <2>2. CASE ~sw.active
    <3>1. (IF sw.active THEN 1 ELSE 0) = 0
      BY <2>2
    <3>2. Len(text) = Len(sections) + 0
      BY <1>6, <3>1
    <3>3. Len(text) = Len(sections) /\ Len(sections) <= Len(text)
      BY <1>7, <3>2
    <3> QED
      BY <2>2, <3>3, Zenon
  <2> QED
    BY <2>1, <2>2
<1> QED
  BY <1>2, <1>3, <1>4, <1>5, <1>6, <1>7, <1>8, <1>9, Zenon

\* While a store is open, its frames are as the passes need them.
LEMMA OpenStore ==
  ASSUME IInv, phase = "open"
  PROVE  /\ rd = Idle /\ BytesWritten <= MaxBytes
         /\ [frames |-> frames, buf |-> frame_buf] \in Packed
         /\ BytesWritten = End(frames, frame_buf) /\ BytesWritten \in Nat
         /\ BytesWritten = Place(Len(frames), Len(frame_buf))
<1>1. Shape /\ TypeOK
  BY DEF IInv, EntriesFindText
<1>2. rd = Idle /\ BytesWritten <= MaxBytes
  BY <1>1 DEF Shape
<1>3. \A i \in DOMAIN frames : Len(frames[i]) = TEXT_FRAME_SIZE
  BY <1>1 DEF TypeOK
<1>4. [frames |-> frames, buf |-> frame_buf] \in Packed
  BY <1>3, Parts, Zenon DEF Packed
<1>5. BytesWritten = End(frames, frame_buf)
  BY DEF BytesWritten, End
<1> QED
  BY <1>2, <1>4, <1>5, Parts, EndIs, Zenon

\* What the type invariant says of the frames, in one set.
LEMMA PackedType ==
  ASSUME NEW w \in Packed
  PROVE  /\ w.frames \in Seq(Line) /\ w.buf \in Line /\ Len(w.buf) \in 0 .. TEXT_FRAME_SIZE - 1
         /\ \A i \in DOMAIN w.frames : /\ Len(w.frames[i]) \in 1 .. TEXT_FRAME_SIZE
                                       /\ Len(w.frames[i]) = TEXT_FRAME_SIZE
<1>1. /\ w.frames \in Seq(Line) /\ w.buf \in Line /\ Len(w.buf) < TEXT_FRAME_SIZE
      /\ \A i \in DOMAIN w.frames : Len(w.frames[i]) = TEXT_FRAME_SIZE
  BY DEF Packed
<1>2. Len(w.buf) \in Nat
  BY <1>1 DEF Line
<1> QED
  BY <1>1, <1>2, Consts

\* The section in progress, with the notes as pass 1 takes them up.
Noting == [frame |-> Len(frames), pos |-> Len(frame_buf), byte |-> sw.total,
           lines |-> sw.lines, has |-> sw.has, sparse |-> sw.sparse]

LEMMA WriterAt ==
  ASSUME IInv, phase = "open", sw.active
  PROVE  LET t == text[Len(text)]
         IN  /\ Len(text) \in 1 .. Len(text) /\ t \in Text /\ StartOf(sw) \in Nat
             /\ t.key = sw.key /\ sw.total = Len(t.content) /\ Lies(t.content, StartOf(sw))
             /\ StartOf(sw) + sw.total = BytesWritten
             /\ Noting \in Simmed /\ InStep(Noting, t.content, StartOf(sw))
<1> DEFINE t == text[Len(text)]
<1>1. sw \in Writer /\ Len(text) \in 1 .. Len(text) /\ t \in Text
  BY Parts
<1>2. /\ sw.start_frame \in Nat /\ sw.start_pos \in 0 .. TEXT_FRAME_SIZE - 1 /\ sw.total \in Nat
      /\ sw.lines \in Nat /\ sw.has \in BOOLEAN /\ sw.sparse \in Seq(Note)
  BY <1>1 DEF Writer
<1>3. StartOf(sw) \in Nat
  BY <1>2, PlaceIs DEF StartOf
<1>4. /\ t.key = sw.key /\ sw.total = Len(t.content) /\ Lies(t.content, StartOf(sw))
      /\ StartOf(sw) + sw.total = BytesWritten
      /\ sw.lines = Len(Cuts(t.content)[Len(t.content)].lines)
      /\ (sw.has <=> Cuts(t.content)[Len(t.content)].cur # <<>>)
      /\ NotesInSync(sw.sparse, t.content, StartOf(sw))
      /\ Len(sw.sparse) * LINE_INDEX_INTERVAL <= sw.lines
      /\ sw.lines < Len(sw.sparse) * LINE_INDEX_INTERVAL + LINE_INDEX_INTERVAL
  BY DEF IInv, Writing, StartOf
<1>5. /\ Len(frames) \in Nat /\ Len(frame_buf) \in 0 .. TEXT_FRAME_SIZE - 1
      /\ Place(Len(frames), Len(frame_buf)) = StartOf(sw) + Len(t.content)
  <2>1. frames \in Seq(Line) /\ Len(frame_buf) \in 0 .. TEXT_FRAME_SIZE - 1
    BY OpenStore, PackedType
  <2> QED
    BY <1>4, <2>1, OpenStore
<1>6. Noting \in Simmed
  BY <1>2, <1>5 DEF Noting, Simmed
<1>7. InStep(Noting, t.content, StartOf(sw))
  <2>1. /\ Noting.frame = Len(frames) /\ Noting.pos = Len(frame_buf) /\ Noting.byte = sw.total
        /\ Noting.lines = sw.lines /\ Noting.has = sw.has /\ Noting.sparse = sw.sparse
    BY DEF Noting
  <2> HIDE DEF t
  <2> QED
    BY <1>4, <1>5, <2>1 DEF InStep
<1> QED
  BY <1>1, <1>3, <1>4, <1>6, <1>7

-----------------------------------------------------------------------------
(* The writer.                                                             *)

\* The parts of the invariant, as a writer step has to keep them.
LEMMA Assemble ==
  ASSUME TypeOK', Shape', Writing', rd' = Idle,
         (Len(text) = Len(sections) + (IF sw.active THEN 1 ELSE 0))',
         (\E q \in Orders(Len(sections)) : \A i \in DOMAIN sections : Entry(sections[i], text[q[i]]))'
  PROVE  IInv'
BY NoReader DEF IInv, EntriesFindText

\* A text that gets longer keeps its place and its key, and the others stay.
LEMMA Longer ==
  ASSUME NEW tt \in Seq(Text), NEW data \in Seq(Nat), Len(tt) \in 1 .. Len(tt)
  PROVE  LET uu == [tt EXCEPT ![Len(tt)].content = @ \o data]
             t == tt[Len(tt)]
         IN  /\ uu \in Seq(Text) /\ Len(uu) = Len(tt)
             /\ uu[Len(tt)] = [key |-> t.key, content |-> t.content \o data]
             /\ \A j \in 1 .. Len(tt) : j # Len(tt) => uu[j] = tt[j]
<1> DEFINE L == Len(tt)
           t == tt[L]
           t2 == [key |-> t.key, content |-> t.content \o data]
           uu == [tt EXCEPT ![L].content = @ \o data]
<1>1. L \in DOMAIN tt /\ t \in Text
  OBVIOUS
<1>2. t = [key |-> t.key, content |-> t.content] /\ t.key \in Key /\ t.content \in Seq(Nat)
  BY <1>1 DEF Text
<1>3. t.content \o data \in Seq(Nat)
  BY <1>2
<1>4. t2 \in Text
  BY <1>2, <1>3 DEF Text
<1>5. [t EXCEPT !.content = t.content \o data] = t2
  <2>1. \A k, x, y : [[key |-> k, content |-> x] EXCEPT !.content = y] = [key |-> k, content |-> y]
    OBVIOUS
  <2>2. [[key |-> t.key, content |-> t.content] EXCEPT !.content = t.content \o data] = t2
    BY <2>1
  <2> QED
    BY <1>2, <2>2, Zenon
<1>6. uu = [tt EXCEPT ![L] = t2]
  BY <1>5
<1> HIDE DEF t2
<1>7. /\ [tt EXCEPT ![L] = t2] \in Seq(Text) /\ Len([tt EXCEPT ![L] = t2]) = L
      /\ [tt EXCEPT ![L] = t2][L] = t2
      /\ \A j \in 1 .. L : j # L => [tt EXCEPT ![L] = t2][j] = tt[j]
  BY <1>1, <1>4, ExceptSeq
<1> QED
  BY <1>6, <1>7 DEF t2

LEMMA WriteKeeps ==
  ASSUME IInv, NEW data \in Seq(Nat), Write(data)
  PROVE  IInv'
<1> DEFINE n == Len(data)
           L == Len(text)
           t == text[L]
           c == t.content
           w == [frames |-> frames, buf |-> frame_buf]
           v == Pass2(w, data)[n]
           u == Pass1(Noting, data)[n]
           place == StartOf(sw)
<1>1. /\ phase = "open" /\ sw.active /\ BytesWritten + n <= MaxBytes
      /\ sw' = [sw EXCEPT !.total = @ + n, !.lines = u.lines, !.has = u.has, !.sparse = u.sparse]
      /\ frames' = v.frames /\ frame_buf' = v.buf
      /\ text' = [text EXCEPT ![L].content = @ \o data]
      /\ phase' = phase /\ sections' = sections /\ rd' = rd
  BY DEF Write, Sim, Copy, Noting
<1>2. n \in Nat /\ \A i \in 1 .. n : data[i] \in Nat
  OBVIOUS
<1>3. /\ L \in 1 .. L /\ t \in Text /\ place \in Nat /\ t.key = sw.key
      /\ sw.total = Len(c) /\ Lies(c, place) /\ place + sw.total = BytesWritten
      /\ Noting \in Simmed /\ InStep(Noting, c, place) /\ c \in Seq(Nat) /\ Len(c) \in Nat
  BY <1>1, WriterAt, TextType
<1>4. /\ rd = Idle /\ w \in Packed /\ BytesWritten = End(frames, frame_buf) /\ BytesWritten \in Nat
  BY <1>1, OpenStore
<1>5. /\ v \in Packed /\ Keeps(w, v) /\ End(v.frames, v.buf) = BytesWritten + n
      /\ \A i \in 1 .. n : Stored(v.frames, v.buf, BytesWritten + i - 1, data[i])
  <2>1. w.frames = frames /\ w.buf = frame_buf
    OBVIOUS
  <2> HIDE DEF w
  <2> QED
    BY <1>4, <2>1, Pass2Stores
<1>6. u \in Simmed /\ InStep(u, c \o data, place)
  BY <1>3, Pass1InStep
<1>7. \A p, x \in Nat : Stored(frames, frame_buf, p, x) => Stored(frames, frame_buf, p, x)'
  <2>1. \A p, x \in Nat : Stored(frames, frame_buf, p, x) => Stored(v.frames, v.buf, p, x)
    BY <1>5 DEF Keeps
  <2> HIDE DEF v
  <2> QED
    BY <1>1, <2>1 DEF Stored, Chunk
<1> DEFINE d == c \o data
<1>8. /\ d \in Seq(Nat) /\ Len(d) = Len(c) + n
      /\ \A i \in 1 .. Len(c) : d[i] = c[i]
      /\ \A i \in 1 .. n : d[Len(c) + i] = data[i]
  BY <1>2, <1>3
<1>9. /\ text' \in Seq(Text) /\ Len(text') = L /\ text'[L] = [key |-> t.key, content |-> d]
      /\ \A j \in 1 .. L : j # L => text'[j] = text[j]
  BY <1>1, <1>3, Parts, Longer
<1>10. sw \in Writer
  BY <1>1, Parts
<1> HIDE DEF n, L, t, c, w, v, u, place, d
<1>11. /\ sw' \in Writer /\ sw'.active /\ sw'.key = sw.key /\ sw'.total = sw.total + n
       /\ sw'.start_frame = sw.start_frame /\ sw'.start_pos = sw.start_pos
       /\ sw'.lines = u.lines /\ sw'.has = u.has /\ sw'.sparse = u.sparse
  <2>1. /\ u.lines \in Nat /\ u.has \in BOOLEAN /\ u.sparse \in Seq(Note)
    BY <1>6 DEF Simmed
  <2>2. sw.total + n \in Nat
    BY <1>2, <1>10 DEF Writer
  <2> QED
    BY <1>1, <1>10, <2>1, <2>2 DEF Writer
<1>12. End(frames', frame_buf') = BytesWritten + n /\ BytesWritten' = BytesWritten + n
  BY <1>1, <1>5 DEF BytesWritten, End
<1>13. TypeOK'
  <2>1. /\ \A i \in DOMAIN frames' : /\ Len(frames'[i]) \in 1 .. TEXT_FRAME_SIZE
                                     /\ Len(frames'[i]) = TEXT_FRAME_SIZE
        /\ Len(frame_buf') \in 0 .. TEXT_FRAME_SIZE - 1
    BY <1>1, <1>5, PackedType
  <2>2. \A i \in DOMAIN sections : sections[i].key \in Key /\ sections[i].len \in 1 .. MaxBytes
                                     /\ sections[i].lines \in 0 .. sections[i].len
    BY DEF IInv, EntriesFindText, TypeOK
  <2>3. rd' = Idle /\ phase' = "open" /\ sw'.active \in BOOLEAN
    BY <1>1, <1>4, <1>11
  <2> QED
    BY <1>1, <2>1, <2>2, <2>3 DEF TypeOK, Busy, Idle
<1>14. Shape'
  <2>1. frames' \in Seq(Seq(Nat)) /\ frame_buf' \in Seq(Nat)
    BY <1>1, <1>5, PackedType DEF Line
  <2>2. BytesWritten' <= MaxBytes
    BY <1>1, <1>12
  <2> QED
    BY <1>1, <1>4, <1>9, <1>11, <2>1, <2>2, Parts DEF Shape
<1>15. Writing'
  <2>1. \A i \in DOMAIN d : Stored(frames', frame_buf', place + i - 1, d[i])
    <3> SUFFICES ASSUME NEW i \in DOMAIN d PROVE Stored(frames', frame_buf', place + i - 1, d[i])
      OBVIOUS
    <3>1. i \in 1 .. Len(c) + n
      BY <1>8
    <3>2. CASE i \in 1 .. Len(c)
      <4>1. Stored(frames, frame_buf, place + i - 1, c[i]) /\ c[i] \in Nat
        BY <1>3, <3>2, SMTT(30) DEF Lies
      <4>2. place + i - 1 \in Nat
        BY <1>3, <3>2
      <4> QED
        BY <1>5, <1>1, <1>8, <3>2, <4>1, <4>2 DEF Keeps, w
    <3>3. CASE i \notin 1 .. Len(c)
      <4> DEFINE k == i - Len(c)
      <4>1. k \in 1 .. n /\ i = Len(c) + k
        BY <1>2, <1>3, <3>1, <3>3
      <4>2. place + i - 1 = BytesWritten + k - 1
        BY <1>3, <4>1
      <4> QED
        BY <1>1, <1>5, <1>8, <4>1, <4>2
    <3> QED
      BY <3>2, <3>3
  <2>2. text'[Len(text')].key = sw'.key /\ text'[Len(text')].content = d
    BY <1>3, <1>9, <1>11
  <2>3. Place(sw'.start_frame, sw'.start_pos) = place
    BY <1>11 DEF StartOf, place
  <2>4. sw'.total = Len(d) /\ place + sw'.total = BytesWritten'
    BY <1>2, <1>3, <1>4, <1>8, <1>11, <1>12
  <2>5. /\ sw'.lines = Len(Cuts(d)[Len(d)].lines) /\ (sw'.has <=> Cuts(d)[Len(d)].cur # <<>>)
        /\ NotesInSync(sw'.sparse, d, place)
        /\ Len(sw'.sparse) * LINE_INDEX_INTERVAL <= sw'.lines
        /\ sw'.lines < Len(sw'.sparse) * LINE_INDEX_INTERVAL + LINE_INDEX_INTERVAL
    BY <1>6, <1>11 DEF InStep, d
  <2> QED
    BY <2>1, <2>2, <2>3, <2>4, <2>5 DEF Writing, Lies
<1>16. (Len(text) = Len(sections) + (IF sw.active THEN 1 ELSE 0))'
  BY <1>1, <1>9, <1>11, Parts, Zenon DEF L
<1>17. (\E q \in Orders(Len(sections)) : \A i \in DOMAIN sections : Entry(sections[i], text[q[i]]))'
  <2>1. PICK q \in Orders(Len(sections)) : \A i \in DOMAIN sections : Entry(sections[i], text[q[i]])
    BY Parts, Zenon
  <2>2. ASSUME NEW i \in DOMAIN sections PROVE Entry(sections[i], text[q[i]])'
    <3>1. i \in 1 .. Len(sections) /\ q[i] \in 1 .. Len(sections) /\ L = Len(sections) + 1
          /\ Len(sections) \in Nat
      BY <1>1, <2>1, Parts, Zenon DEF L
    <3>2. q[i] \in 1 .. L /\ q[i] # L
      BY <3>1
    <3>3. text'[q[i]] = text[q[i]] /\ text[q[i]] \in Text /\ sections[i] \in Section
      BY <1>9, <3>1, <3>2, Parts, Zenon DEF L
    <3> DEFINE s0 == sections[i]
               t0 == text[q[i]]
    <3>4. Entry(s0, t0)
      BY <2>1
    <3>5. sections'[i] = s0 /\ text'[q[i]] = t0
      BY <1>1, <3>3
    <3> HIDE DEF s0, t0
    <3> QED
      BY <1>7, <3>3, <3>4, <3>5, EntryStays DEF s0, t0
  <2> QED
    BY <1>1, <2>1, <2>2, Zenon
<1> QED
  BY <1>1, <1>4, <1>13, <1>14, <1>15, <1>16, <1>17, Assemble

\* Entries whose bytes, texts and place in the index are unchanged.
LEMMA EntriesStay ==
  ASSUME IInv, sections' = sections,
         \A p, x \in Nat : Stored(frames, frame_buf, p, x) => Stored(frames, frame_buf, p, x)',
         \A j \in 1 .. Len(sections) : text'[j] = text[j]
  PROVE  (\E q \in Orders(Len(sections)) : \A i \in DOMAIN sections : Entry(sections[i], text[q[i]]))'
<1>1. PICK q \in Orders(Len(sections)) : \A i \in DOMAIN sections : Entry(sections[i], text[q[i]])
  BY Parts, Zenon
<1>2. ASSUME NEW i \in DOMAIN sections PROVE Entry(sections[i], text[q[i]])'
  <2>1. /\ i \in 1 .. Len(sections) /\ q[i] \in 1 .. Len(sections)
        /\ Len(sections) <= Len(text) /\ Len(sections) \in Nat /\ Len(text) \in Nat
    BY <1>1, Parts, Zenon
  <2>2. q[i] \in 1 .. Len(text) /\ text[q[i]] \in Text /\ sections[i] \in Section
    <3>1. q[i] \in 1 .. Len(text)
      BY <2>1
    <3> QED
      BY <2>1, <3>1, Parts, Zenon
  <2> DEFINE s0 == sections[i]
             t0 == text[q[i]]
  <2>3. Entry(s0, t0)
    BY <1>1
  <2>4. sections'[i] = s0 /\ text'[q[i]] = t0
    BY <2>1
  <2> HIDE DEF s0, t0
  <2> QED
    BY <2>2, <2>3, <2>4, EntryStays DEF s0, t0
<1> QED
  BY <1>1, <1>2

\* Frames and buffer unchanged: so is what is stored.
LEMMA BytesStay ==
  ASSUME frames' = frames, frame_buf' = frame_buf
  PROVE  \A p, x \in Nat : Stored(frames, frame_buf, p, x) => Stored(frames, frame_buf, p, x)'
BY DEF Stored, Chunk

LEMMA BeginKeeps ==
  ASSUME IInv, NEW k \in Key, BeginSection(k)
  PROVE  IInv'
<1> DEFINE L == Len(text)
           t == [key |-> k, content |-> <<>>]
<1>1. /\ phase = "open" /\ ~sw.active
      /\ sw' = [active |-> TRUE, key |-> k, start_frame |-> Len(frames),
                start_pos |-> Len(frame_buf), total |-> 0, lines |-> 0, has |-> FALSE,
                sparse |-> <<>>]
      /\ text' = Append(text, t)
      /\ phase' = phase /\ frames' = frames /\ frame_buf' = frame_buf
      /\ sections' = sections /\ rd' = rd
  BY DEF BeginSection
<1>2. /\ rd = Idle /\ BytesWritten <= MaxBytes /\ BytesWritten \in Nat
      /\ BytesWritten = Place(Len(frames), Len(frame_buf))
      /\ Len(frames) \in Nat /\ Len(frame_buf) \in 0 .. TEXT_FRAME_SIZE - 1
  <2>1. frames \in Seq(Line) /\ Len(frame_buf) \in 0 .. TEXT_FRAME_SIZE - 1
    BY <1>1, OpenStore, PackedType
  <2> QED
    BY <1>1, <2>1, OpenStore
<1>3. t \in Text /\ text \in Seq(Text) /\ L = Len(sections) /\ L \in Nat
  <2>1. <<>> \in Seq(Nat)
    OBVIOUS
  <2>2. t \in Text
    BY <2>1 DEF Text
  <2> QED
    BY <1>1, <2>2, Parts, Zenon
<1>4. /\ text' \in Seq(Text) /\ Len(text') = L + 1 /\ text'[L + 1] = t
      /\ \A j \in 1 .. L : text'[j] = text[j]
  <2> HIDE DEF t
  <2> QED
    BY <1>1, <1>3
<1>5. /\ sw' \in Writer /\ sw'.active /\ sw'.key = k /\ sw'.total = 0 /\ sw'.lines = 0
      /\ sw'.has = FALSE /\ sw'.sparse = <<>>
      /\ sw'.start_frame = Len(frames) /\ sw'.start_pos = Len(frame_buf)
  BY <1>1, <1>2 DEF Writer
<1>6. TypeOK'
  BY <1>1, <1>2, <1>5 DEF IInv, EntriesFindText, TypeOK, Busy, Idle
<1>7. Shape'
  <2>1. BytesWritten' = BytesWritten
    BY <1>1 DEF BytesWritten
  <2>2. Shape
    BY DEF IInv
  <2> QED
    BY <1>1, <1>2, <1>4, <1>5, <2>1, <2>2 DEF Shape
<1>8. Writing'
  <2>1. /\ text'[Len(text')].key = k /\ text'[Len(text')].content = <<>>
    BY <1>3, <1>4
  <2>2. Cuts(<<>>)[0].lines = <<>> /\ Cuts(<<>>)[0].cur = <<>> /\ Len(<<>>) = 0
    <3>1. <<>> \in Seq(Nat) /\ Len(<<>>) = 0
      OBVIOUS
    <3>2. Cuts(<<>>)[0] = NoLines
      BY <3>1, CutsAre
    <3> QED
      BY <3>1, <3>2 DEF NoLines
  <2>3. Place(sw'.start_frame, sw'.start_pos) + sw'.total = BytesWritten'
    <3>1. BytesWritten' = BytesWritten
      BY <1>1 DEF BytesWritten
    <3> QED
      BY <1>2, <1>5, <3>1
  <2>4. /\ \A i \in DOMAIN <<>> : FALSE
        /\ 0 * LINE_INDEX_INTERVAL <= 0 /\ 0 < 0 * LINE_INDEX_INTERVAL + LINE_INDEX_INTERVAL
    BY Consts
  <2> QED
    BY <1>5, <2>1, <2>2, <2>3, <2>4 DEF Writing, Lies, NotesInSync
<1>9. (Len(text) = Len(sections) + (IF sw.active THEN 1 ELSE 0))'
  BY <1>1, <1>3, <1>4, <1>5
<1>10. (\E q \in Orders(Len(sections)) : \A i \in DOMAIN sections : Entry(sections[i], text[q[i]]))'
  BY <1>1, <1>3, <1>4, BytesStay, EntriesStay
<1> QED
  BY <1>1, <1>2, <1>6, <1>7, <1>8, <1>9, <1>10, Assemble

LEMMA ErrorKeeps ==
  ASSUME IInv, WriteError
  PROVE  IInv'
<1>1. /\ phase = "open" /\ phase' = "failed" /\ frames' = frames /\ frame_buf' = frame_buf
      /\ sections' = sections /\ sw' = sw /\ text' = text /\ rd' = rd
  BY DEF WriteError
<1>2. rd = Idle
  BY <1>1, OpenStore
<1>3. TypeOK'
  <2>1. TypeOK
    BY DEF IInv, EntriesFindText
  <2> QED
    BY <1>1, <1>2, <2>1 DEF TypeOK, Busy, Idle
<1>4. Shape'
  <2>1. Shape
    BY DEF IInv
  <2> QED
    BY <1>1, <1>2, <2>1 DEF Shape
<1>5. Writing'
  <2>1. Writing
    BY DEF IInv
  <2>2. BytesWritten' = BytesWritten
    BY <1>1 DEF BytesWritten
  <2> QED
    BY <1>1, <2>1, <2>2 DEF Writing, Lies
<1>6. (Len(text) = Len(sections) + (IF sw.active THEN 1 ELSE 0))'
  BY <1>1, Parts, Zenon
<1>7. (\E q \in Orders(Len(sections)) : \A i \in DOMAIN sections : Entry(sections[i], text[q[i]]))'
  BY <1>1, BytesStay, EntriesStay
<1> QED
  BY <1>1, <1>2, <1>3, <1>4, <1>5, <1>6, <1>7, Assemble

\* One section more, found in the text it was written from.
LEMMA OneMore ==
  ASSUME NEW n \in Nat, NEW q \in Orders(n)
  PROVE  LET r == [i \in 1 .. n + 1 |-> IF i = n + 1 THEN n + 1 ELSE q[i]]
         IN  r \in Orders(n + 1)
<1> DEFINE r == [i \in 1 .. n + 1 |-> IF i = n + 1 THEN n + 1 ELSE q[i]]
<1>1. q \in [1 .. n -> 1 .. n] /\ Range(q) = 1 .. n
  BY DEF Orders
<1>2. r \in [1 .. n + 1 -> 1 .. n + 1]
  <2> SUFFICES ASSUME NEW i \in 1 .. n + 1 PROVE r[i] \in 1 .. n + 1
    OBVIOUS
  <2>1. CASE i = n + 1
    BY <2>1
  <2>2. CASE i # n + 1
    <3>1. i \in 1 .. n
      BY <2>2
    <3>2. q[i] \in 1 .. n
      BY <1>1, <3>1
    <3> QED
      BY <2>2, <3>2
  <2> QED
    BY <2>1, <2>2
<1>3. \A j \in 1 .. n + 1 : \E i \in 1 .. n + 1 : r[i] = j
  <2> SUFFICES ASSUME NEW j \in 1 .. n + 1 PROVE \E i \in 1 .. n + 1 : r[i] = j
    OBVIOUS
  <2>1. CASE j = n + 1
    BY <2>1
  <2>2. CASE j # n + 1
    <3>1. j \in Range(q)
      BY <1>1, <2>2
    <3>2. PICK i \in DOMAIN q : q[i] = j
      BY <3>1 DEF Range
    <3>3. i \in 1 .. n /\ i \in 1 .. n + 1 /\ i # n + 1
      BY <1>1, <3>2
    <3> QED
      BY <3>2, <3>3
  <2> QED
    BY <2>1, <2>2
<1>4. Range(r) = 1 .. n + 1
  <2> HIDE DEF r
  <2> QED
    BY <1>2, <1>3 DEF Range
<1> QED
  BY <1>2, <1>4 DEF Orders

LEMMA FinishSectionKeeps ==
  ASSUME IInv, FinishSection
  PROVE  IInv'
<1> DEFINE L == Len(text)
           n == Len(sections)
           t == text[L]
           c == t.content
           s == [key |-> sw.key, start_frame |-> sw.start_frame, start_pos |-> sw.start_pos,
                 len |-> sw.total, lines |-> LineCount, sparse |-> sw.sparse]
<1>1. /\ phase = "open" /\ sw.active /\ sw' = NoWriter
      /\ phase' = phase /\ frames' = frames /\ frame_buf' = frame_buf /\ rd' = rd
      /\ sw.total = 0 => text' = SubSeq(text, 1, L - 1) /\ sections' = sections
      /\ sw.total # 0 => sections' = Append(sections, s) /\ text' = text
  BY DEF FinishSection
<1>2. /\ L \in 1 .. L /\ t \in Text /\ StartOf(sw) \in Nat /\ t.key = sw.key
      /\ sw.total = Len(c) /\ Lies(c, StartOf(sw)) /\ StartOf(sw) + sw.total = BytesWritten
      /\ Noting \in Simmed /\ InStep(Noting, c, StartOf(sw)) /\ c \in Seq(Nat)
  BY <1>1, WriterAt, TextType
<1>3. rd = Idle /\ BytesWritten <= MaxBytes /\ BytesWritten \in Nat
  BY <1>1, OpenStore
<1>4. L = n + 1 /\ n \in Nat /\ text \in Seq(Text) /\ sections \in Seq(Section)
  BY <1>1, Parts, Zenon
<1>5. ~NoWriter.active
  BY DEF NoWriter
<1>6. BytesWritten' = BytesWritten
  BY <1>1 DEF BytesWritten
<1>7. Writing'
  BY <1>1, <1>5 DEF Writing
<1>8. TypeOK /\ Shape
  BY DEF IInv, EntriesFindText
<1>9. CASE sw.total = 0
  <2>1. text' = SubSeq(text, 1, n) /\ sections' = sections
    BY <1>1, <1>4, <1>9
  <2>2. /\ text' \in Seq(Text) /\ Len(text') = n /\ \A j \in 1 .. n : text'[j] = text[j]
    BY <1>4, <2>1
  <2>3. TypeOK'
    BY <1>1, <1>3, <1>5, <1>8, <2>1 DEF TypeOK, Busy, Idle, NoWriter
  <2>4. Shape'
    BY <1>1, <1>3, <1>6, <1>8, <2>1, <2>2 DEF Shape
  <2>5. (Len(text) = Len(sections) + (IF sw.active THEN 1 ELSE 0))'
    BY <1>1, <1>4, <1>5, <2>1, <2>2
  <2>6. (\E q \in Orders(Len(sections)) : \A i \in DOMAIN sections : Entry(sections[i], text[q[i]]))'
    BY <1>1, <2>1, <2>2, BytesStay, EntriesStay
  <2> QED
    BY <1>1, <1>3, <1>7, <2>3, <2>4, <2>5, <2>6, Assemble
<1>10. CASE sw.total # 0
  <2>1. sections' = Append(sections, s) /\ text' = text
    BY <1>1, <1>10
  <2>2. sw \in Writer
    BY <1>1, Parts
  <2>3. /\ sw.key \in Key /\ sw.start_frame \in Nat /\ sw.start_pos \in 0 .. TEXT_FRAME_SIZE - 1
        /\ sw.total \in Nat /\ sw.lines \in Nat /\ sw.has \in BOOLEAN /\ sw.sparse \in Seq(Note)
    BY <2>2 DEF Writer
  <2>4. LineCount \in Nat /\ LineCount = Len(LinesOf(c)) /\ LineCount <= Len(c)
    <3> DEFINE cut == Cuts(c)[Len(c)]
    <3>1. sw.lines = Len(cut.lines) /\ (sw.has <=> cut.cur # <<>>)
      BY <1>2 DEF InStep, Noting
    <3>2. Len(LinesOf(c)) = Begun(cut) /\ Len(LinesOf(c)) <= Len(c)
      BY <1>2, LinesBound
    <3> HIDE DEF cut
    <3>3. LineCount = Begun(cut) /\ LineCount \in Nat
      <4>1. CASE cut.cur = <<>>
        <5>1. (IF sw.has THEN 1 ELSE 0) = 0 /\ (IF cut.cur = <<>> THEN 0 ELSE 1) = 0
          BY <3>1, <4>1
        <5>2. LineCount = sw.lines + 0 /\ Begun(cut) = Len(cut.lines) + 0
          BY <5>1, Zenon DEF LineCount, Begun
        <5> QED
          BY <2>3, <3>1, <5>2
      <4>2. CASE cut.cur # <<>>
        <5>1. (IF sw.has THEN 1 ELSE 0) = 1 /\ (IF cut.cur = <<>> THEN 0 ELSE 1) = 1
          BY <3>1, <4>2
        <5>2. LineCount = sw.lines + 1 /\ Begun(cut) = Len(cut.lines) + 1
          BY <5>1, Zenon DEF LineCount, Begun
        <5> QED
          BY <2>3, <3>1, <5>2
      <4> QED
        BY <4>1, <4>2
    <3> QED
      BY <3>2, <3>3
  <2>5. s \in Section
    BY <2>3, <2>4 DEF Section
  <2>6. Entry(s, t)
    <3>1. s.key = t.key /\ s.len = Len(c) /\ s.lines = Len(LinesOf(c))
      BY <1>2, <2>4
    <3>2. Place(s.start_frame, s.start_pos) = StartOf(sw)
      BY DEF StartOf
    <3>3. NotesInSync(s.sparse, c, StartOf(sw))
      BY <1>2 DEF InStep, Noting
    <3> HIDE DEF s
    <3> QED
      BY <1>2, <3>1, <3>2, <3>3 DEF Entry
  <2>7. s.key \in Key /\ s.len \in 1 .. MaxBytes /\ s.lines \in 0 .. s.len
    BY <1>2, <1>3, <1>10, <2>3, <2>4, Consts, SMTT(30)
  <2> HIDE DEF s, t, c
  <2>8. /\ sections' \in Seq(Section) /\ Len(sections') = n + 1 /\ DOMAIN sections' = 1 .. n + 1
        /\ sections'[n + 1] = s /\ \A i \in 1 .. n : sections'[i] = sections[i]
    BY <1>4, <2>1, <2>5
  <2>9. TypeOK'
    <3>1. ASSUME NEW i \in DOMAIN sections'
          PROVE  /\ sections'[i].key \in Key /\ sections'[i].len \in 1 .. MaxBytes
                 /\ sections'[i].lines \in 0 .. sections'[i].len
      <4>1. CASE i = n + 1
        BY <2>7, <2>8, <4>1
      <4>2. CASE i # n + 1
        <5>1. i \in 1 .. n /\ i \in DOMAIN sections /\ sections'[i] = sections[i]
          BY <1>4, <2>8, <4>2
        <5> QED
          BY <1>8, <5>1 DEF TypeOK
      <4> QED
        BY <4>1, <4>2
    <3> QED
      BY <1>1, <1>3, <1>5, <1>8, <3>1 DEF TypeOK, Busy, Idle, NoWriter
  <2>10. Shape'
    BY <1>1, <1>3, <1>6, <1>8, <2>1, <2>8 DEF Shape
  <2>11. (Len(text) = Len(sections) + (IF sw.active THEN 1 ELSE 0))'
    BY <1>1, <1>4, <1>5, <2>1, <2>8
  <2>12. (\E q \in Orders(Len(sections)) : \A i \in DOMAIN sections : Entry(sections[i], text[q[i]]))'
    <3>1. PICK q \in Orders(n) : \A i \in DOMAIN sections : Entry(sections[i], text[q[i]])
      BY Parts, Zenon
    <3>2. PICK r \in Orders(n + 1) :
            r = [i \in 1 .. n + 1 |-> IF i = n + 1 THEN n + 1 ELSE q[i]]
      BY <1>4, <3>1, OneMore
    <3>3. \A s0 \in Section, t0 \in Text : Entry(s0, t0) => Entry(s0, t0)'
      BY <1>1, BytesStay, EntryStays
    <3>4. ASSUME NEW i \in 1 .. n + 1 PROVE Entry(sections[i], text[r[i]])'
      <4>1. CASE i = n + 1
        <5>1. r[i] = L
          BY <1>4, <3>2, <4>1
        <5>2. sections'[i] = s /\ text'[r[i]] = t
          BY <2>1, <2>8, <4>1, <5>1 DEF t
        <5> QED
          BY <1>2, <2>5, <2>6, <3>3, <5>2
      <4>2. CASE i # n + 1
        <5>1. i \in 1 .. n /\ i \in DOMAIN sections
          BY <1>4, <4>2
        <5>2. r[i] = q[i] /\ q[i] \in 1 .. n /\ q[i] \in 1 .. L
          BY <1>4, <3>1, <3>2, <4>2, <5>1 DEF Orders
        <5> DEFINE s0 == sections[i]
                   t0 == text[q[i]]
        <5>3. s0 \in Section /\ t0 \in Text /\ Entry(s0, t0)
          BY <3>1, <5>1, <5>2, Parts, Zenon
        <5>4. sections'[i] = s0 /\ text'[r[i]] = t0
          BY <2>1, <2>8, <5>1, <5>2
        <5> HIDE DEF s0, t0
        <5> QED
          BY <3>3, <5>3, <5>4
      <4> QED
        BY <4>1, <4>2
    <3> QED
      BY <2>8, <3>2, <3>4
  <2> QED
    BY <1>1, <1>3, <1>7, <2>9, <2>10, <2>11, <2>12, Assemble
<1> QED
  BY <1>2, <1>9, <1>10

\* Adjacent keys in order are all in order.
LEMMA Ascends ==
  ASSUME NEW s \in Seq(Section), IsAscending(s)
  PROVE  \A i, j \in DOMAIN s : i < j => s[i].key <= s[j].key
<1>1. Len(s) \in Nat /\ \A i \in 1 .. Len(s) : s[i].key \in Nat
  BY SectionType
<1> SUFFICES ASSUME NEW i \in DOMAIN s PROVE \A j \in DOMAIN s : i < j => s[i].key <= s[j].key
  OBVIOUS
<1> DEFINE T == {k \in Nat : i + k <= Len(s) => s[i].key <= s[i + k].key}
<1>2. 0 \in T
  BY <1>1
<1>3. ASSUME NEW k \in Nat, k \in T PROVE k + 1 \in T
  <2> SUFFICES ASSUME i + (k + 1) <= Len(s) PROVE s[i].key <= s[i + (k + 1)].key
    OBVIOUS
  <2>1. i + k \in 1 .. Len(s) - 1 /\ (i + k) + 1 = i + (k + 1) /\ (i + k) + 1 \in 1 .. Len(s)
        /\ i + k \in 1 .. Len(s) /\ i \in 1 .. Len(s)
    BY <1>1, SMTT(30)
  <2>2. s[i + k].key <= s[i + (k + 1)].key
    BY <2>1 DEF IsAscending
  <2>3. s[i].key <= s[i + k].key
    BY <1>3, <2>1
  <2>4. i + (k + 1) \in 1 .. Len(s)
    BY <2>1
  <2>5. s[i].key \in Nat /\ s[i + k].key \in Nat /\ s[i + (k + 1)].key \in Nat
    BY <1>1, <2>1, <2>4
  <2> QED
    BY <2>2, <2>3, <2>5
<1>4. \A k \in Nat : k \in T
  <2> HIDE DEF T
  <2> QED
    BY <1>2, <1>3, NatSet
<1> QED
  <2> TAKE j \in DOMAIN s
  <2> HAVE i < j
  <2>1. j - i \in Nat /\ i + (j - i) = j /\ i + (j - i) <= Len(s)
    BY <1>1
  <2> QED
    BY <1>4, <2>1

\* Two permutations, one after the other.
LEMMA Compose ==
  ASSUME NEW n \in Nat, NEW q \in Orders(n), NEW r \in Orders(n)
  PROVE  [i \in 1 .. n |-> q[r[i]]] \in Orders(n)
<1> DEFINE p == [i \in 1 .. n |-> q[r[i]]]
<1>1. /\ q \in [1 .. n -> 1 .. n] /\ Range(q) = 1 .. n
      /\ r \in [1 .. n -> 1 .. n] /\ Range(r) = 1 .. n
  BY DEF Orders
<1>2. p \in [1 .. n -> 1 .. n]
  BY <1>1
<1>3. \A j \in 1 .. n : \E i \in 1 .. n : p[i] = j
  <2> SUFFICES ASSUME NEW j \in 1 .. n PROVE \E i \in 1 .. n : p[i] = j
    OBVIOUS
  <2>1. PICK k \in 1 .. n : q[k] = j
    BY <1>1 DEF Range
  <2>2. PICK i \in 1 .. n : r[i] = k
    BY <1>1 DEF Range
  <2> QED
    BY <2>1, <2>2
<1>4. Range(p) = 1 .. n
  <2> HIDE DEF p
  <2> QED
    BY <1>2, <1>3 DEF Range
<1> QED
  BY <1>2, <1>4 DEF Orders

LEMMA FinishKeeps ==
  ASSUME IInv, Finish
  PROVE  IInv'
<1> DEFINE n == Len(sections)
<1>1. /\ phase = "open" /\ ~sw.active /\ phase' = "closed"
      /\ frames' = IF frame_buf = <<>> THEN frames ELSE Append(frames, frame_buf)
      /\ frame_buf' = <<>> /\ sections' \in Sorted(sections)
      /\ sw' = sw /\ text' = text /\ rd' = rd
  BY DEF Finish
<1>2. /\ rd = Idle /\ sections \in Seq(Section) /\ text \in Seq(Text) /\ n \in Nat /\ sw = NoWriter
      /\ Len(text) = n /\ frames \in Seq(Line) /\ frame_buf \in Line
      /\ Len(frame_buf) < TEXT_FRAME_SIZE /\ Len(frames) \in Nat
  <2>1. frames \in Seq(Line)
    BY Parts, Zenon
  <2>2. Len(frames) \in Nat
    BY <2>1
  <2> QED
    BY <1>1, <2>2, Parts, OpenStore, Zenon
<1>3. PICK r \in Orders(n) : sections' = [i \in DOMAIN sections |-> sections[r[i]]]
  BY <1>1 DEF Sorted
<1>4. IsAscending(sections')
  BY <1>1 DEF Sorted
<1>5. /\ Len(sections') = n /\ sections' \in Seq(Section) /\ DOMAIN sections' = 1 .. n
      /\ \A i \in 1 .. n : r[i] \in 1 .. n /\ sections'[i] = sections[r[i]]
  <2>1. DOMAIN sections = 1 .. n /\ \A i \in 1 .. n : sections[i] \in Section
    BY Parts, Zenon
  <2>2. \A i \in 1 .. n : r[i] \in 1 .. n
    BY <1>2, Parts, Zenon
  <2>3. sections' = [i \in 1 .. n |-> sections[r[i]]]
    BY <1>3, <2>1
  <2> HIDE DEF n
  <2>4. sections' \in [1 .. n -> Section]
    BY <2>1, <2>2, <2>3
  <2>5. sections' \in Seq(Section) /\ Len(sections') = n /\ DOMAIN sections' = 1 .. n
    BY <1>2, <2>4
  <2> QED
    BY <2>2, <2>3, <2>5, Zenon
<1>6. /\ \A m \in Nat : Chunk(frames', frame_buf', m) = Chunk(frames, frame_buf, m)
      /\ frames' \in Seq(Line)
      /\ \A i \in DOMAIN frames' : /\ Len(frames'[i]) \in 1 .. TEXT_FRAME_SIZE
                                   /\ i < Len(frames') => Len(frames'[i]) = TEXT_FRAME_SIZE
  <2>1. \A i \in DOMAIN frames : Len(frames[i]) = TEXT_FRAME_SIZE
    BY <1>1 DEF IInv, EntriesFindText, TypeOK
  <2>2. TEXT_FRAME_SIZE \in Nat \ {0}
    BY Consts
  <2>3. CASE frame_buf = <<>>
    BY <1>1, <1>2, <2>1, <2>2, <2>3 DEF Chunk
  <2>4. CASE frame_buf # <<>>
    <3> DEFINE gs == Append(frames, frame_buf)
    <3>1. frames' = gs /\ frame_buf' = <<>>
      BY <1>1, <2>4
    <3>2. /\ gs \in Seq(Line) /\ Len(gs) = Len(frames) + 1 /\ DOMAIN gs = 1 .. Len(frames) + 1
          /\ \A i \in 1 .. Len(frames) : gs[i] = frames[i] /\ i \in DOMAIN frames
          /\ gs[Len(frames) + 1] = frame_buf
      BY <1>2
    <3> HIDE DEF gs
    <3>3. \A m \in Nat : Chunk(gs, <<>>, m) = Chunk(frames, frame_buf, m)
      <4> TAKE m \in Nat
      <4>0. Len(frames) \in Nat /\ Len(gs) = Len(frames) + 1
        BY <1>2, <3>2
      <4>1. CASE m < Len(frames)
        <5>1. m + 1 \in 1 .. Len(frames) /\ m < Len(gs)
          BY <4>0, <4>1
        <5>2. gs[m + 1] = frames[m + 1]
          BY <3>2, <5>1
        <5> QED
          BY <4>1, <5>1, <5>2 DEF Chunk
      <4>2. CASE m = Len(frames)
        <5>1. m < Len(gs) /\ ~(m < Len(frames))
          BY <4>0, <4>2
        <5> QED
          BY <3>2, <4>2, <5>1 DEF Chunk
      <4>3. CASE m > Len(frames)
        <5>1. ~(m < Len(gs)) /\ ~(m < Len(frames)) /\ m # Len(frames)
          BY <4>0, <4>3
        <5> QED
          BY <5>1 DEF Chunk
      <4> QED
        BY <4>0, <4>1, <4>2, <4>3
    <3>4. Len(frame_buf) \in 1 .. TEXT_FRAME_SIZE
      BY <1>2, <2>2, <2>4 DEF Line
    <3>5. \A i \in DOMAIN gs : /\ Len(gs[i]) \in 1 .. TEXT_FRAME_SIZE
                               /\ i < Len(gs) => Len(gs[i]) = TEXT_FRAME_SIZE
      <4> TAKE i \in DOMAIN gs
      <4>1. CASE i = Len(frames) + 1
        BY <1>2, <3>2, <3>4, <4>1
      <4>2. CASE i # Len(frames) + 1
        <5>1. i \in 1 .. Len(frames)
          BY <1>2, <3>2, <4>2
        <5>2. Len(gs[i]) = TEXT_FRAME_SIZE
          BY <2>1, <3>2, <5>1
        <5> QED
          BY <2>2, <5>2
      <4> QED
        BY <4>1, <4>2
    <3> QED
      BY <3>1, <3>2, <3>3, <3>5
  <2> QED
    BY <2>3, <2>4
<1>7. \A p, x \in Nat : Stored(frames, frame_buf, p, x) => Stored(frames, frame_buf, p, x)'
  <2>1. \A p \in Nat : p \div TEXT_FRAME_SIZE \in Nat
    BY Consts, DivMod
  <2>2. \A p, x \in Nat : Stored(frames, frame_buf, p, x) => Stored(frames', frame_buf', p, x)
    BY <1>6, <2>1 DEF Stored
  <2> QED
    BY <2>2 DEF Stored, Chunk
<1> HIDE DEF n
<1>8. TypeOK'
  <2>1. \A i \in 1 .. n : sections[i].key \in Key /\ sections[i].len \in 1 .. MaxBytes
                            /\ sections[i].lines \in 0 .. sections[i].len
    BY Parts DEF IInv, EntriesFindText, TypeOK, n
  <2>2. \A i \in 1 .. n : sections'[i].key \in Key /\ sections'[i].len \in 1 .. MaxBytes
                            /\ sections'[i].lines \in 0 .. sections'[i].len
    BY <1>5, <2>1
  <2>3. Len(<<>>) \in 0 .. TEXT_FRAME_SIZE - 1
    BY Consts
  <2> QED
    BY <1>1, <1>2, <1>5, <1>6, <2>2, <2>3 DEF TypeOK, Busy, Idle, NoWriter
<1>9. Shape'
  <2>1. \A i, j \in DOMAIN sections' : i < j => sections'[i].key <= sections'[j].key
    BY <1>4, <1>5, Ascends
  <2>2. <<>> \in Seq(Nat) /\ frames' \in Seq(Seq(Nat))
    BY <1>6 DEF Line
  <2> QED
    BY <1>1, <1>2, <1>5, <2>1, <2>2 DEF Shape
<1>10. Writing'
  BY <1>1 DEF Writing
<1>11. (Len(text) = Len(sections) + (IF sw.active THEN 1 ELSE 0))'
  <2>1. ~sw'.active
    BY <1>1
  <2>2. (IF sw'.active THEN 1 ELSE 0) = 0
    BY <2>1
  <2>3. Len(text') = Len(sections') + 0
    BY <1>1, <1>2, <1>5
  <2> QED
    BY <2>2, <2>3
<1>12. (\E q \in Orders(Len(sections)) : \A i \in DOMAIN sections : Entry(sections[i], text[q[i]]))'
  <2>1. PICK q \in Orders(n) : \A i \in 1 .. n : Entry(sections[i], text[q[i]])
    BY Parts, Zenon DEF n
  <2>2. PICK p \in Orders(n) : p = [i \in 1 .. n |-> q[r[i]]]
    BY <1>2, <2>1, Compose, Zenon
  <2>3. ASSUME NEW i \in 1 .. n PROVE Entry(sections[i], text[p[i]])'
    <3>1. r[i] \in 1 .. n /\ q[r[i]] \in 1 .. n /\ p[i] = q[r[i]]
      BY <1>2, <1>5, <2>2, Parts, Zenon
    <3> DEFINE s0 == sections[r[i]]
               t0 == text[q[r[i]]]
    <3>2. s0 \in Section /\ t0 \in Text /\ Entry(s0, t0)
      BY <1>2, <2>1, <3>1, Parts, Zenon DEF n
    <3>3. sections'[i] = s0 /\ text'[p[i]] = t0
      BY <1>1, <1>5, <3>1
    <3>4. \A s1 \in Section, t1 \in Text : Entry(s1, t1) => Entry(s1, t1)'
      BY <1>7, EntryStays
    <3> HIDE DEF s0, t0
    <3> QED
      BY <3>2, <3>3, <3>4
  <2> QED
    BY <1>5, <2>2, <2>3
<1> QED
  BY <1>1, <1>2, <1>8, <1>9, <1>10, <1>11, <1>12, Assemble

LEMMA OpenKeeps ==
  ASSUME IInv, Open
  PROVE  IInv'
<1> DEFINE n == Len(sections)
           bare == [i \in DOMAIN sections |-> [sections[i] EXCEPT !.sparse = <<>>]]
<1>1. /\ phase = "closed" /\ phase' = "ready" /\ sections' \in {sections, bare}
      /\ frames' = frames /\ frame_buf' = frame_buf /\ sw' = sw /\ text' = text /\ rd' = rd
  BY DEF Open
<1>2. Shape /\ TypeOK /\ Writing
  BY DEF IInv, EntriesFindText
<1>3. /\ rd = Idle /\ ~sw.active /\ frame_buf = <<>>
      /\ \A i, j \in DOMAIN sections : i < j => sections[i].key <= sections[j].key
  BY <1>1, <1>2 DEF Shape
<1>4. /\ n \in Nat /\ DOMAIN sections = 1 .. n /\ \A i \in 1 .. n : sections[i] \in Section
  BY Parts, Zenon
<1>5. \A i \in 1 .. n : LET s == sections[i]
                            b == [s EXCEPT !.sparse = <<>>]
                        IN  /\ b \in Section /\ b.key = s.key /\ b.start_frame = s.start_frame
                            /\ b.start_pos = s.start_pos /\ b.len = s.len /\ b.lines = s.lines
                            /\ b.sparse = <<>>
  <2> TAKE i \in 1 .. n
  <2>1. sections[i] \in Section /\ <<>> \in Seq(Note)
    BY <1>4
  <2> QED
    BY <2>1 DEF Section
<1>6. /\ DOMAIN sections' = 1 .. n /\ Len(sections') = n /\ sections' \in Seq(Section)
      /\ \A i \in 1 .. n : /\ sections'[i].key = sections[i].key
                           /\ sections'[i].start_frame = sections[i].start_frame
                           /\ sections'[i].start_pos = sections[i].start_pos
                           /\ sections'[i].len = sections[i].len
                           /\ sections'[i].lines = sections[i].lines
                           /\ sections'[i].sparse \in {sections[i].sparse, <<>>}
                           /\ sections'[i] \in Section
  <2>1. CASE sections' = sections
    BY <1>4, <2>1, Parts, Zenon
  <2>2. CASE sections' = bare
    <3>1. sections' = [i \in 1 .. n |-> [sections[i] EXCEPT !.sparse = <<>>]]
      BY <1>4, <2>2
    <3> HIDE DEF n, bare
    <3>2. sections' \in [1 .. n -> Section]
      BY <1>5, <3>1
    <3>3. DOMAIN sections' = 1 .. n /\ Len(sections') = n /\ sections' \in Seq(Section)
      BY <1>4, <3>2
    <3> QED
      BY <1>5, <3>1, <3>3
  <2> QED
    BY <1>1, <2>1, <2>2
<1> HIDE DEF n, bare
<1>7. TypeOK'
  <2>1. \A i \in 1 .. n : sections[i].key \in Key /\ sections[i].len \in 1 .. MaxBytes
                            /\ sections[i].lines \in 0 .. sections[i].len
    BY <1>2, <1>4 DEF TypeOK
  <2>2. \A i \in 1 .. n : sections'[i].key \in Key /\ sections'[i].len \in 1 .. MaxBytes
                            /\ sections'[i].lines \in 0 .. sections'[i].len
    BY <1>6, <2>1
  <2> QED
    BY <1>1, <1>2, <1>3, <1>6, <2>2 DEF TypeOK, Busy, Idle
<1>8. Shape'
  <2>1. \A i, j \in DOMAIN sections' : i < j => sections'[i].key <= sections'[j].key
    BY <1>3, <1>4, <1>6
  <2> QED
    BY <1>1, <1>2, <1>3, <1>6, <2>1 DEF Shape
<1>9. Writing'
  BY <1>1, <1>3 DEF Writing
<1>10. (Len(text) = Len(sections) + (IF sw.active THEN 1 ELSE 0))'
  BY <1>1, <1>6, Parts, Zenon DEF n
<1>11. (\E q \in Orders(Len(sections)) : \A i \in DOMAIN sections : Entry(sections[i], text[q[i]]))'
  <2>1. PICK q \in Orders(n) : \A i \in 1 .. n : Entry(sections[i], text[q[i]])
    BY Parts, Zenon DEF n
  <2>2. ASSUME NEW i \in 1 .. n PROVE Entry(sections[i], text[q[i]])'
    <3>1. /\ Entry(sections[i], text[q[i]])
          /\ text' = text /\ frames' = frames /\ frame_buf' = frame_buf
      BY <1>1, <2>1
    <3>2. /\ sections'[i].key = sections[i].key
          /\ sections'[i].start_frame = sections[i].start_frame
          /\ sections'[i].start_pos = sections[i].start_pos
          /\ sections'[i].len = sections[i].len
          /\ sections'[i].lines = sections[i].lines
          /\ sections'[i].sparse \in {sections[i].sparse, <<>>}
      BY <1>6
    <3>3. NotesInSync(<<>>, text[q[i]].content,
                      Place(sections[i].start_frame, sections[i].start_pos))
      BY DEF NotesInSync
    <3>4. NotesInSync(sections'[i].sparse, text[q[i]].content,
                      Place(sections[i].start_frame, sections[i].start_pos))
      BY <3>1, <3>2, <3>3 DEF Entry
    <3> QED
      BY <3>1, <3>2, <3>4 DEF Entry, Lies
  <2> QED
    BY <1>6, <2>1, <2>2
<1> QED
  BY <1>1, <1>3, <1>7, <1>8, <1>9, <1>10, <1>11, Assemble

-----------------------------------------------------------------------------
(* The reader, which changes nothing but its call.                         *)

\* What a section reads as, in a store that stays as it is.
LEMMA ContentStays ==
  ASSUME frames' = frames, frame_buf' = frame_buf, NEW s
  PROVE  ContentOf(s)' = ContentOf(s) /\ TextOf(s)' = TextOf(s)
BY DEF ContentOf, TextOf, ByteAt, Chunk, Place

LEMMA CallStays ==
  ASSUME frames' = frames, frame_buf' = frame_buf, sections' = sections, NEW c, rd' = c, Reads(c)
  PROVE  Reading'
<1>1. \A s : ContentOf(s)' = ContentOf(s) /\ TextOf(s)' = TextOf(s)
  BY ContentStays
<1>2. /\ \A s : Copied(c, s)' = Copied(c, s)
      /\ \A s : Paged(c, s)' = Paged(c, s)
      /\ \A m, k : OfKind(m, k)' = OfKind(m, k)
      /\ \A items, k, m : Listed(items, k, m)' = Listed(items, k, m)
      /\ CallType' = CallType
  BY <1>1, SMTT(30) DEF Copied, Paged, InLine, PageOf, OfKind, Listed, FirstOfKind, CallType, KindOf
<1> QED
  BY <1>1, <1>2 DEF Reading, Reads, Located

LEMMA CallKeeps ==
  ASSUME IInv, phase = "ready", UNCHANGED <<phase, frames, frame_buf, sections, sw, text>>,
         NEW c, rd' = c, Reads(c)
  PROVE  IInv'
<1>1. /\ phase' = phase /\ frames' = frames /\ frame_buf' = frame_buf
      /\ sections' = sections /\ sw' = sw /\ text' = text
  OBVIOUS
<1>2. Reading'
  BY <1>1, CallStays
<1>3. TypeOK /\ Shape /\ Writing
  BY DEF IInv, EntriesFindText
<1>4. c.pc \notin {"idle", "missing", "listed"} =>
        /\ c.pc \in {"frame", "scan", "done"} /\ c.remaining \in 0 .. sections[c.sec].len
  <2> SUFFICES ASSUME c.pc \notin {"idle", "missing", "listed"}
               PROVE  /\ c.pc \in {"frame", "scan", "done"}
                      /\ c.remaining \in 0 .. sections[c.sec].len
    OBVIOUS
  <2>1. c \in CallType /\ Located(c, sections[c.sec])
    BY DEF Reads
  <2>2. c.pc \in {"frame", "scan", "done"} /\ c.remaining \in Nat /\ c.sec \in DOMAIN sections
    BY <2>1 DEF CallType
  <2>3. c.remaining <= sections[c.sec].len /\ sections[c.sec].len \in Nat
    BY <2>1, <2>2, Parts, SectionType, Zenon DEF Located
  <2> QED
    BY <2>2, <2>3
<1>5. TypeOK'
  BY <1>1, <1>3, <1>4 DEF TypeOK, Busy
<1>6. Shape'
  BY <1>1, <1>3 DEF Shape, BytesWritten
<1>7. Writing'
  <2>1. ~sw.active
    BY <1>3 DEF Shape
  <2> QED
    BY <1>1, <2>1 DEF Writing
<1>8. (Len(text) = Len(sections) + (IF sw.active THEN 1 ELSE 0))'
  BY <1>1, Parts, Zenon
<1>9. (\E q \in Orders(Len(sections)) : \A i \in DOMAIN sections : Entry(sections[i], text[q[i]]))'
  BY <1>1, BytesStay, EntriesStay
<1> QED
  BY <1>2, <1>5, <1>6, <1>7, <1>8, <1>9 DEF IInv, EntriesFindText

\* What an entry finds is the text it was made from.
LEMMA EntryIs ==
  ASSUME Shape, NEW s \in Section, NEW t \in Text, Entry(s, t)
  PROVE  LET c == ContentOf(s)
         IN  /\ TextOf(s) = t /\ c = t.content /\ c \in Seq(Nat) /\ Len(c) = s.len
             /\ \A i \in 1 .. s.len : Stored(frames, frame_buf, StartOf(s) + i - 1, c[i])
             /\ s.lines = Len(LinesOf(c)) /\ NotesInSync(s.sparse, c, StartOf(s))
<1>1. /\ s.key = t.key /\ s.len = Len(t.content) /\ Lies(t.content, StartOf(s))
      /\ s.lines = Len(LinesOf(t.content)) /\ NotesInSync(s.sparse, t.content, StartOf(s))
  BY DEF Entry, StartOf
<1>2. t = [key |-> t.key, content |-> t.content] /\ t.content \in Seq(Nat) /\ s.len \in Nat
  BY SectionType DEF Text
<1>3. \A i \in 1 .. s.len : Stored(frames, frame_buf, StartOf(s) + i - 1, t.content[i])
  BY <1>1, <1>2 DEF Lies
<1>4. \A i \in 1 .. s.len : ByteAt(StartOf(s) + i - 1) = t.content[i]
  BY <1>3 DEF Stored, ByteAt
<1>5. ContentOf(s) = [i \in 1 .. s.len |-> t.content[i]]
  <2>1. ContentOf(s) = [i \in 1 .. s.len |-> ByteAt(StartOf(s) + i - 1)]
    BY DEF ContentOf, StartOf
  <2> QED
    BY <1>4, <2>1
<1>6. t.content = [i \in 1 .. s.len |-> t.content[i]]
  BY <1>1, <1>2
<1>7. ContentOf(s) = t.content
  BY <1>5, <1>6
<1>8. TextOf(s) = t
  BY <1>1, <1>2, <1>7 DEF TextOf
<1> QED
  BY <1>1, <1>2, <1>3, <1>7, <1>8

LEMMA SectionIs ==
  ASSUME IInv, NEW i \in DOMAIN sections
  PROVE  LET s == sections[i]
             c == ContentOf(s)
         IN  /\ s \in Section /\ s.len \in Nat /\ s.key \in Nat /\ StartOf(s) \in Nat
             /\ TextOf(s) \in Text /\ c \in Seq(Nat) /\ Len(c) = s.len
             /\ \E j \in DOMAIN text : TextOf(s) = text[j]
             /\ \A k \in 1 .. s.len : Stored(frames, frame_buf, StartOf(s) + k - 1, c[k])
             /\ s.lines = Len(LinesOf(c)) /\ NotesInSync(s.sparse, c, StartOf(s))
<1>1. PICK q \in Orders(Len(sections)) : \A k \in DOMAIN sections : Entry(sections[k], text[q[k]])
  BY Parts, Zenon
<1> DEFINE s == sections[i]
           t == text[q[i]]
<1>2. q[i] \in DOMAIN text /\ s \in Section /\ t \in Text
  <2>1. i \in 1 .. Len(sections)
    BY Parts, Zenon
  <2>2. q[i] \in 1 .. Len(sections)
    BY <2>1, Parts, Zenon
  <2>3. q[i] \in 1 .. Len(text)
    <3>1. Len(sections) \in Nat /\ Len(text) \in Nat /\ Len(sections) <= Len(text)
      BY Parts, Zenon
    <3> QED
      BY <2>2, <3>1
  <2> QED
    BY <2>1, <2>3, Parts, Zenon
<1>3. Entry(s, t)
  BY <1>1
<1>4. Shape
  BY DEF IInv
<1> HIDE DEF s, t
<1>5. /\ TextOf(s) = t /\ ContentOf(s) \in Seq(Nat) /\ Len(ContentOf(s)) = s.len
      /\ \A k \in 1 .. s.len : Stored(frames, frame_buf, StartOf(s) + k - 1, ContentOf(s)[k])
      /\ s.lines = Len(LinesOf(ContentOf(s))) /\ NotesInSync(s.sparse, ContentOf(s), StartOf(s))
  BY <1>2, <1>3, <1>4, EntryIs
<1>6. s.len \in Nat /\ s.key \in Nat /\ StartOf(s) \in Nat
  BY <1>2, SectionType
<1>7. \E j \in DOMAIN text : TextOf(s) = text[j]
  BY <1>2, <1>5 DEF t
<1> QED
  BY <1>2, <1>5, <1>6, <1>7 DEF s

LEMMA CallIs ==
  ASSUME IInv, NEW i \in DOMAIN sections, NEW k \in Nat, NEW op \in {"get", "lines", "list"},
         NEW off \in Nat, NEW lim \in Nat
  PROVE  LET c == Call(k, i, op, off, lim)
         IN  /\ c \in CallType /\ Located(c, sections[i]) /\ c.sec = i /\ c.key = k /\ c.op = op
             /\ c.off = off /\ c.lim = lim /\ c.items = <<>> /\ c.buf = <<>> /\ c.seen = 0
             /\ c.pc = "frame" /\ c.remaining = sections[i].len
<1> DEFINE s == sections[i]
           c == Call(k, i, op, off, lim)
<1>1. /\ s \in Section /\ s.start_frame \in Nat /\ s.start_pos \in Nat /\ s.len \in Nat
      /\ s.start_pos < TEXT_FRAME_SIZE /\ TEXT_FRAME_SIZE \in Nat
  BY SectionIs, SectionType, Consts
<1>2. <<>> \in Seq(Seq(Nat)) \cup Seq(Text) /\ <<>> \in Seq(Nat)
  OBVIOUS
<1>3. c \in CallType
  <2> HIDE DEF s
  <2>1. c = [pc |-> "frame", op |-> op, key |-> k, sec |-> i, frame |-> s.start_frame,
             pos |-> s.start_pos, remaining |-> s.len, off |-> off, lim |-> lim, seen |-> 0,
             items |-> <<>>, buf |-> <<>>, data |-> <<>>, start |-> 0]
    BY DEF Call, s
  <2> QED
    BY <1>1, <1>2, <2>1 DEF CallType
<1>4. /\ c.sec = i /\ c.key = k /\ c.op = op /\ c.frame = s.start_frame /\ c.pos = s.start_pos
      /\ c.off = off /\ c.lim = lim /\ c.items = <<>> /\ c.buf = <<>> /\ c.seen = 0
      /\ c.pc = "frame" /\ c.remaining = s.len
  BY DEF Call
<1> HIDE DEF s, c
<1>5. Located(c, s)
  BY <1>1, <1>4 DEF Located
<1> QED
  BY <1>3, <1>4, <1>5 DEF s, c

LEMMA NotFound ==
  ASSUME IInv, phase = "ready", NEW k, 0 \in Found(k), NEW op
  PROVE  Reads(Missing(k, op)) /\ \A i \in DOMAIN sections : sections[i].key # k
<1> DEFINE hits == {i \in DOMAIN sections : sections[i].key = k}
<1>0. Len(sections) \in Nat /\ DOMAIN sections = 1 .. Len(sections)
  BY Parts, Zenon
<1>1. 0 \notin hits
  BY <1>0
<1>2. IsAscending(sections)
  <2>1. \A i, j \in DOMAIN sections : i < j => sections[i].key <= sections[j].key
    BY DEF IInv, Shape
  <2>2. \A i \in 1 .. Len(sections) - 1 : /\ i \in DOMAIN sections /\ i + 1 \in DOMAIN sections
                                          /\ i < i + 1
    BY <1>0
  <2> QED
    BY <2>1, <2>2 DEF IsAscending
<1>3. hits = {}
  BY <1>1, <1>2 DEF Found
<1>4. \A i \in DOMAIN sections : sections[i].key # k
  BY <1>3
<1>5. Missing(k, op).pc = "missing" /\ Missing(k, op).key = k
  BY DEF Missing
<1> QED
  BY <1>4, <1>5 DEF Reads

\* The entries that are found are of the key.
LEMMA FoundIs ==
  ASSUME IInv, NEW k, NEW i \in Found(k), i # 0
  PROVE  i \in DOMAIN sections /\ sections[i].key = k
BY DEF Found

LEMMA GetKeeps ==
  ASSUME IInv, NEW k \in Key, Get(k)
  PROVE  IInv'
<1>1. PICK i \in Found(k) : rd' = IF i = 0 THEN Missing(k, "get") ELSE Call(k, i, "get", 0, 0)
  BY DEF Get
<1>2. phase = "ready" /\ UNCHANGED <<phase, frames, frame_buf, sections, sw, text>>
  BY DEF Get
<1>3. CASE i = 0
  <2>1. Reads(Missing(k, "get")) /\ rd' = Missing(k, "get")
    BY <1>1, <1>2, <1>3, NotFound
  <2> QED
    BY <1>2, <2>1, CallKeeps
<1>4. CASE i # 0
  <2> DEFINE c == Call(k, i, "get", 0, 0)
             s == sections[i]
  <2>1. i \in DOMAIN sections /\ s.key = k /\ k \in Nat
    BY <1>4, FoundIs, Consts
  <2>2. /\ c \in CallType /\ Located(c, s) /\ c.sec = i /\ c.key = k /\ c.op = "get"
        /\ c.buf = <<>> /\ c.pc = "frame" /\ c.remaining = s.len
    <3>1. "get" \in {"get", "lines", "list"} /\ 0 \in Nat
      OBVIOUS
    <3> QED
      BY <2>1, <3>1, CallIs
  <2>3. s.len - s.len = 0 /\ ContentOf(s) \in Seq(Nat)
    BY <2>1, SectionIs
  <2> HIDE DEF c, s
  <2>4. Copied(c, s)
    <3>1. SubSeq(ContentOf(s), 1, 0) = <<>>
      BY <2>3
    <3> QED
      BY <2>2, <2>3, <3>1 DEF Copied
  <2>5. Reads(c)
    BY <2>1, <2>2, <2>4 DEF Reads, s
  <2>6. rd' = c
    BY <1>1, <1>4 DEF c
  <2> QED
    BY <1>2, <2>5, <2>6, CallKeeps
<1> QED
  BY <1>3, <1>4

-----------------------------------------------------------------------------
(* Pages.                                                                  *)

LEMMA PageIs ==
  ASSUME NEW ls \in Seq(Line), NEW off \in Nat, NEW lim \in Nat, NEW c, c.off = off, c.lim = lim
  PROVE  /\ PageOf(c, ls) \in Seq(Line)
         /\ Len(ls) <= off => PageOf(c, ls) = <<>>
         /\ Len(ls) > off =>
              /\ Len(PageOf(c, ls)) = Lesser(lim, Len(ls) - off)
              /\ \A i \in 1 .. Len(PageOf(c, ls)) : PageOf(c, ls)[i] = ls[off + i]
<1> DEFINE m == Lesser(off + lim, Len(ls))
           p == SubSeq(ls, off + 1, m)
<1>1. PageOf(c, ls) = p
  BY DEF PageOf
<1>2. Len(ls) \in Nat /\ m \in Nat /\ m <= Len(ls) /\ m <= off + lim
  BY DEF Lesser
<1>3. Len(ls) <= off => p = <<>>
  <2> SUFFICES ASSUME Len(ls) <= off PROVE p = <<>>
    OBVIOUS
  <2>1. m < off + 1
    BY <1>2
  <2> HIDE DEF m
  <2> QED
    BY <1>2, <2>1
<1>4. Len(ls) > off => /\ Len(p) = Lesser(lim, Len(ls) - off) /\ p \in Seq(Line)
                       /\ \A i \in 1 .. Len(p) : p[i] = ls[off + i]
  <2> SUFFICES ASSUME Len(ls) > off
               PROVE  /\ Len(p) = Lesser(lim, Len(ls) - off) /\ p \in Seq(Line)
                      /\ \A i \in 1 .. Len(p) : p[i] = ls[off + i]
    OBVIOUS
  <2>1. off <= m /\ m - off = Lesser(lim, Len(ls) - off)
    BY <1>2 DEF Lesser
  <2> HIDE DEF m
  <2>2. Len(p) = m - off /\ p \in Seq(Line) /\ \A i \in 1 .. m - off : p[i] = ls[off + i]
    BY <1>2, <2>1, SMTT(30)
  <2> QED
    BY <2>1, <2>2
<1>5. p \in Seq(Line)
  <2>1. CASE Len(ls) <= off
    <3>1. <<>> \in Seq(Line)
      OBVIOUS
    <3> QED
      BY <1>3, <2>1, <3>1
  <2>2. CASE Len(ls) > off
    BY <1>4, <2>2
  <2> QED
    BY <1>2, <2>1, <2>2
<1> QED
  BY <1>1, <1>3, <1>4, <1>5

\* One line more: it is on the page if the page has begun and is not full.
LEMMA PageNext ==
  ASSUME NEW ls \in Seq(Line), NEW l \in Line, NEW off \in Nat, NEW lim \in Nat,
         NEW c, c.off = off, c.lim = lim
  PROVE  PageOf(c, Append(ls, l)) =
           IF Len(ls) >= off /\ Len(PageOf(c, ls)) < lim THEN Append(PageOf(c, ls), l)
           ELSE PageOf(c, ls)
<1> DEFINE ms == Append(ls, l)
           p == PageOf(c, ls)
           r == PageOf(c, ms)
<1>1. /\ ms \in Seq(Line) /\ Len(ms) = Len(ls) + 1 /\ Len(ls) \in Nat
      /\ \A i \in 1 .. Len(ls) : ms[i] = ls[i]
      /\ ms[Len(ls) + 1] = l
  BY AddLine
<1> HIDE DEF ms
<1>2. p \in Seq(Line) /\ (Len(ls) <= off => p = <<>>)
  BY PageIs
<1>3. Len(ls) > off => /\ Len(p) = Lesser(lim, Len(ls) - off)
                       /\ \A i \in 1 .. Len(p) : p[i] = ls[off + i]
  BY PageIs
<1>4. r \in Seq(Line) /\ (Len(ms) <= off => r = <<>>)
  BY <1>1, PageIs
<1>5. Len(ms) > off => /\ Len(r) = Lesser(lim, Len(ms) - off)
                       /\ \A i \in 1 .. Len(r) : r[i] = ms[off + i]
  BY <1>1, PageIs
<1> HIDE DEF p, r
<1>6. CASE Len(ls) < off
  <2>1. Len(ms) <= off /\ Len(ls) <= off /\ ~(Len(ls) >= off)
    BY <1>1, <1>6
  <2>2. r = <<>> /\ p = <<>>
    BY <1>2, <1>4, <2>1
  <2> QED
    BY <2>1, <2>2 DEF p, r, ms
<1>7. CASE Len(ls) >= off
  <2>1. /\ Len(p) \in Nat /\ Len(p) = Lesser(lim, Len(ls) - off)
        /\ \A i \in 1 .. Len(p) : p[i] = ls[off + i]
    <3>1. CASE Len(ls) = off
      <4>1. p = <<>> /\ Len(p) = 0 /\ Len(ls) - off = 0
        BY <1>1, <1>2, <3>1
      <4> QED
        BY <4>1 DEF Lesser
    <3>2. CASE Len(ls) # off
      BY <1>1, <1>2, <1>3, <1>7, <3>2
    <3> QED
      BY <3>1, <3>2
  <2>2. /\ Len(r) = Lesser(lim, Len(ls) + 1 - off)
        /\ \A i \in 1 .. Len(r) : r[i] = ms[off + i]
    BY <1>1, <1>5, <1>7
  <2>3. CASE Len(p) < lim
    <3>1. Len(p) = Len(ls) - off /\ Len(r) = Len(p) + 1
      BY <1>1, <1>7, <2>1, <2>2, <2>3 DEF Lesser
    <3> DEFINE a == Append(p, l)
    <3>2. /\ a \in Seq(Line) /\ Len(a) = Len(p) + 1 /\ \A i \in 1 .. Len(p) : a[i] = p[i]
          /\ a[Len(p) + 1] = l
      BY <1>2, AddLine
    <3> HIDE DEF a
    <3>3. \A i \in 1 .. Len(r) : r[i] = a[i]
      <4> TAKE i \in 1 .. Len(r)
      <4>1. CASE i = Len(p) + 1
        <5>1. off + i = Len(ls) + 1
          BY <1>1, <3>1, <4>1
        <5> QED
          BY <1>1, <2>2, <3>2, <4>1, <5>1
      <4>2. CASE i # Len(p) + 1
        <5>1. i \in 1 .. Len(p) /\ off + i \in 1 .. Len(ls)
          BY <1>1, <2>1, <3>1, <4>2
        <5> QED
          BY <1>1, <2>1, <2>2, <3>2, <5>1
      <4> QED
        BY <4>1, <4>2
    <3>4. r = a
      BY <1>4, <3>1, <3>2, <3>3, SeqEqual
    <3> QED
      BY <1>7, <2>3, <3>4 DEF a, p, r, ms
  <2>4. CASE ~(Len(p) < lim)
    <3>1. Len(p) = lim /\ Len(r) = lim /\ lim <= Len(ls) - off
      BY <1>1, <1>7, <2>1, <2>2, <2>4 DEF Lesser
    <3>2. \A i \in 1 .. Len(r) : r[i] = p[i]
      <4> TAKE i \in 1 .. Len(r)
      <4>1. i \in 1 .. Len(p) /\ off + i \in 1 .. Len(ls)
        BY <1>1, <1>7, <3>1
      <4> QED
        BY <1>1, <2>1, <2>2, <4>1
    <3>3. r = p
      BY <1>2, <1>4, <3>1, <3>2, SeqEqual
    <3> QED
      BY <2>4, <3>3 DEF p, r, ms
  <2> QED
    BY <2>3, <2>4
<1> QED
  BY <1>1, <1>6, <1>7

\* A full page stays, whatever lines follow.
LEMMA PageFull ==
  ASSUME NEW ls \in Seq(Line), NEW us \in Seq(Line), NEW off \in Nat, NEW lim \in Nat,
         NEW c, c.off = off, c.lim = lim, Len(us) <= Len(ls),
         \A i \in 1 .. Len(us) : ls[i] = us[i], Len(PageOf(c, us)) >= lim
  PROVE  PageOf(c, ls) = PageOf(c, us)
<1> DEFINE p == PageOf(c, us)
           r == PageOf(c, ls)
<1>0. Len(us) \in Nat /\ Len(ls) \in Nat
  OBVIOUS
<1>1. p \in Seq(Line) /\ (Len(us) <= off => p = <<>>)
  BY PageIs
<1>2. Len(us) > off => /\ Len(p) = Lesser(lim, Len(us) - off)
                       /\ \A i \in 1 .. Len(p) : p[i] = us[off + i]
  BY PageIs
<1>3. r \in Seq(Line) /\ (Len(ls) <= off => r = <<>>)
  BY PageIs
<1>4. Len(ls) > off => /\ Len(r) = Lesser(lim, Len(ls) - off)
                       /\ \A i \in 1 .. Len(r) : r[i] = ls[off + i]
  BY PageIs
<1>5. Len(p) >= lim
  OBVIOUS
<1> HIDE DEF p, r
<1>6. CASE Len(us) > off
  <2>1. Len(p) = lim /\ Len(r) = lim /\ lim <= Len(us) - off
    BY <1>0, <1>2, <1>4, <1>5, <1>6 DEF Lesser
  <2>2. \A i \in 1 .. Len(r) : r[i] = p[i]
    <3> TAKE i \in 1 .. Len(r)
    <3>1. i \in 1 .. Len(p) /\ off + i \in 1 .. Len(us)
      BY <1>0, <1>6, <2>1
    <3> QED
      BY <1>0, <1>2, <1>4, <1>6, <3>1
  <2>3. r = p
    BY <1>1, <1>3, <2>1, <2>2, SeqEqual
  <2> QED
    BY <2>3 DEF p, r
<1>7. CASE Len(us) <= off
  <2>1. p = <<>> /\ lim = 0
    BY <1>1, <1>5, <1>7
  <2>2. Len(r) = 0
    <3>1. CASE Len(ls) <= off
      BY <1>3, <3>1
    <3>2. CASE Len(ls) > off
      BY <1>0, <1>4, <2>1, <3>2 DEF Lesser
    <3> QED
      BY <1>0, <3>1, <3>2
  <2>3. r = <<>>
    BY <1>3, <2>2
  <2> QED
    BY <2>1, <2>3 DEF p, r
<1> QED
  BY <1>0, <1>6, <1>7

\* A page that has not begun has no lines.
LEMMA LinesStart ==
  ASSUME IInv, NEW i \in DOMAIN sections, NEW c \in CallType, Located(c, sections[i]),
         c.sec = i, c.op = "lines", sections[i].key = c.key,
         c.pc = "frame", c.items = <<>>, c.buf = <<>>,
         LET s == sections[i]
             cut == Cuts(ContentOf(s))[s.len - c.remaining]
         IN  cut.cur = <<>> /\ c.seen = Len(cut.lines) /\ Len(cut.lines) <= c.off
  PROVE  Reads(c)
<1> DEFINE s == sections[i]
           ct == ContentOf(s)
           n == s.len - c.remaining
           cut == Cuts(ct)[n]
<1>1. s.len \in Nat /\ ct \in Seq(Nat) /\ Len(ct) = s.len
  BY SectionIs
<1>2. c.remaining \in Nat /\ c.remaining <= s.len /\ c.off \in Nat /\ c.lim \in Nat
  BY DEF Located, CallType
<1>3. n \in 0 .. Len(ct)
  BY <1>1, <1>2
<1>4. cut \in Cut
  BY <1>1, <1>3, CutsAre
<1>5. cut.lines \in Seq(Line)
  BY <1>4 DEF Cut
<1>6. cut.cur = <<>> /\ c.seen = Len(cut.lines) /\ Len(cut.lines) <= c.off
  OBVIOUS
<1>7. PageOf(c, cut.lines) = <<>>
  <2> HIDE DEF cut
  <2> QED
    BY <1>2, <1>5, <1>6, PageIs
<1>8. c.remaining = 0 => PageOf(c, LinesOf(ct)) = <<>>
  <2> SUFFICES ASSUME c.remaining = 0 PROVE PageOf(c, LinesOf(ct)) = <<>>
    OBVIOUS
  <2>1. n = Len(ct)
    BY <1>1
  <2>2. LinesOf(ct) = cut.lines
    BY <1>6, <2>1 DEF LinesOf
  <2> QED
    BY <1>7, <2>2
<1>9. InLine(c, s, n)
  BY <1>6, <1>7 DEF InLine
<1> HIDE DEF s, ct, n, cut
<1>10. Paged(c, s)
  BY <1>8, <1>9 DEF Paged, ct, n
<1> QED
  BY <1>10 DEF Reads, s

LEMMA GetLinesKeeps ==
  ASSUME IInv, NEW k \in Key, NEW off \in Nat, NEW lim \in Nat, GetLinesRange(k, off, lim)
  PROVE  IInv'
<1>1. PICK i \in Found(k) :
        rd' = IF i = 0 THEN Missing(k, "lines")
              ELSE IF off >= sections[i].lines
                THEN [Call(k, i, "lines", off, lim) EXCEPT !.pc = "done"]
              ELSE Jump(Call(k, i, "lines", off, lim), sections[i].sparse)
  BY DEF GetLinesRange
<1>2. phase = "ready" /\ UNCHANGED <<phase, frames, frame_buf, sections, sw, text>>
  BY DEF GetLinesRange
<1>3. CASE i = 0
  <2>1. Reads(Missing(k, "lines")) /\ rd' = Missing(k, "lines")
    BY <1>1, <1>2, <1>3, NotFound
  <2> QED
    BY <1>2, <2>1, CallKeeps
<1>4. CASE i # 0
  <2> DEFINE c == Call(k, i, "lines", off, lim)
             s == sections[i]
             ct == ContentOf(s)
  <2>1. i \in DOMAIN sections /\ s.key = k /\ k \in Nat
    BY <1>4, FoundIs, Consts
  <2>2. /\ c \in CallType /\ Located(c, s) /\ c.sec = i /\ c.key = k /\ c.op = "lines"
        /\ c.off = off /\ c.lim = lim /\ c.items = <<>> /\ c.buf = <<>> /\ c.seen = 0
        /\ c.pc = "frame" /\ c.remaining = s.len
    <3>1. "lines" \in {"get", "lines", "list"}
      OBVIOUS
    <3> QED
      BY <2>1, <3>1, CallIs
  <2>3. /\ s \in Section /\ s.len \in Nat /\ ct \in Seq(Nat) /\ Len(ct) = s.len
        /\ s.lines = Len(LinesOf(ct)) /\ NotesInSync(s.sparse, ct, StartOf(s))
        /\ StartOf(s) \in Nat
    BY <2>1, SectionIs
  <2>4. Cuts(ct)[0].cur = <<>> /\ Len(Cuts(ct)[0].lines) = 0
    <3>1. Cuts(ct)[0] = NoLines
      BY <2>3, CutsAre
    <3> QED
      BY <3>1 DEF NoLines
  <2> HIDE DEF c, s
  <2>5. CASE off >= s.lines
    <3> DEFINE d == [c EXCEPT !.pc = "done"]
    <3>1. rd' = d
      BY <1>1, <1>4, <2>5 DEF c, s
    <3>2. /\ d \in CallType /\ d.pc = "done" /\ d.op = "lines" /\ d.items = <<>> /\ d.sec = i
          /\ d.off = off /\ d.lim = lim /\ d.remaining = s.len /\ d.key = k
      BY <2>2 DEF CallType
    <3> HIDE DEF d
    <3>3. Located(d, s)
      BY <2>3, <3>2 DEF Located
    <3>4. LinesOf(ct) \in Seq(Line) /\ Len(LinesOf(ct)) <= off
      BY <2>3, <2>5, LinesBound
    <3>5. PageOf(d, LinesOf(ct)) = <<>>
      <4> DEFINE ls == LinesOf(ct)
      <4>1. ls \in Seq(Line) /\ Len(ls) <= off /\ d.off = off /\ d.lim = lim
        BY <3>2, <3>4
      <4> HIDE DEF ls
      <4>2. Len(ls) <= off => PageOf(d, ls) = <<>>
        BY <4>1, PageIs
      <4> QED
        BY <4>1, <4>2 DEF ls
    <3>6. Paged(d, s)
      BY <3>2, <3>5 DEF Paged
    <3>7. Reads(d)
      BY <2>1, <3>2, <3>3, <3>6 DEF Reads, s
    <3> QED
      BY <1>2, <3>1, <3>7, CallKeeps
  <2>6. CASE ~(off >= s.lines)
    <3> DEFINE e == Lesser(c.off \div LINE_INDEX_INTERVAL, Len(s.sparse))
               g == off \div LINE_INDEX_INTERVAL
    <3>1. rd' = Jump(c, s.sparse)
      BY <1>1, <1>4, <2>6 DEF c, s
    <3>2. s.sparse \in Seq(Note) /\ Len(s.sparse) \in Nat
      BY <2>3, SectionType
    <3>3. /\ LINE_INDEX_INTERVAL \in Nat \ {0} /\ g \in Nat
          /\ g * LINE_INDEX_INTERVAL <= off
      <4> DEFINE d == LINE_INDEX_INTERVAL
                 x == g * d
      <4>1. d \in Nat \ {0}
        BY Consts
      <4>2. g \in Nat /\ off % d \in 0 .. d - 1 /\ off = x + (off % d)
        BY <4>1, DivMod
      <4>3. x \in Nat
        BY <4>1, <4>2, Products
      <4> HIDE DEF x, g
      <4>4. x <= off
        BY <4>1, <4>2, <4>3
      <4> QED
        BY <4>1, <4>2, <4>4 DEF x
    <3> HIDE DEF g
    <3>4. e = Lesser(g, Len(s.sparse))
      BY <2>2 DEF g
    <3> HIDE DEF e
    <3>5. e \in Nat /\ e <= g /\ e <= Len(s.sparse)
      BY <3>2, <3>3, <3>4 DEF Lesser
    <3>6. CASE e = 0
      <4>1. Jump(c, s.sparse) = c
        BY <3>6 DEF Jump, e
      <4>2. s.len - c.remaining = 0 /\ 0 <= c.off
        BY <2>2, <2>3
      <4>3. Reads(c)
        <5>1. /\ Cuts(ContentOf(sections[i]))[sections[i].len - c.remaining].cur = <<>>
              /\ Len(Cuts(ContentOf(sections[i]))[sections[i].len - c.remaining].lines) = 0
          BY <2>4, <4>2 DEF s
        <5> QED
          BY <2>1, <2>2, <4>2, <5>1, LinesStart DEF s
      <4> QED
        BY <1>2, <3>1, <4>1, <4>3, CallKeeps
    <3>7. CASE e # 0
      <4> DEFINE n == s.sparse[e]
                 d == [c EXCEPT !.frame = n.frame, !.pos = n.pos, !.remaining = @ - n.byte,
                                !.seen = e * LINE_INDEX_INTERVAL]
      <4>1. e \in DOMAIN s.sparse /\ n \in Note
        BY <3>2, <3>5, <3>7
      <4>2. /\ n.byte \in 1 .. s.len /\ Place(n.frame, n.pos) = StartOf(s) + n.byte
            /\ Cuts(ct)[n.byte].cur = <<>> /\ Len(Cuts(ct)[n.byte].lines) = e * LINE_INDEX_INTERVAL
        BY <2>3, <4>1 DEF NotesInSync
      <4>3. n.frame \in Nat /\ n.pos \in Nat /\ n.pos < TEXT_FRAME_SIZE
        BY <4>1, Consts DEF Note
      <4>4. Jump(c, s.sparse) = d
        <5>1. ~(n.byte > c.remaining)
          BY <2>2, <2>3, <4>2
        <5> QED
          BY <3>7, <5>1 DEF Jump, e
      <4>5. e * LINE_INDEX_INTERVAL \in Nat /\ e * LINE_INDEX_INTERVAL <= off
        <5> DEFINE x == e * LINE_INDEX_INTERVAL
                   y == g * LINE_INDEX_INTERVAL
        <5>1. x \in Nat /\ y \in Nat /\ x <= y /\ y <= off
          BY <3>3, <3>5, Products
        <5> HIDE DEF x, y
        <5>2. x \in Nat /\ x <= off
          BY <5>1
        <5> QED
          BY <5>2 DEF x
      <4>6. s.len - n.byte \in Nat
        BY <2>3, <4>2
      <4> HIDE DEF n
      <4> DEFINE x == e * LINE_INDEX_INTERVAL
      <4> HIDE DEF x
      <4>7. /\ d \in CallType /\ d.sec = i /\ d.op = "lines" /\ d.key = k /\ d.pc = "frame"
            /\ d.items = <<>> /\ d.buf = <<>> /\ d.off = off
            /\ d.frame = n.frame /\ d.pos = n.pos /\ d.remaining = s.len - n.byte /\ d.seen = x
        BY <2>2, <4>3, <4>5, <4>6 DEF CallType, x
      <4> HIDE DEF d
      <4>8. Located(d, s)
        <5>1. Place(d.frame, d.pos) + d.remaining = StartOf(s) + s.len
          BY <2>3, <4>2, <4>7
        <5>2. d.remaining <= s.len /\ d.pos < TEXT_FRAME_SIZE
          BY <2>3, <4>2, <4>3, <4>7
        <5> QED
          BY <4>7, <5>1, <5>2 DEF Located, StartOf
      <4>9. s.len - d.remaining = n.byte
        BY <2>3, <4>2, <4>7
      <4>10. Reads(d)
        <5>1. /\ Cuts(ContentOf(sections[i]))[sections[i].len - d.remaining].cur = <<>>
              /\ Len(Cuts(ContentOf(sections[i]))[sections[i].len - d.remaining].lines) = d.seen
          BY <4>2, <4>7, <4>9 DEF s, x
        <5>2. d.seen <= d.off
          BY <4>5, <4>7 DEF x
        <5> QED
          BY <2>1, <4>7, <4>8, <5>1, <5>2, LinesStart DEF s
      <4> QED
        BY <1>2, <3>1, <4>4, <4>10, CallKeeps
    <3> QED
      BY <3>6, <3>7
  <2> QED
    BY <2>5, <2>6
<1> QED
  BY <1>3, <1>4

-----------------------------------------------------------------------------
(* Lists.                                                                  *)

LEMMA FirstIs ==
  ASSUME IInv, NEW kind
  PROVE  FirstOfKind(kind) \in 1 .. Len(sections) + 1
<1> DEFINE n == Len(sections)
           S == {i \in DOMAIN sections : KindOf(sections[i].key) < kind}
<1>1. n \in Nat /\ S \in SUBSET (1 .. n)
  BY Parts, Zenon
<1> HIDE DEF n, S
<1>2. IsFiniteSet(1 .. n) /\ Cardinality(1 .. n) = n
  <2>1. 1 \in Int /\ n \in Int
    BY <1>1
  <2>2. IsFiniteSet(1 .. n) /\ Cardinality(1 .. n) = IF 1 > n THEN 0 ELSE n - 1 + 1
    BY <2>1, FS_Interval
  <2> QED
    BY <1>1, <2>2
<1>3. IsFiniteSet(S) /\ Cardinality(S) <= n
  BY <1>1, <1>2, FS_Subset, Zenon
<1>4. Cardinality(S) \in Nat
  BY <1>3, FS_CardinalityType
<1> QED
  BY <1>1, <1>3, <1>4 DEF FirstOfKind, S, n

LEMMA ListCallIs ==
  ASSUME IInv, NEW i \in DOMAIN sections, NEW kind \in Nat
  PROVE  LET c == Call(kind, i, "list", 0, 0)
         IN  /\ c \in CallType /\ Located(c, sections[i]) /\ c.sec = i /\ c.key = kind
             /\ c.op = "list" /\ c.buf = <<>> /\ c.pc = "frame" /\ c.remaining = sections[i].len
<1>1. "list" \in {"get", "lines", "list"} /\ 0 \in Nat
  OBVIOUS
<1> QED
  BY <1>1, CallIs

\* The call for the next section of a list, or the list.
LEMMA ListFromReads ==
  ASSUME IInv, NEW kind \in Nat, NEW m \in 1 .. Len(sections) + 1, NEW items \in Seq(Text),
         Listed(items, kind, m)
  PROVE  Reads(ListFrom(kind, m, items))
<1>1. DOMAIN sections = 1 .. Len(sections) /\ Len(sections) \in Nat
  BY Parts, Zenon
<1>2. CASE OfKind(m, kind)
  <2> DEFINE c == Call(kind, m, "list", 0, 0)
             s == sections[m]
             d == [c EXCEPT !.items = items]
  <2>1. m \in DOMAIN sections
    BY <1>2 DEF OfKind
  <2>2. /\ c \in CallType /\ Located(c, s) /\ c.sec = m /\ c.key = kind /\ c.op = "list"
        /\ c.buf = <<>> /\ c.pc = "frame" /\ c.remaining = s.len
    BY <2>1, ListCallIs
  <2>3. s.len - s.len = 0 /\ ContentOf(s) \in Seq(Nat)
    BY <2>1, SectionIs
  <2>4. ListFrom(kind, m, items) = d
    BY <1>2 DEF ListFrom, OfKind
  <2> HIDE DEF c, s
  <2>5. /\ d \in CallType /\ d.sec = m /\ d.key = kind /\ d.op = "list" /\ d.items = items
        /\ d.buf = <<>> /\ d.pc = "frame" /\ d.remaining = s.len
        /\ d.frame = c.frame /\ d.pos = c.pos
    BY <2>2 DEF CallType
  <2> HIDE DEF d
  <2>6. Located(d, s)
    BY <2>2, <2>5 DEF Located
  <2>7. Copied(d, s)
    <3>1. SubSeq(ContentOf(s), 1, 0) = <<>>
      BY <2>3
    <3> QED
      BY <2>3, <2>5, <3>1 DEF Copied
  <2>8. Reads(d)
    BY <1>2, <2>5, <2>6, <2>7 DEF Reads, s
  <2> QED
    BY <2>4, <2>8
<1>3. CASE ~OfKind(m, kind)
  <2> DEFINE d == [pc |-> "listed", key |-> kind, items |-> items]
  <2>1. ListFrom(kind, m, items) = d
    BY <1>3 DEF ListFrom, OfKind
  <2>2. d.pc = "listed" /\ d.key = kind /\ d.items = items
    OBVIOUS
  <2> HIDE DEF d
  <2>3. Reads(d)
    BY <1>3, <2>2 DEF Reads
  <2> QED
    BY <2>1, <2>3
<1> QED
  BY <1>2, <1>3

LEMMA KindIs == \A k \in Nat : KindOf(k) \in Nat
BY DivMod DEF KindOf

LEMMA ListKeeps ==
  ASSUME IInv, NEW kind \in Nat, ListKind(kind)
  PROVE  IInv'
<1> DEFINE first == FirstOfKind(kind)
<1>1. /\ phase = "ready" /\ UNCHANGED <<phase, frames, frame_buf, sections, sw, text>>
      /\ rd' = ListFrom(kind, first, <<>>)
  BY DEF ListKind
<1>2. first \in 1 .. Len(sections) + 1 /\ Len(sections) \in Nat
  BY FirstIs, Parts, Zenon
<1>3. Listed(<<>>, kind, first)
  <2> HIDE DEF first
  <2>1. first <= first /\ Len(<<>>) = first - first /\ \A i \in first .. first - 1 : FALSE
    BY <1>2
  <2> QED
    BY <2>1 DEF Listed, first
<1>4. <<>> \in Seq(Text)
  OBVIOUS
<1>5. Reads(ListFrom(kind, first, <<>>))
  BY <1>2, <1>3, <1>4, ListFromReads
<1> QED
  BY <1>1, <1>5, CallKeeps

-----------------------------------------------------------------------------
(* The frames of a section, one after the other.                           *)

\* The call that goes on.
LEMMA CallGoesOn ==
  ASSUME IInv, rd.pc \in {"frame", "scan", "done"}
  PROVE  LET s == sections[rd.sec]
         IN  /\ phase = "ready" /\ frame_buf = <<>> /\ rd \in CallType /\ Located(rd, s)
             /\ rd.sec \in DOMAIN sections /\ rd.key \in Nat /\ rd.remaining \in Nat
             /\ rd.remaining <= s.len
             /\ rd.op \in {"get", "lines", "list"}
             /\ rd.op # "list" => s.key = rd.key
             /\ rd.op # "lines" => Copied(rd, s)
             /\ rd.op = "lines" => Paged(rd, s)
             /\ rd.op = "list" => /\ rd.pc = "frame" /\ rd.items \in Seq(Text)
                                  /\ Listed(rd.items, rd.key, rd.sec) /\ OfKind(rd.sec, rd.key)
<1>1. Reads(rd) /\ Shape
  BY DEF IInv, Reading
<1>2. phase = "ready"
  BY <1>1 DEF Shape, Idle
<1>3. frame_buf = <<>>
  BY <1>1, <1>2 DEF Shape
<1>4. rd \in CallType /\ Located(rd, sections[rd.sec])
  BY <1>1 DEF Reads
<1>5. /\ rd.sec \in DOMAIN sections /\ rd.key \in Nat /\ rd.remaining \in Nat
      /\ rd.op \in {"get", "lines", "list"}
  BY <1>4 DEF CallType
<1>6. rd.remaining <= sections[rd.sec].len
  BY <1>4 DEF Located
<1> QED
  BY <1>1, <1>2, <1>3, <1>4, <1>5, <1>6 DEF Reads

LEMMA AllReadKeeps ==
  ASSUME IInv, AllRead
  PROVE  IInv'
<1> DEFINE s == sections[rd.sec]
<1>1. /\ rd.pc = "frame" /\ rd.remaining = 0
      /\ UNCHANGED <<phase, frames, frame_buf, sections, sw, text>>
      /\ rd.op # "list" => rd' = [rd EXCEPT !.pc = "done"]
      /\ rd.op = "list" => rd' = ListFrom(rd.key, rd.sec + 1,
                                   Append(rd.items, [key |-> s.key, content |-> rd.buf]))
  BY DEF AllRead
<1>2. /\ phase = "ready" /\ rd \in CallType /\ Located(rd, s)
      /\ rd.sec \in DOMAIN sections /\ rd.key \in Nat
      /\ rd.op # "list" => s.key = rd.key
      /\ rd.op # "lines" => Copied(rd, s)
      /\ rd.op = "lines" => Paged(rd, s)
      /\ rd.op = "list" => /\ rd.items \in Seq(Text)
                           /\ Listed(rd.items, rd.key, rd.sec) /\ OfKind(rd.sec, rd.key)
  BY <1>1, CallGoesOn
<1>3. /\ s \in Section /\ s.len \in Nat /\ TextOf(s) \in Text
      /\ ContentOf(s) \in Seq(Nat) /\ Len(ContentOf(s)) = s.len
  BY <1>2, SectionIs
<1>4. CASE rd.op # "list"
  <2> DEFINE d == [rd EXCEPT !.pc = "done"]
  <2>1. /\ d \in CallType /\ d.pc = "done" /\ d.op = rd.op /\ d.sec = rd.sec /\ d.key = rd.key
        /\ d.remaining = 0 /\ d.buf = rd.buf /\ d.items = rd.items
        /\ d.off = rd.off /\ d.lim = rd.lim
    BY <1>1, <1>2 DEF CallType
  <2>2. rd' = d
    BY <1>1, <1>4
  <2> HIDE DEF d, s
  <2>3. Located(d, s)
    BY <1>3, <2>1 DEF Located
  <2>4. rd.op # "lines" => Copied(d, s)
    BY <1>1, <1>2, <2>1 DEF Copied
  <2>5. rd.op = "lines" => Paged(d, s)
    BY <1>1, <1>2, <2>1 DEF Paged, PageOf
  <2>6. Reads(d)
    BY <1>2, <1>4, <2>1, <2>3, <2>4, <2>5 DEF Reads, s
  <2> QED
    BY <1>1, <1>2, <2>2, <2>6, CallKeeps
<1>5. CASE rd.op = "list"
  <2> DEFINE t == [key |-> s.key, content |-> rd.buf]
             items == Append(rd.items, t)
             m == rd.sec
             first == FirstOfKind(rd.key)
  <2>1. t = TextOf(s)
    <3>1. rd.buf = SubSeq(ContentOf(s), 1, s.len - 0)
      BY <1>1, <1>2, <1>5 DEF Copied
    <3>2. SubSeq(ContentOf(s), 1, s.len - 0) = ContentOf(s)
      BY <1>3
    <3> QED
      BY <3>1, <3>2 DEF TextOf
  <2> HIDE DEF t
  <2>2. m \in 1 .. Len(sections) /\ Len(sections) \in Nat /\ first \in 1 .. Len(sections) + 1
    BY <1>2, FirstIs, Parts, Zenon
  <2>3. /\ rd.items \in Seq(Text) /\ first <= m /\ Len(rd.items) = m - first
        /\ \A i \in first .. m - 1 : /\ KindOf(sections[i].key) = rd.key
                                     /\ rd.items[i - first + 1] = TextOf(sections[i])
        /\ KindOf(sections[m].key) = rd.key
    BY <1>2, <1>5 DEF Listed, OfKind
  <2>4. /\ items \in Seq(Text) /\ Len(items) = Len(rd.items) + 1
        /\ \A i \in 1 .. Len(rd.items) : items[i] = rd.items[i]
        /\ items[Len(rd.items) + 1] = t
    BY <1>3, <2>1, <2>3
  <2> HIDE DEF items, first, m
  <2>5. ASSUME NEW i \in first .. (m + 1) - 1
        PROVE  /\ KindOf(sections[i].key) = rd.key
               /\ items[i - first + 1] = TextOf(sections[i])
    <3>1. CASE i = m
      <4>1. i - first + 1 = Len(rd.items) + 1
        BY <2>2, <2>3, <3>1
      <4> QED
        BY <2>1, <2>3, <2>4, <3>1, <4>1 DEF m
    <3>2. CASE i # m
      <4>1. i \in first .. m - 1 /\ i - first + 1 \in 1 .. Len(rd.items)
        BY <2>2, <2>3, <3>2
      <4> QED
        BY <2>3, <2>4, <4>1
    <3> QED
      BY <3>1, <3>2
  <2>6. first <= m + 1 /\ Len(items) = (m + 1) - first
    BY <2>2, <2>3, <2>4
  <2>7. Listed(items, rd.key, m + 1)
    BY <2>5, <2>6 DEF Listed, first
  <2>8. m + 1 \in 1 .. Len(sections) + 1
    BY <2>2
  <2>9. Reads(ListFrom(rd.key, m + 1, items))
    BY <1>2, <2>4, <2>7, <2>8, ListFromReads
  <2>10. rd' = ListFrom(rd.key, m + 1, items)
    BY <1>1, <1>5 DEF m, items, t
  <2> QED
    BY <1>1, <1>2, <2>9, <2>10, CallKeeps
<1> QED
  BY <1>4, <1>5

\* The bytes of a frame that belong to the section, and what comes after them.
LEMMA FrameIs ==
  ASSUME IInv, rd.pc = "frame", rd.remaining > 0
  PROVE  LET s == sections[rd.sec]
             ct == ContentOf(s)
             n == s.len - rd.remaining
             frame == frames[rd.frame + 1]
             take == Lesser(rd.remaining, Len(frame) - rd.pos)
         IN  /\ rd.frame < Len(frames) /\ take \in Nat /\ take <= rd.remaining
             /\ Slice(frame, rd.pos, take) = SubSeq(ct, n + 1, n + take)
             /\ take < rd.remaining => Place(rd.frame + 1, 0) = StartOf(s) + n + take
<1> DEFINE s == sections[rd.sec]
           ct == ContentOf(s)
           n == s.len - rd.remaining
           frame == frames[rd.frame + 1]
           take == Lesser(rd.remaining, Len(frame) - rd.pos)
           f == rd.frame
           q == rd.pos
           r == rd.remaining
           T == TEXT_FRAME_SIZE
<1>1. /\ frame_buf = <<>> /\ rd \in CallType /\ Located(rd, s) /\ rd.sec \in DOMAIN sections
  BY CallGoesOn
<1>2. s.len \in Nat /\ ct \in Seq(Nat) /\ Len(ct) = s.len /\ StartOf(s) \in Nat
  BY <1>1, SectionIs
<1>0. \A k \in 1 .. s.len : Stored(frames, frame_buf, StartOf(s) + k - 1, ct[k])
  BY <1>1, SectionIs
<1>3. f \in Nat /\ q \in Nat /\ r \in Nat /\ r > 0 /\ T \in Nat \ {0}
  BY <1>1, Consts DEF CallType
<1>4. r <= s.len /\ q < T /\ Place(f, q) + r = StartOf(s) + s.len
  BY <1>1 DEF Located, StartOf
<1>5. frames \in Seq(Line) /\ Len(frames) \in Nat
  <2>1. frames \in Seq(Line)
    BY Parts, Zenon
  <2> QED
    BY <2>1
<1>6. \A i \in 1 .. Len(frames) : Len(frames[i]) <= T
  <2>1. \A i \in DOMAIN frames : Len(frames[i]) \in 1 .. T
    BY DEF IInv, EntriesFindText, TypeOK
  <2> QED
    BY <1>3, <1>5, <2>1
<1> HIDE DEF s, ct, n, frame, take, f, q, r, T
<1>7. n \in Nat /\ n + r = s.len
  BY <1>2, <1>3, <1>4 DEF n, r
<1>8. Place(f, q) = StartOf(s) + n /\ Place(f, q) \in Nat
  <2>1. Place(f, q) \in Nat
    BY <1>3, PlaceNext
  <2> QED
    BY <1>2, <1>3, <1>4, <1>7, <2>1, SMTT(30)
<1>9. ASSUME NEW k \in Nat, q + k < T, k < r
      PROVE  /\ q + k + 1 \in DOMAIN Chunk(frames, <<>>, f)
             /\ Chunk(frames, <<>>, f)[q + k + 1] = ct[n + k + 1]
  <2>1. q + k \in 0 .. T - 1 /\ q + k \in Nat /\ n + k + 1 \in 1 .. s.len
    BY <1>2, <1>3, <1>7, <1>9
  <2>2. Place(f, q + k) = StartOf(s) + (n + k + 1) - 1
    <3>1. Place(f, q + k) = Place(f, 0) + (q + k) /\ Place(f, q) = Place(f, 0) + q
          /\ Place(f, 0) \in Nat
      BY <1>3, <2>1, PlaceNext
    <3>2. StartOf(s) \in Nat /\ n \in Nat /\ q \in Nat /\ Place(f, 0) + q = StartOf(s) + n
      BY <1>2, <1>3, <1>7, <1>8, <3>1
    <3>3. Place(f, 0) + (q + k) = StartOf(s) + (n + k + 1) - 1
      BY <3>1, <3>2
    <3> QED
      BY <3>1, <3>3
  <2>3. Stored(frames, <<>>, Place(f, q + k), ct[n + k + 1])
    BY <1>0, <1>1, <2>1, <2>2
  <2>4. Place(f, q + k) \div TEXT_FRAME_SIZE = f /\ Place(f, q + k) % TEXT_FRAME_SIZE = q + k
    BY <1>3, <2>1, PlaceIs DEF T
  <2> QED
    BY <2>3, <2>4 DEF Stored
<1>10. f < Len(frames) /\ Chunk(frames, <<>>, f) = frame
  <2>1. q + 0 + 1 \in DOMAIN Chunk(frames, <<>>, f)
    <3>1. 0 \in Nat /\ q + 0 < T /\ 0 < r
      BY <1>3, <1>4
    <3> QED
      BY <1>9, <3>1
  <2>2. Chunk(frames, <<>>, f) # <<>>
    BY <2>1
  <2>3. f < Len(frames)
    BY <2>2 DEF Chunk
  <2> QED
    BY <2>3 DEF Chunk, frame, f
<1>18. frame \in Line /\ Len(frame) \in Nat /\ Len(frame) <= T /\ DOMAIN frame = 1 .. Len(frame)
  <2>1. f + 1 \in 1 .. Len(frames)
    BY <1>3, <1>5, <1>10
  <2>2. frame \in Line /\ Len(frame) <= T
    BY <1>5, <1>6, <2>1 DEF frame, f
  <2> QED
    BY <2>2 DEF Line
<1>11. Len(frame) \in Nat /\ Len(frame) <= T
  BY <1>18
<1>12. \A k \in Nat : q + k < T /\ k < r => /\ q + k + 1 \in 1 .. Len(frame)
                                            /\ frame[q + k + 1] = ct[n + k + 1]
  BY <1>9, <1>10, <1>18
<1>13. q < Len(frame)
  <2>1. 0 \in Nat /\ q + 0 < T /\ 0 < r /\ q + 0 + 1 = q + 1
    BY <1>3, <1>4
  <2> QED
    BY <1>3, <1>11, <1>12, <2>1
<1>14. /\ take \in Nat /\ take <= r /\ q + take <= Len(frame)
       /\ take < r => q + take = Len(frame)
  BY <1>3, <1>11, <1>13 DEF take, Lesser, r, q
<1>15. \A i \in 1 .. take : frame[q + i] = ct[n + i]
  <2> TAKE i \in 1 .. take
  <2>1. i - 1 \in Nat /\ q + (i - 1) < T /\ i - 1 < r /\ q + (i - 1) + 1 = q + i
        /\ n + (i - 1) + 1 = n + i
    BY <1>3, <1>7, <1>11, <1>14
  <2> QED
    BY <1>12, <2>1
<1>16. Slice(frame, q, take) = SubSeq(ct, n + 1, n + take)
  <2> DEFINE a == SubSeq(frame, q + 1, q + take)
             b == SubSeq(ct, n + 1, n + take)
  <2>0. frame \in Seq(Nat)
    BY <1>18 DEF Line
  <2>1. q + take \in Nat /\ q <= q + take /\ (q + take) - q = take /\ q + take <= Len(frame)
    BY <1>3, <1>14
  <2>2. a \in Seq(Nat) /\ Len(a) = take /\ \A i \in 1 .. take : a[i] = frame[q + i]
    BY <1>3, <2>0, <2>1, SubSeqIs
  <2>3. n + take \in Nat /\ n <= n + take /\ n + take <= Len(ct) /\ (n + take) - n = take
    BY <1>2, <1>3, <1>7, <1>14
  <2>4. b \in Seq(Nat) /\ Len(b) = take /\ \A i \in 1 .. take : b[i] = ct[n + i]
    <3>1. n \in Nat /\ ct \in Seq(Nat)
      BY <1>2, <1>7
    <3>2. /\ b \in Seq(Nat) /\ Len(b) = (n + take) - n
          /\ \A i \in 1 .. (n + take) - n : b[i] = ct[n + i]
      BY <2>3, <3>1, SubSeqIs
    <3> QED
      BY <2>3, <3>2
  <2> HIDE DEF a, b
  <2>5. \A i \in 1 .. Len(a) : a[i] = b[i]
    BY <1>15, <2>2, <2>4
  <2>6. a = b
    BY <2>2, <2>4, <2>5, SeqEqual
  <2> QED
    BY <2>6 DEF a, b, Slice
<1>17. take < r => Place(f + 1, 0) = StartOf(s) + n + take
  <2> SUFFICES ASSUME take < r PROVE Place(f + 1, 0) = StartOf(s) + n + take
    OBVIOUS
  <2>1. q + take = Len(frame)
    BY <1>14
  <2>2. Len(frame) = T
    <3> SUFFICES ASSUME Len(frame) # T PROVE FALSE
      OBVIOUS
    <3>1. q + take < T
      BY <1>3, <1>11, <1>14, <2>1
    <3>2. q + take + 1 \in 1 .. Len(frame)
      BY <1>12, <1>14, <3>1
    <3> QED
      BY <1>11, <2>1, <3>2
  <2>3. /\ Place(f + 1, 0) = Place(f, T) /\ Place(f, T) = Place(f, 0) + T
        /\ Place(f, q) = Place(f, 0) + q /\ Place(f, 0) \in Nat
    BY <1>3, PlaceNext DEF T
  <2>4. /\ StartOf(s) \in Nat /\ n \in Nat /\ q \in Nat /\ take \in Nat /\ q + take = T
        /\ Place(f, 0) + q = StartOf(s) + n
    BY <1>2, <1>3, <1>7, <1>8, <1>14, <2>1, <2>2, <2>3
  <2>5. Place(f, 0) + T = StartOf(s) + n + take
    BY <2>3, <2>4
  <2> QED
    BY <2>3, <2>5
<1> QED
  BY <1>10, <1>14, <1>16, <1>17 DEF s, ct, n, frame, take, f, q, r

LEMMA ConcatIs ==
  ASSUME NEW a \in Seq(Nat), NEW b \in Seq(Nat)
  PROVE  /\ a \o b \in Seq(Nat) /\ Len(a \o b) = Len(a) + Len(b)
         /\ \A i \in 1 .. Len(a) : (a \o b)[i] = a[i]
         /\ \A i \in 1 .. Len(b) : (a \o b)[Len(a) + i] = b[i]
OBVIOUS

LEMMA SubSeqConcat ==
  ASSUME NEW s \in Seq(Nat), NEW n \in Nat, NEW m \in Nat, n <= m, m <= Len(s)
  PROVE  SubSeq(s, 1, n) \o SubSeq(s, n + 1, m) = SubSeq(s, 1, m)
<1> DEFINE a == SubSeq(s, 0 + 1, n)
           b == SubSeq(s, n + 1, m)
           c == SubSeq(s, 0 + 1, m)
           ab == a \o b
<1>1. 0 \in Nat /\ 0 <= n /\ 0 <= m /\ n <= Len(s) /\ n - 0 = n /\ m - 0 = m /\ 0 + 1 = 1
  OBVIOUS
<1>2. a \in Seq(Nat) /\ Len(a) = n - 0 /\ \A i \in 1 .. n - 0 : a[i] = s[0 + i]
  BY <1>1, SubSeqIs
<1>3. b \in Seq(Nat) /\ Len(b) = m - n /\ \A i \in 1 .. m - n : b[i] = s[n + i]
  BY SubSeqIs
<1>4. c \in Seq(Nat) /\ Len(c) = m - 0 /\ \A i \in 1 .. m - 0 : c[i] = s[0 + i]
  BY <1>1, SubSeqIs
<1> HIDE DEF a, b, c
<1>5. /\ ab \in Seq(Nat) /\ Len(ab) = n + (m - n)
      /\ \A i \in 1 .. n : ab[i] = a[i]
      /\ \A i \in 1 .. m - n : ab[n + i] = b[i]
  <2>1. a \in Seq(Nat) /\ Len(a) = n /\ b \in Seq(Nat) /\ Len(b) = m - n /\ m - n \in Nat
    BY <1>1, <1>2, <1>3
  <2>2. /\ ab \in Seq(Nat) /\ Len(ab) = Len(a) + Len(b)
        /\ \A i \in 1 .. Len(a) : ab[i] = a[i]
        /\ \A i \in 1 .. Len(b) : ab[Len(a) + i] = b[i]
    BY <2>1, ConcatIs
  <2> HIDE DEF ab
  <2> QED
    BY <2>1, <2>2
<1> HIDE DEF ab
<1>6. \A i \in 1 .. m : ab[i] = c[i]
  <2> TAKE i \in 1 .. m
  <2>1. c[i] = s[i]
    BY <1>4
  <2>2. CASE i <= n
    <3>1. i \in 1 .. n /\ a[i] = s[i]
      BY <1>2, <2>2
    <3> QED
      BY <1>5, <2>1, <3>1
  <2>3. CASE i > n
    <3>1. i - n \in 1 .. m - n /\ n + (i - n) = i
      BY <2>3
    <3> QED
      BY <1>3, <1>5, <2>1, <3>1
  <2> QED
    BY <2>2, <2>3
<1>7. ab = c
  <2>1. Len(ab) = m /\ Len(c) = m
    BY <1>1, <1>4, <1>5
  <2> QED
    BY <1>4, <1>5, <1>6, <2>1, SeqEqual
<1> QED
  BY <1>1, <1>7 DEF a, b, c, ab

LEMMA ReadFrameKeeps ==
  ASSUME IInv, ReadFrame
  PROVE  IInv'
<1> DEFINE s == sections[rd.sec]
           ct == ContentOf(s)
           n == s.len - rd.remaining
           frame == frames[rd.frame + 1]
           take == Lesser(rd.remaining, Len(frame) - rd.pos)
           data == Slice(frame, rd.pos, take)
           c == [rd EXCEPT !.remaining = @ - take]
<1>1. /\ rd.pc = "frame" /\ rd.remaining > 0
      /\ UNCHANGED <<phase, frames, frame_buf, sections, sw, text>>
      /\ rd' = IF rd.frame >= Len(frames) THEN [rd EXCEPT !.pc = "error"]
               ELSE IF rd.op # "lines" THEN NextFrame([c EXCEPT !.buf = @ \o data])
               ELSE [c EXCEPT !.pc = "scan", !.data = data, !.start = 0]
  BY DEF ReadFrame
<1>2. /\ phase = "ready" /\ rd \in CallType /\ Located(rd, s)
      /\ rd.sec \in DOMAIN sections /\ rd.key \in Nat /\ rd.remaining <= s.len
      /\ rd.op # "list" => s.key = rd.key
      /\ rd.op # "lines" => Copied(rd, s)
      /\ rd.op = "lines" => Paged(rd, s)
      /\ rd.op = "list" => /\ rd.items \in Seq(Text)
                           /\ Listed(rd.items, rd.key, rd.sec) /\ OfKind(rd.sec, rd.key)
  BY <1>1, CallGoesOn
<1>3. /\ s.len \in Nat /\ ct \in Seq(Nat) /\ Len(ct) = s.len /\ StartOf(s) \in Nat
  BY <1>2, SectionIs
<1>4. /\ rd.frame < Len(frames) /\ take \in Nat /\ take <= rd.remaining
      /\ data = SubSeq(ct, n + 1, n + take)
      /\ take < rd.remaining => Place(rd.frame + 1, 0) = StartOf(s) + n + take
  BY <1>1, FrameIs
<1>5. /\ rd.remaining \in Nat /\ rd.frame \in Nat /\ rd.buf \in Seq(Nat) /\ Len(frames) \in Nat
  <2>1. frames \in Seq(Line)
    BY Parts
  <2> QED
    BY <1>2, <2>1 DEF CallType
<1> HIDE DEF s, ct, n, take, data, frame
<1>6. n \in Nat /\ n = s.len - rd.remaining
  BY <1>2, <1>3, <1>5 DEF n
<1>14. /\ s.len \in Nat /\ rd.remaining \in Nat /\ take \in Nat /\ StartOf(s) \in Nat
       /\ take <= rd.remaining /\ rd.remaining <= s.len /\ n + rd.remaining = s.len
  <2>1. s.len \in Nat /\ rd.remaining \in Nat /\ rd.remaining <= s.len
    BY <1>2, <1>3, <1>5
  <2>2. n + rd.remaining = s.len
    BY <1>6, <2>1
  <2> QED
    BY <1>3, <1>4, <2>1, <2>2
<1>7. n + take \in Nat /\ n + take <= Len(ct) /\ (n + take) - n = take /\ n <= n + take
  <2>1. Len(ct) = s.len
    BY <1>3
  <2> QED
    BY <1>6, <1>14, <2>1
<1>8. data \in Seq(Nat) /\ Len(data) = take
  BY <1>3, <1>4, <1>6, <1>7, SubSeqIs
<1>9. /\ rd.remaining - take \in Nat /\ rd.remaining - take <= s.len
      /\ s.len - (rd.remaining - take) = n + take
  BY <1>6, <1>14
<1>10. rd.remaining - take > 0 =>
         Place(rd.frame + 1, 0) + (rd.remaining - take) = StartOf(s) + s.len
  <2> SUFFICES ASSUME rd.remaining - take > 0
               PROVE  Place(rd.frame + 1, 0) + (rd.remaining - take) = StartOf(s) + s.len
    OBVIOUS
  <2>1. take < rd.remaining
    BY <1>4, <1>5
  <2>2. Place(rd.frame + 1, 0) = StartOf(s) + n + take
    BY <1>4, <2>1
  <2> QED
    BY <1>6, <1>14, <2>2
<1>11. rd' = IF rd.op # "lines" THEN NextFrame([c EXCEPT !.buf = @ \o data])
             ELSE [c EXCEPT !.pc = "scan", !.data = data, !.start = 0]
  BY <1>1, <1>4, <1>5
<1>12. CASE rd.op # "lines"
  <2> DEFINE d == NextFrame([c EXCEPT !.buf = @ \o data])
  <2>1. rd.buf \o data \in Seq(Nat)
    BY <1>5, <1>8
  <2>2. rd' = d
    BY <1>11, <1>12
  <2>3. /\ d \in CallType /\ d.pc = "frame" /\ d.op = rd.op /\ d.sec = rd.sec /\ d.key = rd.key
        /\ d.remaining = rd.remaining - take /\ d.buf = rd.buf \o data /\ d.items = rd.items
        /\ d.frame = rd.frame + 1 /\ d.pos = 0
    <3> DEFINE c2 == [c EXCEPT !.buf = @ \o data]
    <3>1. rd.frame + 1 \in Nat /\ 0 \in Nat
      BY <1>5
    <3>2. /\ c2 \in CallType /\ c2.pc = "frame" /\ c2.op = rd.op /\ c2.sec = rd.sec /\ c2.key = rd.key
          /\ c2.remaining = rd.remaining - take /\ c2.buf = rd.buf \o data /\ c2.items = rd.items
          /\ c2.frame = rd.frame
      BY <1>1, <1>2, <1>9, <2>1 DEF CallType
    <3>3. d = [c2 EXCEPT !.frame = @ + 1, !.pos = 0]
      BY DEF NextFrame
    <3> HIDE DEF c2, d
    <3> QED
      BY <3>1, <3>2, <3>3 DEF CallType
  <2> HIDE DEF d
  <2>4. Located(d, s)
    <3>1. 0 < TEXT_FRAME_SIZE
      BY Consts
    <3> QED
      BY <1>9, <1>10, <2>3, <3>1 DEF Located, StartOf
  <2>5. Copied(d, s)
    <3>1. rd.buf = SubSeq(ct, 1, n)
      BY <1>2, <1>6, <1>12 DEF Copied, ct
    <3>2. rd.buf \o data = SubSeq(ct, 1, n + take)
      <4>1. SubSeq(ct, 1, n) \o SubSeq(ct, n + 1, n + take) = SubSeq(ct, 1, n + take)
        BY <1>3, <1>6, <1>7, SubSeqConcat
      <4> QED
        BY <1>4, <3>1, <4>1
    <3> QED
      BY <1>9, <2>3, <3>2 DEF Copied, ct
  <2>6. Reads(d)
    BY <1>2, <1>12, <2>3, <2>4, <2>5 DEF Reads, s
  <2> QED
    BY <1>1, <1>2, <2>2, <2>6, CallKeeps
<1>13. CASE rd.op = "lines"
  <2> DEFINE d == [c EXCEPT !.pc = "scan", !.data = data, !.start = 0]
  <2>1. rd' = d
    BY <1>11, <1>13
  <2>2. /\ d \in CallType /\ d.pc = "scan" /\ d.op = "lines" /\ d.sec = rd.sec /\ d.key = rd.key
        /\ d.remaining = rd.remaining - take /\ d.buf = rd.buf /\ d.items = rd.items
        /\ d.frame = rd.frame /\ d.data = data /\ d.start = 0 /\ d.seen = rd.seen
        /\ d.off = rd.off /\ d.lim = rd.lim
    BY <1>2, <1>8, <1>9, <1>13 DEF CallType
  <2> HIDE DEF d
  <2>3. Located(d, s)
    BY <1>9, <1>10, <2>2 DEF Located, StartOf
  <2>4. InLine(rd, s, n)
    BY <1>1, <1>2, <1>6, <1>13 DEF Paged
  <2>5. InLine(d, s, n)
    BY <2>2, <2>4 DEF InLine, PageOf
  <2>6. Paged(d, s)
    <3>1. s.len - d.remaining = n + take
      BY <1>9, <2>2
    <3>2. /\ (n + take) - Len(d.data) + 1 = n + 1 /\ (n + take) - (Len(d.data) - d.start) = n
          /\ Len(d.data) <= n + take /\ d.start <= Len(d.data)
      <4>1. Len(d.data) = take /\ d.start = 0 /\ n \in Nat /\ take \in Nat
        BY <1>4, <1>6, <1>8, <2>2
      <4> QED
        BY <4>1
    <3>3. d.data = SubSeq(ContentOf(s), (n + take) - Len(d.data) + 1, n + take)
      BY <1>4, <2>2, <3>2 DEF ct
    <3> QED
      BY <2>2, <2>5, <3>1, <3>2, <3>3 DEF Paged
  <2>7. Reads(d)
    BY <1>2, <1>13, <2>2, <2>3, <2>6 DEF Reads, s
  <2> QED
    BY <1>1, <1>2, <2>1, <2>7, CallKeeps
<1> QED
  BY <1>12, <1>13

-----------------------------------------------------------------------------
(* The lines of a frame.                                                   *)

\* Where the scan of a frame is in the section.
LEMMA ScanAt ==
  ASSUME IInv, rd.pc = "scan"
  PROVE  LET s == sections[rd.sec]
             ct == ContentOf(s)
             n == s.len - rd.remaining
             j == n - (Len(rd.data) - rd.start)
         IN  /\ s \in Section /\ s.len \in Nat /\ ct \in Seq(Nat) /\ Len(ct) = s.len
             /\ rd \in CallType /\ Located(rd, s) /\ rd.sec \in DOMAIN sections
             /\ phase = "ready" /\ rd.op = "lines" /\ s.key = rd.key
             /\ n \in Nat /\ n <= Len(ct) /\ j \in Nat /\ j <= n
             /\ rd.start \in Nat /\ rd.start <= Len(rd.data) /\ Len(rd.data) \in Nat
             /\ rd.buf \in Line /\ rd.off \in Nat /\ rd.lim \in Nat /\ rd.remaining \in Nat
             /\ InLine(rd, s, j)
             /\ \A i \in rd.start + 1 .. Len(rd.data) : rd.data[i] = ct[j + (i - rd.start)]
             /\ \A m \in rd.start .. Len(rd.data) :
                  SubSeq(rd.data, rd.start + 1, m) = SubSeq(ct, j + 1, j + (m - rd.start))
<1> DEFINE s == sections[rd.sec]
           ct == ContentOf(s)
           n == s.len - rd.remaining
           data == rd.data
           b == rd.start
           j == n - (Len(data) - b)
<1>1. /\ phase = "ready" /\ rd \in CallType /\ Located(rd, s) /\ rd.sec \in DOMAIN sections
      /\ rd.remaining \in Nat /\ rd.remaining <= s.len
      /\ rd.op \in {"get", "lines", "list"}
      /\ rd.op # "list" => s.key = rd.key
      /\ rd.op # "lines" => Copied(rd, s)
      /\ rd.op = "lines" => Paged(rd, s)
  BY CallGoesOn
<1>2. rd.op = "lines"
  BY <1>1 DEF Copied
<1>3. s \in Section /\ s.len \in Nat /\ ct \in Seq(Nat) /\ Len(ct) = s.len
  BY <1>1, SectionIs
<1>4. /\ data \in Seq(Nat) /\ b \in Nat /\ rd.buf \in Line /\ rd.off \in Nat /\ rd.lim \in Nat
  BY <1>1 DEF CallType, Line
<1>5. /\ Len(data) <= n /\ b <= Len(data)
      /\ data = SubSeq(ct, n - Len(data) + 1, n) /\ InLine(rd, s, j)
  BY <1>1, <1>2 DEF Paged
<1>6. s.key = rd.key
  BY <1>1, <1>2
<1> HIDE DEF s, ct, n, data, b, j
<1>7. Len(data) \in Nat
  BY <1>4
<1>8. n \in Nat /\ n <= Len(ct)
  BY <1>1, <1>3 DEF n
<1>9. j \in Nat /\ j <= n /\ j = n - (Len(data) - b)
  BY <1>4, <1>5, <1>7, <1>8 DEF j
<1> DEFINE a == n - Len(data)
<1>10. a \in Nat /\ a <= n /\ n - a = Len(data) /\ j = a + b
  BY <1>4, <1>5, <1>7, <1>8, <1>9
<1>11. data = SubSeq(ct, a + 1, n)
  BY <1>5
<1> HIDE DEF a
<1>12. \A i \in 1 .. Len(data) : data[i] = ct[a + i]
  <2>1. \A i \in 1 .. n - a : SubSeq(ct, a + 1, n)[i] = ct[a + i]
    BY <1>3, <1>8, <1>10, SubSeqIs
  <2> QED
    BY <1>10, <1>11, <2>1
<1>13. \A i \in b + 1 .. Len(data) : data[i] = ct[j + (i - b)]
  <2> TAKE i \in b + 1 .. Len(data)
  <2>1. i \in 1 .. Len(data) /\ a + i = j + (i - b)
    BY <1>4, <1>7, <1>10
  <2> QED
    BY <1>12, <2>1
<1>14. \A m \in b .. Len(data) : SubSeq(data, b + 1, m) = SubSeq(ct, j + 1, j + (m - b))
  <2> TAKE m \in b .. Len(data)
  <2> DEFINE u == SubSeq(data, b + 1, m)
             v == SubSeq(ct, j + 1, j + (m - b))
             w == j + (m - b)
  <2>1. m \in Nat /\ b <= m /\ m <= Len(data)
    BY <1>4, <1>7
  <2>2. w \in Nat /\ j <= w /\ w <= n /\ w - j = m - b
    BY <1>4, <1>7, <1>8, <1>9, <1>10, <2>1
  <2>3. w <= Len(ct)
    BY <1>3, <1>8, <2>2
  <2>4. u \in Seq(Nat) /\ Len(u) = m - b /\ \A i \in 1 .. m - b : u[i] = data[b + i]
    BY <1>4, <2>1, SubSeqIs
  <2>5. v \in Seq(Nat) /\ Len(v) = w - j /\ \A i \in 1 .. w - j : v[i] = ct[j + i]
    <3>1. \A x : x = w => SubSeq(ct, j + 1, x) = SubSeq(ct, j + 1, w)
      OBVIOUS
    <3> HIDE DEF w
    <3>2. /\ SubSeq(ct, j + 1, w) \in Seq(Nat) /\ Len(SubSeq(ct, j + 1, w)) = w - j
          /\ \A i \in 1 .. w - j : SubSeq(ct, j + 1, w)[i] = ct[j + i]
      BY <1>3, <1>9, <2>2, <2>3, SubSeqIs
    <3> QED
      BY <3>2 DEF w
  <2>6. \A i \in 1 .. m - b : data[b + i] = ct[j + i]
    <3> TAKE i \in 1 .. m - b
    <3>1. b + i \in 1 .. Len(data) /\ a + (b + i) = j + i
      BY <1>4, <1>7, <1>10, <2>1
    <3> QED
      BY <1>12, <3>1
  <2> HIDE DEF u, v, w
  <2>7. Len(u) = Len(v) /\ \A i \in 1 .. Len(u) : u[i] = v[i]
    BY <2>2, <2>4, <2>5, <2>6
  <2>8. u = v
    BY <2>4, <2>5, <2>7, SeqEqual
  <2> QED
    BY <2>8 DEF u, v
<1> QED
  BY <1>1, <1>2, <1>3, <1>4, <1>5, <1>6, <1>7, <1>8, <1>9, <1>13, <1>14 DEF s, ct, n, data, b, j

LEMMA MinIs ==
  ASSUME NEW S \in SUBSET Nat, S # {}
  PROVE  Min(S) \in S /\ \A y \in S : Min(S) <= y
<1>1. PICK x \in S : \A y \in S : <<y, x>> \notin OpToRel(<, Nat)
  BY NatLessThanWellFounded, WFMin, Zenon
<1>2. \A y \in S : x <= y
  <2> TAKE y \in S
  <2>1. x \in Nat /\ y \in Nat /\ <<y, x>> \notin OpToRel(<, Nat)
    BY <1>1, Zenon
  <2>2. <<y, x>> \in OpToRel(<, Nat) <=> y < x
    BY <2>1 DEF OpToRel
  <2>3. x \in Nat /\ y \in Nat /\ ~(y < x)
    BY <2>1, <2>2, Zenon
  <2> QED
    BY <2>3
<1> QED
  BY <1>2 DEF Min

\* The bytes up to the next newline, or to the end of the frame.
LEMMA Scanned ==
  ASSUME IInv, rd.pc = "scan", NEW m \in rd.start .. Len(rd.data),
         \A i \in rd.start + 1 .. m : rd.data[i] # NL
  PROVE  LET s == sections[rd.sec]
             ct == ContentOf(s)
             j == (s.len - rd.remaining) - (Len(rd.data) - rd.start)
             e == j + (m - rd.start)
             l == rd.buf \o SubSeq(rd.data, rd.start + 1, m)
         IN  /\ e \in Nat /\ j <= e /\ e <= s.len - rd.remaining /\ l \in Line
             /\ Cuts(ct)[e].cur = l /\ Cuts(ct)[e].lines \in Seq(Line)
             /\ rd.seen = Len(Cuts(ct)[e].lines) /\ rd.items = PageOf(rd, Cuts(ct)[e].lines)
<1> DEFINE s == sections[rd.sec]
           ct == ContentOf(s)
           n == s.len - rd.remaining
           data == rd.data
           b == rd.start
           j == n - (Len(data) - b)
           e == j + (m - b)
           l == rd.buf \o SubSeq(data, b + 1, m)
<1>1. /\ ct \in Seq(Nat) /\ InLine(rd, s, j)
      /\ \A i \in b + 1 .. Len(data) : data[i] = ct[j + (i - b)]
      /\ \A x \in b .. Len(data) : SubSeq(data, b + 1, x) = SubSeq(ct, j + 1, j + (x - b))
  BY ScanAt
<1>2. /\ n \in Nat /\ n <= Len(ct) /\ j \in Nat /\ j <= n /\ b \in Nat /\ b <= Len(data)
      /\ Len(data) \in Nat
  BY ScanAt
<1>3. j = n - (Len(data) - b) /\ e = j + (m - b)
  OBVIOUS
<1>4. m \in Nat /\ b <= m /\ m <= Len(data) /\ m \in b .. Len(data)
  BY <1>2
<1> HIDE DEF s, ct, n, data, b, j, e
<1>5. e \in Nat /\ j <= e /\ e <= n /\ e <= Len(ct)
  BY <1>2, <1>3, <1>4
<1>6. \A i \in j + 1 .. e : ct[i] # NL
  <2> TAKE i \in j + 1 .. e
  <2> DEFINE k == b + (i - j)
  <2>1. k \in b + 1 .. m /\ k \in b + 1 .. Len(data) /\ j + (k - b) = i
    BY <1>2, <1>3, <1>4
  <2> HIDE DEF k
  <2>2. data[k] # NL
    BY <2>1 DEF data, b
  <2> QED
    BY <1>1, <2>1, <2>2
<1>7. /\ Cuts(ct)[e].lines = Cuts(ct)[j].lines
      /\ Cuts(ct)[e].cur = Cuts(ct)[j].cur \o SubSeq(ct, j + 1, e)
  BY <1>1, <1>2, <1>5, <1>6, CutsPiece
<1>8. /\ rd.buf = Cuts(ct)[j].cur /\ rd.seen = Len(Cuts(ct)[j].lines)
      /\ rd.items = PageOf(rd, Cuts(ct)[j].lines)
  BY <1>1 DEF InLine, ct
<1>9. SubSeq(data, b + 1, m) = SubSeq(ct, j + 1, e)
  BY <1>1, <1>3, <1>4
<1>10. Cuts(ct)[e].cur = l
  BY <1>7, <1>8, <1>9
<1>11. Cuts(ct)[e] \in Cut
  BY <1>1, <1>2, <1>5, CutsAre
<1>12. Cuts(ct)[e].lines \in Seq(Line) /\ l \in Line
  BY <1>10, <1>11 DEF Cut
<1> QED
  BY <1>5, <1>7, <1>8, <1>10, <1>12, Zenon DEF s, ct, n, data, b, j, e

\* A call that goes on after a scan.
LEMMA ScanReads ==
  ASSUME IInv, rd.pc = "scan", NEW d \in CallType, d.op = "lines", d.sec = rd.sec,
         d.key = rd.key, Located(d, sections[rd.sec]), Paged(d, sections[rd.sec])
  PROVE  Reads(d)
BY ScanAt DEF Reads, CallType

\* The next newline of the frame, and the bytes before it.
LEMMA NextNewline ==
  ASSUME IInv, rd.pc = "scan", Newlines # {}
  PROVE  LET nl == Min(Newlines)
         IN  /\ nl \in rd.start + 1 .. Len(rd.data) /\ rd.data[nl] = NL
             /\ \A i \in rd.start + 1 .. nl - 1 : rd.data[i] # NL
<1> DEFINE nl == Min(Newlines)
<1>1. rd.start \in Nat /\ Len(rd.data) \in Nat
  BY ScanAt
<1>2. Newlines \in SUBSET Nat
  BY <1>1 DEF Newlines
<1>3. nl \in Newlines /\ \A y \in Newlines : nl <= y
  BY <1>2, MinIs
<1> HIDE DEF nl
<1>4. nl \in rd.start + 1 .. Len(rd.data) /\ rd.data[nl] = NL
  BY <1>3 DEF Newlines
<1>5. ASSUME NEW i \in rd.start + 1 .. nl - 1 PROVE rd.data[i] # NL
  <2>1. i \in rd.start + 1 .. Len(rd.data) /\ ~(nl <= i)
    BY <1>1, <1>4
  <2> QED
    BY <1>3, <2>1 DEF Newlines
<1> QED
  BY <1>4, <1>5 DEF nl

LEMMA ScanLineKeeps ==
  ASSUME IInv, ScanLine
  PROVE  IInv'
<1> DEFINE s == sections[rd.sec]
           ct == ContentOf(s)
           n == s.len - rd.remaining
           data == rd.data
           b == rd.start
           j == n - (Len(data) - b)
           nl == Min(Newlines)
           m == nl - 1
           e == j + (m - b)
           l == rd.buf \o SubSeq(data, b + 1, m)
           us == Cuts(ct)[e].lines
           c == [rd EXCEPT !.buf = @ \o SubSeq(data, b + 1, m), !.start = nl]
<1>1. /\ rd.pc = "scan" /\ Newlines # {} /\ rd' = EndLine(c)
      /\ UNCHANGED <<phase, frames, frame_buf, sections, sw, text>>
  BY DEF ScanLine
<1>2. /\ ct \in Seq(Nat) /\ rd \in CallType /\ Located(rd, s) /\ phase = "ready" /\ rd.op = "lines"
      /\ Paged(rd, s)
      /\ \A i \in b + 1 .. Len(data) : data[i] = ct[j + (i - b)]
  BY <1>1, ScanAt, CallGoesOn
<1>3. /\ n \in Nat /\ n <= Len(ct) /\ j \in Nat /\ j <= n /\ b \in Nat /\ b <= Len(data)
      /\ Len(data) \in Nat /\ rd.off \in Nat /\ rd.lim \in Nat /\ Len(ct) = s.len
      /\ j = n - (Len(data) - b)
  BY <1>1, ScanAt
<1>4. /\ nl \in b + 1 .. Len(data) /\ data[nl] = NL
      /\ \A i \in b + 1 .. nl - 1 : data[i] # NL
  BY <1>1, NextNewline
<1> HIDE DEF nl
<1>5. m \in b .. Len(data) /\ nl \in Nat /\ nl <= Len(data) /\ m = nl - 1 /\ m \in Nat /\ b <= m
  BY <1>3, <1>4
<1>6. \A i \in b + 1 .. m : data[i] # NL
  BY <1>4
<1> HIDE DEF m
<1>7. /\ e \in Nat /\ l \in Line /\ Cuts(ct)[e].cur = l /\ us \in Seq(Line)
      /\ rd.seen = Len(us) /\ rd.items = PageOf(rd, us)
  BY <1>1, <1>5, <1>6, Scanned, Zenon
<1>8. e = j + (m - b)
  OBVIOUS
<1> HIDE DEF e, j, n, ct, data, b
<1>9. e < Len(ct) /\ e + 1 = j + (nl - b) /\ n - (Len(data) - nl) = e + 1 /\ e + 1 \in 0 .. Len(ct)
  <2>1. /\ e \in Nat /\ n \in Nat /\ b \in Nat /\ nl \in Nat /\ Len(data) \in Nat /\ Len(ct) \in Nat
        /\ n <= Len(ct) /\ nl <= Len(data)
    BY <1>2, <1>3, <1>5, <1>7
  <2>2. e = (n - (Len(data) - b)) + ((nl - 1) - b)
    BY <1>3, <1>5, <1>8
  <2>3. j = n - (Len(data) - b)
    BY <1>3
  <2> QED
    BY <2>1, <2>2, <2>3
<1>10. ct[e + 1] = NL
  BY <1>2, <1>4, <1>9
<1> DEFINE vs == Cuts(ct)[e + 1].lines
<1>11. Cuts(ct)[e + 1].cur = <<>> /\ vs = IF l = <<>> THEN us ELSE Append(us, l)
  BY <1>2, <1>7, <1>9, <1>10, CutsNext
<1> HIDE DEF l, us, vs
<1>12. /\ c \in CallType /\ c.pc = "scan" /\ c.op = "lines" /\ c.sec = rd.sec /\ c.key = rd.key
       /\ c.remaining = rd.remaining /\ c.buf = l /\ c.start = nl /\ c.items = rd.items
       /\ c.seen = rd.seen /\ c.off = rd.off /\ c.lim = rd.lim /\ c.data = rd.data
       /\ c.frame = rd.frame
  <2>1. c = [rd EXCEPT !.buf = l, !.start = nl]
    BY DEF l, data, b
  <2>2. l \in Seq(Nat) /\ nl \in Nat
    BY <1>5, <1>7 DEF Line
  <2> HIDE DEF c
  <2> QED
    BY <1>1, <1>2, <2>1, <2>2 DEF CallType
<1> HIDE DEF c
<1>13. /\ Len(data) <= n /\ data = SubSeq(ct, n - Len(data) + 1, n)
  BY <1>1, <1>2 DEF Paged, n, data, ct
<1>14. CASE l = <<>>
  <2>1. rd' = c
    BY <1>1, <1>12, <1>14 DEF EndLine
  <2>2. Located(c, s)
    BY <1>1, <1>2, <1>12 DEF Located
  <2>3. InLine(c, s, e + 1)
    BY <1>7, <1>11, <1>12, <1>14 DEF InLine, PageOf, ct, vs
  <2>4. Paged(c, s)
    BY <1>5, <1>9, <1>12, <1>13, <2>3 DEF Paged, n, data, ct
  <2>5. Reads(c)
    BY <1>1, <1>12, <2>2, <2>4, ScanReads
  <2> QED
    BY <1>1, <1>2, <2>1, <2>5, CallKeeps
<1>15. CASE l # <<>>
  <2> DEFINE items == IF rd.seen >= rd.off /\ Len(rd.items) < rd.lim THEN Append(rd.items, l)
                      ELSE rd.items
             pc == IF Len(items) >= rd.lim THEN "done" ELSE "scan"
             d == [c EXCEPT !.items = items, !.seen = rd.seen + 1, !.buf = <<>>, !.pc = pc]
  <2>1. items = PageOf(rd, vs) /\ vs = Append(us, l)
    BY <1>3, <1>7, <1>11, <1>15, PageNext, SMTT(30)
  <2>2. vs \in Seq(Line) /\ Len(vs) = rd.seen + 1 /\ Len(us) \in Nat
    BY <1>7, <2>1, AddLine
  <2>3. items \in Seq(Line) /\ Len(items) \in Nat
    <3>1. rd.off \in Nat /\ rd.lim \in Nat /\ vs \in Seq(Line)
      BY <1>3, <2>2
    <3>2. PageOf(rd, vs) \in Seq(Line) /\ Len(PageOf(rd, vs)) \in Nat
      BY <3>1, PageIs
    <3>3. items = PageOf(rd, vs)
      BY <2>1
    <3> HIDE DEF items
    <3> QED
      BY <3>2, <3>3
  <2>4. rd' = d
    <3> DEFINE k == Collect(c)
    <3>1. k = [c EXCEPT !.items = items]
      BY <1>12 DEF Collect
    <3> HIDE DEF items
    <3>2. k.items = items /\ k.lim = rd.lim /\ k.seen = rd.seen /\ k.pc = "scan"
      BY <1>12, <3>1 DEF CallType
    <3>3. rd' = [k EXCEPT !.seen = @ + 1, !.buf = <<>>,
                          !.pc = IF Len(k.items) >= k.lim THEN "done" ELSE @]
      BY <1>1, <1>12, <1>15 DEF EndLine
    <3>4. rd' = [k EXCEPT !.seen = rd.seen + 1, !.buf = <<>>, !.pc = pc]
      <4> HIDE DEF k
      <4> QED
        BY <3>2, <3>3
    <3> HIDE DEF pc
    <3> QED
      BY <3>1, <3>4
  <2> HIDE DEF items
  <2>5. pc \in {"done", "scan"} /\ (pc = "done" => Len(items) >= rd.lim)
    OBVIOUS
  <2> HIDE DEF pc
  <2>6. /\ d \in CallType /\ d.pc = pc /\ d.op = "lines" /\ d.sec = rd.sec /\ d.key = rd.key
        /\ d.remaining = rd.remaining /\ d.buf = <<>> /\ d.start = nl /\ d.items = items
        /\ d.seen = rd.seen + 1 /\ d.off = rd.off /\ d.lim = rd.lim /\ d.data = rd.data
        /\ d.frame = rd.frame
    <3>1. rd.seen + 1 \in Nat /\ items \in Seq(Seq(Nat)) /\ <<>> \in Seq(Nat)
      BY <1>7, <2>2, <2>3 DEF Line
    <3> QED
      BY <1>12, <2>5, <3>1 DEF CallType
  <2> HIDE DEF d
  <2>7. Located(d, s)
    BY <1>1, <1>2, <2>5, <2>6 DEF Located
  <2>8. \A x : PageOf(d, x) = PageOf(rd, x)
    BY <2>6 DEF PageOf
  <2>9. InLine(d, s, e + 1)
    BY <1>11, <2>1, <2>2, <2>6, <2>8 DEF InLine, ct, vs
  <2>10. pc = "done" => items = PageOf(d, LinesOf(ct))
    <3> SUFFICES ASSUME pc = "done" PROVE items = PageOf(d, LinesOf(ct))
      OBVIOUS
    <3>1. /\ Len(vs) <= Len(LinesOf(ct))
          /\ \A i \in 1 .. Len(vs) : LinesOf(ct)[i] = vs[i]
      BY <1>2, <1>9, LinesStay DEF vs
    <3>2. LinesOf(ct) \in Seq(Line)
      BY <1>2, LinesBound
    <3>3. Len(PageOf(rd, vs)) >= rd.lim
      BY <2>1, <2>5
    <3>4. rd.off \in Nat /\ rd.lim \in Nat /\ vs \in Seq(Line)
      BY <1>3, <2>2
    <3>5. PageOf(rd, LinesOf(ct)) = PageOf(rd, vs)
      BY <3>1, <3>2, <3>3, <3>4, PageFull
    <3> QED
      BY <2>1, <2>8, <3>5
  <2>11. Paged(d, s)
    BY <1>5, <1>9, <1>13, <2>5, <2>6, <2>9, <2>10 DEF Paged, n, data, ct
  <2>12. Reads(d)
    BY <1>1, <2>6, <2>7, <2>11, ScanReads
  <2> QED
    BY <1>1, <1>2, <2>4, <2>12, CallKeeps
<1> QED
  BY <1>14, <1>15

LEMMA EndOfFrameKeeps ==
  ASSUME IInv, EndOfFrame
  PROVE  IInv'
<1> DEFINE s == sections[rd.sec]
           ct == ContentOf(s)
           n == s.len - rd.remaining
           data == rd.data
           b == rd.start
           j == n - (Len(data) - b)
           m == Len(data)
           e == j + (m - b)
           l == rd.buf \o SubSeq(data, b + 1, m)
           us == Cuts(ct)[e].lines
           c == [rd EXCEPT !.buf = @ \o SubSeq(data, b + 1, m), !.pc = "frame"]
           k == IF c.remaining = 0 /\ c.buf # <<>> THEN [Collect(c) EXCEPT !.buf = <<>>] ELSE c
<1>1. /\ rd.pc = "scan" /\ Newlines = {} /\ rd' = NextFrame(k)
      /\ UNCHANGED <<phase, frames, frame_buf, sections, sw, text>>
  BY DEF EndOfFrame
<1>2. /\ ct \in Seq(Nat) /\ rd \in CallType /\ Located(rd, s) /\ phase = "ready" /\ rd.op = "lines"
  BY <1>1, ScanAt
<1>3. /\ n \in Nat /\ n <= Len(ct) /\ j \in Nat /\ j <= n /\ b \in Nat /\ b <= Len(data)
      /\ Len(data) \in Nat /\ rd.off \in Nat /\ rd.lim \in Nat /\ Len(ct) = s.len
      /\ rd.remaining \in Nat
  BY <1>1, ScanAt
<1>4. \A i \in b + 1 .. m : data[i] # NL
  BY <1>1 DEF Newlines
<1>5. m \in b .. Len(data)
  BY <1>3
<1>6. /\ l \in Line /\ Cuts(ct)[e].cur = l /\ us \in Seq(Line)
      /\ rd.seen = Len(us) /\ rd.items = PageOf(rd, us)
  BY <1>1, <1>4, <1>5, Scanned, Zenon
<1>7. e = n
  BY <1>3
<1> HIDE DEF e, j, n, ct, data, b, m
<1>8. rd.remaining = 0 => n = Len(ct)
  BY <1>3 DEF n
<1> HIDE DEF l, us
<1>9. /\ c \in CallType /\ c.pc = "frame" /\ c.op = "lines" /\ c.sec = rd.sec /\ c.key = rd.key
      /\ c.remaining = rd.remaining /\ c.buf = l /\ c.items = rd.items
      /\ c.seen = rd.seen /\ c.off = rd.off /\ c.lim = rd.lim /\ c.frame = rd.frame
  <2>1. c = [rd EXCEPT !.buf = l, !.pc = "frame"]
    BY DEF l, data, b, m
  <2>2. l \in Seq(Nat)
    BY <1>6 DEF Line
  <2> HIDE DEF c
  <2> QED
    BY <1>2, <2>1, <2>2 DEF CallType
<1> HIDE DEF c
<1> DEFINE items == IF rd.remaining = 0 /\ l # <<>> /\ rd.seen >= rd.off /\ Len(rd.items) < rd.lim
                    THEN Append(rd.items, l) ELSE rd.items
<1>10. /\ items \in Seq(Line)
       /\ rd.remaining # 0 => items = rd.items
       /\ rd.remaining = 0 => items = PageOf(rd, LinesOf(ct))
  <2>1. rd.off \in Nat /\ rd.lim \in Nat /\ us \in Seq(Line) /\ l \in Line
    BY <1>3, <1>6
  <2>2. PageOf(rd, us) \in Seq(Line) /\ PageOf(rd, Append(us, l)) \in Seq(Line)
    <3>1. Append(us, l) \in Seq(Line)
      BY <2>1, AddLine
    <3> QED
      BY <2>1, <3>1, PageIs
  <2>3. PageOf(rd, Append(us, l)) = IF rd.seen >= rd.off /\ Len(rd.items) < rd.lim
                                      THEN Append(rd.items, l) ELSE rd.items
    BY <1>6, <2>1, PageNext
  <2>4. rd.remaining = 0 => LinesOf(ct) = IF l = <<>> THEN us ELSE Append(us, l)
    BY <1>6, <1>7, <1>8 DEF LinesOf, us
  <2> QED
    BY <1>6, <2>2, <2>3, <2>4
<1> DEFINE buf == IF rd.remaining = 0 THEN <<>> ELSE l
<1>11. k = [c EXCEPT !.items = items, !.buf = buf]
  <2>1. CASE c.remaining = 0 /\ c.buf # <<>>
    <3>1. Collect(c) = [c EXCEPT !.items = items]
      BY <1>9, <2>1 DEF Collect
    <3>2. buf = <<>>
      BY <1>9, <2>1
    <3> HIDE DEF items, buf
    <3> QED
      BY <2>1, <3>1, <3>2
  <2>2. CASE ~(c.remaining = 0 /\ c.buf # <<>>)
    <3>1. items = c.items /\ buf = c.buf
      BY <1>9, <2>2
    <3> HIDE DEF items, buf
    <3> QED
      BY <1>9, <2>2, <3>1 DEF CallType
  <2> QED
    BY <2>1, <2>2
<1>12. buf \in Seq(Nat) /\ (rd.remaining # 0 => buf = l)
  BY <1>6 DEF Line
<1> HIDE DEF items, buf
<1>13. /\ k \in CallType /\ k.pc = "frame" /\ k.op = "lines" /\ k.sec = rd.sec /\ k.key = rd.key
       /\ k.remaining = rd.remaining /\ k.buf = buf /\ k.items = items
       /\ k.seen = rd.seen /\ k.off = rd.off /\ k.lim = rd.lim /\ k.frame = rd.frame
  <2>1. items \in Seq(Seq(Nat))
    BY <1>10 DEF Line
  <2> HIDE DEF k
  <2> QED
    BY <1>9, <1>11, <1>12, <2>1 DEF CallType
<1> HIDE DEF k
<1> DEFINE d == NextFrame(k)
<1>14. /\ d \in CallType /\ d.pc = "frame" /\ d.op = "lines" /\ d.sec = rd.sec /\ d.key = rd.key
       /\ d.remaining = rd.remaining /\ d.buf = buf /\ d.items = items
       /\ d.seen = rd.seen /\ d.off = rd.off /\ d.lim = rd.lim /\ d.frame = rd.frame + 1
       /\ d.pos = 0
  <2>1. rd.frame + 1 \in Nat /\ 0 \in Nat
    BY <1>2 DEF CallType
  <2> QED
    BY <1>13, <2>1 DEF CallType, NextFrame
<1> HIDE DEF d
<1>15. Located(d, s)
  <2>1. 0 < TEXT_FRAME_SIZE
    BY Consts
  <2> QED
    BY <1>1, <1>2, <1>14, <2>1 DEF Located
<1>16. \A x : PageOf(d, x) = PageOf(rd, x)
  BY <1>14 DEF PageOf
<1>17. d.remaining > 0 => InLine(d, s, n)
  <2> SUFFICES ASSUME d.remaining > 0 PROVE InLine(d, s, n)
    OBVIOUS
  <2>1. rd.remaining # 0
    BY <1>3, <1>14
  <2>2. d.buf = l /\ d.items = rd.items /\ d.seen = rd.seen
    BY <1>10, <1>12, <1>14, <2>1
  <2> QED
    BY <1>6, <1>7, <1>16, <2>2 DEF InLine, us, ct
<1>18. d.remaining = 0 => d.items = PageOf(d, LinesOf(ct))
  BY <1>10, <1>14, <1>16
<1>19. Paged(d, s)
  BY <1>14, <1>17, <1>18 DEF Paged, n, ct
<1>20. Reads(d)
  BY <1>1, <1>14, <1>15, <1>19, ScanReads
<1> QED
  BY <1>1, <1>2, <1>20, CallKeeps DEF d

LEMMA ReturnKeeps ==
  ASSUME IInv, Return
  PROVE  IInv'
<1>1. rd' = Idle /\ UNCHANGED <<phase, frames, frame_buf, sections, sw, text>>
  BY DEF Return
<1>2. phase = "ready"
  BY DEF Return, Idle, IInv, Shape
<1>3. Reads(Idle)
  BY DEF Reads, Idle
<1> QED
  BY <1>1, <1>2, <1>3, CallKeeps

-----------------------------------------------------------------------------
(* The invariant.                                                          *)

LEMMA InitIInv ==
  ASSUME Init
  PROVE  IInv
<1>1. /\ phase = "open" /\ frames = <<>> /\ frame_buf = <<>> /\ sections = <<>>
      /\ sw = NoWriter /\ text = <<>> /\ rd = Idle
  BY DEF Init
<1>2. sw.active = FALSE
  BY <1>1 DEF NoWriter
<1>3. TypeOK
  <2>1. Len(frame_buf) \in 0 .. TEXT_FRAME_SIZE - 1
    BY <1>1, Consts
  <2>2. rd.pc = "idle" /\ ~Busy
    BY <1>1 DEF Idle, Busy
  <2>3. DOMAIN frames = {} /\ DOMAIN sections = {}
    BY <1>1
  <2> QED
    BY <1>1, <1>2, <2>1, <2>2, <2>3 DEF TypeOK
<1>4. Shape
  <2>1. BytesWritten = 0
    BY <1>1, Consts DEF BytesWritten
  <2> QED
    BY <1>1, <2>1, Consts DEF Shape
<1>5. Writing /\ Reading
  BY <1>1, <1>2 DEF Writing, Reading, Reads, Idle
<1>6. \E q \in Orders(Len(sections)) : \A i \in DOMAIN sections : Entry(sections[i], text[q[i]])
  <2> DEFINE q == [i \in 1 .. 0 |-> 0]
  <2>1. q \in [1 .. 0 -> 1 .. 0] /\ Range(q) = 1 .. 0
    BY DEF Range
  <2>2. Len(sections) = 0 /\ DOMAIN sections = {}
    BY <1>1
  <2> HIDE DEF q
  <2>3. q \in Orders(Len(sections))
    BY <2>1, <2>2 DEF Orders
  <2> QED
    BY <2>2, <2>3
<1> QED
  BY <1>1, <1>2, <1>3, <1>4, <1>5, <1>6 DEF IInv, EntriesFindText

LEMMA StutterKeeps ==
  ASSUME IInv, UNCHANGED vars
  PROVE  IInv'
<1>1. /\ phase' = phase /\ frames' = frames /\ frame_buf' = frame_buf /\ sections' = sections
      /\ sw' = sw /\ text' = text /\ rd' = rd
  BY DEF vars
<1>2. TypeOK'
  BY <1>1 DEF IInv, EntriesFindText, TypeOK, Busy
<1>3. Shape'
  BY <1>1 DEF IInv, Shape, BytesWritten
<1>4. Writing'
  BY <1>1 DEF IInv, Writing, Lies, Stored, Chunk, BytesWritten
<1>5. Reading'
  BY <1>1, CallStays DEF IInv, Reading
<1>6. (\E q \in Orders(Len(sections)) : \A i \in DOMAIN sections : Entry(sections[i], text[q[i]]))'
  BY <1>1, BytesStay, EntriesStay
<1> QED
  BY <1>1, <1>2, <1>3, <1>4, <1>5, <1>6 DEF IInv, EntriesFindText

LEMMA NextKeeps ==
  ASSUME IInv, Next
  PROVE  IInv'
<1>1. CASE \E k \in Key : BeginSection(k)
  BY <1>1, BeginKeeps
<1>2. CASE WriteLine
  <2>1. PICK n \in PieceLen : Write([i \in 1 .. n |-> BytesWritten + i])
    BY <1>2 DEF WriteLine
  <2>2. phase = "open"
    BY <2>1 DEF Write
  <2>3. BytesWritten \in Nat /\ n \in Nat
    BY <2>2, OpenStore, Consts
  <2>4. [i \in 1 .. n |-> BytesWritten + i] \in Seq(Nat)
    BY <2>3
  <2> QED
    BY <2>1, <2>4, WriteKeeps
<1>3. CASE WriteNewline
  <2>1. <<NL>> \in Seq(Nat)
    BY DEF NL
  <2> QED
    BY <1>3, <2>1, WriteKeeps DEF WriteNewline
<1>4. CASE FinishSection \/ Finish \/ WriteError \/ Open
  BY <1>4, FinishSectionKeeps, FinishKeeps, ErrorKeeps, OpenKeeps
<1>5. CASE \E k \in Key : Get(k) \/ \E off \in 0 .. MaxOffset, lim \in PageLimit : GetLinesRange(k, off, lim)
  <2>1. MaxOffset \in Nat /\ PageLimit \subseteq Nat
    BY Consts
  <2>2. PICK k \in Key : Get(k) \/ \E off \in 0 .. MaxOffset, lim \in PageLimit : GetLinesRange(k, off, lim)
    BY <1>5
  <2>3. CASE Get(k)
    BY <2>3, GetKeeps
  <2>4. CASE \E off \in 0 .. MaxOffset, lim \in PageLimit : GetLinesRange(k, off, lim)
    <3>1. PICK off \in 0 .. MaxOffset, lim \in PageLimit : GetLinesRange(k, off, lim)
      BY <2>4
    <3>2. off \in Nat /\ lim \in Nat
      BY <2>1
    <3> QED
      BY <3>1, <3>2, GetLinesKeeps
  <2> QED
    BY <2>2, <2>3, <2>4
<1>6. CASE \E k \in Key : ListKind(KindOf(k))
  <2>1. PICK k \in Key : ListKind(KindOf(k))
    BY <1>6
  <2>2. KindOf(k) \in Nat
    BY Consts, KindIs
  <2> QED
    BY <2>1, <2>2, ListKeeps
<1>7. CASE ReaderStep
  BY <1>7, ReadFrameKeeps, AllReadKeeps, ScanLineKeeps, EndOfFrameKeeps, ReturnKeeps DEF ReaderStep
<1> QED
  BY <1>1, <1>2, <1>3, <1>4, <1>5, <1>6, <1>7 DEF Next

\* The inductive invariant.
THEOREM Invariance == Spec => []IInv
<1>1. Init => IInv
  BY InitIInv
<1>2. IInv /\ [Next]_vars => IInv'
  BY NextKeeps, StutterKeeps
<1> QED
  BY <1>1, <1>2, PTL DEF Spec

-----------------------------------------------------------------------------
(* What a call returns.                                                    *)

\* A set of numbers that goes down to 1 is told by how many they are.
LEMMA DownTo ==
  ASSUME NEW n \in Nat, NEW S \in SUBSET (1 .. n), \A i \in S, j \in 1 .. n : j <= i => j \in S
  PROVE  Cardinality(S) \in Nat /\ \A i \in 1 .. n : i \in S <=> i <= Cardinality(S)
<1> DEFINE T == {k \in 1 .. n + 1 : k \notin S}
           m == Min(T)
<1>1. T \in SUBSET Nat /\ n + 1 \in T
  <2>1. n + 1 \notin 1 .. n /\ n + 1 \in 1 .. n + 1
    OBVIOUS
  <2> QED
    BY <2>1
<1>2. m \in T /\ \A y \in T : m <= y
  <2> HIDE DEF T
  <2> QED
    BY <1>1, MinIs
<1> HIDE DEF m
<1>3. m \in 1 .. n + 1 /\ m \notin S
  BY <1>2
<1>4. \A i \in 1 .. n : i \in S <=> i <= m - 1
  <2> TAKE i \in 1 .. n
  <2>1. i \in 1 .. n + 1 /\ (i < m \/ m <= i)
    BY <1>3
  <2>2. i < m => i \in S
    <3>1. i < m => ~(m <= i)
      BY <1>3
    <3> QED
      BY <1>2, <2>1, <3>1
  <2>3. m <= i => i \notin S
    <3> SUFFICES ASSUME m <= i, i \in S PROVE FALSE
      OBVIOUS
    <3>1. m \in 1 .. n
      BY <1>3
    <3> QED
      BY <1>3, <3>1
  <2>4. i < m <=> i <= m - 1
    BY <1>3
  <2> QED
    BY <2>1, <2>2, <2>3, <2>4
<1>5. S = 1 .. m - 1
  <2>1. \A i \in 1 .. m - 1 : i \in 1 .. n /\ i <= m - 1
    BY <1>3
  <2>2. \A i \in S : i \in 1 .. n /\ i <= m - 1
    BY <1>4
  <2>3. \A i \in 1 .. n : i <= m - 1 => i \in 1 .. m - 1
    BY <1>3
  <2> QED
    BY <1>4, <2>1, <2>2, <2>3
<1>6. Cardinality(S) = m - 1 /\ m - 1 \in Nat
  <2>1. m - 1 \in Nat /\ 1 \in Int /\ m - 1 \in Int /\ m \in Int /\ m >= 1
    BY <1>3
  <2>2. Cardinality(1 .. m - 1) = IF 1 > m - 1 THEN 0 ELSE (m - 1) - 1 + 1
    BY <2>1, FS_Interval
  <2>3. (IF 1 > m - 1 THEN 0 ELSE (m - 1) - 1 + 1) = m - 1
    BY <2>1
  <2> QED
    BY <1>5, <2>1, <2>2, <2>3
<1> QED
  BY <1>4, <1>6

\* Two sets are as large if each of the one goes with its own of the other.
LEMMA SameCount ==
  ASSUME NEW S, NEW T, IsFiniteSet(S), NEW f \in [S -> T],
         \A x, y \in S : f[x] = f[y] => x = y, \A z \in T : \E x \in S : f[x] = z
  PROVE  Cardinality(S) = Cardinality(T)
<1>1. f \in Bijection(S, T)
  BY DEF Bijection, Injection, Surjection, IsInjective
<1>2. ExistsBijection(S, T)
  BY <1>1 DEF ExistsBijection
<1> QED
  BY <1>2, FS_Bijection

LEMMA OrderIs ==
  ASSUME NEW n \in Nat, NEW q \in Orders(n)
  PROVE  /\ \A i \in 1 .. n : q[i] \in 1 .. n
         /\ \A i, j \in 1 .. n : q[i] = q[j] => i = j
         /\ \A k \in 1 .. n : \E i \in 1 .. n : q[i] = k
<1>1. q \in [1 .. n -> 1 .. n] /\ Range(q) = 1 .. n
  BY DEF Orders
<1>2. \A k \in 1 .. n : \E i \in 1 .. n : q[i] = k
  BY <1>1 DEF Range
<1>3. q \in Surjection(1 .. n, 1 .. n)
  BY <1>1, <1>2, Zenon DEF Surjection
<1>4. IsFiniteSet(1 .. n)
  BY FS_Interval
<1>5. q \in Injection(1 .. n, 1 .. n)
  BY <1>3, <1>4, FS_SurjSameCardinalityImpliesInj
<1> QED
  BY <1>1, <1>2, <1>5 DEF Injection, IsInjective

\* When the store is read, each section is one text and each text one section.
LEMMA Matched ==
  ASSUME IInv, phase = "ready"
  PROVE  /\ Len(sections) \in Nat /\ DOMAIN sections = 1 .. Len(sections)
         /\ DOMAIN text = 1 .. Len(sections)
         /\ \E q \in Orders(Len(sections)) : \A i \in 1 .. Len(sections) :
              /\ TextOf(sections[i]) = text[q[i]] /\ text[q[i]] \in Text
              /\ sections[i].key = text[q[i]].key /\ sections[i].len = Len(text[q[i]].content)
<1>1. /\ Len(sections) \in Nat /\ DOMAIN sections = 1 .. Len(sections)
      /\ DOMAIN text = 1 .. Len(text) /\ (~sw.active => Len(text) = Len(sections))
      /\ \A i \in 1 .. Len(sections) : sections[i] \in Section
      /\ \A j \in 1 .. Len(text) : text[j] \in Text
  BY Parts, Zenon
<1>2. ~sw.active /\ Shape
  BY DEF IInv, Shape
<1>3. PICK q \in Orders(Len(sections)) : \A i \in DOMAIN sections : Entry(sections[i], text[q[i]])
  BY Parts, Zenon
<1>4. ASSUME NEW i \in 1 .. Len(sections)
      PROVE  /\ TextOf(sections[i]) = text[q[i]] /\ text[q[i]] \in Text
             /\ sections[i].key = text[q[i]].key /\ sections[i].len = Len(text[q[i]].content)
  <2>1. q[i] \in 1 .. Len(sections)
    BY <1>1, OrderIs, Zenon
  <2>2. sections[i] \in Section /\ text[q[i]] \in Text /\ Entry(sections[i], text[q[i]])
    BY <1>1, <1>2, <1>3, <2>1, Zenon
  <2>3. TextOf(sections[i]) = text[q[i]]
    BY <1>2, <2>2, EntryIs
  <2> QED
    BY <2>2, <2>3 DEF Entry
<1> QED
  BY <1>1, <1>2, <1>4, Zenon

\* Whatever is said of no section is said of no text.
LEMMA NoText ==
  ASSUME IInv, phase = "ready", NEW k, \A i \in DOMAIN sections : sections[i].key # k
  PROVE  \A j \in DOMAIN text : text[j].key # k
<1>1. PICK q \in Orders(Len(sections)) : \A i \in 1 .. Len(sections) :
              sections[i].key = text[q[i]].key
  BY Matched
<1>2. \A j \in 1 .. Len(sections) : \E i \in 1 .. Len(sections) : q[i] = j
  BY Matched, OrderIs
<1>3. DOMAIN sections = 1 .. Len(sections) /\ DOMAIN text = 1 .. Len(sections)
  BY Matched
<1>4. TAKE j \in DOMAIN text
<1>5. PICK i \in 1 .. Len(sections) : q[i] = j
  BY <1>2, <1>3
<1> QED
  BY <1>1, <1>3, <1>5

\* A page that was read.
LEMMA PageDone ==
  ASSUME IInv
  PROVE  PageCorrect
<1> SUFFICES ASSUME rd.pc = "done", rd.op = "lines"
             PROVE  \E j \in DOMAIN text :
                      LET all == LinesOf(text[j].content)
                      IN  /\ text[j].key = rd.key
                          /\ rd.items = SubSeq(all, rd.off + 1, Lesser(rd.off + rd.lim, Len(all)))
  BY DEF PageCorrect
<1> DEFINE s == sections[rd.sec]
<1>1. rd.sec \in DOMAIN sections /\ s.key = rd.key /\ Paged(rd, s)
  BY CallGoesOn
<1>2. PICK j \in DOMAIN text : TextOf(s) = text[j]
  BY <1>1, SectionIs
<1>3. text[j].key = rd.key /\ text[j].content = ContentOf(s)
  BY <1>1, <1>2 DEF TextOf
<1>4. rd.items = PageOf(rd, LinesOf(ContentOf(s)))
  BY <1>1 DEF Paged
<1> QED
  BY <1>3, <1>4 DEF PageOf

\* A text that was read.
LEMMA GetDone ==
  ASSUME IInv, rd.pc = "done", rd.op = "get"
  PROVE  \E j \in DOMAIN text : text[j].key = rd.key /\ text[j].content = rd.buf
<1> DEFINE s == sections[rd.sec]
           ct == ContentOf(s)
<1>1. /\ rd.sec \in DOMAIN sections /\ s.key = rd.key /\ Copied(rd, s)
  BY CallGoesOn
<1>2. ct \in Seq(Nat) /\ Len(ct) = s.len
  BY <1>1, SectionIs
<1>3. PICK j \in DOMAIN text : TextOf(s) = text[j]
  BY <1>1, SectionIs
<1>4. text[j].key = rd.key /\ text[j].content = ct
  BY <1>1, <1>3 DEF TextOf
<1>5. rd.buf = SubSeq(ct, 1, s.len - 0)
  BY <1>1, Zenon DEF Copied
<1>6. SubSeq(ct, 1, s.len - 0) = ct
  BY <1>2
<1> QED
  BY <1>4, <1>5, <1>6

\* The kinds of a sorted index go up, so those of one kind are next to each other.
LEMMA KindRange ==
  ASSUME IInv, phase = "ready", NEW kind \in Nat, NEW m \in 1 .. Len(sections) + 1,
         FirstOfKind(kind) <= m, ~OfKind(m, kind),
         NEW i \in DOMAIN sections, KindOf(sections[i].key) = kind
  PROVE  i \in FirstOfKind(kind) .. m - 1
<1> DEFINE n == Len(sections)
           S == {x \in DOMAIN sections : KindOf(sections[x].key) < kind}
           first == FirstOfKind(kind)
<1>1. n \in Nat /\ DOMAIN sections = 1 .. n
  BY Parts, Zenon
<1>2. ASSUME NEW x \in 1 .. n PROVE sections[x].key \in Nat /\ KindOf(sections[x].key) \in Nat
  BY <1>1, <1>2, Parts, SectionType, KindIs, Zenon
<1>3. ASSUME NEW x \in 1 .. n, NEW y \in 1 .. n, x <= y
      PROVE  KindOf(sections[x].key) <= KindOf(sections[y].key)
  <2> DEFINE a == sections[x].key
             c == sections[y].key
  <2>1. a \in Nat /\ c \in Nat
    BY <1>2
  <2>2. a <= c
    <3>1. CASE x = y
      BY <2>1, <3>1
    <3>2. CASE x # y
      <4>1. x < y
        BY <1>3, <3>2
      <4> QED
        BY <1>1, <4>1 DEF IInv, Shape
    <3> QED
      BY <3>1, <3>2
  <2> HIDE DEF a, c
  <2>3. a \div 10 <= c \div 10
    BY <2>1, <2>2
  <2> QED
    BY <2>3 DEF KindOf, a, c
<1>4. Cardinality(S) \in Nat /\ \A x \in 1 .. n : x \in S <=> x <= Cardinality(S)
  <2>1. S \in SUBSET (1 .. n)
    BY <1>1
  <2>2. ASSUME NEW x \in S, NEW y \in 1 .. n, y <= x PROVE y \in S
    <3>1. x \in 1 .. n /\ KindOf(sections[x].key) < kind
      BY <1>1
    <3>2. KindOf(sections[y].key) <= KindOf(sections[x].key)
      BY <1>3, <2>2, <3>1
    <3>3. KindOf(sections[y].key) \in Nat /\ KindOf(sections[x].key) \in Nat
      BY <1>2, <3>1
    <3>4. KindOf(sections[y].key) < kind
      BY <3>1, <3>2, <3>3
    <3> QED
      BY <1>1, <3>4
  <2> HIDE DEF S
  <2> QED
    BY <1>1, <2>1, <2>2, DownTo
<1>5. first = Cardinality(S) + 1
  BY DEF FirstOfKind
<1>6. i \in 1 .. n /\ i \notin S
  BY <1>1
<1>7. i >= first
  <2>1. ~(i <= Cardinality(S))
    BY <1>4, <1>6
  <2>2. i \in Nat /\ Cardinality(S) \in Nat
    BY <1>4, <1>6
  <2> HIDE DEF S, first
  <2> QED
    BY <1>5, <2>1, <2>2
<1>8. i < m
  <2> SUFFICES ASSUME ~(i < m) PROVE FALSE
    OBVIOUS
  <2>1. m \in 1 .. n /\ m <= i /\ i \in 1 .. n
    BY <1>1, <1>6
  <2>2. KindOf(sections[m].key) <= kind /\ KindOf(sections[m].key) \in Nat
    BY <1>2, <1>3, <2>1
  <2>3. KindOf(sections[m].key) # kind
    BY <1>1, <2>1 DEF OfKind
  <2>4. m \in S
    BY <1>1, <2>1, <2>2, <2>3
  <2>5. m <= Cardinality(S)
    BY <1>4, <2>1, <2>4
  <2>6. first <= m /\ m \in Nat
    BY <2>1
  <2> HIDE DEF S, first
  <2> QED
    BY <1>4, <1>5, <2>5, <2>6
<1>9. i \in Nat /\ m \in Nat /\ first \in Nat
  <2>1. first \in Nat
    <3> HIDE DEF S, first
    <3> QED
      BY <1>4, <1>5
  <2> QED
    BY <1>1, <1>6, <2>1
<1> HIDE DEF first
<1>10. i \in first .. m - 1
  BY <1>7, <1>8, <1>9
<1> QED
  BY <1>10 DEF first

\* A list has the texts of the kind, each as often as it was written.
LEMMA ListDone ==
  ASSUME IInv, rd.pc = "listed"
  PROVE  /\ IsAscending(rd.items)
         /\ \A t \in Range(text) \cup Range(rd.items) :
              Times(rd.items, t) = IF KindOf(t.key) = rd.key THEN Times(text, t) ELSE 0
<1> DEFINE n == Len(sections)
           kind == rd.key
           items == rd.items
           first == FirstOfKind(kind)
<1>1. phase = "ready"
  BY DEF IInv, Shape, Idle
<1>2. PICK m \in 1 .. n + 1 : Listed(items, kind, m) /\ ~OfKind(m, kind)
  BY DEF IInv, Reading, Reads
<1>3. /\ items \in Seq(Text) /\ n \in Nat /\ DOMAIN sections = 1 .. n /\ DOMAIN text = 1 .. n
  BY <1>1, Matched DEF IInv, Reading, Reads
<1>4. first \in 1 .. n + 1
  BY FirstIs
<1>5. /\ first <= m /\ Len(items) = m - first
      /\ \A i \in first .. m - 1 : /\ KindOf(sections[i].key) = kind
                                   /\ items[i - first + 1] = TextOf(sections[i])
  BY <1>2 DEF Listed
<1> HIDE DEF n, kind, items, first
<1>6. ASSUME NEW i \in 1 .. Len(items)
      PROVE  /\ first + i - 1 \in first .. m - 1 /\ first + i - 1 \in 1 .. n
             /\ KindOf(sections[first + i - 1].key) = kind
             /\ items[i] = TextOf(sections[first + i - 1])
  <2> DEFINE x == first + i - 1
  <2>1. first \in Nat /\ m \in Nat /\ i \in Nat /\ 1 <= first /\ m <= n + 1 /\ 1 <= i /\ i <= m - first
    BY <1>3, <1>4, <1>5
  <2>2. x \in first .. m - 1 /\ x \in 1 .. n /\ x - first + 1 = i
    BY <1>3, <2>1
  <2> HIDE DEF x
  <2>3. KindOf(sections[x].key) = kind /\ items[i] = TextOf(sections[x])
    BY <1>5, <2>2
  <2> QED
    BY <2>2, <2>3 DEF x
<1>7. DOMAIN items = 1 .. Len(items) /\ Len(items) \in Nat
  BY <1>3
<1>8. IsAscending(items)
  <2> SUFFICES ASSUME NEW i \in 1 .. Len(items) - 1 PROVE items[i].key <= items[i + 1].key
    BY DEF IsAscending
  <2>1. i \in 1 .. Len(items) /\ i + 1 \in 1 .. Len(items)
    BY <1>7
  <2> DEFINE x == first + i - 1
             y == first + (i + 1) - 1
  <2>2. /\ x \in 1 .. n /\ items[i] = TextOf(sections[x])
        /\ y \in 1 .. n /\ items[i + 1] = TextOf(sections[y])
    BY <1>6, <2>1
  <2>3. x < y
    BY <1>4, <2>1
  <2> HIDE DEF x, y
  <2>4. sections[x].key <= sections[y].key
    BY <1>1, <1>3, <2>2, <2>3 DEF IInv, Shape
  <2> QED
    BY <2>2, <2>4 DEF TextOf
<1>9. PICK q \in Orders(n) : \A i \in 1 .. n :
              TextOf(sections[i]) = text[q[i]] /\ text[q[i]] \in Text
  BY <1>1, Matched DEF n
<1>10. /\ \A i \in 1 .. n : q[i] \in 1 .. n
       /\ \A i, j \in 1 .. n : q[i] = q[j] => i = j
       /\ \A k \in 1 .. n : \E i \in 1 .. n : q[i] = k
  BY <1>3, OrderIs
<1>11. ASSUME NEW t \in Range(text) \cup Range(items)
       PROVE  Times(items, t) = IF KindOf(t.key) = kind THEN Times(text, t) ELSE 0
  <2> DEFINE S == {i \in DOMAIN items : items[i] = t}
             T == {j \in DOMAIN text : text[j] = t}
  <2>1. KindOf(t.key) \in Nat
    <3>1. t \in Text
      <4>1. \A j \in DOMAIN text : text[j] \in Text
        BY Parts, Zenon
      <4>2. \A i \in DOMAIN items : items[i] \in Text
        BY <1>3
      <4> QED
        BY <4>1, <4>2 DEF Range
    <3> QED
      BY <3>1, TextType, KindIs
  <2>2. CASE KindOf(t.key) # kind
    <3>1. ASSUME NEW i \in S PROVE FALSE
      <4>1. i \in 1 .. Len(items) /\ items[i] = t
        BY <1>7
      <4>2. PICK x \in 1 .. n : KindOf(sections[x].key) = kind /\ items[i] = TextOf(sections[x])
        BY <1>6, <4>1
      <4>3. t.key = sections[x].key
        BY <4>1, <4>2 DEF TextOf
      <4> QED
        BY <2>2, <4>2, <4>3
    <3>2. Cardinality(S) = 0
      BY <3>1, FS_EmptySet
    <3> QED
      BY <2>2, <3>2 DEF Times
  <2>3. CASE KindOf(t.key) = kind
    <3> DEFINE f == [i \in S |-> q[first + i - 1]]
    <3>1. ASSUME NEW i \in S
          PROVE  /\ i \in 1 .. Len(items) /\ first + i - 1 \in 1 .. n /\ f[i] = q[first + i - 1]
                 /\ f[i] \in T
      <4>1. i \in 1 .. Len(items) /\ items[i] = t /\ f[i] = q[first + i - 1]
        BY <1>7
      <4>2. first + i - 1 \in 1 .. n /\ TextOf(sections[first + i - 1]) = t
        BY <1>6, <4>1
      <4>3. q[first + i - 1] \in 1 .. n /\ text[q[first + i - 1]] = t
        BY <1>9, <1>10, <4>2
      <4> QED
        BY <1>3, <4>1, <4>2, <4>3
    <3>2. f \in [S -> T]
      <4> HIDE DEF T
      <4>1. \A i \in S : f[i] \in T
        BY <3>1
      <4> QED
        BY <4>1
    <3>3. ASSUME NEW x \in S, NEW y \in S, f[x] = f[y] PROVE x = y
      <4>1. first + x - 1 = first + y - 1
        <5> DEFINE a == first + x - 1
                   c == first + y - 1
        <5>1. a \in 1 .. n /\ c \in 1 .. n /\ f[x] = q[a] /\ f[y] = q[c]
          BY <3>1
        <5> HIDE DEF a, c, f, S
        <5>2. a = c
          BY <1>10, <3>3, <5>1
        <5> QED
          BY <5>2 DEF a, c
      <4>2. x \in Nat /\ y \in Nat /\ first \in Nat
        BY <1>4, <3>1, SMTT(30)
      <4> QED
        BY <4>1, <4>2
    <3>4. ASSUME NEW j \in T PROVE \E i \in S : f[i] = j
      <4>1. j \in 1 .. n /\ text[j] = t
        BY <1>3
      <4>2. PICK x \in 1 .. n : q[x] = j
        BY <1>10, <4>1
      <4>3. TextOf(sections[x]) = t
        BY <1>9, <4>1, <4>2
      <4>4. KindOf(sections[x].key) = kind /\ kind \in Nat
        BY <2>1, <2>3, <4>3 DEF TextOf
      <4>5. x \in first .. m - 1
        BY <1>1, <1>2, <1>3, <1>5, <4>2, <4>4, KindRange DEF first, n
      <4> DEFINE i == x - first + 1
      <4>6. items[i] = t
        BY <1>5, <4>3, <4>5
      <4>7. i \in 1 .. Len(items) /\ first + i - 1 = x
        <5>1. first \in Nat /\ m \in Nat /\ x \in Nat /\ first <= x /\ x <= m - 1
          BY <1>2, <1>3, <1>4, <4>5
        <5> QED
          BY <1>5, <5>1
      <4> HIDE DEF i
      <4>8. i \in S
        BY <1>7, <4>6, <4>7
      <4>9. f[i] = j
        BY <3>1, <4>2, <4>7, <4>8
      <4> QED
        BY <4>8, <4>9
    <3>5. IsFiniteSet(S)
      <4>1. IsFiniteSet(1 .. Len(items)) /\ S \in SUBSET (1 .. Len(items))
        BY <1>7, FS_Interval
      <4> HIDE DEF S
      <4> QED
        BY <4>1, FS_Subset
    <3> HIDE DEF f, S, T
    <3>6. Cardinality(S) = Cardinality(T)
      BY <3>2, <3>3, <3>4, <3>5, SameCount
    <3> QED
      BY <2>3, <3>6 DEF Times, S, T
  <2> QED
    BY <2>2, <2>3
<1> QED
  BY <1>8, <1>11 DEF kind, items

\* The index alone says which keys there are and how long their texts.
LEMMA IndexDone ==
  ASSUME IInv, phase = "ready"
  PROVE  /\ \A k \in Key : has_section(k) <=> \E t \in Range(text) : t.key = k
         /\ \A e \in Range(list_all) :
              Times(list_all, e) = Cardinality({j \in DOMAIN text :
                                       text[j].key = e.key /\ Len(text[j].content) = e.len})
<1> DEFINE n == Len(sections)
<1>1. n \in Nat /\ DOMAIN sections = 1 .. n /\ DOMAIN text = 1 .. n
  BY Matched
<1>2. PICK q \in Orders(n) : \A i \in 1 .. n :
              sections[i].key = text[q[i]].key /\ sections[i].len = Len(text[q[i]].content)
  BY Matched
<1>3. /\ \A i \in 1 .. n : q[i] \in 1 .. n
      /\ \A i, j \in 1 .. n : q[i] = q[j] => i = j
      /\ \A k \in 1 .. n : \E i \in 1 .. n : q[i] = k
  BY <1>1, OrderIs
<1> HIDE DEF n
<1>4. ASSUME NEW k \in Key PROVE has_section(k) <=> \E t \in Range(text) : t.key = k
  <2>1. has_section(k) <=> \E i \in 1 .. n : sections[i].key = k
    <3>1. 0 \notin 1 .. n
      BY <1>1
    <3> QED
      BY <1>1, <3>1 DEF has_section, Found
  <2>2. (\E t \in Range(text) : t.key = k) <=> \E j \in 1 .. n : text[j].key = k
    BY <1>1 DEF Range
  <2>3. (\E i \in 1 .. n : sections[i].key = k) => \E j \in 1 .. n : text[j].key = k
    <3> SUFFICES ASSUME NEW i \in 1 .. n, sections[i].key = k
                 PROVE  \E j \in 1 .. n : text[j].key = k
      OBVIOUS
    <3>1. q[i] \in 1 .. n /\ text[q[i]].key = k
      BY <1>2, <1>3
    <3> QED
      BY <3>1
  <2>4. (\E j \in 1 .. n : text[j].key = k) => \E i \in 1 .. n : sections[i].key = k
    <3> SUFFICES ASSUME NEW j \in 1 .. n, text[j].key = k
                 PROVE  \E i \in 1 .. n : sections[i].key = k
      OBVIOUS
    <3>1. PICK i \in 1 .. n : q[i] = j
      BY <1>3
    <3> QED
      BY <1>2, <3>1
  <2> QED
    BY <2>1, <2>2, <2>3, <2>4
<1>5. ASSUME NEW e \in Range(list_all)
      PROVE  Times(list_all, e) = Cardinality({j \in DOMAIN text :
                                       text[j].key = e.key /\ Len(text[j].content) = e.len})
  <2> DEFINE S == {i \in DOMAIN list_all : list_all[i] = e}
             T == {j \in DOMAIN text : text[j].key = e.key /\ Len(text[j].content) = e.len}
             f == [i \in S |-> q[i]]
  <2>1. DOMAIN list_all = 1 .. n
    BY <1>1 DEF list_all
  <2>2. \A i \in 1 .. n : list_all[i] = [key |-> sections[i].key, len |-> sections[i].len]
    BY <1>1 DEF list_all
  <2>3. e = [key |-> e.key, len |-> e.len]
    <3>1. PICK i \in 1 .. n : e = list_all[i]
      BY <2>1 DEF Range
    <3>2. e = [key |-> sections[i].key, len |-> sections[i].len]
      BY <2>2, <3>1
    <3> QED
      BY <3>2
  <2>4. ASSUME NEW i \in 1 .. n
        PROVE  i \in S <=> text[q[i]].key = e.key /\ Len(text[q[i]].content) = e.len
    <3>1. i \in S <=> list_all[i] = e
      BY <2>1
    <3>2. list_all[i] = [key |-> text[q[i]].key, len |-> Len(text[q[i]].content)]
      BY <1>2, <2>2
    <3> QED
      BY <2>3, <3>1, <3>2
  <2>5. \A i \in S : i \in 1 .. n /\ f[i] = q[i]
    BY <2>1
  <2>6. \A j \in 1 .. n : j \in T <=> text[j].key = e.key /\ Len(text[j].content) = e.len
    BY <1>1
  <2>7. \A j \in T : j \in 1 .. n
    BY <1>1
  <2>8. f \in [S -> T]
    <3>1. ASSUME NEW i \in S PROVE q[i] \in T
      BY <1>3, <2>4, <2>5, <2>6
    <3> HIDE DEF S, T
    <3> QED
      BY <3>1
  <2>9. IsFiniteSet(S)
    <3>1. IsFiniteSet(1 .. n) /\ S \in SUBSET (1 .. n)
      BY <1>1, <2>5, FS_Interval
    <3> HIDE DEF S
    <3> QED
      BY <3>1, FS_Subset
  <2> HIDE DEF S, T, f
  <2>10. \A x, y \in S : f[x] = f[y] => x = y
    BY <1>3, <2>5
  <2>11. ASSUME NEW j \in T PROVE \E i \in S : f[i] = j
    <3>1. PICK i \in 1 .. n : q[i] = j
      BY <1>3, <2>7
    <3>2. i \in S
      BY <2>4, <2>6, <2>7, <3>1
    <3> QED
      BY <2>5, <3>1, <3>2
  <2>12. Cardinality(S) = Cardinality(T)
    BY <2>8, <2>9, <2>10, <2>11, SameCount
  <2> QED
    BY <2>12 DEF Times, S, T
<1> QED
  BY <1>4, <1>5

-----------------------------------------------------------------------------
(* The theorems.                                                           *)

\* However many frames were flushed while a section was written, and however
\* the index was sorted, every text has an entry of its own that finds its
\* bytes, counts its lines and notes where they begin (TextWriter, SectionWriter).
THEOREM TextFound == Spec => []EntriesFindText
<1>1. IInv => EntriesFindText
  BY DEF IInv
<1> QED
  BY <1>1, Invariance, PTL

\* get_lines_range returns the non-empty lines of the page of a text under the
\* key, wherever frames end in them and wherever the line index lets it start.
THEOREM PagesRight == Spec => []PageCorrect
<1>1. IInv => PageCorrect
  BY PageDone
<1> QED
  BY <1>1, Invariance, PTL

\* get returns the whole of a text written under the key and misses none;
\* list_kind, list_all and has_section have each text as often as it was written.
THEOREM GetsRight == Spec => []GetCorrect
<1>1. IInv => GetCorrect
  <2> SUFFICES ASSUME IInv PROVE GetCorrect
    OBVIOUS
  <2>1. rd.pc # "error" /\ (rd.pc = "missing" => \A i \in DOMAIN sections : sections[i].key # rd.key)
    BY DEF IInv, Reading, Reads
  <2>2. rd.pc = "missing" => \A j \in DOMAIN text : text[j].key # rd.key
    <3>1. rd.pc = "missing" => phase = "ready"
      BY DEF IInv, Shape, Idle
    <3> QED
      BY <2>1, <3>1, NoText
  <2>3. ListsCorrect
    BY ListDone, IndexDone DEF ListsCorrect
  <2> QED
    BY <2>1, <2>2, <2>3, GetDone DEF GetCorrect
<1> QED
  BY <1>1, Invariance, PTL
=============================================================================
