---------------------------- MODULE ListingProofs ----------------------------
(***************************************************************************)
(* Theorems about Listing, for sections of any length, any page sizes and  *)
(* any width of usize.                                                     *)
(***************************************************************************)
EXTENDS ListingInv, SequenceTheorems, WellFoundedInduction, TLAPS

-----------------------------------------------------------------------------
(* Entries, by its recursion.                                              *)

\* Induction, over a set instead of a predicate.
LEMMA NatSet ==
  ASSUME NEW S, 0 \in S, \A n \in Nat : n \in S => n + 1 \in S
  PROVE  \A n \in Nat : n \in S
<1> DEFINE T == Nat \ S
           R == OpToRel(<, Nat)
<1> SUFFICES ASSUME T # {} PROVE FALSE
  OBVIOUS
<1>1. T \subseteq Nat
  OBVIOUS
<1>2. PICK k \in T : \A y \in T : <<y, k>> \notin R
  <2> HIDE DEF T
  <2> QED
    BY <1>1, NatLessThanWellFounded, WFMin
<1>3. k \in Nat /\ k \notin S /\ k # 0
  OBVIOUS
<1>4. k - 1 \in Nat /\ k - 1 < k /\ (k - 1) + 1 = k
  BY <1>3
<1>5. k - 1 \in T
  BY <1>3, <1>4
<1>6. <<k - 1, k>> \in R
  BY <1>3, <1>4 DEF OpToRel
<1> QED
  BY <1>2, <1>5, <1>6

\* The recursion that defines Kept has a solution.
LEMMA KeptIs ==
  ASSUME NEW s, NEW n \in Nat, n = Len(s)
  PROVE  /\ DOMAIN Kept(s) = 0 .. n /\ Kept(s)[0] = <<>>
         /\ \A k \in 1 .. n : Kept(s)[k] = IF IsEntry(s[k]) THEN Append(Kept(s)[k - 1], s[k])
                                           ELSE Kept(s)[k - 1]
<1> DEFINE Step(f, k) == IF k = 0 THEN <<>>
             ELSE IF IsEntry(s[k]) THEN Append(f[k - 1], s[k]) ELSE f[k - 1]
           Solves(f, m) == f = [k \in 0 .. m |-> Step(f, k)]
           T == {m \in Nat : \E f : Solves(f, m)}
<1>1. 0 \in T
  <2>1. Solves([k \in 0 .. 0 |-> <<>>], 0)
    OBVIOUS
  <2> QED
    BY <2>1
<1>2. ASSUME NEW m \in Nat, m \in T PROVE m + 1 \in T
  <2>1. PICK f : Solves(f, m)
    BY <1>2
  <2> DEFINE g == [k \in 0 .. m + 1 |-> IF k <= m THEN f[k] ELSE Step(f, k)]
  <2>2. \A k \in 0 .. m : f[k] = Step(f, k)
    BY <2>1
  <2>3. \A k \in 0 .. m : g[k] = f[k]
    OBVIOUS
  <2>4. ASSUME NEW k \in 0 .. m + 1 PROVE Step(g, k) = Step(f, k)
    <3>1. k # 0 => k - 1 \in 0 .. m
      OBVIOUS
    <3> HIDE DEF g
    <3> QED
      BY <2>3, <3>1
  <2>5. ASSUME NEW k \in 0 .. m + 1 PROVE g[k] = Step(g, k)
    <3>1. g[k] = IF k <= m THEN f[k] ELSE Step(f, k)
      OBVIOUS
    <3>2. k <= m => k \in 0 .. m
      OBVIOUS
    <3> HIDE DEF g, Step, Solves
    <3> QED
      BY <2>2, <2>4, <3>1, <3>2
  <2>6. g = [k \in 0 .. m + 1 |-> g[k]]
    OBVIOUS
  <2>7. Solves(g, m + 1)
    <3> HIDE DEF g, Step
    <3> QED
      BY <2>5, <2>6
  <2> HIDE DEF g, Solves
  <2> QED
    BY <2>7
<1>3. n \in T
  <2> HIDE DEF T
  <2> QED
    BY <1>1, <1>2, NatSet
<1>4. \E f : Solves(f, n)
  <2> HIDE DEF Solves
  <2> QED
    BY <1>3
<1>5. Kept(s) = CHOOSE f : Solves(f, n)
  BY DEF Kept
<1>6. Solves(Kept(s), n)
  <2> HIDE DEF Solves
  <2> QED
    BY <1>4, <1>5
<1>7. \A k \in 0 .. n : Kept(s)[k] = Step(Kept(s), k)
  <2> HIDE DEF Step
  <2> QED
    BY <1>6
<1>8. DOMAIN Kept(s) = 0 .. n
  <2> HIDE DEF Step
  <2> QED
    BY <1>6
<1>9. 0 \in 0 .. n /\ \A k \in 1 .. n : k \in 0 .. n /\ k # 0
  OBVIOUS
<1> QED
  BY <1>7, <1>8, <1>9

\* One line more at the end.
LEMMA EntriesStep ==
  ASSUME NEW s, NEW t, NEW n \in Nat, Len(s) = n, Len(t) = n + 1, \A i \in 1 .. n : t[i] = s[i]
  PROVE  Entries(t) = IF IsEntry(t[n + 1]) THEN Append(Entries(s), t[n + 1]) ELSE Entries(s)
<1>1. /\ Kept(s)[0] = <<>>
      /\ \A k \in 1 .. n : Kept(s)[k] = IF IsEntry(s[k]) THEN Append(Kept(s)[k - 1], s[k])
                                        ELSE Kept(s)[k - 1]
  BY KeptIs
<1>2. /\ Kept(t)[0] = <<>>
      /\ \A k \in 1 .. n + 1 : Kept(t)[k] = IF IsEntry(t[k]) THEN Append(Kept(t)[k - 1], t[k])
                                            ELSE Kept(t)[k - 1]
  BY KeptIs
<1> DEFINE T == {k \in Nat : k <= n => Kept(t)[k] = Kept(s)[k]}
<1>3. 0 \in T
  BY <1>1, <1>2
<1>4. ASSUME NEW k \in Nat, k \in T PROVE k + 1 \in T
  <2>1. CASE k + 1 <= n
    <3>1. k + 1 \in 1 .. n /\ k + 1 \in 1 .. n + 1 /\ (k + 1) - 1 = k /\ k <= n
      BY <2>1
    <3>2. Kept(t)[k] = Kept(s)[k]
      BY <1>4, <3>1
    <3>3. t[k + 1] = s[k + 1]
      BY <3>1
    <3>4. Kept(t)[k + 1] = IF IsEntry(t[k + 1]) THEN Append(Kept(t)[k], t[k + 1]) ELSE Kept(t)[k]
      BY <1>2, <3>1
    <3>5. Kept(s)[k + 1] = IF IsEntry(s[k + 1]) THEN Append(Kept(s)[k], s[k + 1]) ELSE Kept(s)[k]
      BY <1>1, <3>1
    <3>6. Kept(t)[k + 1] = Kept(s)[k + 1]
      BY <3>2, <3>3, <3>4, <3>5
    <3> QED
      BY <3>6
  <2>2. CASE ~(k + 1 <= n)
    BY <2>2
  <2> QED
    BY <2>1, <2>2
<1>5. n \in T
  <2> HIDE DEF T
  <2> QED
    BY <1>3, <1>4, NatSet
<1>6. Kept(t)[n] = Kept(s)[n] /\ n + 1 \in 1 .. n + 1 /\ (n + 1) - 1 = n
  BY <1>5
<1>7. Kept(t)[n + 1] = IF IsEntry(t[n + 1]) THEN Append(Kept(t)[n], t[n + 1]) ELSE Kept(t)[n]
  BY <1>2, <1>6
<1> QED
  BY <1>6, <1>7, Zenon DEF Entries

-----------------------------------------------------------------------------
(* The entries of a stretch of lines.                                      *)

LEMMA StretchIs ==
  ASSUME NEW a \in Nat, NEW m \in Nat
  PROVE  /\ Len(Stretch(a, a + m)) = m /\ Stretch(a, a + m) \in Seq(Nat)
         /\ \A i \in 1 .. m : Stretch(a, a + m)[i] = a + i
         /\ Stretch(a, a + m) = [i \in 1 .. m |-> a + i]
<1>1. (a + m) - a = m
  OBVIOUS
<1>2. Stretch(a, a + m) = [i \in 1 .. m |-> a + i]
  BY <1>1 DEF Stretch
<1>3. [i \in 1 .. m |-> a + i] \in Seq(Nat) /\ Len([i \in 1 .. m |-> a + i]) = m
  OBVIOUS
<1> QED
  BY <1>2, <1>3

LEMMA StretchEntries ==
  ASSUME NEW a \in Nat, NEW m \in Nat
  PROVE  /\ Entries(Stretch(a, a)) = <<>>
         /\ Entries(Stretch(a, a + (m + 1))) = IF IsEntry(a + (m + 1))
              THEN Append(Entries(Stretch(a, a + m)), a + (m + 1)) ELSE Entries(Stretch(a, a + m))
<1>1. /\ Len(Stretch(a, a + m)) = m /\ \A i \in 1 .. m : Stretch(a, a + m)[i] = a + i
  BY StretchIs
<1>2. /\ Len(Stretch(a, a + (m + 1))) = m + 1
      /\ \A i \in 1 .. m + 1 : Stretch(a, a + (m + 1))[i] = a + i
  <2>1. PICK q \in Nat : q = m + 1
    OBVIOUS
  <2>2. Len(Stretch(a, a + q)) = q /\ \A i \in 1 .. q : Stretch(a, a + q)[i] = a + i
    BY StretchIs
  <2> QED
    BY <2>1, <2>2
<1>3. \A i \in 1 .. m : i \in 1 .. m + 1
  OBVIOUS
<1>4. PICK s, t : s = Stretch(a, a + m) /\ t = Stretch(a, a + (m + 1))
  OBVIOUS
<1>5. Len(s) = m /\ Len(t) = m + 1 /\ \A i \in 1 .. m : t[i] = s[i]
  BY <1>1, <1>2, <1>3, <1>4
<1>6. t[m + 1] = a + (m + 1)
  BY <1>2, <1>4
<1>7. Entries(t) = IF IsEntry(t[m + 1]) THEN Append(Entries(s), t[m + 1]) ELSE Entries(s)
  BY <1>5, EntriesStep
<1>8. Entries(Stretch(a, a)) = <<>>
  <2>1. PICK z \in Nat : z = 0 /\ a + z = a
    OBVIOUS
  <2>2. PICK u : u = Stretch(a, a) /\ Len(u) = 0
    <3>1. Len(Stretch(a, a + z)) = z
      BY StretchIs
    <3> QED
      BY <2>1, <3>1
  <2>3. Kept(u)[0] = <<>>
    BY <2>2, KeptIs
  <2> QED
    BY <2>2, <2>3 DEF Entries
<1> QED
  BY <1>4, <1>6, <1>7, <1>8

LEMMA SeqWider ==
  ASSUME NEW S, NEW T, S \subseteq T, NEW e \in Seq(S)
  PROVE  e \in Seq(T) /\ Len(e) \in Nat /\ DOMAIN e = 1 .. Len(e)
OBVIOUS

\* The entries are among the lines, and all of them if each line is one.
LEMMA StretchFacts ==
  ASSUME NEW a \in Nat, NEW m \in Nat
  PROVE  /\ Entries(Stretch(a, a + m)) \in Seq(a + 1 .. a + m)
         /\ Range(Entries(Stretch(a, a + m))) = {i \in a + 1 .. a + m : IsEntry(i)}
         /\ Len(Entries(Stretch(a, a + m))) <= m
         /\ (\A i \in a + 1 .. a + m : IsEntry(i)) => Entries(Stretch(a, a + m)) = Stretch(a, a + m)
<1> DEFINE E(k) == Entries(Stretch(a, a + k))
           Good(k) == /\ E(k) \in Seq(a + 1 .. a + k) /\ Range(E(k)) = {i \in a + 1 .. a + k : IsEntry(i)}
                      /\ Len(E(k)) <= k
                      /\ (\A i \in a + 1 .. a + k : IsEntry(i)) => E(k) = Stretch(a, a + k)
           T == {k \in Nat : Good(k)}
<1>1. 0 \in T
  <2>1. PICK z \in Nat : z = 0 /\ a + z = a /\ a + 1 .. a + z = {}
    OBVIOUS
  <2>2. E(z) = <<>>
    BY <2>1, StretchEntries
  <2>3. DOMAIN E(z) = {} /\ Len(E(z)) <= z /\ E(z) \in Seq(a + 1 .. a + z)
    BY <2>1, <2>2
  <2>4. Range(E(z)) = {}
    BY <2>3 DEF Range
  <2>5. Stretch(a, a + z) = <<>>
    <3>1. Len(Stretch(a, a + z)) = 0 /\ Stretch(a, a + z) \in Seq(Nat)
      BY <2>1, StretchIs
    <3> QED
      BY <3>1
  <2>6. Good(z)
    <3> HIDE DEF E
    <3> QED
      BY <2>1, <2>2, <2>3, <2>4, <2>5
  <2> HIDE DEF Good
  <2> QED
    BY <2>1, <2>6
<1>2. ASSUME NEW k \in Nat, k \in T PROVE k + 1 \in T
  <2>1. Good(k)
    BY <1>2
  <2>2. PICK x, q : x = a + (k + 1) /\ q = k + 1
    OBVIOUS
  <2>3. /\ x \in Nat /\ q \in Nat /\ x = a + q
        /\ a + 1 .. a + q = (a + 1 .. a + k) \cup {x} /\ a + 1 .. a + k \subseteq a + 1 .. a + q
    BY <2>2
  <2>4. E(q) = IF IsEntry(x) THEN Append(E(k), x) ELSE E(k)
    BY <2>2, StretchEntries
  <2>5. PICK e : e = E(k)
    OBVIOUS
  <2>6. /\ e \in Seq(a + 1 .. a + k) /\ Range(e) = {i \in a + 1 .. a + k : IsEntry(i)} /\ Len(e) <= k
        /\ Len(e) \in Nat /\ e \in Seq(a + 1 .. a + q)
    <3>1. e \in Seq(a + 1 .. a + k) /\ Range(e) = {i \in a + 1 .. a + k : IsEntry(i)} /\ Len(e) <= k
      BY <2>1, <2>5
    <3>2. e \in Seq(a + 1 .. a + q) /\ Len(e) \in Nat
      <4> DEFINE S == a + 1 .. a + k
                 S2 == a + 1 .. a + q
      <4>1. S \subseteq S2 /\ e \in Seq(S)
        BY <2>3, <3>1
      <4> HIDE DEF S, S2
      <4>2. e \in Seq(S2) /\ Len(e) \in Nat
        BY <4>1, SeqWider
      <4> QED
        BY <4>2 DEF S2
    <3> QED
      BY <3>1, <3>2
  <2>7. CASE IsEntry(x)
    <3>1. PICK f : f = Append(e, x) /\ f = E(q)
      BY <2>4, <2>5, <2>7
    <3>2. f \in Seq(a + 1 .. a + q) /\ Len(f) = Len(e) + 1
      BY <2>3, <2>6, <3>1
    <3>3. Range(f) = Range(e) \cup {x}
      <4>1. /\ DOMAIN f = 1 .. Len(e) + 1 /\ DOMAIN e = 1 .. Len(e) /\ f[Len(e) + 1] = x
            /\ \A i \in 1 .. Len(e) : f[i] = e[i]
        <5>1. x \in a + 1 .. a + q
          BY <2>3
        <5> DEFINE S2 == a + 1 .. a + q
        <5>2. e \in Seq(S2) /\ x \in S2
          BY <2>6, <5>1
        <5> HIDE DEF S2
        <5>3. DOMAIN e = 1 .. Len(e)
          BY <5>2
        <5>4. /\ Len(f) = Len(e) + 1 /\ DOMAIN f = 1 .. Len(e) + 1
              /\ \A i \in 1 .. Len(e) : f[i] = e[i]
              /\ f[Len(e) + 1] = x
          <6>1. f = Append(e, x)
            BY <3>1
          <6> HIDE DEF E, Good, T
          <6>2. f \in Seq(S2) /\ Len(f) = Len(e) + 1
            BY <5>2, <6>1, AppendProperties
          <6>3. (\A i \in 1 .. Len(e) : f[i] = e[i]) /\ f[Len(e) + 1] = x
            BY <5>2, <6>1, AppendProperties
          <6> QED
            BY <6>2, <6>3
        <5> QED
          BY <5>3, <5>4
      <4>2. Len(e) + 1 \in 1 .. Len(e) + 1 /\ \A i \in 1 .. Len(e) + 1 : i \in 1 .. Len(e) \/ i = Len(e) + 1
        BY <2>6
      <4>3. \A i \in 1 .. Len(e) : i \in 1 .. Len(e) + 1
        BY <2>6
      <4> QED
        BY <4>1, <4>2, <4>3 DEF Range
    <3>4. Range(f) = {i \in a + 1 .. a + q : IsEntry(i)}
      BY <2>3, <2>6, <2>7, <3>3
    <3>5. Len(f) <= q
      BY <2>2, <2>6, <3>2
    <3>6. ASSUME \A i \in a + 1 .. a + q : IsEntry(i) PROVE f = Stretch(a, a + q)
      <4>1. \A i \in a + 1 .. a + k : IsEntry(i)
        BY <2>3, <3>6
      <4>2. e = Stretch(a, a + k)
        BY <2>1, <2>5, <4>1
      <4>3. Len(e) = k /\ \A i \in 1 .. k : e[i] = a + i
        BY <4>2, StretchIs
      <4>4. /\ Len(Stretch(a, a + q)) = q /\ \A i \in 1 .. q : Stretch(a, a + q)[i] = a + i
            /\ Stretch(a, a + q) \in Seq(Nat)
        BY <2>3, StretchIs
      <4>5. PICK g : g = Stretch(a, a + q)
        OBVIOUS
      <4>6. f \in Seq(Nat) /\ g \in Seq(Nat) /\ Len(f) = q /\ Len(g) = q
        <5>1. a + 1 .. a + q \subseteq Nat
          BY <2>3
        <5> QED
          BY <2>2, <3>2, <4>3, <4>4, <4>5, <5>1
      <4>7. \A i \in 1 .. q : f[i] = g[i]
        BY <2>2, <2>6, <3>1, <4>3, <4>4, <4>5
      <4> QED
        BY <4>5, <4>6, <4>7, SeqEqual
    <3> HIDE DEF E
    <3> QED
      BY <2>2, <2>3, <3>1, <3>2, <3>4, <3>5, <3>6
  <2>8. CASE ~IsEntry(x)
    <3>1. E(q) = e
      BY <2>4, <2>5, <2>8
    <3>2. x \in a + 1 .. a + q /\ Len(e) <= q
      BY <2>2, <2>3, <2>6
    <3>3. Range(e) = {i \in a + 1 .. a + q : IsEntry(i)}
      BY <2>3, <2>6, <2>8
    <3> HIDE DEF E
    <3> QED
      BY <2>2, <2>3, <2>6, <2>8, <3>1, <3>2, <3>3
  <2> QED
    BY <2>7, <2>8
<1>3. m \in T
  <2> HIDE DEF T
  <2> QED
    BY <1>1, <1>2, NatSet
<1> QED
  BY <1>3

LEMMA ConcatAppend ==
  ASSUME NEW u \in Seq(Nat), NEW v \in Seq(Nat), NEW x \in Nat
  PROVE  u \o Append(v, x) = Append(u \o v, x)
OBVIOUS

LEMMA Cut ==
  ASSUME NEW l \in Seq(Nat), NEW a \in Nat, NEW b \in Nat, a <= b, b <= Len(l)
  PROVE  /\ SubSeq(l, a + 1, b) \in Seq(Nat) /\ Len(SubSeq(l, a + 1, b)) = b - a
         /\ \A i \in 1 .. b - a : SubSeq(l, a + 1, b)[i] = l[a + i]
<1>1. PICK s : s = SubSeq(l, a + 1, b)
  OBVIOUS
<1>2. Len(s) = b - a
  BY <1>1
<1>3. s \in Seq(Nat)
  BY <1>1
<1>4. ASSUME NEW i \in 1 .. b - a PROVE s[i] = l[a + i]
  BY <1>1
<1> QED
  BY <1>1, <1>2, <1>3, <1>4

\* The entries of two stretches, one behind the other.
LEMMA StretchConcat ==
  ASSUME NEW a \in Nat, NEW b \in Nat, NEW m \in Nat
  PROVE  Entries(Stretch(a, a + b)) \o Entries(Stretch(a + b, (a + b) + m)) = Entries(Stretch(a, a + (b + m)))
<1> DEFINE E(c, k) == Entries(Stretch(c, c + k))
           T == {k \in Nat : E(a, b) \o E(a + b, k) = E(a, b + k)}
<1>1. 0 \in T
  <2>1. PICK z \in Nat, c \in Nat : z = 0 /\ c = a + b /\ c + z = c /\ b + z = b
    OBVIOUS
  <2>2. E(a + b, z) = <<>>
    <3>1. Entries(Stretch(c, c)) = <<>>
      BY StretchEntries
    <3> QED
      BY <2>1, <3>1
  <2>3. E(a, b) \in Seq(a + 1 .. a + b)
    BY StretchFacts
  <2>4. E(a, b) \o <<>> = E(a, b)
    BY <2>3, ConcatEmptySeq
  <2>5. E(a, b) \o E(a + b, z) = E(a, b + z)
    BY <2>1, <2>2, <2>4
  <2> HIDE DEF E
  <2> QED
    BY <2>1, <2>5
<1>2. ASSUME NEW k \in Nat, k \in T PROVE k + 1 \in T
  <2>1. PICK c \in Nat, q \in Nat, r \in Nat, x \in Nat :
          /\ c = a + b /\ q = k + 1 /\ r = b + k /\ x = c + (k + 1) /\ x = a + (r + 1) /\ b + q = r + 1
    OBVIOUS
  <2>2. E(a, b) \o E(c, k) = E(a, r)
    BY <1>2, <2>1
  <2>3. E(c, q) = IF IsEntry(x) THEN Append(E(c, k), x) ELSE E(c, k)
    <3>1. Entries(Stretch(c, c + (k + 1))) = IF IsEntry(c + (k + 1))
            THEN Append(Entries(Stretch(c, c + k)), c + (k + 1)) ELSE Entries(Stretch(c, c + k))
      BY StretchEntries
    <3> QED
      BY <2>1, <3>1
  <2>4. E(a, r + 1) = IF IsEntry(x) THEN Append(E(a, r), x) ELSE E(a, r)
    <3>1. Entries(Stretch(a, a + (r + 1))) = IF IsEntry(a + (r + 1))
            THEN Append(Entries(Stretch(a, a + r)), a + (r + 1)) ELSE Entries(Stretch(a, a + r))
      BY StretchEntries
    <3> QED
      BY <2>1, <3>1
  <2>5. PICK u, v : u = E(a, b) /\ v = E(c, k) /\ u \in Seq(Nat) /\ v \in Seq(Nat)
    <3>1. E(a, b) \in Seq(a + 1 .. a + b) /\ E(c, k) \in Seq(c + 1 .. c + k)
      BY StretchFacts
    <3>2. a + 1 .. a + b \subseteq Nat /\ c + 1 .. c + k \subseteq Nat
      OBVIOUS
    <3>3. E(a, b) \in Seq(Nat) /\ E(c, k) \in Seq(Nat)
      <4> HIDE DEF E
      <4> QED
        BY <3>1, <3>2
    <3> QED
      BY <3>3
  <2>6. u \o Append(v, x) = Append(u \o v, x)
    BY <2>5, ConcatAppend
  <2>7. E(a, b) \o E(c, q) = E(a, r + 1)
    <3> HIDE DEF E
    <3> QED
      BY <2>2, <2>3, <2>4, <2>5, <2>6
  <2> HIDE DEF E
  <2> QED
    BY <2>1, <2>7
<1>3. m \in T
  <2> HIDE DEF T
  <2> QED
    BY <1>1, <1>2, NatSet
<1> QED
  BY <1>3

\* What a page is cut from.
LEMMA PageIs ==
  ASSUME decodes \in Seq(BOOLEAN), NEW off \in Nat, NEW lim \in Nat, off <= total
  PROVE  /\ Lesser(off + lim, total) \in off .. total
         /\ process_page(off, lim) = Entries(Stretch(off, Lesser(off + lim, total)))
<1>1. PICK n \in Nat : n = total
  BY DEF total
<1>2. PICK b \in Nat : b = Lesser(off + lim, total) /\ off <= b /\ b <= n
  BY <1>1 DEF Lesser
<1>3. Lines \in Seq(Nat) /\ Len(Lines) = n /\ \A i \in 1 .. n : Lines[i] = i
  <2>1. Lines = [i \in 1 .. n |-> i]
    BY <1>1 DEF Lines
  <2> QED
    BY <2>1
<1>4. PICK s : s = SubSeq(Lines, off + 1, b)
  OBVIOUS
<1>5. /\ s \in Seq(Nat) /\ Len(s) = b - off /\ \A i \in 1 .. b - off : s[i] = off + i
  <2>1. PICK l : l = Lines /\ l \in Seq(Nat) /\ Len(l) = n /\ \A i \in 1 .. n : l[i] = i
    BY <1>3
  <2>2. off + 1 \in 1 .. n + 1 /\ b \in off .. n
    BY <1>2
  <2>3. /\ Len(s) = b - off /\ s \in Seq(Nat) /\ \A i \in 1 .. b - off : s[i] = l[off + i]
    <3>1. s = SubSeq(l, off + 1, b) /\ b <= Len(l) /\ off <= b
      BY <1>2, <1>4, <2>1
    <3> QED
      <4>1. /\ SubSeq(l, off + 1, b) \in Seq(Nat) /\ Len(SubSeq(l, off + 1, b)) = b - off
            /\ \A i \in 1 .. b - off : SubSeq(l, off + 1, b)[i] = l[off + i]
        BY <2>1, <3>1, Cut, Zenon
      <4> QED
        BY <3>1, <4>1, Zenon
  <2>4. \A i \in 1 .. b - off : off + i \in 1 .. n
    BY <1>2
  <2> QED
    BY <2>1, <2>3, <2>4
<1>6. PICK m \in Nat : m = b - off /\ off + m = b
  BY <1>2
<1>7. PICK t : t = Stretch(off, b) /\ t \in Seq(Nat) /\ Len(t) = m /\ \A i \in 1 .. m : t[i] = off + i
  <2>1. Stretch(off, off + m) \in Seq(Nat) /\ Len(Stretch(off, off + m)) = m
        /\ \A i \in 1 .. m : Stretch(off, off + m)[i] = off + i
    BY StretchIs
  <2> QED
    BY <1>6, <2>1
<1>8. s = t
  BY <1>5, <1>6, <1>7, SeqEqual
<1>9. process_page(off, lim) = Entries(s)
  BY <1>2, <1>4 DEF process_page
<1>10. b \in off .. n
  BY <1>2
<1> QED
  BY <1>1, <1>2, <1>7, <1>8, <1>9, <1>10

\* All lines at once.
LEMMA ProcessIs ==
  ASSUME decodes \in Seq(BOOLEAN)
  PROVE  process = Entries(Stretch(0, total)) /\ Lines = Stretch(0, total) /\ total \in Nat
<1>1. PICK n \in Nat : n = total /\ n - 0 = n
  BY DEF total
<1>2. \A i \in 1 .. n : 0 + i = i
  OBVIOUS
<1>3. Lines = Stretch(0, total)
  BY <1>1, <1>2 DEF Lines, Stretch
<1> QED
  BY <1>1, <1>3 DEF process

-----------------------------------------------------------------------------
(* ecd proc.                                                               *)

\* What is in two lists, one behind the other.
LEMMA RangeOf ==
  ASSUME NEW u \in Seq(Nat), NEW v \in Seq(Nat)
  PROVE  Range(u \o v) = Range(u) \cup Range(v)
<1>1. /\ Len(u) \in Nat /\ Len(v) \in Nat /\ DOMAIN u = 1 .. Len(u) /\ DOMAIN v = 1 .. Len(v)
      /\ DOMAIN (u \o v) = 1 .. Len(u) + Len(v)
      /\ \A i \in 1 .. Len(u) + Len(v) : (u \o v)[i] = IF i <= Len(u) THEN u[i] ELSE v[i - Len(u)]
  BY ConcatProperties
<1>2. PICK m, n : m = Len(u) /\ n = Len(v) /\ m \in Nat /\ n \in Nat
  BY <1>1
<1>3. PICK w : w = u \o v
  OBVIOUS
<1>4. /\ DOMAIN u = 1 .. m /\ DOMAIN v = 1 .. n /\ DOMAIN w = 1 .. m + n
      /\ \A i \in 1 .. m + n : w[i] = IF i <= m THEN u[i] ELSE v[i - m]
  BY <1>1, <1>2, <1>3
<1>5. ASSUME NEW x \in Range(w) PROVE x \in Range(u) \cup Range(v)
  <2>1. PICK i \in 1 .. m + n : x = w[i]
    BY <1>4, <1>5 DEF Range
  <2>2. CASE i <= m
    BY <1>4, <2>1, <2>2 DEF Range
  <2>3. CASE ~(i <= m)
    <3>1. i - m \in 1 .. n /\ x = v[i - m]
      BY <1>2, <1>4, <2>1, <2>3
    <3> QED
      BY <1>4, <3>1 DEF Range
  <2> QED
    BY <2>2, <2>3
<1>6. ASSUME NEW x \in Range(u) PROVE x \in Range(w)
  <2>1. PICK i \in 1 .. m : x = u[i]
    BY <1>4, <1>6 DEF Range
  <2>2. i \in 1 .. m + n /\ w[i] = x
    BY <1>2, <1>4, <2>1
  <2> QED
    BY <1>4, <2>2 DEF Range
<1>7. ASSUME NEW x \in Range(v) PROVE x \in Range(w)
  <2>1. PICK i \in 1 .. n : x = v[i]
    BY <1>4, <1>7 DEF Range
  <2>2. PICK j : j = i + m /\ j \in 1 .. m + n /\ ~(j <= m) /\ j - m = i
    BY <1>2, <2>1
  <2>3. w[j] = x
    BY <1>4, <2>1, <2>2
  <2> QED
    BY <1>4, <2>2, <2>3 DEF Range
<1> QED
  BY <1>3, <1>5, <1>6, <1>7

\* Lines and entries do not change.
LEMMA SameLines ==
  ASSUME UNCHANGED <<kind, decodes>>
  PROVE  /\ total' = total /\ \A i : IsEntry(i)' <=> IsEntry(i)
         /\ \A l : Entries(l)' = Entries(l)
<1>1. total' = total
  BY DEF total
<1>2. \A i : IsEntry(i)' <=> IsEntry(i)
  BY DEF IsEntry
<1>3. ASSUME NEW l PROVE Entries(l)' = Entries(l)
  BY DEF Entries, Kept, IsEntry
<1> QED
  BY <1>1, <1>2, <1>3

\* A page read from the offset on ends at a line e, and its entries are those
\* from the offset to e.
LEMMA KeepsStreamPage ==
  ASSUME TypeOK, Streamed, StreamPage
  PROVE  /\ cli' \in [pc : {"none", "loop", "done", "failed"}, offset : 0 .. MaxLines, out : Seq(1 .. MaxLines)]
         /\ Streamed'
<1>1. PICK n, p, off, out :
        n = total /\ p = PROC_STREAM_PAGE /\ off = cli.offset /\ out = cli.out
  OBVIOUS
<1>2. /\ n \in Nat /\ p \in Nat /\ p > 0 /\ MaxLines \in Nat /\ n <= MaxLines /\ decodes \in Seq(BOOLEAN)
      /\ off \in 0 .. MaxLines /\ out \in Seq(1 .. MaxLines)
  BY <1>1, ListingAssump, ProcessIs DEF TypeOK
<1>3. cli.pc = "loop" /\ UNCHANGED <<kind, decodes>>
  BY DEF StreamPage
<1>4. PICK e0 \in 0 .. n : off <= e0 /\ e0 <= off + p /\ Range(out) = {i \in 1 .. e0 : IsEntry(i)}
  BY <1>1 DEF Streamed
<1>5. (\A i \in 1 .. n : IsEntry(i)) => out = Stretch(0, off)
  BY <1>1 DEF Streamed
<1>6. total' = n /\ \A i : IsEntry(i)' <=> IsEntry(i)
  BY <1>1, <1>3, SameLines
<1>7. CASE n = 0
  <2>1. cli' = [cli EXCEPT !.pc = "done"]
    BY <1>1, <1>7 DEF StreamPage
  <2>2. /\ cli' \in [pc : {"none", "loop", "done", "failed"}, offset : 0 .. MaxLines, out : Seq(1 .. MaxLines)]
        /\ cli'.offset = off /\ cli'.out = out
    BY <1>1, <2>1 DEF TypeOK
  <2>3. e0 = n /\ off = n
    BY <1>2, <1>4, <1>7
  <2>4. Streamed'
    BY <1>1, <1>4, <1>5, <1>6, <2>2, <2>3 DEF Streamed, Stretch
  <2> QED
    BY <2>2, <2>4
<1>8. CASE n # 0
  <2>1. PICK items : items = process_page(off, p)
    OBVIOUS
  <2>2. PICK e : e = Lesser(off + p, n) /\ off <= e /\ e <= n /\ e \in 0 .. n /\ e0 <= e
                 /\ (e = n \/ e = off + p)
    BY <1>2, <1>4 DEF Lesser
  <2>3. PICK m \in Nat : m = e - off /\ off + m = e /\ off \in Nat /\ e \in Nat
    <3>1. off \in Nat /\ e \in Nat /\ off <= e
      BY <1>2, <2>2
    <3>2. e - off \in Nat /\ off + (e - off) = e
      BY <3>1
    <3> QED
      BY <3>1, <3>2
  <2>4. items = Entries(Stretch(off, off + m))
    <3>1. off \in Nat /\ off <= total
      BY <1>1, <1>2, <2>2
    <3>2. process_page(off, p) = Entries(Stretch(off, Lesser(off + p, total)))
      BY <1>2, <3>1, PageIs
    <3> QED
      BY <1>1, <2>1, <2>2, <2>3, <3>2
  <2>5. /\ items \in Seq(off + 1 .. e) /\ Range(items) = {i \in off + 1 .. e : IsEntry(i)}
        /\ Len(items) <= m
        /\ (\A i \in off + 1 .. e : IsEntry(i)) => items = Stretch(off, e)
    <3>1. /\ Entries(Stretch(off, off + m)) \in Seq(off + 1 .. off + m)
          /\ Range(Entries(Stretch(off, off + m))) = {i \in off + 1 .. off + m : IsEntry(i)}
          /\ Len(Entries(Stretch(off, off + m))) <= m
          /\ (\A i \in off + 1 .. off + m : IsEntry(i)) =>
                Entries(Stretch(off, off + m)) = Stretch(off, off + m)
      BY <2>3, StretchFacts
    <3>2. off + m = e
      BY <2>3
    <3>3. items \in Seq(off + 1 .. e)
      BY <2>4, <3>1, <3>2
    <3>4. Range(items) = {i \in off + 1 .. e : IsEntry(i)}
      BY <2>4, <3>1, <3>2
    <3>5. Len(items) <= m
      BY <2>4, <3>1
    <3>6. (\A i \in off + 1 .. e : IsEntry(i)) => items = Stretch(off, e)
      BY <2>4, <3>1, <3>2
    <3> QED
      BY <3>3, <3>4, <3>5, <3>6
  <2>6. items \in Seq(1 .. MaxLines) /\ items \in Seq(Nat) /\ out \in Seq(Nat) /\ Len(items) \in Nat
    <3> DEFINE S == off + 1 .. e
               W == 1 .. MaxLines
    <3>1. S \subseteq W /\ W \subseteq Nat /\ items \in Seq(S) /\ out \in Seq(W)
      <4>1. S \subseteq W /\ W \subseteq Nat
        BY <1>2, <2>2, <2>3
      <4>2. items \in Seq(S) /\ out \in Seq(W)
        BY <1>2, <2>5, Zenon
      <4> QED
        BY <4>1, <4>2, Zenon
    <3> HIDE DEF S, W
    <3>2. items \in Seq(W) /\ Len(items) \in Nat
      BY <3>1, SeqWider
    <3>3. items \in Seq(Nat) /\ out \in Seq(Nat)
      BY <3>1, <3>2, SeqWider
    <3> QED
      BY <3>2, <3>3 DEF W
  <2>7. PICK off2, out2 : off2 = off + Len(items) /\ out2 = out \o items
    OBVIOUS
  <2>8. cli' = [pc |-> IF IsLast(items, off2) THEN "done" ELSE "loop", offset |-> off2, out |-> out2]
    BY <1>1, <1>8, <2>1, <2>7 DEF StreamPage
  <2>9. off2 \in Nat /\ off <= off2 /\ off2 <= e
    BY <2>3, <2>5, <2>6, <2>7
  <2>10. cli' \in [pc : {"none", "loop", "done", "failed"}, offset : 0 .. MaxLines, out : Seq(1 .. MaxLines)]
    <3>1. off2 \in 0 .. MaxLines
      BY <1>2, <2>2, <2>9
    <3>2. out2 \in Seq(1 .. MaxLines)
      BY <1>2, <2>6, <2>7
    <3> QED
      BY <2>8, <3>1, <3>2
  <2>11. Range(out2) = {i \in 1 .. e : IsEntry(i)}
    <3>1. Range(out2) = Range(out) \cup Range(items)
      BY <2>6, <2>7, RangeOf
    <3>2. \A i : i \in 1 .. e <=> i \in 1 .. e0 \/ i \in off + 1 .. e
      BY <1>2, <1>4, <2>2
    <3> QED
      BY <1>4, <2>5, <3>1, <3>2
  <2>12. ASSUME \A i \in 1 .. n : IsEntry(i) PROVE off2 = e /\ out2 = Stretch(0, off2)
    <3>1. \A i \in off + 1 .. e : i \in 1 .. n
      BY <1>2, <2>2
    <3>2. items = Stretch(off, off + m)
      BY <2>3, <2>5, <2>12, <3>1
    <3>3. /\ Len(items) = m /\ \A i \in 1 .. m : items[i] = off + i
      BY <2>3, <3>2, StretchIs
    <3>4. off2 = e
      BY <2>3, <2>7, <3>3
    <3>5. /\ Len(out) = off /\ \A i \in 1 .. off : out[i] = i
      <4>1. PICK z \in Nat : z = 0 /\ z + off = off /\ \A i \in 1 .. off : z + i = i
        BY <2>3
      <4>2. Len(Stretch(z, z + off)) = off /\ \A i \in 1 .. off : Stretch(z, z + off)[i] = z + i
        BY <2>3, StretchIs
      <4> QED
        BY <1>5, <2>12, <4>1, <4>2
    <3>6. PICK t : t = Stretch(0, off2) /\ t \in Seq(Nat) /\ Len(t) = e /\ \A i \in 1 .. e : t[i] = i
      <4>1. PICK z \in Nat : z = 0 /\ z + e = e /\ \A i \in 1 .. e : z + i = i
        BY <2>2
      <4>2. /\ Stretch(z, z + e) \in Seq(Nat) /\ Len(Stretch(z, z + e)) = e
            /\ \A i \in 1 .. e : Stretch(z, z + e)[i] = z + i
        <5>1. e \in Nat
          BY <2>3
        <5> QED
          BY <5>1, StretchIs
      <4> QED
        BY <3>4, <4>1, <4>2
    <3>7. out2 \in Seq(Nat) /\ Len(out2) = e
      <4>1. out2 \in Seq(Nat) /\ Len(out2) = Len(out) + Len(items)
        BY <2>6, <2>7, ConcatProperties
      <4> QED
        BY <2>3, <3>3, <3>5, <4>1
    <3>8. \A i \in 1 .. e : out2[i] = i
      <4>1. ASSUME NEW i \in 1 .. e PROVE out2[i] = i
        <5>1. out2[i] = IF i <= off THEN out[i] ELSE items[i - off]
          BY <2>3, <2>6, <2>7, <3>3, <3>5
        <5>2. CASE i <= off
          BY <3>5, <5>1, <5>2
        <5>3. CASE ~(i <= off)
          <6>1. PICK j : j = i - off /\ j \in 1 .. m /\ off + j = i
            BY <2>3, <5>3
          <6> QED
            BY <3>3, <5>1, <5>3, <6>1
        <5> QED
          BY <5>2, <5>3
      <4> QED
        BY <4>1
    <3>9. out2 = t
      BY <3>6, <3>7, <3>8, SeqEqual
    <3> QED
      BY <3>4, <3>6, <3>9
  <2>13. ASSUME IsLast(items, off2)
         PROVE  \/ e = n /\ ((\A i \in 1 .. n : IsEntry(i)) => off2 = n)
                \/ e = off2 + p /\ \A i \in off2 + 1 .. e : ~IsEntry(i)
    <3>1. CASE off2 >= n
      BY <1>2, <2>2, <2>9, <3>1
    <3>2. CASE items = <<>>
      <4>1. off2 = off /\ Range(items) = {}
        BY <2>3, <2>7, <3>2 DEF Range
      <4>2. \A i \in off2 + 1 .. e : ~IsEntry(i)
        BY <2>5, <4>1
      <4> QED
        BY <2>2, <2>12, <4>1, <4>2
    <3> QED
      BY <1>1, <2>13, <3>1, <3>2 DEF IsLast
  <2>14. off2 <= e /\ e <= off2 + p
    BY <1>2, <2>2, <2>3, <2>9 DEF Lesser
  <2>15. /\ cli'.pc = IF IsLast(items, off2) THEN "done" ELSE "loop"
         /\ cli'.offset = off2 /\ cli'.out = out2
    BY <2>8
  <2>16. cli'.pc = "done" => IsLast(items, off2)
    BY <2>15
  <2>17. (\A i \in 1 .. total : IsEntry(i))' => cli'.out = Stretch(0, cli'.offset)
    BY <1>6, <2>12, <2>15
  <2>18. \E x \in 0 .. total' :
           /\ cli'.offset <= x /\ x <= cli'.offset + PROC_STREAM_PAGE
           /\ Range(cli'.out) = {i \in 1 .. x : IsEntry(i)'}
           /\ cli'.pc = "done" =>
                \/ x = total' /\ ((\A i \in 1 .. total' : IsEntry(i)') => cli'.offset = total')
                \/ /\ x = cli'.offset + PROC_STREAM_PAGE
                   /\ \A i \in cli'.offset + 1 .. x : ~IsEntry(i)'
    <3>1. Range(out2) = {i \in 1 .. e : IsEntry(i)'}
      BY <1>6, <2>11
    <3>2. e \in 0 .. total' /\ off2 <= e /\ e <= off2 + PROC_STREAM_PAGE
      BY <1>1, <1>6, <2>2, <2>14
    <3>3. cli'.pc = "done" =>
                \/ e = total' /\ ((\A i \in 1 .. total' : IsEntry(i)') => off2 = total')
                \/ /\ e = off2 + PROC_STREAM_PAGE
                   /\ \A i \in off2 + 1 .. e : ~IsEntry(i)'
      BY <1>1, <1>6, <2>13, <2>16
    <3> QED
      BY <2>15, <3>1, <3>2, <3>3
  <2> QED
    BY <2>10, <2>17, <2>18 DEF Streamed, Stretch, Range
<1> QED
  BY <1>7, <1>8

-----------------------------------------------------------------------------
(* ecd-server.                                                             *)

\* Rounding up: the last of q pages has a line, and none is behind it.
LEMMA CeilDiv ==
  ASSUME NEW n \in Nat, NEW d \in Nat \ {0}, NEW q, q = (n + d - 1) \div d
  PROVE  q \in Nat /\ q * d >= n /\ q * d <= n + d - 1
OBVIOUS

LEMMA Times ==
  ASSUME NEW j \in Nat, NEW k \in Nat, NEW d \in Nat, j <= k
  PROVE  j * d \in Nat /\ j * d <= k * d /\ (j + 1) * d = j * d + d
OBVIOUS

\* A page that the pager offers begins at a line of the section, and its
\* numbers are far from an overflow.
LEMMA PageInside ==
  ASSUME TypeOK, NEW d \in Nat \ {0}, total > d, NEW k \in Nat, k < total_pages(d)
  PROVE  /\ total \in Nat /\ k * d \in Nat /\ (k + 1) * d \in Nat
         /\ k * d < total /\ (k + 1) * d = k * d + d /\ (k + 1) * d < WORD /\ k * d + 1 < WORD
<1>1. PICK n \in Nat : n = total /\ n <= MaxLines
  BY ProcessIs DEF TypeOK
<1>2. PICK q : q = (n + d - 1) \div d
  OBVIOUS
<1>3. q \in Nat /\ q * d <= n + d - 1 /\ k + 1 \in Nat /\ k + 1 <= q
  <2>1. q \in Nat /\ q * d <= n + d - 1
    BY <1>2, CeilDiv
  <2>2. k < q
    BY <1>1, <1>2 DEF total_pages
  <2> QED
    BY <2>1, <2>2
<1>4. PICK x, y, z : x = k * d /\ y = (k + 1) * d /\ z = q * d
  OBVIOUS
<1>5. x \in Nat /\ y \in Nat /\ z \in Nat /\ y <= z /\ y = x + d /\ z <= n + d - 1
  <2>1. x \in Nat /\ y = x + d
    BY <1>4, Times
  <2>2. y \in Nat /\ y <= z
    BY <1>3, <1>4, Times
  <2>3. z \in Nat
    BY <1>3, <1>4, Times
  <2> QED
    BY <1>3, <1>4, <2>1, <2>2, <2>3
<1>6. MaxLines \in Nat /\ WORD \in Nat /\ 2 * MaxLines < WORD /\ n > d
  BY <1>1, ListingAssump
<1>7. x < n /\ y < WORD /\ x + 1 < WORD
  BY <1>1, <1>5, <1>6
<1> QED
  BY <1>1, <1>4, <1>5, <1>7

LEMMA NoWrap ==
  ASSUME NEW x \in Nat, x < WORD
  PROVE  x % WORD = x
BY ListingAssump

\* The page that a pager's button leads to.
LEMMA PageShown ==
  ASSUME TypeOK, NEW d \in Nat \ {0}, total > d, NEW k \in Nat, k < total_pages(d),
         NEW walk, NEW v \in Html(k, d, walk)
  PROVE  /\ v = Page(k, d, TRUE, walk)
         /\ v.items = Entries(Stretch(k * d, Lesser((k + 1) * d, total)))
         /\ v.start = k * d + 1 /\ v.end = Lesser((k + 1) * d, total)
         /\ InRange(v)
<1>1. /\ total \in Nat /\ k * d \in Nat /\ (k + 1) * d \in Nat
      /\ k * d < total /\ (k + 1) * d = k * d + d /\ (k + 1) * d < WORD /\ k * d + 1 < WORD
  BY PageInside
<1>2. PICK n, x, y : n = total /\ x = k * d /\ y = (k + 1) * d
  OBVIOUS
<1>3. n \in Nat /\ x \in Nat /\ y \in Nat /\ x < n /\ y = x + d /\ y < WORD /\ x + 1 < WORD /\ WORD \in Nat
  BY <1>1, <1>2, ListingAssump
<1>4. x % WORD = x /\ (x + 1) % WORD = x + 1 /\ y % WORD = y
  <2>1. x < WORD /\ x + 1 \in Nat
    BY <1>3
  <2> QED
    BY <1>3, <2>1, NoWrap
<1>5. v = Page(k, d, TRUE, walk)
  <2>1. ~Overflows((k + 1) * d) /\ ~(total <= d) /\ d # 0
    BY <1>2, <1>3 DEF Overflows
  <2> QED
    BY <2>1 DEF Html
<1>6. PICK e : e = Lesser(y, n) /\ e \in Nat /\ x < e /\ e <= n
  BY <1>3 DEF Lesser
<1>7. /\ v.state = "page" /\ v.page = k /\ v.per_page = d /\ v.start = x + 1 /\ v.end = e
      /\ v.items = process_page(x, d)
  BY <1>2, <1>4, <1>5, <1>6 DEF Page
<1>8. v.items = Entries(Stretch(x, e))
  <2>1. process_page(x, d) = Entries(Stretch(x, Lesser(x + d, total)))
    BY <1>2, <1>3, PageIs DEF TypeOK
  <2> QED
    BY <1>2, <1>3, <1>6, <1>7, <2>1
<1>9. InRange(v)
  <2>1. v.page <= last_page(v)
    <3>1. PICK q : q = total_pages(d) /\ q \in Nat /\ k < q
      BY <1>1, CeilDiv DEF total_pages
    <3> QED
      BY <1>7, <3>1 DEF last_page
  <2>2. Stretch(x, e) = [i \in 1 .. v.end - v.start + 1 |-> v.start + i - 1]
    <3>1. e - x = e - (x + 1) + 1 /\ \A i \in 1 .. e - x : x + i = x + 1 + i - 1
      BY <1>3, <1>6
    <3> QED
      BY <1>7, <3>1 DEF Stretch
  <2>3. 1 <= v.start /\ v.start <= v.end /\ v.end <= total
    BY <1>2, <1>3, <1>6, <1>7
  <2> QED
    BY <1>7, <1>8, <2>1, <2>2, <2>3 DEF InRange
<1> QED
  BY <1>2, <1>5, <1>6, <1>7, <1>8, <1>9

\* A page asked for, with any numbers.
LEMMA HtmlViewed ==
  ASSUME TypeOK, NEW k \in Nat, NEW d \in Nat, d < WORD, NEW v \in Html(k, d, NoWalk)
  PROVE  v.state \in {"page", "panic"} /\ Viewed(v)
<1>1. PICK n \in Nat : n = total
  BY ProcessIs DEF TypeOK
<1>2. \/ v = Panic(k, d)
      \/ v = Page(k, d, FALSE, NoWalk) /\ n <= d
      \/ v = Page(k, d, TRUE, NoWalk) /\ ~(n <= d) /\ d # 0
  BY <1>1 DEF Html
<1>3. CASE v = Panic(k, d)
  BY <1>3 DEF Panic, Viewed
<1>4. ASSUME NEW b \in BOOLEAN, v = Page(k, d, b, NoWalk), b <=> ~(n <= d), b => d # 0
      PROVE  v.state \in {"page", "panic"} /\ Viewed(v)
  <2>1. /\ v.state = "page" /\ v.page = k /\ v.per_page = d /\ v.pager = b
        /\ v.walk = IF k = 0 THEN [on |-> TRUE, seen |-> v.items]
                    ELSE [NoWalk EXCEPT !.seen = @ \o v.items]
        /\ v.items = process_page((k * d) % WORD, d)
    BY <1>4 DEF Page
  <2>2. v.walk = [on |-> v.walk.on, seen |-> v.walk.seen] /\ (v.walk.on <=> k = 0) /\ v.walk.on \in BOOLEAN
        /\ (k = 0 => v.walk.seen = v.items)
    <3>1. CASE k = 0
      <4>1. v.walk = [on |-> TRUE, seen |-> v.items]
        BY <2>1, <3>1
      <4> QED
        BY <3>1, <4>1
    <3>2. CASE k # 0
      <4>1. v.walk = [on |-> FALSE, seen |-> <<>> \o v.items]
        BY <2>1, <3>2 DEF NoWalk
      <4> QED
        BY <3>2, <4>1
    <3> QED
      BY <3>1, <3>2
  <2>3. ASSUME k = 0 PROVE v.items = Entries(Stretch(0, Lesser((k + 1) * d, total)))
    <3>1. PICK z \in Nat : z = 0 /\ (k * d) % WORD = z /\ z + d = d /\ (k + 1) * d = d /\ z <= n
      BY <1>1, <2>3, ListingAssump
    <3>2. process_page(z, d) = Entries(Stretch(z, Lesser(z + d, total)))
      BY <1>1, <3>1, PageIs DEF TypeOK
    <3> QED
      BY <2>1, <3>1, <3>2
  <2>4. v.pager <=> total > v.per_page
    BY <1>1, <1>4, <2>1
  <2>5. v.page \in Nat /\ v.per_page \in Nat /\ v.per_page < WORD /\ v.pager \in BOOLEAN
    BY <2>1
  <2>6. v.pager => v.per_page > 0
    BY <1>4, <2>1
  <2>7. v.walk.on => v.walk.seen = Entries(Stretch(0, Lesser((v.page + 1) * v.per_page, total)))
    BY <2>1, <2>2, <2>3
  <2> QED
    BY <2>1, <2>2, <2>4, <2>5, <2>6, <2>7 DEF Viewed
<1> QED
  BY <1>2, <1>3, <1>4

\* "Next": the walk goes on where the page before ended.
LEMMA NextViewed ==
  ASSUME TypeOK, Viewed(view), view.state = "page", view.pager, view.page < last_page(view),
         NEW v \in Html(view.page + 1, view.per_page, view.walk)
  PROVE  v.state = "page" /\ Viewed(v)
<1>1. PICK k, d, n, walk : k = view.page /\ d = view.per_page /\ n = total /\ walk = view.walk
  OBVIOUS
<1>2. /\ k \in Nat /\ d \in Nat \ {0} /\ n \in Nat /\ n > d /\ d < WORD
      /\ walk = [on |-> walk.on, seen |-> walk.seen] /\ walk.on \in BOOLEAN
      /\ walk.on => walk.seen = Entries(Stretch(0, Lesser((k + 1) * d, n)))
  BY <1>1, ProcessIs DEF TypeOK, Viewed
<1>3. PICK j \in Nat : j = k + 1 /\ j < total_pages(d) /\ k + 1 < total_pages(d)
  <2>1. PICK q : q = total_pages(d) /\ q \in Nat
    BY <1>1, <1>2, CeilDiv DEF total_pages
  <2>2. k < q - 1
    BY <1>1, <2>1 DEF last_page
  <2> QED
    BY <1>2, <2>1, <2>2
<1>4. v \in Html(j, d, walk) /\ total > d
  BY <1>1, <1>2, <1>3
<1>5. /\ v = Page(j, d, TRUE, walk) /\ v.items = Entries(Stretch(j * d, Lesser((j + 1) * d, total)))
  BY <1>2, <1>4, <1>3, PageShown
<1>6. /\ v.state = "page" /\ v.page = j /\ v.per_page = d /\ v.pager = TRUE
      /\ v.walk = [walk EXCEPT !.seen = @ \o v.items]
  <2>1. j # 0
    BY <1>2, <1>3
  <2> QED
    BY <1>5, <2>1 DEF Page
<1>7. /\ v.walk = [on |-> v.walk.on, seen |-> v.walk.seen] /\ v.walk.on \in BOOLEAN
      /\ v.walk.on = walk.on /\ v.walk.seen = walk.seen \o v.items
  BY <1>2, <1>6
<1>8. ASSUME walk.on PROVE v.walk.seen = Entries(Stretch(0, Lesser((j + 1) * d, total)))
  <2>1. j * d \in Nat /\ j * d < total /\ (j + 1) * d = j * d + d /\ (j + 1) * d \in Nat
    BY <1>2, <1>3, <1>4, PageInside
  <2>2. PICK x, e : x = j * d /\ e = Lesser((j + 1) * d, total)
    OBVIOUS
  <2>3. x \in Nat /\ e \in Nat /\ x <= e /\ x = Lesser((k + 1) * d, n)
    BY <1>1, <1>2, <1>3, <2>1, <2>2 DEF Lesser
  <2>4. PICK z \in Nat, m \in Nat : z = 0 /\ z + x = x /\ x + m = e /\ z + (x + m) = e
    <3>1. e - x \in Nat /\ x + (e - x) = e /\ 0 + x = x /\ 0 + (x + (e - x)) = e
      BY <2>3
    <3> QED
      BY <3>1
  <2>5. Entries(Stretch(z, z + x)) \o Entries(Stretch(z + x, (z + x) + m)) = Entries(Stretch(z, z + (x + m)))
    BY <2>3, StretchConcat
  <2>6. Entries(Stretch(0, x)) \o Entries(Stretch(x, e)) = Entries(Stretch(0, e))
    BY <2>4, <2>5
  <2> QED
    BY <1>2, <1>5, <1>7, <1>8, <2>2, <2>3, <2>6
<1>9. /\ v.page \in Nat /\ v.per_page \in Nat /\ v.per_page < WORD /\ v.pager \in BOOLEAN
      /\ v.pager <=> total > v.per_page
      /\ v.pager => v.per_page > 0
  <2>1. v.page \in Nat /\ v.per_page \in Nat /\ v.per_page < WORD /\ v.per_page > 0
    BY <1>2, <1>6
  <2>2. v.pager = TRUE /\ total > v.per_page
    BY <1>4, <1>6
  <2> QED
    BY <2>1, <2>2
<1>10. v.walk.on => v.walk.seen = Entries(Stretch(0, Lesser((v.page + 1) * v.per_page, total)))
  BY <1>6, <1>7, <1>8
<1> QED
  BY <1>6, <1>7, <1>9, <1>10 DEF Viewed

-----------------------------------------------------------------------------
(* The invariant.                                                          *)

\* What is said of a page does not change with the page.
LEMMA SameViewed ==
  ASSUME UNCHANGED <<kind, decodes>>, NEW v, view' = v
  PROVE  Viewed(view)' <=> Viewed(v)
BY DEF Viewed, Entries, Kept, IsEntry, total

\* A step of one side leaves the other as it is.
LEMMA KeepsCli ==
  ASSUME TypeOK, Streamed, UNCHANGED <<kind, decodes>>, cli' = cli \/ cli' = [cli EXCEPT !.pc = "failed"],
         view'.state \in {"none", "panic", "page"}
  PROVE  TypeOK' /\ Streamed'
<1>1. total' = total /\ \A i : IsEntry(i)' <=> IsEntry(i)
  BY SameLines
<1>2. /\ cli'.offset = cli.offset /\ cli'.out = cli.out /\ (cli'.pc = "done" => cli.pc = "done")
      /\ cli' \in [pc : {"none", "loop", "done", "failed"}, offset : 0 .. MaxLines, out : Seq(1 .. MaxLines)]
  BY DEF TypeOK
<1>3. TypeOK'
  BY <1>1, <1>2 DEF TypeOK
<1>4. Streamed'
  BY <1>1, <1>2 DEF Streamed, Stretch
<1> QED
  BY <1>3, <1>4

LEMMA KeepsRequest ==
  ASSUME IInv, UNCHANGED <<kind, decodes, cli>>,
         NEW k \in Nat, NEW d \in Nat, d < WORD, view' \in Html(k, d, NoWalk)
  PROVE  IInv'
<1>1. PICK v : v = view'
  OBVIOUS
<1>2. v.state \in {"page", "panic"} /\ Viewed(v)
  BY <1>1, HtmlViewed DEF IInv
<1>3. Viewed(view)'
  BY <1>1, <1>2, SameViewed
<1>4. TypeOK' /\ Streamed'
  BY <1>1, <1>2, KeepsCli DEF IInv
<1> QED
  BY <1>3, <1>4 DEF IInv

\* The pages that the buttons name are there.
LEMMA PagerPages ==
  ASSUME IInv, HasPager
  PROVE  /\ view.per_page \in Nat \ {0} /\ view.per_page < WORD /\ total > view.per_page
         /\ view.page \in Nat /\ total_pages(view.per_page) \in Nat \ {0}
         /\ last_page(view) \in Nat /\ last_page(view) < total_pages(view.per_page)
<1>1. PICK n, d, q : n = total /\ d = view.per_page /\ q = total_pages(d)
  OBVIOUS
<1>2. n \in Nat /\ d \in Nat \ {0} /\ d < WORD /\ n > d /\ view.page \in Nat
  BY <1>1, ProcessIs DEF IInv, TypeOK, HasPager, Viewed
<1>3. q \in Nat /\ q * d >= n
  BY <1>1, <1>2, CeilDiv DEF total_pages
<1>4. q # 0
  BY <1>2, <1>3
<1>5. last_page(view) = q - 1 /\ q - 1 \in Nat /\ q - 1 < q
  BY <1>1, <1>3, <1>4 DEF last_page
<1> QED
  BY <1>1, <1>2, <1>3, <1>4, <1>5

LEMMA KeepsPager ==
  ASSUME IInv, Pager
  PROVE  IInv'
<1>1. HasPager /\ UNCHANGED <<kind, decodes, cli>>
  BY DEF Pager, FirstPage, PrevPage, NextPage, LastPage, GoToPage, Follow
<1>2. PICK d, k : d = view.per_page /\ k = view.page
  OBVIOUS
<1>3. d \in Nat \ {0} /\ d < WORD /\ k \in Nat /\ last_page(view) \in Nat
  BY <1>1, <1>2, PagerPages
<1>4. CASE FirstPage
  <2>1. view' \in Html(0, d, NoWalk)
    BY <1>2, <1>4 DEF FirstPage, Follow
  <2> QED
    BY <1>1, <1>3, <2>1, KeepsRequest
<1>5. CASE PrevPage
  <2>1. view' \in Html(k - 1, d, NoWalk) /\ k > 0
    BY <1>2, <1>5 DEF PrevPage, Follow
  <2>2. k - 1 \in Nat
    BY <1>3, <2>1
  <2> QED
    BY <1>1, <1>3, <2>1, <2>2, KeepsRequest
<1>6. CASE NextPage
  <2>1. PICK v : v = view'
    OBVIOUS
  <2>2. v.state = "page" /\ Viewed(v)
    BY <1>1, <1>6, <2>1, NextViewed DEF IInv, NextPage, Follow, HasPager
  <2>3. Viewed(view)'
    BY <1>1, <2>1, <2>2, SameViewed
  <2>4. TypeOK' /\ Streamed'
    BY <1>1, <2>1, <2>2, KeepsCli DEF IInv
  <2> QED
    BY <2>3, <2>4 DEF IInv
<1>7. CASE LastPage
  <2>1. view' \in Html(last_page(view), d, NoWalk)
    BY <1>2, <1>7 DEF LastPage, Follow
  <2> QED
    BY <1>1, <1>3, <2>1, KeepsRequest
<1>8. CASE GoToPage
  <2>1. PICK n \in 1 .. total_pages(d) : view' \in Html(n - 1, d, NoWalk)
    BY <1>2, <1>8 DEF GoToPage, Follow
  <2>2. n - 1 \in Nat
    BY <2>1
  <2> QED
    BY <1>1, <1>3, <2>1, <2>2, KeepsRequest
<1> QED
  BY <1>4, <1>5, <1>6, <1>7, <1>8 DEF Pager

LEMMA Starts ==
  ASSUME Init
  PROVE  IInv
<1>1. PICK n \in 0 .. MaxLines : decodes \in [1 .. n -> BOOLEAN]
  BY DEF Init
<1>2. n \in Nat /\ n <= MaxLines /\ MaxLines \in Nat
  BY <1>1, ListingAssump
<1>3. decodes \in Seq(BOOLEAN) /\ total = n
  <2>1. decodes \in Seq(BOOLEAN) /\ Len(decodes) = n
    BY <1>1, <1>2
  <2> QED
    BY <2>1 DEF total
<1>4. cli.pc \in {"none", "loop"} /\ cli.offset = 0 /\ cli.out = <<>>
  BY DEF Init
<1>5. TypeOK
  <2>1. cli \in [pc : {"none", "loop", "done", "failed"}, offset : 0 .. MaxLines, out : Seq(1 .. MaxLines)]
    <3>1. {0} \subseteq 0 .. MaxLines /\ {<<>>} \subseteq Seq(1 .. MaxLines)
      BY <1>2
    <3>2. cli \in [pc : {"none", "loop"}, offset : {0}, out : {<<>>}]
      BY DEF Init
    <3> QED
      BY <3>1, <3>2
  <2>2. view.state = "none"
    BY DEF Init
  <2> QED
    BY <1>2, <1>3, <2>1, <2>2 DEF TypeOK
<1>6. Streamed
  <2>1. Stretch(0, 0) = <<>>
    <3>1. PICK z \in Nat : z = 0 /\ z + z = z
      OBVIOUS
    <3>2. Len(Stretch(z, z + z)) = z /\ Stretch(z, z + z) \in Seq(Nat)
      BY <3>1, StretchIs
    <3> QED
      BY <3>1, <3>2
  <2>2. Range(<<>>) = {} /\ 1 .. 0 = {}
    BY DEF Range
  <2>3. 0 \in 0 .. total /\ 0 <= 0 + PROC_STREAM_PAGE
    BY <1>2, <1>3, ListingAssump
  <2>4. Range(cli.out) = {i \in 1 .. 0 : IsEntry(i)}
    BY <1>4, <2>2
  <2> QED
    BY <1>4, <2>1, <2>3, <2>4 DEF Streamed
<1>7. Viewed(view)
  BY DEF Viewed, Init
<1> QED
  BY <1>5, <1>6, <1>7 DEF IInv

\* What was printed and what was browsed fits the section, after any steps of
\* `ecd proc' or of a browser.
THEOREM Invariance == Spec => []IInv
<1>1. Init => IInv
  BY Starts
<1>2. IInv /\ [Next]_vars => IInv'
  <2> SUFFICES ASSUME IInv, [Next]_vars PROVE IInv'
    OBVIOUS
  <2>1. CASE StreamPage
    <3>1. UNCHANGED <<kind, decodes, view>>
      BY <2>1 DEF StreamPage
    <3>2. /\ cli' \in [pc : {"none", "loop", "done", "failed"}, offset : 0 .. MaxLines, out : Seq(1 .. MaxLines)]
          /\ Streamed'
      BY <2>1, KeepsStreamPage DEF IInv
    <3>3. TypeOK'
      BY <3>1, <3>2 DEF TypeOK, IInv, total
    <3>4. Viewed(view)'
      BY <3>1, SameViewed DEF IInv
    <3> QED
      BY <3>2, <3>3, <3>4 DEF IInv
  <2>2. CASE StreamFails \/ UNCHANGED vars
    <3>1. UNCHANGED <<kind, decodes, view>> /\ (cli' = cli \/ cli' = [cli EXCEPT !.pc = "failed"])
      BY <2>2 DEF StreamFails, vars
    <3>2. TypeOK' /\ Streamed'
      BY <3>1, KeepsCli DEF IInv, TypeOK
    <3>3. Viewed(view)'
      BY <3>1, SameViewed DEF IInv
    <3> QED
      BY <3>2, <3>3 DEF IInv
  <2>3. ASSUME NEW page \in 0 .. WORD - 1, NEW per_page \in 0 .. WORD - 1, Open(page, per_page)
        PROVE  IInv'
    <3>1. page \in Nat /\ per_page \in Nat /\ per_page < WORD
      BY ListingAssump
    <3>2. UNCHANGED <<kind, decodes, cli>> /\ view' \in Html(page, per_page, NoWalk)
      BY <2>3 DEF Open
    <3> QED
      BY <3>1, <3>2, KeepsRequest
  <2>4. CASE Pager
    BY <2>4, KeepsPager
  <2>5. CASE Close
    <3>1. UNCHANGED <<kind, decodes, cli>> /\ view' = [state |-> "none"]
      BY <2>5 DEF Close
    <3>2. PICK v : v = view' /\ v.state = "none"
      BY <3>1
    <3>3. Viewed(v)
      BY <3>2 DEF Viewed
    <3>4. Viewed(view)'
      BY <3>1, <3>2, <3>3, SameViewed
    <3>5. TypeOK' /\ Streamed'
      BY <3>1, <3>2, KeepsCli DEF IInv
    <3> QED
      BY <3>4, <3>5 DEF IInv
  <2> QED
    BY <2>1, <2>2, <2>3, <2>4, <2>5 DEF Next, Terminated
<1> QED
  BY <1>1, <1>2, PTL DEF Spec

-----------------------------------------------------------------------------
(* The theorems.                                                           *)

\* The loops of `ecd proc' (bin/ecd.rs) pass no entry over: all are printed up
\* to the end of the section, or up to a whole page of lines without an entry.
THEOREM NothingPassedOver == Spec => []NothingSkipped
<1>1. IInv => NothingSkipped
  <2> SUFFICES ASSUME IInv, cli.pc = "done" PROVE NothingSkipped
    BY DEF NothingSkipped
  <2>1. PICK n \in Nat : n = total
    BY ProcessIs DEF IInv, TypeOK
  <2>2. PICK p, off : p = PROC_STREAM_PAGE /\ p \in Nat /\ p > 0 /\ off = cli.offset /\ off \in Nat
    BY ListingAssump DEF IInv, TypeOK
  <2>3. PICK e \in 0 .. n :
          /\ off <= e
          /\ Range(cli.out) = {i \in 1 .. e : IsEntry(i)}
          /\ \/ e = n /\ ((\A i \in 1 .. n : IsEntry(i)) => off = n)
             \/ e = off + p /\ \A i \in off + 1 .. e : ~IsEntry(i)
    BY <2>1, <2>2 DEF IInv, Streamed
  <2>4. ASSUME \A i \in 1 .. n : IsEntry(i) PROVE cli.out = process
    <3>1. off = n
      <4>1. e = off + p => off + 1 \in off + 1 .. e /\ off + 1 \in 1 .. n
        BY <2>1, <2>2, <2>3
      <4> QED
        BY <2>3, <2>4, <4>1
    <3>2. cli.out = Stretch(0, n)
      BY <2>1, <2>2, <2>4, <3>1 DEF IInv, Streamed
    <3>3. PICK z \in Nat : z = 0 /\ z + n = n /\ z + 1 = 1
      BY <2>1
    <3>4. Entries(Stretch(z, z + n)) = Stretch(z, z + n)
      BY <2>1, <2>4, <3>3, StretchFacts
    <3>5. process = Entries(Stretch(0, n))
      BY <2>1, ProcessIs DEF IInv, TypeOK
    <3> QED
      BY <3>2, <3>3, <3>4, <3>5
  <2>5. \/ e = n
        \/ e >= p /\ \A i \in e - p + 1 .. e : ~IsEntry(i)
    <3>1. CASE e = off + p /\ \A i \in off + 1 .. e : ~IsEntry(i)
      <4>1. e >= p /\ e - p = off
        BY <2>2, <3>1
      <4> QED
        BY <3>1, <4>1
    <3> QED
      BY <2>3, <3>1
  <2> QED
    BY <2>1, <2>2, <2>3, <2>4, <2>5 DEF NothingSkipped
<1> QED
  BY <1>1, Invariance, PTL

\* From page 0 on, "Next" by "Next" (proc_pager of bin/ecd-server.rs), a browser
\* sees what the whole process would have shown at once.
THEOREM WalkComplete == Spec => []WalkShowsAll
<1>1. IInv => WalkShowsAll
  <2> SUFFICES ASSUME IInv, view.state = "page", view.walk.on, view.pager => view.page >= last_page(view)
               PROVE  view.walk.seen = process
    BY DEF WalkShowsAll
  <2>1. PICK n, d, k : n = total /\ d = view.per_page /\ k = view.page
    OBVIOUS
  <2>2. /\ n \in Nat /\ d \in Nat /\ k \in Nat /\ (view.pager <=> n > d) /\ (view.pager => d > 0)
        /\ view.walk.seen = Entries(Stretch(0, Lesser((k + 1) * d, n)))
    BY <2>1, ProcessIs DEF IInv, TypeOK, Viewed
  <2>3. (k + 1) * d \in Nat /\ (k + 1) * d >= n
    <3>1. CASE view.pager
      <4>1. d \in Nat \ {0}
        BY <2>2, <3>1
      <4>2. PICK q : q = total_pages(d) /\ q \in Nat /\ q * d >= n
        BY <2>1, <2>2, <4>1, CeilDiv DEF total_pages
      <4>3. q <= k + 1 /\ k + 1 \in Nat
        BY <2>1, <2>2, <3>1, <4>2 DEF last_page
      <4>4. PICK x, y : x = q * d /\ y = (k + 1) * d /\ x \in Nat /\ y \in Nat /\ x <= y
        BY <2>2, <4>2, <4>3, Times
      <4> QED
        BY <2>2, <4>2, <4>4
    <3>2. CASE ~view.pager
      <4>1. PICK x, y : x = k * d /\ y = (k + 1) * d /\ x \in Nat /\ y = x + d
        BY <2>2, Times
      <4>2. n <= d
        BY <2>2, <3>2
      <4> QED
        BY <2>2, <4>1, <4>2
    <3> QED
      BY <3>1, <3>2
  <2>4. Lesser((k + 1) * d, n) = n
    BY <2>2, <2>3 DEF Lesser
  <2> QED
    BY <2>1, <2>2, <2>4, ProcessIs DEF IInv, TypeOK
<1> QED
  BY <1>1, Invariance, PTL

\* A button of the pager leads to a page that is there and says of itself what it
\* shows, with no panic and no overflow, from whatever URL the browser came.
THEOREM PagerWorks == Spec => PagerLeadsToPages
<1>1. ASSUME IInv
      PROVE  /\ FirstPage \/ NextPage \/ LastPage \/ GoToPage => InRange(view')
             /\ PrevPage /\ view.page <= last_page(view) => InRange(view')
  <2>1. PICK d, k, q, v : d = view.per_page /\ k = view.page /\ q = total_pages(d) /\ v = view'
    OBVIOUS
  <2>2. ASSUME HasPager, NEW j \in Nat, j < q, NEW walk, v \in Html(j, d, walk) PROVE InRange(v)
    <3>1. d \in Nat \ {0} /\ total > d
      BY <1>1, <2>1, <2>2, PagerPages
    <3> QED
      BY <1>1, <2>1, <2>2, <3>1, PageShown DEF IInv
  <2>3. ASSUME HasPager PROVE q \in Nat \ {0} /\ k \in Nat /\ last_page(view) = q - 1
    <3>1. q \in Nat \ {0} /\ k \in Nat
      BY <1>1, <2>1, <2>3, PagerPages
    <3> QED
      BY <2>1, <3>1 DEF last_page
  <2>4. CASE FirstPage
    <3>1. HasPager /\ v \in Html(0, d, NoWalk)
      BY <2>1, <2>4 DEF FirstPage, Follow
    <3>2. 0 \in Nat /\ 0 < q
      BY <2>3, <3>1
    <3> QED
      BY <2>1, <2>2, <3>1, <3>2
  <2>5. CASE NextPage
    <3>1. HasPager /\ v \in Html(k + 1, d, view.walk) /\ k < last_page(view)
      BY <2>1, <2>5 DEF NextPage, Follow
    <3>2. k + 1 \in Nat /\ k + 1 < q
      BY <2>3, <3>1
    <3> QED
      BY <2>1, <2>2, <3>1, <3>2
  <2>6. CASE LastPage
    <3>1. HasPager /\ v \in Html(last_page(view), d, NoWalk)
      BY <2>1, <2>6 DEF LastPage, Follow
    <3>2. last_page(view) \in Nat /\ last_page(view) < q
      BY <2>3, <3>1
    <3> QED
      BY <2>1, <2>2, <3>1, <3>2
  <2>7. CASE GoToPage
    <3>1. PICK n \in 1 .. q : HasPager /\ v \in Html(n - 1, d, NoWalk)
      BY <2>1, <2>7 DEF GoToPage, Follow
    <3>2. n - 1 \in Nat /\ n - 1 < q
      BY <2>3, <3>1
    <3> QED
      BY <2>1, <2>2, <3>1, <3>2
  <2>8. CASE PrevPage /\ view.page <= last_page(view)
    <3>1. HasPager /\ v \in Html(k - 1, d, NoWalk) /\ k > 0 /\ k <= last_page(view)
      BY <2>1, <2>8 DEF PrevPage, Follow
    <3>2. k - 1 \in Nat /\ k - 1 < q
      BY <2>3, <3>1
    <3> QED
      BY <2>1, <2>2, <3>1, <3>2
  <2> QED
    BY <2>1, <2>4, <2>5, <2>6, <2>7, <2>8
<1>2. IInv => [/\ FirstPage \/ NextPage \/ LastPage \/ GoToPage => InRange(view')
               /\ PrevPage /\ view.page <= last_page(view) => InRange(view')]_view
  BY <1>1
<1> QED
  BY <1>2, Invariance, PTL DEF PagerLeadsToPages
=============================================================================
