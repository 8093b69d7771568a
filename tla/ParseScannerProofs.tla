-------------------------- MODULE ParseScannerProofs --------------------------
(***************************************************************************)
(* Theorems about ParseScanner, for dumps of any length, any addresses and *)
(* any interval of progress messages.                                      *)
(***************************************************************************)
EXTENDS ParseScannerInv, SequenceTheorems, FiniteSetTheorems, WellFoundedInduction, TLAPS

-----------------------------------------------------------------------------
(* Maxima and ascending lists.                                             *)

LEMMA MaxIs ==
  ASSUME NEW S, S \subseteq Int, NEW x \in S, \A y \in S : y <= x
  PROVE  Max(S) = x
<1>1. \A y \in S : (\A z \in S : y >= z) => y = x
  BY SMT
<1>2. x \in S /\ \A z \in S : x >= z
  BY SMT
<1> QED
  BY <1>1, <1>2 DEF Max

\* A set of numbers up to some bound has a greatest one.
LEMMA MaxExists ==
  ASSUME NEW m \in Nat, NEW S, S \subseteq 0 .. m, S # {}
  PROVE  Max(S) \in S /\ \A y \in S : y <= Max(S)
<1> DEFINE T == {k \in Nat : \A x \in S : x <= k}
           R == OpToRel(<, Nat)
<1>1. T \subseteq Nat /\ m \in T
  OBVIOUS
<1>2. PICK k \in T : \A y \in T : <<y, k>> \notin R
  <2> HIDE DEF T
  <2> QED
    BY <1>1, NatLessThanWellFounded, WFMin
<1>3. ASSUME NEW y \in T PROVE k <= y
  <2>1. y \in Nat /\ k \in Nat
    BY <1>1
  <2>2. y < k => <<y, k>> \in R
    BY <2>1 DEF OpToRel
  <2> HIDE DEF R, T
  <2> QED
    BY <1>2, <2>1, <2>2
<1>4. k \in S
  <2> SUFFICES ASSUME k \notin S PROVE FALSE
    OBVIOUS
  <2>1. PICK x \in S : TRUE
    OBVIOUS
  <2>2. x \in Nat /\ x <= k /\ x # k
    BY <2>1
  <2>3. k \in Nat /\ k - 1 \in Nat
    BY <2>2
  <2>4. \A z \in S : z \in Nat /\ z <= k /\ z # k
    OBVIOUS
  <2>5. \A z \in S : z <= k - 1
    BY <2>3, <2>4
  <2>6. k - 1 \in T
    BY <2>3, <2>5
  <2> HIDE DEF T
  <2> QED
    BY <1>3, <2>3, <2>6
<1>5. S \subseteq Int /\ \A y \in S : y <= k
  OBVIOUS
<1>6. Max(S) = k
  BY <1>4, <1>5, MaxIs
<1> QED
  BY <1>4, <1>5, <1>6

\* A list goes on with a number above all in it.
LEMMA ListsAppend ==
  ASSUME NEW s \in Seq(Nat), NEW S, Lists(s, S), NEW x \in Nat, \A y \in S : y < x
  PROVE  Lists(Append(s, x), S \cup {x})
<1> DEFINE t == Append(s, x)
           n == Len(s)
<1>1. /\ n \in Nat /\ DOMAIN s = 1 .. n /\ DOMAIN t = 1 .. n + 1
      /\ \A k \in 1 .. n : t[k] = s[k]
      /\ t[n + 1] = x /\ \A k \in 1 .. n : s[k] \in Nat
  BY AppendProperties, ElementOfSeq
<1>2. \A y : y \in S <=> \E k \in 1 .. n : s[k] = y
  <2>1. S = {s[k] : k \in 1 .. n}
    BY <1>1 DEF Lists, Range
  <2> QED
    BY <2>1
<1> HIDE DEF t, n
<1>3. Range(t) = S \cup {x}
  <2>1. \A y : y \in Range(t) <=> \E k \in 1 .. n + 1 : t[k] = y
    BY <1>1 DEF Range
  <2>2. ASSUME NEW y PROVE (\E k \in 1 .. n + 1 : t[k] = y) <=> y \in S \/ y = x
    <3>1. ASSUME NEW k \in 1 .. n + 1, t[k] = y PROVE y \in S \/ y = x
      <4>1. k \in 1 .. n \/ k = n + 1
        BY <1>1
      <4> QED
        BY <1>1, <1>2, <3>1, <4>1
    <3>2. n + 1 \in 1 .. n + 1 /\ \A k \in 1 .. n : k \in 1 .. n + 1
      BY <1>1
    <3>3. y \in S \/ y = x => \E k \in 1 .. n + 1 : t[k] = y
      BY <1>1, <1>2, <3>2
    <3> QED
      BY <3>1, <3>3
  <2> QED
    BY <2>1, <2>2
<1>4. ASSUME NEW k \in 1 .. n + 1, NEW l \in 1 .. n + 1, k < l PROVE t[k] < t[l]
  <2>1. k \in 1 .. n /\ (l \in 1 .. n \/ l = n + 1)
    BY <1>1, <1>4
  <2>2. CASE l \in 1 .. n
    BY <1>1, <1>4, <2>1, <2>2 DEF Lists
  <2>3. CASE l = n + 1
    BY <1>1, <1>2, <2>1, <2>3
  <2> QED
    BY <2>1, <2>2, <2>3
<1> QED
  BY <1>1, <1>3, <1>4 DEF Lists, t

-----------------------------------------------------------------------------
(* One line more.                                                          *)

LEMMA LineKinds ==
  /\ \A x \in Header : /\ x.section = TRUE /\ x.addr \in Addr \cup {NoAddr}
                       /\ x.kind \in {"proc", "proc_heap", "literals", "end", "", "binary"}
                       /\ x.kind # "binary" => x.addr = NoAddr
  /\ \A x \in Data : x.section = FALSE /\ x.addr \in Addr \cup {NoAddr} /\ x.base64 \in BOOLEAN
BY DEF Header, Data

\* Lines and headers of a dump.
LEMMA Lines ==
  ASSUME TypeOK, NEW n, n = Len(dump)
  PROVE  /\ n \in Nat /\ DOMAIN dump = 1 .. n
         /\ \A i \in 1 .. n : dump[i] \in Header \cup Data
         /\ \A i : i \in Headers <=> i \in 1 .. n /\ dump[i].section
         /\ Headers \subseteq 1 .. n
         /\ \A h \in Headers : dump[h] \in Header
         /\ \A h, i : i \in Under(h) => i \in 1 .. n /\ ~dump[i].section /\ h \in Headers \cup {0} /\ h < i
<1>1. dump \in Seq(Header \cup Data)
  BY DEF TypeOK
<1>2. n \in Nat /\ DOMAIN dump = 1 .. n
  BY <1>1
<1>3. \A i \in 1 .. n : dump[i] \in Header \cup Data
  BY <1>1, ElementOfSeq
<1>4. \A i : i \in Headers <=> i \in 1 .. n /\ dump[i].section
  BY <1>2 DEF Headers
<1>5. \A h \in Headers : dump[h] \in Header
  BY <1>3, <1>4, LineKinds
<1>6. ASSUME NEW h, NEW i \in Under(h)
      PROVE  i \in 1 .. n /\ ~dump[i].section /\ h \in Headers \cup {0} /\ h < i
  <2> DEFINE S == {g \in Headers \cup {0} : g < i}
  <2>1. i \in 1 .. n /\ i \notin Headers /\ h = Max(S)
    BY <1>2 DEF Under
  <2>2. S \subseteq 0 .. n /\ 0 \in S
    BY <1>2, <1>4, <2>1
  <2>3. S # {}
    BY <2>2
  <2> HIDE DEF S
  <2>4. h \in S
    BY <1>2, <2>1, <2>2, <2>3, MaxExists
  <2> QED
    BY <1>4, <2>1, <2>4 DEF S
<1> QED
  BY <1>2, <1>3, <1>4, <1>5, <1>6

\* A line goes under the last header and changes nothing for those before it.
LEMMA Grows ==
  ASSUME TypeOK, NEW line \in Header \cup Data, dump' = Append(dump, line), NEW n, n = Len(dump)
  PROVE  /\ Len(dump') = n + 1 /\ DOMAIN dump' = 1 .. n + 1
         /\ \A i \in 1 .. n : dump'[i] = dump[i]
         /\ dump'[n + 1] = line
         /\ \A i : i \in Headers' <=> i \in Headers \/ (line.section /\ i = n + 1)
         /\ \A h, i : i \in Under(h)' <=> i \in Under(h) \/ (~line.section /\ h = Last /\ i = n + 1)
<1>1. dump \in Seq(Header \cup Data)
  BY DEF TypeOK
<1>2. /\ n \in Nat /\ DOMAIN dump = 1 .. n /\ Len(dump') = n + 1 /\ DOMAIN dump' = 1 .. n + 1
      /\ \A i \in 1 .. n : dump'[i] = dump[i]
      /\ dump'[n + 1] = line
  BY <1>1, AppendProperties
<1>3. \A i \in 1 .. n + 1 : i \in 1 .. n \/ i = n + 1
  BY <1>2
<1>4. n + 1 \in 1 .. n + 1 /\ \A i \in 1 .. n : i \in 1 .. n + 1 /\ i < n + 1
  BY <1>2
<1>5. \A i : i \in Headers' <=> i \in Headers \/ (line.section /\ i = n + 1)
  <2>1. \A i : i \in Headers' <=> i \in 1 .. n + 1 /\ dump'[i].section
    BY <1>2 DEF Headers
  <2>2. \A i : i \in Headers <=> i \in 1 .. n /\ dump[i].section
    BY <1>2 DEF Headers
  <2> QED
    BY <1>2, <1>3, <1>4, <2>1, <2>2
<1>6. \A i \in Headers : i \in 1 .. n
  BY <1>2 DEF Headers
<1>7. ASSUME NEW i \in 1 .. n
      PROVE  {g \in Headers' \cup {0} : g < i} = {g \in Headers \cup {0} : g < i}
  <2>1. ~(n + 1 < i)
    BY <1>2
  <2> QED
    BY <1>5, <2>1
<1>8. ~line.section => {g \in Headers' \cup {0} : g < n + 1} = Headers \cup {0}
  <2>1. 0 < n + 1 /\ \A g \in Headers : g < n + 1
    BY <1>2, <1>4, <1>6
  <2> QED
    BY <1>5, <2>1
<1>9. ASSUME NEW h, NEW i
      PROVE  i \in Under(h)' <=> i \in Under(h) \/ (~line.section /\ h = Last /\ i = n + 1)
  <2>1. i \in Under(h)' <=> i \in 1 .. n + 1 /\ i \notin Headers' /\ Max({g \in Headers' \cup {0} : g < i}) = h
    BY <1>2 DEF Under
  <2>2. i \in Under(h) <=> i \in 1 .. n /\ i \notin Headers /\ Max({g \in Headers \cup {0} : g < i}) = h
    BY <1>2 DEF Under
  <2>3. CASE i \in 1 .. n
    <3>1. Max({g \in Headers' \cup {0} : g < i}) = Max({g \in Headers \cup {0} : g < i})
      BY <1>7, <2>3
    <3>2. i \in 1 .. n + 1 /\ i # n + 1
      BY <1>2, <2>3
    <3>3. i \in Headers' <=> i \in Headers
      BY <1>5, <3>2
    <3> QED
      BY <2>1, <2>2, <2>3, <3>1, <3>2, <3>3
  <2>4. CASE i = n + 1
    <3>1. i \notin 1 .. n /\ i \in 1 .. n + 1
      BY <1>4, <2>4
    <3>2. i \notin Headers' <=> ~line.section
      BY <1>5, <1>6, <2>4, <3>1
    <3>3. ~line.section => Max({g \in Headers' \cup {0} : g < i}) = Last
      BY <1>8, <2>4 DEF Last
    <3> QED
      BY <2>1, <2>2, <2>4, <3>1, <3>2, <3>3
  <2>5. CASE i \notin 1 .. n + 1
    BY <1>4, <2>1, <2>2, <2>5
  <2> QED
    BY <1>3, <2>3, <2>4, <2>5
<1> QED
  BY <1>2, <1>5, <1>9

\* What the parser remembers after a data line ...
LEMMA ContextData ==
  ASSUME TypeOK, Context, NEW d \in Data, Read(d), pending_binary' = NoAddr,
         UNCHANGED <<result, cur_kind, saw_end, incomplete>>
  PROVE  Context' /\ Headers' = Headers /\ Last' = Last
<1>1. PICK n : n = Len(dump)
  OBVIOUS
<1>2. /\ dump' = Append(dump, d) /\ ~d.section
  BY LineKinds DEF Read
<1>3. /\ n \in Nat /\ Headers \subseteq 1 .. n
  BY <1>1, Lines
<1>4. /\ Len(dump') = n + 1 /\ \A i \in 1 .. n : dump'[i] = dump[i]
      /\ \A i : i \in Headers' <=> i \in Headers \/ (d.section /\ i = n + 1)
  BY <1>1, <1>2, Grows
<1>5. Headers' = Headers
  BY <1>2, <1>4
<1>6. Last' = Last
  BY <1>5 DEF Last
<1>7. PICK l : l = Last
  OBVIOUS
<1>8. l \in Headers \cup {0} /\ \A g \in Headers : g <= l
  BY <1>7 DEF Context
<1>9. l # n + 1 /\ (l # 0 => dump'[l] = dump[l])
  <2>1. l # 0 => l \in 1 .. n
    BY <1>3, <1>8
  <2>2. \A i \in 1 .. n : dump'[i] = dump[i]
    BY <1>4
  <2>3. l # n + 1
    BY <1>3, <2>1
  <2> QED
    BY <2>1, <2>2, <2>3
<1>10. cur_kind' = IF l = 0 THEN "" ELSE dump'[l].kind
  BY <1>7, <1>9 DEF Context
<1>11. saw_end' <=> \E h \in Headers : dump'[h].kind = "end"
  BY <1>3, <1>4 DEF Context
<1>12. result' = "ok" => incomplete' = ~saw_end'
  BY DEF Context
<1> QED
  BY <1>4, <1>5, <1>6, <1>7, <1>8, <1>9, <1>10, <1>11, <1>12 DEF Context

\* ... and after a header.
LEMMA ContextHeader ==
  ASSUME TypeOK, Context, NEW h \in Header, NewSection(h)
  PROVE  Context' /\ Last' = Len(dump) + 1
<1>1. PICK n : n = Len(dump)
  OBVIOUS
<1>2. /\ dump' = Append(dump, h) /\ h.section /\ cur_kind' = h.kind
      /\ saw_end' = (saw_end \/ h.kind = "end") /\ result' = result /\ result = "none"
      /\ pending_binary' = h.addr
  BY LineKinds DEF NewSection, Read, Pending
<1>3. /\ n \in Nat /\ Headers \subseteq 1 .. n
  BY <1>1, Lines
<1>4. /\ Len(dump') = n + 1 /\ \A i \in 1 .. n : dump'[i] = dump[i]
      /\ dump'[n + 1] = h
      /\ \A i : i \in Headers' <=> i \in Headers \/ i = n + 1
  BY <1>1, <1>2, Grows
<1>5. n + 1 \in Headers' /\ \A g \in Headers' : g \in Int /\ g <= n + 1
  <2>1. \A g \in 1 .. n : g \in Int /\ g <= n + 1
    BY <1>3
  <2>2. n + 1 \in Int /\ n + 1 <= n + 1
    BY <1>3
  <2> QED
    BY <1>3, <1>4, <2>1, <2>2
<1>6. Last' = n + 1
  <2>1. Headers' \cup {0} \subseteq Int /\ n + 1 \in Headers' \cup {0}
        /\ \A y \in Headers' \cup {0} : y <= n + 1
    <3>1. 0 \in Int /\ 0 <= n + 1
      BY <1>3
    <3> QED
      BY <1>5, <3>1
  <2> QED
    BY <2>1, MaxIs DEF Last
<1>7. saw_end' <=> \E g \in Headers' : dump'[g].kind = "end"
  <2>1. (\E g \in Headers' : dump'[g].kind = "end") <=>
          (\E g \in Headers : dump[g].kind = "end") \/ h.kind = "end"
    BY <1>3, <1>4
  <2> QED
    BY <1>2, <2>1 DEF Context
<1>8. n + 1 # 0 /\ cur_kind' = dump'[n + 1].kind /\ pending_binary' = dump'[n + 1].addr
  BY <1>2, <1>3, <1>4
<1> QED
  BY <1>1, <1>2, <1>4, <1>5, <1>6, <1>7, <1>8 DEF Context

\* The sections with a line, after a data line and after a header.
LEMMA WholeData ==
  ASSUME TypeOK, Context, NEW d \in Data, dump' = Append(dump, d), Headers' = Headers
  PROVE  Whole' = IF cur_kind = "proc" THEN Whole \cup {Last} ELSE Whole
<1>1. PICK n : n = Len(dump)
  OBVIOUS
<1>2. /\ Headers \subseteq 1 .. n /\ \A i \in 1 .. n : dump'[i] = dump[i]
      /\ \A h, i : i \in Under(h)' <=> i \in Under(h) \/ (h = Last /\ i = n + 1)
  <2>1. Headers \subseteq 1 .. n
    BY <1>1, Lines
  <2>2. ~d.section /\ d \in Header \cup Data
    BY LineKinds
  <2>3. \A h, i : i \in Under(h)' <=> i \in Under(h) \/ (~d.section /\ h = Last /\ i = n + 1)
    BY <1>1, <2>2, Grows
  <2>4. \A i \in 1 .. n : dump'[i] = dump[i]
    BY <1>1, <2>2, Grows
  <2>5. ASSUME NEW h, NEW i PROVE i \in Under(h)' <=> i \in Under(h) \/ (h = Last /\ i = n + 1)
    BY <2>2, <2>3
  <2> QED
    BY <2>1, <2>4, <2>5
<1>3. \A h : Under(h)' # {} <=> Under(h) # {} \/ h = Last
  BY <1>2
<1>4. \A h : h \in Whole' <=> h \in Headers /\ dump[h].kind = "proc" /\ (Under(h) # {} \/ h = Last)
  BY <1>2, <1>3 DEF Whole
<1>5. \A h : h \in Whole <=> h \in Headers /\ dump[h].kind = "proc" /\ Under(h) # {}
  BY DEF Whole
<1>6. cur_kind = "proc" <=> Last \in Headers /\ dump[Last].kind = "proc"
  <2>1. PICK l : l = Last
    OBVIOUS
  <2>2. 0 \notin Headers
    BY <1>2
  <2>3. /\ l \in Headers \cup {0} /\ cur_kind = IF l = 0 THEN "" ELSE dump[l].kind
    BY <2>1 DEF Context
  <2> QED
    BY <2>1, <2>2, <2>3
<1> QED
  BY <1>4, <1>5, <1>6

LEMMA WholeHeader ==
  ASSUME TypeOK, NEW g \in Header, dump' = Append(dump, g)
  PROVE  Whole' = Whole /\ \A h : Under(h)' = Under(h)
<1>1. PICK n : n = Len(dump)
  OBVIOUS
<1>2. /\ n \in Nat /\ Headers \subseteq 1 .. n /\ \A i \in 1 .. n : dump'[i] = dump[i]
      /\ \A h, i : i \in Under(h)' <=> i \in Under(h)
      /\ \A i : i \in Headers' <=> i \in Headers \/ i = n + 1
  <2>1. n \in Nat /\ Headers \subseteq 1 .. n
    BY <1>1, Lines
  <2>2. g.section /\ g \in Header \cup Data
    BY LineKinds
  <2>3. \A h, i : i \in Under(h)' <=> i \in Under(h) \/ (~g.section /\ h = Last /\ i = n + 1)
    BY <1>1, <2>2, Grows
  <2>4. /\ \A i \in 1 .. n : dump'[i] = dump[i]
        /\ \A i : i \in Headers' <=> i \in Headers \/ (g.section /\ i = n + 1)
    BY <1>1, <2>2, Grows
  <2> QED
    BY <2>1, <2>2, <2>3, <2>4
<1>3. \A h : Under(h)' = Under(h)
  <2> SUFFICES ASSUME NEW h PROVE \A i : i \in Under(h)' <=> i \in Under(h)
    BY DEF Under
  <2> QED
    BY <1>2
<1>4. n + 1 \notin Headers
  BY <1>2
<1>5. Under(n + 1) = {}
  BY <1>1, <1>2, <1>4, Lines
<1>6. \A h : h \in Whole' <=> h \in Headers /\ dump[h].kind = "proc" /\ Under(h) # {}
  BY <1>2, <1>3, <1>5 DEF Whole
<1> QED
  BY <1>3, <1>6 DEF Whole

-----------------------------------------------------------------------------
(* The text sections.                                                      *)

Section == [at : 1 .. MaxLines, lines : Seq(1 .. MaxLines)]
ats(t) == [k \in DOMAIN t |-> t[k].at]

\* A section with the numbers of its lines goes to the end.
LEMMA SectionAppended ==
  ASSUME NEW t \in Seq(Section), NEW w \in Section, NEW u, u = Append(t, w)
  PROVE  /\ u \in Seq(Section) /\ ats(t) \in Seq(Nat) /\ ats(u) = Append(ats(t), w.at)
         /\ DOMAIN t = 1 .. Len(t) /\ DOMAIN u = 1 .. Len(t) + 1 /\ Len(t) \in Nat
         /\ \A k \in 1 .. Len(t) : u[k] = t[k]
         /\ u[Len(t) + 1] = w
<1>1. /\ u \in Seq(Section) /\ Len(u) = Len(t) + 1 /\ DOMAIN u = 1 .. Len(t) + 1
      /\ \A k \in 1 .. Len(t) : u[k] = t[k]
      /\ u[Len(t) + 1] = w /\ Len(t) \in Nat /\ DOMAIN t = 1 .. Len(t)
  BY AppendProperties
<1>2. \A k \in 1 .. Len(t) : t[k] \in Section
  BY ElementOfSeq
<1>3. \A x \in Section : x.at \in Nat
  BY ParseAssump DEF Section
<1>4. /\ ats(t) \in Seq(Nat) /\ Len(ats(t)) = Len(t)
      /\ \A k \in 1 .. Len(t) : ats(t)[k] = t[k].at
  BY <1>1, <1>2, <1>3, IsASeq DEF ats
<1>5. /\ ats(u) \in Seq(Nat) /\ Len(ats(u)) = Len(t) + 1
      /\ \A k \in 1 .. Len(t) + 1 : ats(u)[k] = u[k].at
  <2>1. \A k \in 1 .. Len(t) + 1 : u[k] \in Section
    BY <1>1, ElementOfSeq
  <2>2. Len(t) + 1 \in Nat
    BY <1>1
  <2> QED
    BY <1>1, <1>3, <2>1, <2>2, IsASeq DEF ats
<1>6. PICK n \in Nat : n = Len(t)
  BY <1>1
<1>7. PICK v : v = Append(ats(t), w.at)
  OBVIOUS
<1>8. /\ v \in Seq(Nat) /\ Len(v) = n + 1 /\ v[n + 1] = w.at
      /\ \A k \in 1 .. n : v[k] = t[k].at
  BY <1>3, <1>4, <1>6, <1>7, AppendProperties
<1>9. \A k \in 1 .. n + 1 : v[k] = ats(u)[k]
  <2> SUFFICES ASSUME NEW k \in 1 .. n + 1 PROVE v[k] = ats(u)[k]
    OBVIOUS
  <2>1. k \in 1 .. n \/ k = n + 1
    OBVIOUS
  <2> QED
    BY <1>1, <1>5, <1>6, <1>8, <2>1
<1>10. ats(u) = v
  BY <1>5, <1>6, <1>8, <1>9, SeqEqual
<1> QED
  BY <1>1, <1>4, <1>7, <1>10

\* With the section being streamed, the store has every section that has a line.
LEMMA StoredLists ==
  ASSUME TypeOK, Context, Streaming, Finished
  PROVE  /\ SectionsFaithful /\ Stored \in Seq(Section)
         /\ 0 \notin Whole
         /\ FinishSection => text' = Stored
<1>1. PICK n : n = Len(dump)
  OBVIOUS
<1>2. /\ n \in Nat /\ Headers \subseteq 1 .. n /\ 0 \notin Whole
      /\ \A h, i : i \in Under(h) => i \in 1 .. n
  BY <1>1, Lines DEF Whole
<1>3. text \in Seq(Section) /\ section_writer \in [at : 0 .. MaxLines, lines : Seq(1 .. MaxLines)]
  BY DEF TypeOK, Section
<1>4. PICK at, lines : at = section_writer.at /\ lines = section_writer.lines
  OBVIOUS
<1>5. /\ at \in 0 .. MaxLines /\ lines \in Seq(1 .. MaxLines)
      /\ section_writer = [at |-> at, lines |-> lines]
  BY <1>3, <1>4
<1>6. /\ at = 0 => lines = <<>>
      /\ at # 0 => Lists(lines, Under(at)) /\ at = Last /\ cur_kind = "proc"
  BY <1>4 DEF Streaming
<1>7. section_writer = NoSection <=> at = 0
  BY <1>5, <1>6 DEF NoSection
<1>8. FinishSection => text' = Stored
  BY <1>4, <1>6, <1>7 DEF FinishSection, Stored
<1>9. /\ Lists(ats(text), Whole \ {at})
      /\ \A k \in DOMAIN text : Lists(text[k].lines, Under(text[k].at))
  BY <1>4 DEF Finished, ats
<1>10. CASE lines = <<>>
  <2>1. at \notin Whole
    <3>1. at # 0 => Under(at) = {}
      BY <1>6, <1>10 DEF Lists, Range
    <3> QED
      BY <1>2, <3>1 DEF Whole
  <2>2. Whole \ {at} = Whole /\ Stored = text
    BY <1>4, <1>10, <2>1 DEF Stored
  <2> QED
    BY <1>2, <1>3, <1>8, <1>9, <2>2 DEF SectionsFaithful, ats
<1>11. CASE lines # <<>>
  <2>1. at # 0 /\ Lists(lines, Under(at)) /\ at = Last /\ cur_kind = "proc"
    BY <1>6, <1>11
  <2>2. section_writer \in Section /\ at \in Nat
    BY <1>5, <2>1, ParseAssump DEF Section
  <2>3. at \in Whole
    <3>1. Under(at) # {}
      <4>1. 1 \in DOMAIN lines
        BY <1>5, <1>11
      <4> QED
        BY <2>1, <4>1 DEF Lists, Range
    <3>2. /\ at \in Headers /\ dump[at].kind = "proc"
      BY <2>1 DEF Context
    <3> QED
      BY <3>1, <3>2 DEF Whole
  <2>4. PICK u : u = Stored /\ u = Append(text, section_writer)
    BY <1>4, <1>11 DEF Stored
  <2>5. /\ u \in Seq(Section) /\ ats(text) \in Seq(Nat) /\ ats(u) = Append(ats(text), at)
        /\ DOMAIN text = 1 .. Len(text) /\ DOMAIN u = 1 .. Len(text) + 1 /\ Len(text) \in Nat
        /\ \A k \in 1 .. Len(text) : u[k] = text[k]
        /\ u[Len(text) + 1] = section_writer
    <3>1. /\ text \in Seq(Section) /\ section_writer \in Section /\ u = Append(text, section_writer)
          /\ section_writer.at = at
      BY <1>3, <1>4, <2>2, <2>4
    <3>2. PICK w : w = section_writer /\ w \in Section /\ u = Append(text, w) /\ w.at = at
      BY <3>1
    <3>3. u \in Seq(Section) /\ ats(text) \in Seq(Nat) /\ ats(u) = Append(ats(text), w.at)
      BY <3>1, <3>2, SectionAppended
    <3>4. /\ DOMAIN text = 1 .. Len(text) /\ DOMAIN u = 1 .. Len(text) + 1 /\ Len(text) \in Nat
          /\ \A k \in 1 .. Len(text) : u[k] = text[k]
          /\ u[Len(text) + 1] = w
      BY <3>1, <3>2, SectionAppended
    <3> QED
      BY <3>1, <3>2, <3>3, <3>4
  <2>6. \A h \in Whole \ {at} : h < at
    <3>1. \A g \in Headers : g <= at
      BY <2>1 DEF Context
    <3>2. \A h \in Whole \ {at} : h \in Headers /\ h # at
      BY DEF Whole
    <3>3. \A h \in 1 .. n : h \in Nat
      BY <1>2
    <3>4. \A h \in Nat : h <= at /\ h # at => h < at
      BY <2>2
    <3> QED
      BY <1>2, <3>1, <3>2, <3>3, <3>4
  <2>7. Lists(ats(u), Whole)
    <3>1. (Whole \ {at}) \cup {at} = Whole
      BY <2>3
    <3>2. Lists(Append(ats(text), at), (Whole \ {at}) \cup {at})
      BY <1>9, <2>2, <2>5, <2>6, ListsAppend
    <3> QED
      BY <2>5, <3>1, <3>2
  <2>8. \A k \in DOMAIN u : Lists(u[k].lines, Under(u[k].at))
    <3> SUFFICES ASSUME NEW k \in DOMAIN u PROVE Lists(u[k].lines, Under(u[k].at))
      OBVIOUS
    <3>1. k \in 1 .. Len(text) \/ k = Len(text) + 1
      BY <2>5
    <3> QED
      BY <1>4, <1>9, <2>1, <2>5, <3>1
  <2> QED
    BY <1>2, <1>8, <2>4, <2>5, <2>7, <2>8 DEF SectionsFaithful, ats
<1> QED
  BY <1>10, <1>11

LEMMA TextData ==
  ASSUME TypeOK, Context, Streaming, Finished, NEW d \in Data, DataLine(d), pending_binary' = NoAddr,
         \/ cur_kind # "proc" /\ section_writer' = section_writer
         \/ /\ cur_kind = "proc"
            /\ section_writer' = [section_writer EXCEPT !.lines = Append(@, Len(dump'))]
  PROVE  Streaming' /\ Finished'
<1>1. PICK n : n = Len(dump)
  OBVIOUS
<1>2. PICK at, lines : at = section_writer.at /\ lines = section_writer.lines
  OBVIOUS
<1>3. PICK l : l = Last
  OBVIOUS
<1>4. /\ dump' = Append(dump, d) /\ text' = text /\ cur_kind' = cur_kind /\ result' = result
      /\ result = "none" /\ Headers' = Headers /\ Last' = l
  BY <1>3, ContextData DEF DataLine, Read
<1>5. Whole' = IF cur_kind = "proc" THEN Whole \cup {l} ELSE Whole
  BY <1>3, <1>4, WholeData
<1>6. /\ n \in Nat /\ Headers \subseteq 1 .. n /\ \A h, i : i \in Under(h) => i \in 1 .. n
  BY <1>1, Lines
<1>7. /\ Len(dump') = n + 1
      /\ \A h, i : i \in Under(h)' <=> i \in Under(h) \/ (h = l /\ i = n + 1)
  <2>1. ~d.section /\ d \in Header \cup Data
    BY LineKinds
  <2>2. \A h, i : i \in Under(h)' <=> i \in Under(h) \/ (~d.section /\ h = Last /\ i = n + 1)
    BY <1>1, <1>4, <2>1, Grows
  <2>3. Len(dump') = n + 1
    BY <1>1, <1>4, <2>1, Grows
  <2>4. ASSUME NEW h, NEW i PROVE i \in Under(h)' <=> i \in Under(h) \/ (h = l /\ i = n + 1)
    BY <1>3, <2>1, <2>2
  <2> QED
    BY <2>3, <2>4
<1>8. /\ section_writer \in [at : 0 .. MaxLines, lines : Seq(1 .. MaxLines)]
      /\ at \in 0 .. MaxLines /\ lines \in Seq(1 .. MaxLines) /\ lines \in Seq(Nat)
      /\ section_writer = [at |-> at, lines |-> lines]
  <2>1. section_writer \in [at : 0 .. MaxLines, lines : Seq(1 .. MaxLines)]
    BY DEF TypeOK
  <2>2. lines \in Seq(1 .. MaxLines)
    BY <1>2, <2>1
  <2>3. lines \in Seq(Nat)
    <3>1. \A k \in 1 .. Len(lines) : lines[k] \in 1 .. MaxLines
      BY <2>2, ElementOfSeq
    <3> QED
      BY <2>2, <3>1
  <2> QED
    BY <1>2, <2>1, <2>2, <2>3
<1>9. /\ at = IF cur_kind = "proc" THEN l ELSE 0
      /\ at = 0 => lines = <<>>
      /\ at # 0 => Lists(lines, Under(at))
  BY <1>2, <1>3, <1>4 DEF Streaming
<1>10. cur_kind = "proc" <=> l \in Headers /\ dump[l].kind = "proc"
  <2>1. l \in Headers \cup {0} /\ 0 \notin Headers
    <3>1. l \in Headers \cup {0}
      BY <1>3 DEF Context
    <3>2. 0 \notin Headers
      BY <1>6
    <3> QED
      BY <3>1, <3>2
  <2>2. cur_kind = IF l = 0 THEN "" ELSE dump[l].kind
    BY <1>3 DEF Context
  <2> QED
    BY <2>1, <2>2
<1>11. PICK w : w = section_writer' /\ w.at = at
                /\ w.lines = IF cur_kind = "proc" THEN Append(lines, n + 1) ELSE lines
  <2>1. CASE cur_kind # "proc"
    BY <1>2, <2>1
  <2>2. CASE cur_kind = "proc"
    <3>1. section_writer' = [section_writer EXCEPT !.lines = Append(lines, n + 1)]
      BY <1>2, <1>7, <2>2
    <3> QED
      BY <1>8, <2>2, <3>1
  <2> QED
    BY <2>1, <2>2
<1>12. at # 0 => Lists(w.lines, Under(at)')
  <2> SUFFICES ASSUME at # 0 PROVE Lists(w.lines, Under(at)')
    OBVIOUS
  <2>1. cur_kind = "proc" /\ at = l /\ Lists(lines, Under(at)) /\ w.lines = Append(lines, n + 1)
    BY <1>9, <1>11
  <2>2. \A y \in Under(at) : y < n + 1
    <3>1. \A y \in 1 .. n : y < n + 1
      BY <1>6
    <3> QED
      BY <1>6, <3>1
  <2>3. Under(at)' = Under(at) \cup {n + 1}
    <3>1. \A i : i \in Under(at)' <=> i \in Under(at) \cup {n + 1}
      BY <1>7, <2>1
    <3> QED
      BY <3>1 DEF Under
  <2>4. n + 1 \in Nat
    BY <1>6
  <2>5. Lists(Append(lines, n + 1), Under(at) \cup {n + 1})
    BY <1>8, <2>1, <2>2, <2>4, ListsAppend
  <2> QED
    BY <2>1, <2>3, <2>5
<1>13. Streaming'
  <2>1. section_writer'.at = at /\ section_writer'.lines = w.lines
    BY <1>11
  <2>2. at = 0 => w.lines = <<>>
    <3>1. cur_kind = "proc" => at # 0
      BY <1>6, <1>9, <1>10
    <3> QED
      BY <1>9, <1>11, <3>1
  <2>3. at = IF cur_kind' = "proc" /\ result' # "ok" THEN Last' ELSE 0
    BY <1>4, <1>9
  <2> QED
    BY <1>12, <2>1, <2>2, <2>3 DEF Streaming, Lists
<1>14. l \notin Whole \ {at}
  BY <1>9, <1>10 DEF Whole
<1>15. Whole' \ {at} = Whole \ {at}
  BY <1>5, <1>9
<1>16. Finished'
  <2>1. Lists(ats(text), Whole \ {at}) /\ \A k \in DOMAIN text : Lists(text[k].lines, Under(text[k].at))
    BY <1>2 DEF Finished, ats
  <2>2. ASSUME NEW k \in DOMAIN text PROVE Lists(text[k].lines, Under(text[k].at)')
    <3>1. text[k].at \in Whole \ {at}
      BY <2>1 DEF Lists, Range, ats
    <3>2. text[k].at # l
      BY <1>14, <3>1
    <3>3. Under(text[k].at)' = Under(text[k].at)
      <4>1. PICK a : a = text[k].at /\ a = text'[k].at /\ a # l
        BY <1>4, <3>2
      <4>2. \A i : i \in Under(a)' <=> i \in Under(a)
        BY <1>7, <4>1
      <4>3. Under(a)' = Under(a)
        BY <4>2 DEF Under
      <4> QED
        BY <4>1, <4>3 DEF Under
    <3> QED
      BY <2>1, <3>3
  <2>3. section_writer'.at = at
    BY <1>11
  <2>4. Lists(ats(text'), Whole' \ {section_writer'.at})
    BY <1>4, <1>15, <2>1, <2>3
  <2> QED
    BY <1>4, <2>2, <2>4 DEF Finished, ats, Lists
<1> QED
  BY <1>13, <1>16

LEMMA TextHeader ==
  ASSUME TypeOK, Context, Streaming, Finished, NEW h \in Header, NewSection(h)
  PROVE  Streaming' /\ Finished'
<1>1. PICK n : n = Len(dump)
  OBVIOUS
<1>2. /\ dump' = Append(dump, h) /\ FinishSection /\ cur_kind' = h.kind /\ result' = "none"
      /\ section_writer' = WriterFor(h) /\ h.section
  BY LineKinds DEF NewSection, Read
<1>3. Last' = n + 1 /\ n \in Nat /\ Len(dump') = n + 1
  <2>1. Len(dump') = n + 1
    BY <1>1, <1>2, Grows
  <2> QED
    BY <1>1, <2>1, ContextHeader, Lines
<1>4. Whole' = Whole /\ \A g : Under(g)' = Under(g)
  BY <1>2, WholeHeader
<1>5. n + 1 \notin Whole /\ 0 \notin Whole /\ Under(n + 1) = {}
  <2>1. \A g \in Headers : g \in 1 .. n
    BY <1>1, Lines
  <2>2. n + 1 \notin 1 .. n /\ 0 \notin 1 .. n /\ n + 1 # 0
    BY <1>3
  <2>3. \A i : i \in Under(n + 1) => n + 1 \in Headers \cup {0}
    BY <1>1, Lines
  <2> QED
    BY <2>1, <2>2, <2>3 DEF Whole
<1>6. /\ section_writer'.at = IF h.kind = "proc" THEN n + 1 ELSE 0
      /\ section_writer'.lines = <<>>
  BY <1>2, <1>3, LineKinds DEF WriterFor, is_addr_section, NoSection
<1>7. Lists(<<>>, {})
  BY DEF Lists, Range
<1>8. Streaming'
  <2>1. ASSUME section_writer'.at # 0 PROVE Lists(section_writer.lines, Under(section_writer.at))'
    <3>1. PICK a : a = section_writer'.at /\ Under(a)' = {}
      BY <1>4, <1>5, <1>6, <2>1
    <3>2. Lists(section_writer'.lines, Under(a)')
      BY <1>6, <1>7, <3>1
    <3> QED
      BY <3>1, <3>2 DEF Lists
  <2>2. section_writer'.at = IF cur_kind' = "proc" /\ result' # "ok" THEN Last' ELSE 0
    BY <1>2, <1>3, <1>6
  <2> QED
    BY <1>6, <2>1, <2>2 DEF Streaming, Lists
<1>9. Finished'
  <2>1. SectionsFaithful /\ text' = Stored
    BY <1>2, StoredLists
  <2>2. Lists(ats(text'), Whole) /\ \A k \in DOMAIN text' : Lists(text'[k].lines, Under(text'[k].at))
    BY <2>1 DEF SectionsFaithful, ats
  <2>3. Whole' \ {section_writer'.at} = Whole
    BY <1>4, <1>5, <1>6
  <2>4. ASSUME NEW k \in DOMAIN text' PROVE Lists(text[k].lines, Under(text[k].at))'
    <3>1. PICK a : a = text'[k].at /\ Under(a)' = Under(a) /\ Lists(text'[k].lines, Under(a))
      BY <1>4, <2>2
    <3>2. Lists(text'[k].lines, Under(a)')
      BY <3>1
    <3> QED
      BY <3>1, <3>2 DEF Lists
  <2> QED
    BY <2>2, <2>3, <2>4 DEF Finished, ats, Lists
<1> QED
  BY <1>8, <1>9

LEMMA TextEof ==
  ASSUME TypeOK, Context, Streaming, Finished, Eof
  PROVE  Streaming' /\ Finished'
<1>1. /\ FinishSection /\ section_writer' = NoSection /\ result' = "ok" /\ dump' = dump
  BY DEF Eof
<1>2. /\ SectionsFaithful /\ text' = Stored /\ 0 \notin Whole
  BY <1>1, StoredLists
<1>3. section_writer'.at = 0 /\ section_writer'.lines = <<>>
  BY <1>1 DEF NoSection
<1>4. Headers' = Headers /\ Whole' = Whole /\ \A h : Under(h)' = Under(h)
  BY <1>1 DEF Headers, Whole, Under
<1>5. Streaming'
  BY <1>1, <1>3 DEF Streaming
<1>6. Finished'
  <2>1. Lists(ats(text'), Whole) /\ \A k \in DOMAIN text' : Lists(text'[k].lines, Under(text'[k].at))
    BY <1>2 DEF SectionsFaithful, ats
  <2>2. Whole' \ {section_writer'.at} = Whole
    BY <1>2, <1>3, <1>4
  <2>3. ASSUME NEW k \in DOMAIN text' PROVE Lists(text[k].lines, Under(text[k].at))'
    <3>1. PICK a : a = text'[k].at /\ Under(a)' = Under(a) /\ Lists(text'[k].lines, Under(a))
      BY <1>4, <2>1
    <3>2. Lists(text'[k].lines, Under(a)')
      BY <3>1
    <3> QED
      BY <3>1, <3>2 DEF Lists
  <2> QED
    BY <2>1, <2>2, <2>3 DEF Finished, ats, Lists
<1> QED
  BY <1>5, <1>6

-----------------------------------------------------------------------------
(* The records and the statistics.                                         *)

LEMMA RecordsAre ==
  RecordsFaithful <=>
    \A r : r \in records <=> \/ \E i \in EntryLines : r = [addr |-> dump[i].addr, id |-> i]
                            \/ \E h \in StoredBinaries : r = [addr |-> dump[h].addr, id |-> h + 1]
BY DEF RecordsFaithful

\* A data line is an entry, or the bytes of the binary whose header is the line
\* before, or no record.
LEMMA RecordsData ==
  ASSUME TypeOK, Context, RecordsFaithful, NEW d \in Data, Read(d), Headers' = Headers,
         NEW n, n = Len(dump),
         \/ /\ pending_binary # NoAddr /\ d.base64
            /\ records' = records \cup {[addr |-> pending_binary, id |-> n + 1]}
         \/ /\ pending_binary # NoAddr /\ ~d.base64 /\ records' = records
         \/ /\ pending_binary = NoAddr /\ cur_kind \in {"proc_heap", "literals"} /\ d.addr # NoAddr
            /\ records' = records \cup {[addr |-> d.addr, id |-> n + 1]}
         \/ /\ pending_binary = NoAddr /\ records' = records
            /\ (cur_kind \notin {"proc_heap", "literals"} \/ d.addr = NoAddr)
  PROVE  RecordsFaithful'
<1>1. PICK l : l = Last
  OBVIOUS
<1>2. dump' = Append(dump, d)
  BY DEF Read
<1>3. /\ n \in Nat /\ Headers \subseteq 1 .. n /\ DOMAIN dump = 1 .. n
      /\ \A h, i : i \in Under(h) => i \in 1 .. n
      /\ \A h \in Headers : dump[h] \in Header
  BY Lines
<1>4. ~d.section /\ d \in Header \cup Data
  BY LineKinds
<1>5. /\ DOMAIN dump' = 1 .. n + 1 /\ dump'[n + 1] = d /\ \A i \in 1 .. n : dump'[i] = dump[i]
  BY <1>2, <1>4, Grows
<1>6. ASSUME NEW h, NEW i PROVE i \in Under(h)' <=> i \in Under(h) \/ (h = l /\ i = n + 1)
  <2>1. i \in Under(h)' <=> i \in Under(h) \/ (~d.section /\ h = Last /\ i = n + 1)
    BY <1>2, <1>4, Grows
  <2> QED
    BY <1>1, <1>4, <2>1
<1>7. /\ l \in Headers \cup {0} /\ 0 \notin Headers
      /\ cur_kind = IF l = 0 THEN "" ELSE dump[l].kind
      /\ pending_binary = IF l # 0 /\ l = n THEN dump[l].addr ELSE NoAddr
  <2>1. 0 \notin Headers
    BY <1>3
  <2> QED
    BY <1>1, <2>1 DEF Context
<1>8. \A h \in Headers : h \in 1 .. n /\ dump'[h] = dump[h] /\ (dump[h].kind # "binary" => dump[h].addr = NoAddr)
  BY <1>3, <1>5, LineKinds
\* The entries after the line ...
<1>9. ASSUME NEW i
      PROVE  i \in EntryLines' <=> i \in EntryLines \/
               (i = n + 1 /\ d.addr # NoAddr /\ cur_kind \in {"proc_heap", "literals"})
  <2> DEFINE U(j) == \E h \in Headers : dump[h].kind \in {"proc_heap", "literals"} /\ j \in Under(h)
             V(j) == \E h \in Headers : dump[h].kind \in {"proc_heap", "literals"} /\ j \in Under(h)'
  <2>1. i \in EntryLines' <=> i \in 1 .. n + 1 /\ ~dump'[i].section /\ dump'[i].addr # NoAddr /\ V(i)
    <3>1. (\E h \in Headers' : dump'[h].kind \in {"proc_heap", "literals"} /\ i \in Under(h)') <=> V(i)
      BY <1>8
    <3> QED
      BY <1>5, <3>1 DEF EntryLines
  <2>2. i \in EntryLines <=> i \in 1 .. n /\ ~dump[i].section /\ dump[i].addr # NoAddr /\ U(i)
    BY <1>3 DEF EntryLines
  <2>3. CASE i \in 1 .. n
    <3>1. i \in 1 .. n + 1 /\ i # n + 1 /\ dump'[i] = dump[i]
      BY <1>3, <1>5, <2>3
    <3>2. V(i) <=> U(i)
      BY <1>6, <3>1
    <3> HIDE DEF U, V
    <3> QED
      BY <2>1, <2>2, <2>3, <3>1, <3>2
  <2>4. CASE i = n + 1
    <3>1. i \in 1 .. n + 1 /\ i \notin 1 .. n /\ dump'[i] = d
      BY <1>3, <1>5, <2>4
    <3>2. \A h : i \in Under(h)' <=> h = l
      BY <1>3, <1>6, <2>4, <3>1
    <3>3. V(i) <=> l \in Headers /\ dump[l].kind \in {"proc_heap", "literals"}
      BY <3>2
    <3>4. V(i) <=> cur_kind \in {"proc_heap", "literals"}
      BY <1>7, <3>3
    <3> HIDE DEF U, V
    <3> QED
      BY <1>4, <2>1, <2>2, <2>4, <3>1, <3>4
  <2>5. CASE i \notin 1 .. n + 1
    <3>1. i \notin 1 .. n /\ i # n + 1
      BY <1>3, <2>5
    <3> HIDE DEF U, V
    <3> QED
      BY <2>1, <2>2, <2>5, <3>1
  <2>6. i \in 1 .. n + 1 => i \in 1 .. n \/ i = n + 1
    BY <1>3
  <2> QED
    BY <2>3, <2>4, <2>5, <2>6
\* ... and the binaries.
<1>10. ASSUME NEW h
       PROVE  h \in StoredBinaries' <=> h \in StoredBinaries \/ (h = l /\ pending_binary # NoAddr /\ d.base64)
  <2>1. h \in StoredBinaries' <=> /\ h \in Headers /\ dump[h].kind = "binary" /\ dump[h].addr # NoAddr
                                 /\ h + 1 \in Under(h)' /\ dump'[h + 1].base64
    BY <1>8 DEF StoredBinaries
  <2>2. h \in StoredBinaries <=> /\ h \in Headers /\ dump[h].kind = "binary" /\ dump[h].addr # NoAddr
                                /\ h + 1 \in Under(h) /\ dump[h + 1].base64
    BY DEF StoredBinaries
  <2>3. CASE h \notin Headers
    <3>1. h = l => pending_binary = NoAddr
      BY <1>7, <2>3
    <3> QED
      BY <2>1, <2>2, <2>3, <3>1
  <2>4. CASE h \in Headers /\ ~(h = l /\ h = n)
    <3>1. h \in 1 .. n
      BY <1>8, <2>4
    <3>2. h + 1 \in Under(h)' <=> h + 1 \in Under(h)
      <4>1. h + 1 = n + 1 => h = n
        BY <1>3, <3>1
      <4> QED
        BY <1>6, <2>4, <4>1
    <3>3. h + 1 \in Under(h) => dump'[h + 1] = dump[h + 1]
      BY <1>3, <1>5
    <3>4. h = l => pending_binary = NoAddr
      BY <1>7, <2>4
    <3> QED
      BY <2>1, <2>2, <3>2, <3>3, <3>4
  <2>5. CASE h \in Headers /\ h = l /\ h = n
    <3>1. h \in 1 .. n /\ h + 1 = n + 1 /\ n + 1 \notin 1 .. n /\ h # 0
      BY <1>3, <1>8, <2>5
    <3>2. h + 1 \in Under(h)' /\ h + 1 \notin Under(h) /\ dump'[h + 1] = d
      BY <1>3, <1>5, <1>6, <2>5, <3>1
    <3>3. pending_binary = dump[h].addr
      BY <1>7, <2>5, <3>1
    <3>4. dump[h].addr # NoAddr => dump[h].kind = "binary"
      BY <1>8, <2>5
    <3> QED
      BY <2>1, <2>2, <2>5, <3>2, <3>3, <3>4
  <2> QED
    BY <2>3, <2>4, <2>5
<1>11. /\ pending_binary # NoAddr => /\ l \in Headers /\ l = n /\ pending_binary = dump'[l].addr
                                    /\ cur_kind = "binary"
  BY <1>7, <1>8
<1>12. ASSUME NEW r
       PROVE  r \in records' <=> \/ \E i \in EntryLines' : r = [addr |-> dump'[i].addr, id |-> i]
                               \/ \E h \in StoredBinaries' : r = [addr |-> dump'[h].addr, id |-> h + 1]
  <2> DEFINE E == \E i \in EntryLines : r = [addr |-> dump[i].addr, id |-> i]
             B == \E h \in StoredBinaries : r = [addr |-> dump[h].addr, id |-> h + 1]
  <2>1. r \in records <=> E \/ B
    BY RecordsAre
  <2>2. (\E i \in EntryLines' : r = [addr |-> dump'[i].addr, id |-> i]) <=>
          E \/ (/\ d.addr # NoAddr /\ cur_kind \in {"proc_heap", "literals"}
                /\ r = [addr |-> d.addr, id |-> n + 1])
    <3>1. \A i \in EntryLines : dump'[i] = dump[i]
      BY <1>3, <1>5 DEF EntryLines
    <3> QED
      BY <1>5, <1>9, <3>1
  <2>3. (\E h \in StoredBinaries' : r = [addr |-> dump'[h].addr, id |-> h + 1]) <=>
          B \/ (pending_binary # NoAddr /\ d.base64 /\ r = [addr |-> pending_binary, id |-> n + 1])
    <3>1. \A h \in StoredBinaries : dump'[h] = dump[h]
      BY <1>8 DEF StoredBinaries
    <3> QED
      BY <1>10, <1>11, <3>1
  <2> HIDE DEF E, B
  <2> QED
    BY <1>11, <2>1, <2>2, <2>3
<1> QED
  BY <1>12 DEF RecordsFaithful

LEMMA RecordsHeader ==
  ASSUME TypeOK, RecordsFaithful, NEW g \in Header, dump' = Append(dump, g), records' = records
  PROVE  RecordsFaithful'
<1>1. PICK n : n = Len(dump)
  OBVIOUS
<1>2. /\ n \in Nat /\ Headers \subseteq 1 .. n /\ DOMAIN dump = 1 .. n
      /\ \A h, i : i \in Under(h) => i \in 1 .. n /\ h \in Headers \cup {0}
  BY <1>1, Lines
<1>3. g.section /\ g \in Header \cup Data
  BY LineKinds
<1>4. /\ DOMAIN dump' = 1 .. n + 1 /\ dump'[n + 1] = g
      /\ \A i \in 1 .. n : dump'[i] = dump[i]
      /\ \A i : i \in Headers' <=> i \in Headers \/ (g.section /\ i = n + 1)
  BY <1>1, <1>3, Grows
<1>5. \A h : Under(h)' = Under(h)
  BY WholeHeader
<1>6. n + 1 \notin 1 .. n /\ n + 1 # 0 /\ \A i \in 1 .. n + 1 : i \in 1 .. n \/ i = n + 1
  BY <1>2
<1>7. \A i : i \notin Under(n + 1)
  BY <1>2, <1>6
<1>8. ASSUME NEW i PROVE i \in EntryLines' <=> i \in EntryLines
  <2> DEFINE U == \E h \in Headers : dump[h].kind \in {"proc_heap", "literals"} /\ i \in Under(h)
  <2>1. (\E h \in Headers' : dump'[h].kind \in {"proc_heap", "literals"} /\ i \in Under(h)') <=> U
    BY <1>2, <1>3, <1>4, <1>5, <1>7
  <2>2. i \in EntryLines' <=> i \in 1 .. n + 1 /\ ~dump'[i].section /\ dump'[i].addr # NoAddr /\ U
    BY <1>4, <2>1 DEF EntryLines
  <2>3. i \in EntryLines <=> i \in 1 .. n /\ ~dump[i].section /\ dump[i].addr # NoAddr /\ U
    BY <1>2 DEF EntryLines
  <2>4. \A j \in 1 .. n : j \in 1 .. n + 1
    BY <1>2
  <2> HIDE DEF U
  <2> QED
    BY <1>3, <1>4, <1>6, <2>2, <2>3, <2>4
<1>9. ASSUME NEW h PROVE h \in StoredBinaries' <=> h \in StoredBinaries
  <2>1. h + 1 \in Under(h) => dump'[h + 1] = dump[h + 1]
    BY <1>2, <1>4
  <2>2. h \in Headers' /\ h + 1 \in Under(h) => h \in Headers
    BY <1>4, <1>7
  <2>3. h \in Headers => dump'[h] = dump[h] /\ h \in Headers'
    BY <1>2, <1>4
  <2>4. h \in StoredBinaries' <=> /\ h \in Headers' /\ dump'[h].kind = "binary" /\ dump'[h].addr # NoAddr
                                 /\ h + 1 \in Under(h) /\ dump'[h + 1].base64
    BY <1>5 DEF StoredBinaries
  <2> QED
    BY <2>1, <2>2, <2>3, <2>4 DEF StoredBinaries
<1>10. /\ \A i \in EntryLines : dump'[i] = dump[i]
       /\ \A h \in StoredBinaries : dump'[h] = dump[h]
  BY <1>2, <1>4 DEF EntryLines, StoredBinaries
<1>11. ASSUME NEW r
       PROVE  r \in records' <=> \/ \E i \in EntryLines' : r = [addr |-> dump'[i].addr, id |-> i]
                               \/ \E h \in StoredBinaries' : r = [addr |-> dump'[h].addr, id |-> h + 1]
  <2> DEFINE E == \E i \in EntryLines : r = [addr |-> dump[i].addr, id |-> i]
             B == \E h \in StoredBinaries : r = [addr |-> dump[h].addr, id |-> h + 1]
  <2>1. (\E i \in EntryLines' : r = [addr |-> dump'[i].addr, id |-> i]) <=> E
    BY <1>8, <1>10
  <2>2. (\E h \in StoredBinaries' : r = [addr |-> dump'[h].addr, id |-> h + 1]) <=> B
    BY <1>9, <1>10
  <2>3. r \in records <=> E \/ B
    BY RecordsAre
  <2> HIDE DEF E, B
  <2> QED
    BY <2>1, <2>2, <2>3
<1> QED
  BY <1>11 DEF RecordsFaithful

\* An insertion is counted once, whichever counter it goes to.
LEMMA CountedInsert ==
  ASSUME TypeOK, Counted, Len(dump') = Len(dump) + 1, NEW a \in Addr, NEW c \in {"heap", "binary", "literal"},
         Insert(a, c)
  PROVE  Counted'
<1>1. PICK n \in Nat : n = Len(dump) /\ Len(dump') = n + 1
  BY DEF TypeOK
<1>2. PICK r : r = [addr |-> a, id |-> n + 1]
  OBVIOUS
<1>3. records' = records \cup {r} /\ r.id = n + 1
  BY <1>1, <1>2 DEF Insert, Store!Put
<1>4. IsFiniteSet(records) /\ \A q \in records : q.id \in 1 .. n
  BY <1>1 DEF Counted
<1>5. r \notin records
  <2>1. n + 1 \notin 1 .. n
    OBVIOUS
  <2> QED
    BY <1>3, <1>4, <2>1
<1>6. IsFiniteSet(records') /\ Cardinality(records') = Cardinality(records) + 1
  BY <1>3, <1>4, <1>5, FS_AddElement
<1>7. \A q \in records' : q.id \in 1 .. n + 1
  <2>1. n + 1 \in 1 .. n + 1 /\ \A j \in 1 .. n : j \in 1 .. n + 1
    OBVIOUS
  <2> QED
    BY <1>3, <1>4, <2>1
<1>8. PICK i \in Nat, j \in Nat, k \in Nat, t \in Nat :
        /\ i = heap_entries /\ j = binary_entries /\ k = literal_entries /\ t = total_inserted
        /\ i + j + k = t /\ t <= n /\ t = Cardinality(records)
  BY <1>1 DEF Counted, TypeOK
<1>9. /\ heap_entries' = i + (IF c = "heap" THEN 1 ELSE 0)
      /\ binary_entries' = j + (IF c = "binary" THEN 1 ELSE 0)
      /\ literal_entries' = k + (IF c = "literal" THEN 1 ELSE 0)
      /\ total_inserted' = t + 1
  BY <1>8 DEF Insert
<1>10. /\ heap_entries' \in Nat /\ binary_entries' \in Nat /\ literal_entries' \in Nat
       /\ heap_entries' + binary_entries' + literal_entries' = t + 1
  BY <1>8, <1>9
<1>11. total_inserted' = Cardinality(records') /\ total_inserted' <= Len(dump')
  BY <1>1, <1>6, <1>8, <1>9
<1> QED
  BY <1>1, <1>6, <1>7, <1>9, <1>10, <1>11 DEF Counted

\* A step that stores nothing.
LEMMA CountedKept ==
  ASSUME TypeOK, Counted, UNCHANGED <<stats, records>>, Len(dump') = Len(dump) + 1 \/ dump' = dump
  PROVE  Counted'
<1>1. PICK n \in Nat : n = Len(dump) /\ (Len(dump') = n + 1 \/ Len(dump') = n)
  BY DEF TypeOK
<1>2. PICK m : m = Len(dump') /\ m \in Nat /\ n <= m
  BY <1>1
<1>3. PICK t \in Nat : t = total_inserted /\ t <= n
  BY <1>1 DEF Counted, TypeOK
<1>4. \A j \in 1 .. n : j \in 1 .. m
  BY <1>2
<1>5. \A r \in records : r.id \in 1 .. m
  BY <1>1, <1>4 DEF Counted
<1>6. t <= m
  BY <1>2, <1>3
<1> QED
  BY <1>1, <1>2, <1>3, <1>5, <1>6 DEF Counted, stats

-----------------------------------------------------------------------------
(* The steps.                                                              *)

\* A progress message has a number of insertions that is not 0.
LEMMA Reported ==
  ASSUME TypeOK, total_inserted' \in 0 .. MaxLines, Progress \/ reports' = reports
  PROVE  reports' \in Seq(1 .. MaxLines)
<1>1. PICK t : t = total_inserted'
  OBVIOUS
<1>2. MaxLines \in Nat /\ reports \in Seq(1 .. MaxLines)
  BY ParseAssump DEF TypeOK
<1>3. (reports' = Append(reports, t) /\ t > 0) \/ reports' = reports
  BY <1>1 DEF Progress
<1>4. t > 0 => t \in 1 .. MaxLines
  BY <1>1, <1>2
<1> QED
  BY <1>2, <1>3, <1>4

\* What every data line does: a record or none, and its line streamed or not.
LEMMA DataStep ==
  ASSUME IInv, NEW d \in Data, DataLine(d), pending_binary' = NoAddr,
         Progress \/ reports' = reports,
         \/ cur_kind # "proc" /\ section_writer' = section_writer
         \/ /\ cur_kind = "proc"
            /\ section_writer' = [section_writer EXCEPT !.lines = Append(@, Len(dump'))],
         \/ pending_binary # NoAddr /\ d.base64 /\ Insert(pending_binary, "binary")
         \/ pending_binary # NoAddr /\ ~d.base64 /\ UNCHANGED <<stats, storeVars>>
         \/ /\ pending_binary = NoAddr /\ cur_kind \in {"proc_heap", "literals"} /\ d.addr # NoAddr
            /\ Insert(d.addr, IF cur_kind = "proc_heap" THEN "heap" ELSE "literal")
         \/ /\ pending_binary = NoAddr /\ UNCHANGED <<stats, storeVars>>
            /\ (cur_kind \notin {"proc_heap", "literals"} \/ d.addr = NoAddr)
  PROVE  IInv'
<1>1. PICK n : n = Len(dump)
  OBVIOUS
<1>2. /\ TypeOK /\ Context /\ Streaming /\ Finished /\ RecordsFaithful /\ Counted
      /\ Read(d) /\ UNCHANGED <<result, cur_kind, saw_end, incomplete, text>>
      /\ dump' = Append(dump, d) /\ ~d.section /\ d \in Header \cup Data
  BY LineKinds DEF IInv, DataLine, Read
<1>3. n \in Nat /\ n < MaxLines /\ Len(dump') = n + 1 /\ MaxLines \in Nat
  BY <1>1, <1>2, Lines, Grows, ParseAssump DEF Read
<1>4. Context' /\ Headers' = Headers
  BY <1>2, ContextData
<1>5. Streaming' /\ Finished'
  BY <1>2, TextData
<1>6. RecordsFaithful'
  <2>1. \/ /\ pending_binary # NoAddr /\ d.base64
           /\ records' = records \cup {[addr |-> pending_binary, id |-> n + 1]}
        \/ /\ pending_binary # NoAddr /\ ~d.base64 /\ records' = records
        \/ /\ pending_binary = NoAddr /\ cur_kind \in {"proc_heap", "literals"} /\ d.addr # NoAddr
           /\ records' = records \cup {[addr |-> d.addr, id |-> n + 1]}
        \/ /\ pending_binary = NoAddr /\ records' = records
           /\ (cur_kind \notin {"proc_heap", "literals"} \/ d.addr = NoAddr)
    BY <1>3 DEF Insert, Store!Put, storeVars
  <2> QED
    BY <1>1, <1>2, <1>4, <2>1, RecordsData
<1>7. Counted'
  <2>1. pending_binary \in Addr \cup {NoAddr} /\ d.addr \in Addr \cup {NoAddr}
    BY <1>2, LineKinds DEF TypeOK
  <2>2. CASE pending_binary # NoAddr /\ Insert(pending_binary, "binary")
    BY <1>1, <1>2, <1>3, <2>1, <2>2, CountedInsert
  <2>3. CASE /\ d.addr # NoAddr /\ Insert(d.addr, IF cur_kind = "proc_heap" THEN "heap" ELSE "literal")
    <3>1. CASE cur_kind = "proc_heap"
      BY <1>1, <1>2, <1>3, <2>1, <2>3, <3>1, CountedInsert
    <3>2. CASE cur_kind # "proc_heap"
      BY <1>1, <1>2, <1>3, <2>1, <2>3, <3>2, CountedInsert
    <3> QED
      BY <3>1, <3>2
  <2>4. CASE UNCHANGED <<stats, storeVars>>
    BY <1>1, <1>2, <1>3, <2>4, CountedKept DEF storeVars
  <2> QED
    BY <2>2, <2>3, <2>4
<1>8. TypeOK'
  <2>1. dump' \in Seq(Header \cup Data) /\ Len(dump') <= MaxLines
    BY <1>1, <1>2, <1>3 DEF TypeOK
  <2>2. PICK at, lines : at = section_writer.at /\ lines = section_writer.lines
    OBVIOUS
  <2>3. /\ at \in 0 .. MaxLines /\ lines \in Seq(1 .. MaxLines)
        /\ section_writer = [at |-> at, lines |-> lines]
    BY <1>2, <2>2 DEF TypeOK
  <2>4. n + 1 \in 1 .. MaxLines
    BY <1>3
  <2>5. section_writer' \in [at : 0 .. MaxLines, lines : Seq(1 .. MaxLines)]
    <3>1. section_writer' = section_writer \/ section_writer' = [at |-> at, lines |-> Append(lines, n + 1)]
      BY <1>3, <2>3
    <3>2. Append(lines, n + 1) \in Seq(1 .. MaxLines)
      BY <2>3, <2>4
    <3>3. [at |-> at, lines |-> Append(lines, n + 1)] \in [at : 0 .. MaxLines, lines : Seq(1 .. MaxLines)]
      BY <2>3, <3>2
    <3>4. [at |-> at, lines |-> lines] \in [at : 0 .. MaxLines, lines : Seq(1 .. MaxLines)]
      BY <2>3
    <3> QED
      BY <2>3, <3>1, <3>3, <3>4
  <2>6. section_writer' # NoSection => cur_kind' = "proc"
    BY <1>2 DEF TypeOK
  <2>7. total_inserted' \in 0 .. MaxLines
    <3>1. PICK t : t = total_inserted'
      OBVIOUS
    <3>2. t <= n + 1 /\ (t = total_inserted \/ t = total_inserted + 1)
      BY <1>3, <1>7, <3>1 DEF Counted, Insert, stats
    <3>3. t \in Nat
      BY <1>2, <1>3, <3>2 DEF TypeOK
    <3> QED
      BY <1>3, <3>1, <3>2, <3>3
  <2>8. reports' \in Seq(1 .. MaxLines)
    BY <1>2, <2>7, Reported
  <2> QED
    BY <1>2, <2>1, <2>5, <2>6, <2>7, <2>8 DEF TypeOK
<1> QED
  BY <1>4, <1>5, <1>6, <1>7, <1>8 DEF IInv

\* A binary's address is only pending right after its header.
LEMMA PendingKind ==
  ASSUME TypeOK, Context, pending_binary # NoAddr
  PROVE  cur_kind = "binary"
<1>1. PICK l : l = Last
  OBVIOUS
<1>2. l \in Headers /\ pending_binary = dump[l].addr /\ cur_kind = dump[l].kind
  BY <1>1 DEF Context
<1>3. dump[l] \in Header
  BY <1>2, Lines
<1> QED
  BY <1>2, <1>3, LineKinds

LEMMA KeepsNewSection ==
  ASSUME IInv, NEW h \in Header, NewSection(h)
  PROVE  IInv'
<1>1. PICK n : n = Len(dump)
  OBVIOUS
<1>2. /\ TypeOK /\ Context /\ Streaming /\ Finished /\ RecordsFaithful /\ Counted
      /\ dump' = Append(dump, h) /\ n < MaxLines /\ UNCHANGED <<stats, storeVars>>
      /\ result' = result /\ incomplete' = incomplete /\ reports' = reports
      /\ FinishSection /\ h \in Header \cup Data
  BY <1>1 DEF IInv, NewSection, Read
<1>3. n \in Nat /\ Len(dump') = n + 1 /\ MaxLines \in Nat
  BY <1>1, <1>2, Lines, Grows, ParseAssump
<1>4. Context'
  BY <1>2, ContextHeader
<1>5. Streaming' /\ Finished'
  BY <1>2, TextHeader
<1>6. RecordsFaithful'
  BY <1>2, RecordsHeader DEF storeVars
<1>7. Counted'
  BY <1>1, <1>2, <1>3, CountedKept DEF storeVars
<1>8. TypeOK'
  <2>1. dump' \in Seq(Header \cup Data) /\ Len(dump') <= MaxLines
    BY <1>1, <1>2, <1>3 DEF TypeOK
  <2>2. text' \in Seq([at : 1 .. MaxLines, lines : Seq(1 .. MaxLines)])
    BY <1>2, StoredLists DEF Section
  <2>3. /\ section_writer' \in [at : 0 .. MaxLines, lines : Seq(1 .. MaxLines)]
        /\ section_writer' # NoSection => cur_kind' = "proc"
    <3>1. /\ section_writer' = NoSection \/ section_writer' = [at |-> n + 1, lines |-> <<>>]
          /\ section_writer' # NoSection => h.kind = "proc"
      BY <1>3, LineKinds DEF NewSection, WriterFor, is_addr_section
    <3>2. 0 \in 0 .. MaxLines /\ n + 1 \in 0 .. MaxLines /\ <<>> \in Seq(1 .. MaxLines)
      BY <1>2, <1>3
    <3>3. cur_kind' = h.kind
      BY DEF NewSection
    <3>4. section_writer' = [at |-> 0, lines |-> <<>>] \/ section_writer' = [at |-> n + 1, lines |-> <<>>]
      BY <3>1 DEF NoSection
    <3>5. section_writer' \in [at : 0 .. MaxLines, lines : Seq(1 .. MaxLines)]
      <4>1. [at |-> 0, lines |-> <<>>] \in [at : 0 .. MaxLines, lines : Seq(1 .. MaxLines)]
        BY <3>2
      <4>2. [at |-> n + 1, lines |-> <<>>] \in [at : 0 .. MaxLines, lines : Seq(1 .. MaxLines)]
        BY <3>2
      <4> QED
        BY <3>4, <4>1, <4>2
    <3> QED
      BY <3>1, <3>3, <3>5
  <2>4. /\ cur_kind' \in {g.kind : g \in Header} /\ pending_binary' \in Addr \cup {NoAddr}
        /\ saw_end' \in BOOLEAN
    BY <1>2, LineKinds DEF NewSection, Pending, TypeOK
  <2> QED
    BY <1>2, <2>1, <2>2, <2>3, <2>4 DEF TypeOK, stats
<1> QED
  BY <1>4, <1>5, <1>6, <1>7, <1>8 DEF IInv

LEMMA KeepsBinaryLine ==
  ASSUME IInv, NEW d \in Data, BinaryLine(d)
  PROVE  IInv'
<1>1. cur_kind = "binary"
  BY PendingKind DEF BinaryLine, IInv
<1> QED
  BY <1>1, DataStep DEF BinaryLine

LEMMA KeepsEntryLine ==
  ASSUME IInv, NEW d \in Data, EntryLine(d)
  PROVE  IInv'
<1>1. /\ DataLine(d) /\ pending_binary' = NoAddr /\ pending_binary = NoAddr
      /\ cur_kind \in {"proc_heap", "literals"} /\ cur_kind # "proc" /\ section_writer' = section_writer
      /\ Progress \/ reports' = reports
  BY DEF EntryLine
<1>2. CASE d.addr # NoAddr
  <2>1. Insert(d.addr, IF cur_kind = "proc_heap" THEN "heap" ELSE "literal")
    BY <1>2 DEF EntryLine
  <2> QED
    BY <1>1, <1>2, <2>1, DataStep
<1>3. CASE d.addr = NoAddr
  <2>1. UNCHANGED <<stats, storeVars>>
    BY <1>3 DEF EntryLine
  <2> QED
    BY <1>1, <1>3, <2>1, DataStep
<1> QED
  BY <1>2, <1>3

LEMMA KeepsOtherLine ==
  ASSUME IInv, NEW d \in Data, OtherLine(d)
  PROVE  IInv'
<1>1. /\ DataLine(d) /\ pending_binary' = NoAddr /\ pending_binary = NoAddr
      /\ cur_kind \notin {"proc_heap", "literals"} /\ UNCHANGED <<stats, storeVars>> /\ Progress
  BY DEF OtherLine
<1>2. /\ section_writer' = IF section_writer = NoSection THEN NoSection
                         ELSE [section_writer EXCEPT !.lines = Append(@, Len(dump'))]
  BY DEF OtherLine
<1>3. section_writer = NoSection <=> cur_kind # "proc"
  <2>1. TypeOK /\ Context /\ Streaming /\ result # "ok"
    BY <1>1 DEF IInv, DataLine, Read
  <2>2. section_writer # NoSection => cur_kind = "proc"
    BY <2>1 DEF TypeOK
  <2>3. PICK l : l = Last
    OBVIOUS
  <2>4. cur_kind = "proc" => section_writer.at = l /\ l # 0
    BY <2>1, <2>3 DEF Streaming, Context
  <2>5. NoSection.at = 0
    BY DEF NoSection
  <2> QED
    BY <2>2, <2>4, <2>5
<1>4. \/ cur_kind # "proc" /\ section_writer' = section_writer
      \/ /\ cur_kind = "proc"
         /\ section_writer' = [section_writer EXCEPT !.lines = Append(@, Len(dump'))]
  BY <1>2, <1>3
<1> QED
  BY <1>1, <1>4, DataStep

\* The dump stays as it is, and so does all that is said of its lines.
LEMMA SameDump ==
  ASSUME dump' = dump, records' = records
  PROVE  Headers' = Headers /\ Last' = Last /\ (RecordsFaithful => RecordsFaithful')
<1>1. Headers' = Headers
  BY DEF Headers
<1>2. Last' = Last /\ \A h : Under(h)' = Under(h)
  BY <1>1 DEF Last, Under
<1>3. EntryLines' = EntryLines /\ StoredBinaries' = StoredBinaries
  BY <1>1, <1>2 DEF EntryLines, StoredBinaries
<1> QED
  BY <1>1, <1>2, <1>3 DEF RecordsFaithful

LEMMA KeepsEof ==
  ASSUME IInv, Eof
  PROVE  IInv'
<1>1. /\ TypeOK /\ Context /\ Streaming /\ Finished /\ RecordsFaithful /\ Counted
      /\ UNCHANGED <<dump, cur_kind, pending_binary, stats, saw_end, reports>>
      /\ FinishSection /\ section_writer' = NoSection /\ incomplete' = ~saw_end /\ result' = "ok"
      /\ records' = records
  BY DEF IInv, Eof, Store!Build
<1>2. Headers' = Headers /\ Last' = Last /\ RecordsFaithful'
  BY <1>1, SameDump
<1>3. Context'
  BY <1>1, <1>2 DEF Context
<1>4. Streaming' /\ Finished'
  BY <1>1, TextEof
<1>5. Counted'
  BY <1>1, CountedKept
<1>6. TypeOK'
  <2>1. text' \in Seq([at : 1 .. MaxLines, lines : Seq(1 .. MaxLines)])
    BY <1>1, StoredLists DEF Section
  <2>2. 0 \in 0 .. MaxLines /\ <<>> \in Seq(1 .. MaxLines)
    BY ParseAssump
  <2>3. section_writer' \in [at : 0 .. MaxLines, lines : Seq(1 .. MaxLines)]
    BY <1>1, <2>2 DEF NoSection
  <2> QED
    BY <1>1, <2>1, <2>3 DEF TypeOK, stats
<1> QED
  BY <1>2, <1>3, <1>4, <1>5, <1>6 DEF IInv

LEMMA KeepsError ==
  ASSUME IInv, Error \/ Lose \/ UNCHANGED vars
  PROVE  IInv'
<1>1. /\ TypeOK /\ Context /\ Streaming /\ Finished /\ RecordsFaithful /\ Counted
      /\ UNCHANGED <<dump, cur_kind, pending_binary, textVars, stats, saw_end, incomplete, reports, records>>
      /\ result' = result \/ (result = "none" /\ result' = "err")
  BY DEF IInv, Error, Store!Fail, Lose, Store!Lose, vars, storeVars
<1>2. Headers' = Headers /\ Last' = Last /\ RecordsFaithful'
  BY <1>1, SameDump
<1>3. Context'
  BY <1>1, <1>2 DEF Context
<1>4. (\A h : Under(h)' = Under(h)) /\ Whole' = Whole
  BY <1>1 DEF Headers, Under, Whole
<1>5. Streaming' /\ Finished'
  BY <1>1, <1>2, <1>4 DEF Streaming, Finished, textVars, Lists
<1>6. Counted'
  BY <1>1, CountedKept
<1>7. TypeOK'
  BY <1>1 DEF TypeOK, textVars, stats
<1> QED
  BY <1>2, <1>3, <1>5, <1>6, <1>7 DEF IInv

LEMMA StartsIn ==
  ASSUME Init
  PROVE  IInv
<1>1. Headers = {} /\ Len(dump) = 0
  <2>1. dump = <<>>
    BY DEF Init
  <2>2. Len(dump) = 0 /\ DOMAIN dump = {}
    BY <2>1
  <2> QED
    BY <2>2 DEF Headers
<1>2. Last = 0
  <2>1. \A y \in {0} : y <= 0
    OBVIOUS
  <2> QED
    BY <1>1, <2>1, MaxIs DEF Last
<1>3. Context
  BY <1>1, <1>2 DEF Context, Init
<1>4. Streaming
  BY DEF Streaming, Init, NoSection
<1>5. Finished
  <2>1. text = <<>>
    BY DEF Init
  <2>2. DOMAIN text = {}
    BY <2>1
  <2>3. Whole = {}
    BY <1>1 DEF Whole
  <2>4. DOMAIN [k \in DOMAIN text |-> text[k].at] = {}
    BY <2>2
  <2> QED
    BY <2>2, <2>3, <2>4 DEF Finished, Lists, Range
<1>6. EntryLines = {} /\ StoredBinaries = {}
  BY <1>1 DEF EntryLines, StoredBinaries
<1>7. RecordsFaithful
  BY <1>6 DEF RecordsFaithful, Init, Store!Init
<1>8. Counted
  <2>1. records = {} /\ IsFiniteSet(records) /\ Cardinality(records) = 0
    BY FS_EmptySet DEF Init, Store!Init
  <2>2. total_inserted = 0 /\ heap_entries = 0 /\ binary_entries = 0 /\ literal_entries = 0
    BY DEF Init
  <2> QED
    BY <1>1, <2>1, <2>2 DEF Counted
<1>9. TypeOK
  <2>1. "" \in {h.kind : h \in Header}
    <3>1. [section |-> TRUE, kind |-> "", addr |-> NoAddr] \in Header
      BY DEF Header
    <3>2. [section |-> TRUE, kind |-> "", addr |-> NoAddr].kind = ""
      OBVIOUS
    <3> QED
      BY <3>1, <3>2, Zenon
  <2>2. <<>> \in Seq(Header \cup Data) /\ <<>> \in Seq(1 .. MaxLines)
        /\ <<>> \in Seq([at : 1 .. MaxLines, lines : Seq(1 .. MaxLines)])
    OBVIOUS
  <2>3. 0 \in 0 .. MaxLines /\ 0 <= MaxLines
    BY ParseAssump
  <2>4. section_writer \in [at : 0 .. MaxLines, lines : Seq(1 .. MaxLines)] /\ section_writer = NoSection
    <3>1. [at |-> 0, lines |-> <<>>] \in [at : 0 .. MaxLines, lines : Seq(1 .. MaxLines)]
      BY <2>2, <2>3
    <3>2. section_writer = NoSection
      BY DEF Init
    <3> QED
      BY <3>1, <3>2 DEF NoSection
  <2>5. dump = <<>> /\ text = <<>> /\ reports = <<>> /\ cur_kind = "" /\ total_inserted = 0
        /\ result = "none" /\ pending_binary = NoAddr /\ saw_end = FALSE /\ incomplete = FALSE
    BY DEF Init
  <2> QED
    BY <1>1, <2>1, <2>2, <2>3, <2>4, <2>5 DEF TypeOK
<1> QED
  BY <1>3, <1>4, <1>5, <1>7, <1>8, <1>9 DEF IInv

\* What the parser remembers, streams and stores fits the dump read so far,
\* after any sequence of lines, the end of the input and an error at any point.
THEOREM Invariance == Spec => []IInv
<1>1. Init => IInv
  BY StartsIn
<1>2. IInv /\ [Next]_vars => IInv'
  <2> SUFFICES ASSUME IInv, [Next]_vars PROVE IInv'
    OBVIOUS
  <2>1. ASSUME NEW h \in Header, NewSection(h) PROVE IInv'
    BY <2>1, KeepsNewSection
  <2>2. ASSUME NEW d \in Data, BinaryLine(d) PROVE IInv'
    BY <2>2, KeepsBinaryLine
  <2>3. ASSUME NEW d \in Data, EntryLine(d) PROVE IInv'
    BY <2>3, KeepsEntryLine
  <2>4. ASSUME NEW d \in Data, OtherLine(d) PROVE IInv'
    BY <2>4, KeepsOtherLine
  <2>5. CASE Eof
    BY <2>5, KeepsEof
  <2>6. CASE Error \/ Lose \/ UNCHANGED vars
    BY <2>6, KeepsError
  <2> QED
    BY <2>1, <2>2, <2>3, <2>4, <2>5, <2>6 DEF Next
<1> QED
  BY <1>1, <1>2, PTL DEF Spec

\* Every text section of the dump is kept whole and in order, whatever kinds of
\* section stand between (the streaming of parse_scanner, lib.rs).
THEOREM SectionsKept == Spec => []SectionsFaithful
<1>1. IInv => SectionsFaithful
  BY StoredLists DEF IInv
<1> QED
  BY <1>1, Invariance, PTL

\* The address store gets the entries and the binaries of the dump, each with
\* its own address, and no other line.
THEOREM RecordsKept == Spec => []RecordsFaithful
<1>1. IInv => RecordsFaithful
  BY DEF IInv
<1> QED
  BY <1>1, Invariance, PTL

\* The counters agree with what was stored, and a parse that succeeds says
\* incomplete exactly of a dump without =end.
THEOREM StatisticsRight == Spec => []StatsRight
<1>1. IInv => StatsRight
  BY DEF IInv, Context, Counted, StatsRight
<1> QED
  BY <1>1, Invariance, PTL
=============================================================================
