------------------------------ MODULE EtfDecoder ------------------------------
(***************************************************************************)
(* src/src/termdecoder.rs, etf_term: decoding the external term format,    *)
(* byte by byte.  Every decoder takes the bytes that are left and returns  *)
(* a term and what is left behind it, or fails.                            *)
(*                                                                         *)
(* A term is a tuple whose first element names its constructor; names,     *)
(* floats and binaries are their bytes.                                    *)
(***************************************************************************)
EXTENDS Integers, Sequences, SequencesExt

Bad == <<"err">>
Panic == <<"panic">>
Ok(term, rest) == <<"ok", term, rest>>
IsOk(r) == r[1] = "ok"
AndThen(r, F(_, _)) == IF IsOk(r) THEN F(r[2], r[3]) ELSE r

From(d, n) == SubSeq(d, n + 1, Len(d))                      \* &d[n..]
BigEndian(d) == FoldLeft(LAMBDA n, b : 256 * n + b, 0, d)
Signed(d) == BigEndian(<<IF d[1] < 128 THEN d[1] ELSE d[1] - 256>> \o Tail(d))

\* The first n bytes as a term, if there are so many.
Fixed(d, n, F(_)) == IF Len(d) < n THEN Bad ELSE Ok(F(SubSeq(d, 1, n)), From(d, n))

\* A length of w bytes, `skip' bytes more, and that many bytes of content.
Counted(d, w, skip, F(_)) ==
  IF Len(d) < w + skip THEN Bad
  ELSE Fixed(From(d, w + skip), BigEndian(SubSeq(d, 1, w)), F)

Nil == <<"nil">>
ConsCell(head, tail) == <<"cons", head, tail>>
List(elems, tail) == FoldRight(ConsCell, elems, tail)

RECURSIVE flatten_list(_)
flatten_list(t) ==
  IF t[1] # "cons" THEN [elems |-> <<>>, tail |-> t]
  ELSE LET l == flatten_list(t[3]) IN [l EXCEPT !.elems = <<t[2]>> \o @]

Atom(b) == <<"atom", b>>
Binary(b) == <<"binary", b>>

\* Name of an atom, and "?" for any other term.
AtomName(t) == IF t[1] = "atom" THEN t[2] ELSE <<63>>
FunPart(t, tags) == IF t[1] \in tags THEN t ELSE <<"?">>

\* etf_bignum: digits are little-endian; leading zeroes are stripped.
Bignum(digits, neg) ==
  LET nonzero == {i \in DOMAIN digits : digits[i] # 0}
  IN  <<"bigint", neg, SubSeq(digits, 1, IF nonzero = {} THEN 0 ELSE Max(nonzero))>>

etf_bignum(d, w) ==
  IF Len(d) < w + 1 THEN Bad
  ELSE Counted(d, w, 1, LAMBDA digits : Bignum(digits, d[w + 1] # 0))

etf_fun_term(m, i, u) ==
  <<"fun", AtomName(m), FunPart(i, {"integer"}), FunPart(u, {"integer", "bigint"})>>

RECURSIVE etf_term(_), Terms(_, _)

\* n terms one after the other, as a sequence.
Terms(n, d) ==
  IF n = 0 THEN Ok(<<>>, d)
  ELSE AndThen(etf_term(d), LAMBDA t, r : AndThen(Terms(n - 1, r), LAMBDA ts, r2 : Ok(<<t>> \o ts, r2)))

\* A count of w bytes, then as many groups of k terms.
CountedTerms(d, w, k, F(_)) ==
  IF Len(d) < w THEN Bad
  ELSE AndThen(Terms(k * BigEndian(SubSeq(d, 1, w)), From(d, w)), LAMBDA ts, r : Ok(F(ts), r))

\* Mutant: the elements are consed up in reading order.
MutListExt(d) ==
  IF Len(d) < 4 THEN Bad
  ELSE AndThen(Terms(BigEndian(SubSeq(d, 1, 4)) + 1, From(d, 4)),
               LAMBDA ts, r : Ok(List(Reverse(Front(ts)), Last(ts)), r))

ListExt(d) ==
  IF Len(d) < 4 THEN Bad
  ELSE AndThen(Terms(BigEndian(SubSeq(d, 1, 4)) + 1, From(d, 4)),
               LAMBDA ts, r : Ok(List(Front(ts), Last(ts)), r))

Pairs(ts) == [i \in 1 .. Len(ts) \div 2 |-> <<ts[2 * i - 1], ts[2 * i]>>]

\* Creation of c bytes and ids of four; the node name is read past.
RefIds(d, c, n) ==
  Fixed(d, c + 4 * n, LAMBDA b : <<"ref", BigEndian(SubSeq(b, 1, c)),
          [i \in 1 .. n |-> BigEndian(SubSeq(b, c + 4 * i - 3, c + 4 * i))]>>)

etf_reference(tag, d) ==
  IF tag = 101
    THEN AndThen(etf_term(d), LAMBDA node, r :
           Fixed(r, 5, LAMBDA b : <<"ref", b[5], <<BigEndian(SubSeq(b, 1, 4))>> >>))
  ELSE IF Len(d) < 2 THEN Bad
  ELSE AndThen(etf_term(From(d, 2)), LAMBDA node, r :
         RefIds(r, IF tag = 90 THEN 4 ELSE 1, BigEndian(SubSeq(d, 1, 2))))

\* Node, n fields of four bytes and a creation of c bytes.
Identifier(kind, d, n, c) ==
  AndThen(etf_term(d), LAMBDA node, r :
    Fixed(r, 4 * n + c, LAMBDA b :
      <<kind, AtomName(node), [i \in 1 .. n |-> BigEndian(SubSeq(b, 4 * i - 3, 4 * i))],
        BigEndian(SubSeq(b, 4 * n + 1, 4 * n + c))>>))

etf_pid(tag, d)  == Identifier("pid", d, 2, IF tag = 88 THEN 4 ELSE 1)
etf_port(tag, d) == Identifier("port", d, 1, IF tag = 89 THEN 4 ELSE 1)

\* The environment is not decoded: what is left is taken to begin `size' bytes after
\* the place of the tag, which Size does not count.
NewFun(d) ==
  IF Len(d) < 29 THEN Bad
  ELSE LET size == BigEndian(SubSeq(d, 1, 4))
       IN  IF Len(d) + 1 < size THEN Bad
           ELSE AndThen(Terms(3, From(d, 29)), LAMBDA ts, r :
                  IF size = 0 THEN Panic
                  ELSE Ok(etf_fun_term(ts[1], ts[2], ts[3]), From(d, size - 1)))

\* Pid, module, index, uniq, and the environment, which is read past.
FunExt(d) ==
  IF Len(d) < 4 THEN Bad
  ELSE AndThen(Terms(4 + BigEndian(SubSeq(d, 1, 4)), From(d, 4)), LAMBDA ts, r :
         Ok(etf_fun_term(ts[2], ts[3], ts[4]), r))

Tuple(ts) == <<"tuple", ts>>
MapOf(ts) == <<"map", Pairs(ts)>>
SmallInt(b) == <<"integer", b[1]>>
Int32(b) == <<"integer", Signed(b)>>
Float(b) == <<"float", b>>

etf_term(data) ==
  IF data = <<>> THEN Bad
  ELSE LET tag == data[1]  rest == Tail(data)
       IN  CASE tag = 97          -> Fixed(rest, 1, SmallInt)
             [] tag = 98          -> Fixed(rest, 4, Int32)
             [] tag = 70          -> Fixed(rest, 8, Float)
             [] tag = 99          -> Fixed(rest, 31, Float)
             [] tag \in {100, 118} -> Counted(rest, 2, 0, Atom)
             [] tag \in {115, 119} -> Counted(rest, 1, 0, Atom)
             [] tag = 106         -> Ok(Nil, rest)
             [] tag = 107         -> Counted(rest, 2, 0, Binary)
             [] tag = 109         -> Counted(rest, 4, 0, Binary)
             [] tag = 77          -> Counted(rest, 4, 1, Binary)
             [] tag = 110         -> etf_bignum(rest, 1)
             [] tag = 111         -> etf_bignum(rest, 4)
             [] tag = 104         -> CountedTerms(rest, 1, 1, Tuple)
             [] tag = 105         -> CountedTerms(rest, 4, 1, Tuple)
             [] tag = 108         -> ListExt(rest)
             [] tag = 116         -> CountedTerms(rest, 4, 2, MapOf)
             [] tag \in {90, 114, 101} -> etf_reference(tag, rest)
             [] tag \in {88, 103} -> etf_pid(tag, rest)
             [] tag \in {89, 102} -> etf_port(tag, rest)
             [] tag = 113         -> AndThen(Terms(3, rest), LAMBDA ts, r : Ok(Tuple(ts), r))
             [] tag = 112         -> NewFun(rest)
             [] tag = 117         -> FunExt(rest)
             [] OTHER             -> Bad

=============================================================================
