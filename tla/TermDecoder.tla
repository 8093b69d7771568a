----------------------------- MODULE TermDecoder -----------------------------
(***************************************************************************)
(* src/src/termdecoder.rs: decoding a term from the entries of the address *)
(* store, and the string heuristic of its printer.                         *)
(*                                                                         *)
(* The text of an entry is a sequence of tokens: a tag with the number     *)
(* that belongs to it, a separator or, in binary data, a character of      *)
(* base64.  Entries refer to others by address, so what is decoded is a    *)
(* graph: terms are shared, a cycle is possible in a damaged dump, entries *)
(* may be missing, and the last line of a truncated dump may be cut.       *)
(*                                                                         *)
(* A behaviour writes a heap entry by entry and then decodes one line      *)
(* against it.  The heap is kept as the objects the emulator had, so that  *)
(* what is decoded can be compared with what was there.                    *)
(***************************************************************************)
EXTENDS EtfEncoder, FiniteSets

CONSTANTS Addr,           \* addresses of heap entries
          BinAddr,        \* addresses of =binary data
          MAX_DEPTH,
          U32,            \* 2^32 in the code; a smaller modulus for TLC
          HeapInt,        \* integers in the heap
          LargeInt,       \* those of 2^32 and more
          Shape,          \* Shape[a]: the kinds of object that may be at a
          Foreign         \* terms that are in the dump in external format

ASSUME DecoderAssump ==
  /\ MAX_DEPTH \in Nat \ {0} /\ U32 > 256 /\ \A n \in LargeInt : n >= U32
  /\ Addr \cap BinAddr = {} /\ DOMAIN Shape = Addr

VARIABLES objs,           \* the object at each address, or None
          pending,        \* addresses that are not written yet
          cut,            \* the entry that is cut and its tokens left, or None
          line,           \* the line that was decoded and what it stands for
          result, shown   \* what decoding returned and how it is printed

vars == <<objs, pending, cut, line, result, shown>>

None == <<"none">>
NoLine == [about |-> "none", text |-> <<>>, term |-> None, bytes |-> <<>>]

-----------------------------------------------------------------------------
(* The dump's side: objects, and the text written for them.                *)

Ptr == {<<"ptr", a>> : a \in Addr}
Elem == {Nil} \cup {<<"integer", n>> : n \in HeapInt} \cup Ptr

Sep(c) == <<c>>
\* The data of a binary, behind its tag and its length.
Data(tag, bytes) ==
  LET chars == Base64(bytes)
  IN  << <<tag, Len(bytes)>>, Sep(":")>> \o [i \in DOMAIN chars |-> <<"c", chars[i]>>]

ElemText(e) == CASE e[1] = "nil" -> << <<"N">> >>
                 [] e[1] = "integer" -> << <<"I", e[2]>> >>
                 [] e[1] = "ptr" -> << <<"H", e[2]>> >>
Joined(es) ==
  FlattenSeq([i \in DOMAIN es |->
               IF i = 1 THEN ElemText(es[i]) ELSE <<Sep(",")>> \o ElemText(es[i])])

Text(o) ==
  CASE o[1] = "cons"    -> << <<"l">> >> \o ElemText(o[2]) \o <<Sep("|")>> \o ElemText(o[3])
    [] o[1] = "tuple"   -> << <<"t", Len(o[2])>>, Sep(":")>> \o Joined(o[2])
    [] o[1] = "flatmap" -> << <<"Mf", Len(o[3])>>, Sep(":"), <<"t", Len(o[2])>>, Sep(":")>>
                              \o Joined(o[2]) \o <<Sep(":")>> \o Joined(o[3])
    [] o[1] = "hashmap" -> << <<"Mh", 9>>, Sep(":"), <<"hex", Len(o[2])>>, Sep(":")>> \o Joined(o[2])
    [] o[1] = "node"    -> << <<"Mn", Len(o[2])>>, Sep(":")>> \o Joined(o[2])
    [] o[1] = "sub"     -> << <<"Yc", o[2]>>, Sep(":"), <<"hex", o[3]>>, Sep(":"), <<"hex", o[4]>> >>
    [] o[1] = "heapbin" -> Data("Yh", o[2])

-----------------------------------------------------------------------------
(* The decoder.                                                            *)

\* Reader::get: the text of an entry, the bytes of a binary, or None.  The last
\* line of a truncated dump is cut.
Lookup(a) ==
  IF objs[a] = None THEN None
  ELSE IF a \in BinAddr THEN objs[a]
  ELSE <<"text", IF cut # None /\ cut[1] = a THEN SubSeq(Text(objs[a]), 1, cut[2]) ELSE Text(objs[a])>>

Limit == <<"info", "depth limit">>

\* What follows the separator c.
Expect(c, s, F(_)) == IF s # <<>> /\ Head(s) = Sep(c) THEN F(Tail(s)) ELSE Bad
\* A hexadecimal number, then what follows.
Number(s, F(_, _)) == IF s # <<>> /\ Head(s)[1] = "hex" THEN F(Head(s)[2], Tail(s)) ELSE Bad

Scalar == [I |-> "integer", A |-> "atom", F |-> "float", B |-> "bigint", P |-> "pid",
           p |-> "port"]

\* raw[off.min(len)..end], end = (off + sz).min(len)
SliceOf(raw, off, sz) == SubSeq(raw, Min({off, Len(raw)}) + 1, Min({off + sz, Len(raw)}))

\* Missing data gives an empty binary.
deref_binary(a, s) ==
  Expect(":", s, LAMBDA s1 : Number(s1, LAMBDA off, s2 :
    Expect(":", s2, LAMBDA s3 : Number(s3, LAMBDA sz, rest :
      LET raw == Lookup(a)
      IN  Ok(Binary(IF raw = None THEN <<>> ELSE SliceOf(raw[2], off, sz)), rest)))))

\* The length says where the data ends; `&s[b64_len..]' panics if the line is
\* shorter.
parse_binary_data(n, s) ==
  Expect(":", s, LAMBDA s1 :
    LET b64_len == ((n + 2) \div 3) * 4
        b64     == SubSeq(s1, 1, Min({b64_len, Len(s1)}))
    IN  AndThen(Base64Decode([i \in DOMAIN b64 |-> b64[i][2]]), LAMBDA bytes, r :
          IF Len(s1) < b64_len THEN Panic ELSE Ok(bytes, From(s1, b64_len))))

parse_heap_binary(n, s) ==
  AndThen(parse_binary_data(n, s), LAMBDA bytes, rest : Ok(Binary(bytes), rest))

\* What does not decode is shown as its bytes.
parse_external(n, s) ==
  AndThen(parse_binary_data(n, s), LAMBDA bytes, rest :
    LET t == IF bytes # <<>> /\ Head(bytes) = 131 THEN etf_term(Tail(bytes)) ELSE Bad
    IN  IF t = Panic THEN Panic ELSE Ok(IF IsOk(t) THEN t[2] ELSE <<"external", bytes>>, rest))

RECURSIVE collect_pairs(_), flatten_hashmap_nodes(_)

\* Mutant: pairs of nested nodes are left out.
MutCollect(node) == IF node[1] = "cons" THEN <<Tail(node)>> ELSE <<>>

\* A leaf is a cons of key and value, an inner node a tuple, a collision map a map.
collect_pairs(node) ==
  CASE node[1] = "cons"  -> <<Tail(node)>>
    [] node[1] = "tuple" -> flatten_hashmap_nodes(node[2])
    [] node[1] = "map"   -> node[2]
    [] OTHER             -> <<>>

flatten_hashmap_nodes(nodes) == FlattenSeq([i \in DOMAIN nodes |-> collect_pairs(nodes[i])])

RECURSIVE parse_term(_, _), parse_n_terms(_, _, _)

\* The comma between two terms.
More(n, s, F(_)) == IF n = 1 THEN F(s) ELSE Expect(",", s, F)

parse_n_terms(depth, n, s) ==
  IF n = 0 THEN Ok(<<>>, s)
  ELSE AndThen(parse_term(depth, s), LAMBDA t, r :
         More(n, r, LAMBDA s1 :
           AndThen(parse_n_terms(depth, n - 1, s1), LAMBDA ts, r2 : Ok(<<t>> \o ts, r2))))

Deeper(depth) == depth + 1

follow_ptr(depth, a, rest) ==
  LET entry == Lookup(a)
  IN  IF entry = None THEN Ok(<<"not_in_dump", a>>, rest)
      ELSE AndThen(parse_term(Deeper(depth), entry[2]), LAMBDA t, r : Ok(t, rest))

parse_cons(depth, s) ==
  AndThen(parse_term(depth, s), LAMBDA head, r :
    Expect("|", r, LAMBDA s1 :
      AndThen(parse_term(depth, s1), LAMBDA tail, rest : Ok(ConsCell(head, tail), rest))))

parse_tuple(depth, n, s) ==
  Expect(":", s, LAMBDA s1 :
    AndThen(parse_n_terms(depth, n, s1), LAMBDA ts, rest : Ok(Tuple(ts), rest)))

parse_flat_map(depth, n, s) ==
  Expect(":", s, LAMBDA s1 : AndThen(parse_term(depth, s1), LAMBDA keys, r :
    IF keys[1] # "tuple" THEN Bad
    ELSE Expect(":", r, LAMBDA s2 : AndThen(parse_n_terms(depth, n, s2), LAMBDA vs, rest :
           Ok(<<"map", Zip(keys[2], vs)>>, rest)))))

parse_hashmap_head(depth, s) ==
  Expect(":", s, LAMBDA s1 : Number(s1, LAMBDA n, s2 :
    Expect(":", s2, LAMBDA s3 : AndThen(parse_n_terms(depth, n, s3), LAMBDA nodes, rest :
      Ok(<<"map", flatten_hashmap_nodes(nodes)>>, rest)))))

parse_term(depth, s) ==
  IF depth > MAX_DEPTH THEN Ok(Limit, s)
  ELSE IF s = <<>> THEN Bad
  ELSE LET tag == Head(s)[1]  rest == Tail(s)
       IN  CASE tag = "N" -> Ok(Nil, rest)
             [] tag \in DOMAIN Scalar -> Ok(<<Scalar[tag], Head(s)[2]>>, rest)
             [] tag = "H" -> follow_ptr(depth, Head(s)[2], rest)
             [] tag = "S" -> Ok(<<"info", rest>>, <<>>)
             [] tag = "l" -> parse_cons(depth, rest)
             [] tag \in {"t", "Mn"} -> parse_tuple(depth, Head(s)[2], rest)
             [] tag = "Yc" -> deref_binary(Head(s)[2], rest)
             [] tag = "Mf" -> parse_flat_map(depth, Head(s)[2], rest)
             [] tag = "Mh" -> parse_hashmap_head(depth, rest)
             [] tag = "D" -> Ok(<<"info", "#DistExternal">>, <<>>)
             [] tag = "Yh" -> parse_heap_binary(Head(s)[2], rest)
             [] tag = "E" -> parse_external(Head(s)[2], rest)
             [] OTHER -> Bad

-----------------------------------------------------------------------------
(* The printer's lists.                                                    *)

is_latin1_printable(c) == c \in 32 .. 126 \cup 160 .. 255 \cup 8 .. 13 \cup {27}

\* Mutant: the tail is not looked at.
MutIsString(elems, tail) ==
  \A i \in DOMAIN elems : elems[i][1] = "integer" /\ is_latin1_printable(elems[i][2])

\* try_as_char_codes on a proper list; the integer is cast to u32.
IsString(elems, tail) ==
  /\ tail = Nil
  /\ \A i \in DOMAIN elems : /\ elems[i][1] = "integer" /\ elems[i][2] >= 0
                             /\ is_latin1_printable(elems[i][2] % U32)

\* The outermost level of print_term and term_to_json.
Shown(t) ==
  IF t[1] # "cons" THEN t
  ELSE LET l == flatten_list(t)
       IN  IF IsString(l.elems, l.tail)
             THEN <<"string", [i \in DOMAIN l.elems |-> l.elems[i][2] % U32]>>
             ELSE <<"list", l.elems, l.tail>>
-----------------------------------------------------------------------------
(* The dump, and the line that is decoded.                                 *)

Ptrs(n) == UNION {[1 .. k -> Ptr] : k \in 1 .. n}
Object(kind) ==
  CASE kind = "none"    -> {None}
    [] kind = "cons"    -> {<<"cons", h, t>> : h \in Elem, t \in Elem}
    [] kind = "cell"    -> {<<"cons", h, t>> :
                              h \in (Elem \ Ptr) \cup {<<"integer", n>> : n \in LargeInt}, t \in Elem}
    [] kind = "tuple"   -> {<<"tuple", es>> : es \in UNION {[1 .. k -> Elem] : k \in 0 .. 2}}
    [] kind = "flatmap" -> {<<"flatmap", <<>>, <<>> >>}
                           \cup {<<"flatmap", <<k>>, <<v>> >> : k \in Elem \ Ptr, v \in Elem}
    [] kind = "hashmap" -> {<<"hashmap", ns>> : ns \in Ptrs(2)}
    [] kind = "node"    -> {<<"node", ns>> : ns \in Ptrs(2)}
    [] kind = "sub"     -> {<<"sub", b, off, sz>> : b \in BinAddr, off \in 0 .. 3, sz \in 0 .. 2}
    [] kind = "heapbin" -> {<<"heapbin", <<1, 2>> >>}

Contents(a) == UNION {Object(kind) : kind \in Shape[a]}

Parts(o) ==
  CASE o[1] = "cons"                       -> {o[2], o[3]}
    [] o[1] \in {"tuple", "hashmap", "node"} -> Range(o[2])
    [] o[1] = "flatmap"                    -> Range(o[2]) \cup Range(o[3])
    [] OTHER                               -> {}
PtrsOf(o) == {a \in Addr : <<"ptr", a>> \in Parts(o)}

\* Below a hash map are nodes and conses of a key and a value, and nodes are
\* nowhere else.
Misplaced ==
  {a \in Addr : \E b \in PtrsOf(objs[a]) :
     IF objs[a][1] \in {"hashmap", "node"} THEN objs[b][1] \notin {"cons", "node", "none"}
                                           ELSE objs[b][1] = "node"}

\* The data of the last binary is not in the dump.
Init ==
  /\ objs = [a \in Addr \cup BinAddr |->
               IF a \in BinAddr \ {Max(BinAddr)} THEN <<"bytes", <<10, 20>> >> ELSE None]
  /\ pending = Addr
  /\ cut = None /\ line = NoLine /\ result = None /\ shown = None

\* An entry, or none, for the next address; the dump may end within the last one.
Entry(a) ==
  /\ line.about = "none" /\ pending # {} /\ a = Min(pending) /\ pending' = pending \ {a}
  /\ \E o \in Contents(a) :
       /\ objs' = [objs EXCEPT ![a] = o]
       /\ \/ cut' = cut
          \/ a = Max(Addr) /\ o # None /\ \E n \in 0 .. Len(Text(o)) - 1 : cut' = <<a, n>>
  /\ UNCHANGED <<line, result, shown>>

\* One line of a listing: parse_term at depth 0, then the printer.
Decode(l) ==
  /\ line' = l
  /\ result' = parse_term(0, l.text)
  /\ shown' = IF IsOk(result') THEN Shown(result'[2]) ELSE None
  /\ UNCHANGED <<objs, pending, cut>>

\* The line points into the heap.
DecodePointer ==
  /\ line.about = "none" /\ pending = {} /\ Misplaced = {}
  /\ Decode([about |-> "pointer", text |-> << <<"H", Min(Addr)>> >>, term |-> None, bytes |-> <<>>])

\* A line with a term in external format: as the emulator wrote it, with fewer
\* bytes, another version or an unknown tag, or cut by the end of the dump.
ForeignLines(t, b) ==
  LET bytes == <<131>> \o b
      broken == Truncated(bytes) \cup {<<130>> \o b, <<131, 120>> \o b}
  IN  {[about |-> "whole", text |-> Data("E", bytes), term |-> t, bytes |-> bytes]}
      \cup {[about |-> "broken", text |-> Data("E", p), term |-> t, bytes |-> p] : p \in broken}
      \cup {[about |-> "cut", text |-> s, term |-> t, bytes |-> bytes] : s \in Truncated(Data("E", bytes))}

DecodeForeign ==
  /\ line.about = "none" /\ pending = Addr
  /\ \E t \in Foreign : \E b \in Encodings(t) : \E l \in ForeignLines(t, b) : Decode(l)

Next == (\E a \in Addr : Entry(a)) \/ DecodePointer \/ DecodeForeign

Spec == Init /\ [][Next]_vars

-----------------------------------------------------------------------------
(* What must come out, from the objects.                                   *)

RECURSIVE Near(_), Tree(_, _), Leaves(_, _), Printables(_, _), Shows(_), HasFun(_)

\* The addresses at most n pointers away, the line's own pointer being the first.
Near(n) == IF n = 1 THEN {Min(Addr)}
           ELSE Near(n - 1) \cup UNION {PtrsOf(objs[a]) : a \in Near(n - 1)}

\* What is below e, which is n pointers away.
Tree(e, n) ==
  LET o == objs[e[2]]
      Sub(f) == Tree(f, n + 1)
  IN  IF e \notin Ptr THEN e
      ELSE IF o = None THEN <<"not_in_dump", e[2]>>
      ELSE IF n = MAX_DEPTH THEN Limit
      ELSE CASE o[1] = "cons"    -> <<"cons", Sub(o[2]), Sub(o[3])>>
             [] o[1] = "tuple"   -> <<"tuple", [i \in DOMAIN o[2] |-> Sub(o[2][i])]>>
             [] o[1] = "flatmap" -> <<"map", [i \in DOMAIN o[2] |-> <<Sub(o[2][i]), Sub(o[3][i])>>]>>
             [] o[1] = "hashmap" -> <<"map", Leaves(o[2], n + 1)>>
             [] o[1] = "sub"     ->
                  LET b == IF objs[o[2]] = None THEN <<>> ELSE objs[o[2]][2]
                  IN  <<"binary", [i \in 1 .. Max({0, Min({o[4], Len(b) - o[3]})}) |-> b[o[3] + i]]>>
             [] o[1] = "heapbin" -> Binary(o[2])

\* The pairs below the nodes ns of a hash map, as far as they are in the dump.
Leaves(ns, n) ==
  IF n = MAX_DEPTH THEN <<>>
  ELSE FlattenSeq([i \in DOMAIN ns |->
         LET o == objs[ns[i][2]]
         IN  CASE o[1] = "cons" -> << <<Tree(o[2], n + 1), Tree(o[3], n + 1)>> >>
               [] o[1] = "node" -> Leaves(o[2], n + 1)
               [] OTHER         -> <<>>])

\* What termdecoder.rs:11-13 calls printable.
Printable == 8 .. 13 \cup {27} \cup 32 .. 126 \cup 160 .. 255

\* A proper list of printable characters in at most n cells begins at a.
Printables(a, n) ==
  /\ n > 0 /\ objs[a][1] = "cons" /\ objs[a][2] \in {<<"integer", c>> : c \in Printable}
  /\ \/ objs[a][3] = Nil
     \/ \E b \in Addr : objs[a][3] = <<"ptr", b>> /\ Printables(b, n - 1)

\* How the decoder shows what the emulator sent: a list of bytes as a binary
\* (termdecoder.rs:441), M:F/A as a triple, both kinds of fun alike.
Shows(t) ==
  CASE t[1] = "cons" ->
         LET l == flatten_list(t)
         IN  IF ByteList(t) THEN Binary(BytesOf(t))
             ELSE List([i \in DOMAIN l.elems |-> Shows(l.elems[i])], Shows(l.tail))
    [] t[1] = "tuple"   -> Tuple([i \in DOMAIN t[2] |-> Shows(t[2][i])])
    [] t[1] = "map"     -> <<"map", [i \in DOMAIN t[2] |-> <<Shows(t[2][i][1]), Shows(t[2][i][2])>>]>>
    [] t[1] = "export"  -> Tuple(<<Atom(t[2]), Atom(t[3]), <<"integer", t[4]>> >>)
    [] t[1] = "old_fun" -> [t EXCEPT ![1] = "fun"]
    [] OTHER            -> t

Components(t) ==
  CASE t[1] = "cons"  -> LET l == flatten_list(t) IN Range(l.elems) \cup {l.tail}
    [] t[1] = "tuple" -> Range(t[2])
    [] t[1] = "map"   -> UNION {Range(p) : p \in Range(t[2])}
    [] OTHER          -> {}
HasFun(t) == t[1] = "fun" \/ \E u \in Components(t) : HasFun(u)
\* A NEW_FUN_EXT within another term.
FunInside(t) == t[1] # "fun" /\ HasFun(t)

FromHeap == line.about = "pointer"
FromOutside == line.about \in {"whole", "broken", "cut"}
\* The dump ends in what was decoded.
CutWithin == FromHeap /\ cut # None /\ cut[1] \in Near(MAX_DEPTH)

\* A pointer decodes to the term the emulator had, with shared subterms, cycles and
\* missing entries, down to the depth limit; it fails exactly if an entry that
\* is cut is within that depth.  Every pair of a hash map is there once.
DecodesHeap ==
  FromHeap =>
    IF CutWithin THEN ~IsOk(result)
    ELSE result = Ok(Tree(<<"ptr", Min(Addr)>>, 0), <<>>)

\* Whichever of its encodings the emulator chose, a term in external format
\* decodes to that term, nested ones too, as long as no NEW_FUN_EXT is inside
\* another term; bytes that are incomplete, or have another version or an unknown
\* tag, are shown as bytes or, if nothing that is shown is missing, as the term,
\* and a line that is cut anywhere never as a term.
DecodesForeign ==
  FromOutside /\ ~FunInside(line.term) =>
    CASE line.about = "whole"  -> result = Ok(Shows(line.term), <<>>)
      [] line.about = "broken" -> result \in {Ok(<<"external", line.bytes>>, <<>>), Ok(Shows(line.term), <<>>)}
      [] line.about = "cut"    -> ~IsOk(result)

\* What the repository's README says of all terms (README.md:43), and what TLC refutes:
\* terms in external format are shown as the terms they are, those with a
\* NEW_FUN_EXT inside too.
FunsInsideDecode ==
  FromOutside /\ line.about = "whole" => result = Ok(Shows(line.term), <<>>)

\* What it says of dumps that were cut (README.md:27), and what TLC refutes: a
\* reference to an entry in which the dump ends is answered, with a term or an error.
CutEntriesAnswered == CutWithin => result # Panic

\* Where no integer has 2^32 or more, a list is shown as a string exactly if it is
\* a proper list of printable characters that the depth limit does not cut.
StringsShown ==
  FromHeap /\ IsOk(result) /\ (\A a \in Addr : objs[a][1] = "cons" =>
                                   objs[a][2] \notin {<<"integer", n>> : n \in LargeInt})
    => ((shown[1] = "string") <=> Printables(Min(Addr), MAX_DEPTH))

\* The two directions of "if and only if" (termdecoder.rs:9-10), which TLC refutes.
\* Only a proper list of printable characters is shown as a string ...
OnlyStringsAsStrings ==
  FromHeap /\ IsOk(result) /\ shown[1] = "string" => Printables(Min(Addr), Cardinality(Addr))

\* ... and every one is.
AllStringsAsStrings ==
  FromHeap /\ IsOk(result) /\ Printables(Min(Addr), Cardinality(Addr)) => shown[1] = "string"
=============================================================================
