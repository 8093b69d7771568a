------------------------------ MODULE EtfEncoder ------------------------------
(***************************************************************************)
(* The emulator's side of EtfDecoder: every encoding of a term in external *)
(* format, those of earlier releases too.                                  *)
(*                                                                         *)
(* Three kinds of term are not the decoder's own: an "export" is a fun     *)
(* M:F/A, an "old_fun" a fun as it was sent before NEW_FUN_EXT, and a      *)
(* proper list of bytes has an encoding of its own, STRING_EXT.            *)
(***************************************************************************)
EXTENDS EtfDecoder

\* Big-endian; two's complement if n < 0.
Bytes(n, w) == [i \in 1 .. w |-> (n \div 256 ^ (w - i)) % 256]
Tagged(tags, S) == {<<tag>> \o b : tag \in tags, b \in S}
Words(ns) == FlattenSeq([i \in DOMAIN ns |-> Bytes(ns[i], 4)])
Node == <<119, 1, 110>>
Zeros(n) == [i \in 1 .. n |-> 0]
IsByte(t) == t[1] = "integer" /\ t[2] \in 0 .. 255

\* What the emulator sends as STRING_EXT.
ByteList(t) ==
  LET l == flatten_list(t)
  IN  /\ l.tail = Nil /\ Len(l.elems) \in 1 .. 65535
      /\ \A i \in DOMAIN l.elems : IsByte(l.elems[i])
BytesOf(t) == LET es == flatten_list(t).elems IN [i \in DOMAIN es |-> es[i][2]]

\* The process that made a fun, and the fun's environment.
Creator == <<"pid", <<110>>, <<1, 2>>, 3>>
Env == <<Nil>>

\* NEW_FUN_EXT up to the module.  Size counts itself and all that follows, not the tag.
FunHeader(size) == <<112>> \o Bytes(size, 4) \o Zeros(17) \o Zeros(4) \o Bytes(1, 4)

RECURSIVE Encodings(_), Concat(_)

Concat(ts) == IF ts = <<>> THEN {<<>>}
              ELSE {a \o b : a \in Encodings(Head(ts)), b \in Concat(Tail(ts))}

Encodings(t) ==
  CASE t[1] = "nil"     -> {<<106>>}
    [] t[1] = "integer" -> Tagged({98}, {Bytes(t[2], 4)})
                           \cup Tagged({97}, {<<t[2]>>} \cap {<<n>> : n \in 0 .. 255})
    [] t[1] = "float"   -> Tagged({IF Len(t[2]) = 8 THEN 70 ELSE 99}, {t[2]})
    [] t[1] = "atom"    -> Tagged({100, 118}, {Bytes(Len(t[2]), 2) \o t[2]})
                           \cup Tagged({115, 119}, {<<Len(t[2])>> \o t[2]})
    [] t[1] = "binary"  -> Tagged({109}, {Bytes(Len(t[2]), 4) \o t[2]})
                           \cup Tagged({77}, {Bytes(Len(t[2]), 4) \o <<8>> \o t[2]})
    [] t[1] = "bigint"  -> {<<110, Len(t[3]) + z, IF t[2] THEN 1 ELSE 0>> \o t[3] \o Zeros(z) : z \in 0 .. 1}
                           \cup {<<111>> \o Bytes(Len(t[3]), 4) \o <<IF t[2] THEN 1 ELSE 0>> \o t[3]}
    [] t[1] = "tuple"   -> Tagged({104}, {<<Len(t[2])>> \o b : b \in Concat(t[2])})
                           \cup Tagged({105}, {Bytes(Len(t[2]), 4) \o b : b \in Concat(t[2])})
    [] t[1] = "cons"    -> LET l == flatten_list(t)
                           IN  IF ByteList(t)
                                 THEN Tagged({107}, {Bytes(Len(l.elems), 2) \o BytesOf(t)})
                                 ELSE Tagged({108}, {Bytes(Len(l.elems), 4) \o b :
                                                       b \in Concat(Append(l.elems, l.tail))})
    [] t[1] = "map"     -> Tagged({116}, {Bytes(Len(t[2]), 4) \o b : b \in Concat(FlattenSeq(t[2]))})
    [] t[1] = "ref"     -> {<<90>> \o Bytes(Len(t[3]), 2) \o Node \o Bytes(t[2], 4) \o Words(t[3]),
                            <<114>> \o Bytes(Len(t[3]), 2) \o Node \o <<t[2]>> \o Words(t[3])}
                           \cup IF Len(t[3]) # 1 THEN {} ELSE {<<101>> \o Node \o Words(t[3]) \o <<t[2]>>}
    [] t[1] = "pid"     -> {<<88>> \o Node \o Words(t[3]) \o Bytes(t[4], 4), <<103>> \o Node \o Words(t[3]) \o <<t[4]>>}
    [] t[1] = "port"    -> {<<89>> \o Node \o Words(t[3]) \o Bytes(t[4], 4), <<102>> \o Node \o Words(t[3]) \o <<t[4]>>}
    [] t[1] = "export"  -> {<<113>> \o b \o <<97, t[4]>> : b \in Concat(<<Atom(t[2]), Atom(t[3])>>)}
    [] t[1] = "fun"     -> {FunHeader(29 + Len(b)) \o b :
                              b \in Concat(<<Atom(t[2]), t[3], t[4], Creator>> \o Env)}
    [] t[1] = "old_fun" -> Tagged({117}, {Bytes(1, 4) \o b :
                              b \in Concat(<<Creator, Atom(t[2]), t[3], t[4]>> \o Env)})

\* What is left of a sequence that was cut.
Truncated(b) == {SubSeq(b, 1, n) : n \in 0 .. Len(b) - 1}

-----------------------------------------------------------------------------
(* Base64: a character is its value, PadChar the padding.                  *)

PadChar == 64
At(s, i) == IF i <= Len(s) THEN s[i] ELSE 0

\* Three bytes are four characters: 24 bits.
Base64(bytes) ==
  [i \in 1 .. 4 * ((Len(bytes) + 2) \div 3) |->
     LET g == 3 * ((i - 1) \div 4)  j == (i - 1) % 4
         bits == (At(bytes, g + 1) * 256 + At(bytes, g + 2)) * 256 + At(bytes, g + 3)
     IN  IF j > Len(bytes) - g THEN PadChar ELSE (bits \div 64 ^ (3 - j)) % 64]

Unpadded(chars) == SelectSeq(chars, LAMBDA c : c # PadChar)

\* The bytes of whole groups or, without padding, of a shorter last one too; bits
\* that belong to no byte must be 0.
Base64Decode(chars) ==
  LET data  == Unpadded(chars)
      Byte(i) == LET g == 4 * ((i - 1) \div 3)
                     bits == ((At(data, g + 1) * 64 + At(data, g + 2)) * 64 + At(data, g + 3)) * 64
                             + At(data, g + 4)
                 IN  (bits \div 256 ^ (2 - ((i - 1) % 3))) % 256
      bytes == SubSeq([i \in DOMAIN data |-> Byte(i)], 1, (3 * Len(data)) \div 4)
  IN  IF chars \in {Base64(bytes), Unpadded(Base64(bytes))} THEN Ok(bytes, <<>>) ELSE Bad

===============================================================================
