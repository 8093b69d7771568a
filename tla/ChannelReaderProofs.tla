------------------------- MODULE ChannelReaderProofs -------------------------
(***************************************************************************)
(* Theorems about ChannelReader, for all lengths of chunks and buffers,    *)
(* every capacity of the channel and every bound on the body.              *)
(***************************************************************************)
EXTENDS ChannelReaderInv, SequenceTheorems, TLAPS

-----------------------------------------------------------------------------
(* Stretches of the body.                                                  *)

LEMMA BytesType ==
  ASSUME NEW b \in Nat, NEW m \in Nat
  PROVE  /\ Len(Bytes(b, m)) = m /\ \A i \in 1 .. m : Bytes(b, m)[i] = b + i
         /\ b + m <= MaxBytes => Bytes(b, m) \in Seq(1 .. MaxBytes)
<1>1. ASSUME b + m <= MaxBytes PROVE Bytes(b, m) \in Seq(1 .. MaxBytes)
  <2>1. \A i \in 1 .. m : b + i \in 1 .. MaxBytes
    BY <1>1, ReaderAssump
  <2> QED
    BY <2>1, IsASeq DEF Bytes
<1> QED
  BY <1>1, LenProperties DEF Bytes

\* What is copied out of a chunk goes on where the bytes returned end.
LEMMA BytesCopied ==
  ASSUME NEW a \in Nat, NEW m \in Nat, NEW p \in 0 .. m, NEW n \in 0 .. m - p, p <= a,
         a - p + m <= MaxBytes
  PROVE  /\ Bytes(0, a) \o SubSeq(Bytes(a - p, m), p + 1, p + n) = Bytes(0, a + n)
         /\ Bytes(0, a + n) \in Seq(1 .. MaxBytes)
<1> DEFINE c == Bytes(a - p, m)
           t == SubSeq(c, p + 1, p + n)
           g == Bytes(0, a)
<1>0. /\ 0 \in Nat /\ a - p \in Nat /\ a + n \in Nat /\ n \in Nat /\ 0 + a <= MaxBytes
      /\ 0 + (a + n) <= MaxBytes
  BY ReaderAssump
<1>1. /\ g \in Seq(1 .. MaxBytes) /\ Len(g) = a /\ \A i \in 1 .. a : g[i] = i
      /\ c \in Seq(1 .. MaxBytes) /\ Len(c) = m /\ \A i \in 1 .. m : c[i] = a - p + i
  <2>1. g \in Seq(1 .. MaxBytes) /\ Len(g) = a /\ \A i \in 1 .. a : g[i] = 0 + i
    BY <1>0, BytesType
  <2>2. c \in Seq(1 .. MaxBytes) /\ Len(c) = m /\ \A i \in 1 .. m : c[i] = a - p + i
    BY <1>0, BytesType
  <2> HIDE DEF g, c
  <2> QED
    BY <2>1, <2>2
<1>2. /\ t \in Seq(1 .. MaxBytes) /\ Len(t) = n /\ \A i \in 1 .. n : t[i] = c[p + i]
  <2> HIDE DEF c
  <2>1. \A i \in p + 1 .. p + n : i \in 1 .. m
    OBVIOUS
  <2>2. \A i \in 1 .. m : c[i] \in 1 .. MaxBytes
    BY <1>1, ElementOfSeq
  <2> QED
    BY <1>0, <2>1, <2>2, SubSeqProperties
<1>3. /\ Bytes(0, a + n) \in Seq(1 .. MaxBytes) /\ Len(Bytes(0, a + n)) = a + n
      /\ \A i \in 1 .. a + n : Bytes(0, a + n)[i] = 0 + i
  BY <1>0, BytesType
<1> HIDE DEF c, t, g
<1>4. /\ g \o t \in Seq(1 .. MaxBytes) /\ Len(g \o t) = a + n
      /\ \A i \in 1 .. a + n : (g \o t)[i] = IF i <= a THEN g[i] ELSE t[i - a]
  BY <1>1, <1>2, ConcatProperties
<1>5. \A i \in 1 .. a + n : (g \o t)[i] = i
  <2> TAKE i \in 1 .. a + n
  <2>1. CASE i <= a
    <3>1. i \in 1 .. a
      BY <2>1
    <3>2. (g \o t)[i] = g[i]
      BY <1>4, <2>1
    <3>3. g[i] = 0 + i
      BY <1>1, <3>1
    <3>4. 0 + i = i
      BY <3>1
    <3> QED
      BY <3>2, <3>3, <3>4
  <2>2. CASE ~(i <= a)
    <3>1. i - a \in 1 .. n /\ p + (i - a) \in 1 .. m
      BY <2>2
    <3>2. t[i - a] = c[p + (i - a)] /\ c[p + (i - a)] = a - p + (p + (i - a))
      BY <1>1, <1>2, <3>1
    <3> QED
      BY <1>4, <2>2, <3>2
  <2> QED
    BY <2>1, <2>2
<1>6. g \o t = Bytes(0, a + n)
  BY <1>3, <1>4, <1>5, SeqEqual
<1> QED
  BY <1>3, <1>6 DEF g, t, c

-----------------------------------------------------------------------------
(* The client's side.                                                      *)

LEMMA SendStep ==
  ASSUME IInv, NEW n \in ChunkLen, SendChunk(n)
  PROVE  IInv'
<1> DEFINE L == Len(chan)
           b == Bytes(total, n)
<1>1. PICK cut \in [1 .. L + 1 -> 0 .. MaxBytes] : Follow(cut)
  BY DEF IInv, InChannel
<1>2. /\ total \in 0 .. MaxBytes /\ total + n \in 0 .. MaxBytes /\ n \in Nat
      /\ chan \in Seq(Seq(1 .. MaxBytes)) /\ L \in Nat /\ L + 1 <= ChanCap /\ chan' = Append(chan, b)
      /\ nchunks + 1 \in 0 .. MaxChunks
  BY ReaderAssump DEF SendChunk, Bytes, IInv, TypeOK
<1>3. b \in Seq(1 .. MaxBytes) /\ Len(b) = n
  BY <1>2, BytesType
<1> HIDE DEF b
<1>4. /\ chan' \in Seq(Seq(1 .. MaxBytes)) /\ Len(chan') = L + 1 /\ chan'[L + 1] = b
      /\ \A k \in 1 .. L : chan'[k] = chan[k]
  BY <1>2, <1>3, AppendProperties
<1>5. TypeOK'
  BY <1>2, <1>4 DEF IInv, TypeOK, SendChunk, readVars
<1>6. InHand' /\ Ended'
  BY DEF IInv, InHand, Ended, SendChunk, readVars
<1>7. InChannel'
  <2> DEFINE new == [k \in 1 .. L + 2 |-> IF k <= L + 1 THEN cut[k] ELSE total + n]
  <2>1. new \in [1 .. L + 2 -> 0 .. MaxBytes]
    BY <1>2
  <2>2. new[1] = cut[1] /\ new[L + 2] = total + n /\ total' = total + n
    BY <1>2 DEF SendChunk
  <2>3. ASSUME NEW k \in 1 .. L + 1
        PROVE  chan'[k] = Bytes(new[k], Len(chan'[k])) /\ new[k + 1] = new[k] + Len(chan'[k])
    <3>1. CASE k <= L
      BY <1>1, <1>2, <1>4, <3>1 DEF Follow
    <3>2. CASE k = L + 1
      BY <1>1, <1>2, <1>3, <1>4, <3>2 DEF Follow, b
    <3> QED
      BY <1>2, <3>1, <3>2
  <2>4. new[1] = Len(got') - pos' + Len(current')
    BY <1>1, <2>2 DEF Follow, SendChunk, readVars
  <2>5. Len(chan') = L + 1 /\ Len(chan') + 1 = L + 2
    BY <1>2, <1>4
  <2> HIDE DEF new, L
  <2>6. /\ new \in [1 .. Len(chan') + 1 -> 0 .. MaxBytes]
        /\ new[Len(chan') + 1] = total'
        /\ \A k \in 1 .. Len(chan') :
             chan'[k] = Bytes(new[k], Len(chan'[k])) /\ new[k + 1] = new[k] + Len(chan'[k])
    BY <2>1, <2>2, <2>3, <2>5
  <2> QED
    BY <2>4, <2>6 DEF InChannel, Follow
<1> QED
  BY <1>5, <1>6, <1>7 DEF IInv

LEMMA DropTxStep ==
  ASSUME IInv, DropTx
  PROVE  IInv'
BY DEF DropTx, IInv, TypeOK, InHand, InChannel, Follow, Ended, readVars

-----------------------------------------------------------------------------
(* The reader's side.                                                      *)

LEMMA CopyStep ==
  ASSUME IInv, Copy
  PROVE  IInv'
<1> DEFINE m == Len(current)
           a == Len(got)
<1>1. /\ current \in Seq(1 .. MaxBytes) /\ m \in Nat /\ pos \in 0 .. m /\ pos < m
      /\ got \in Seq(1 .. MaxBytes) /\ a \in Nat /\ pos <= a /\ want \in Nat \ {0}
      /\ current = Bytes(a - pos, m) /\ got = Bytes(0, a)
  BY ReaderAssump DEF IInv, TypeOK, InHand, Copy
<1>2. PICK n \in 1 .. m - pos : n = Lesser(m - pos, want)
  <2>1. m - pos \in Nat \ {0} /\ want \in Nat \ {0}
    BY <1>1
  <2>2. Lesser(m - pos, want) \in 1 .. m - pos
    <3> DEFINE x == m - pos
    <3>1. x \in Nat \ {0} /\ Lesser(x, want) \in 1 .. x
      <4>1. x \in Nat \ {0}
        BY <2>1
      <4> HIDE DEF x
      <4> QED
        BY <2>1, <4>1 DEF Lesser
    <3> QED
      BY <3>1
  <2> QED
    BY <2>2
<1> DEFINE used == pos + n >= m
<1>3. /\ got' = got \o SubSeq(current, pos + 1, pos + n)
      /\ current' = IF used THEN <<>> ELSE current
      /\ pos' = IF used THEN 0 ELSE pos + n
      /\ rpc' \in {"detect", "idle"}
      /\ UNCHANGED <<fmt, total, nchunks, tx_open, chan, want, eof, detected>>
  BY <1>2 DEF Copy, sendVars
<1>4. PICK cut \in [1 .. Len(chan) + 1 -> 0 .. MaxBytes] : Follow(cut)
  BY DEF IInv, InChannel
<1>5. a - pos + m <= MaxBytes
  <2>1. 1 \in 1 .. Len(chan) + 1
    BY DEF IInv, TypeOK
  <2> QED
    BY <1>4, <2>1 DEF Follow
<1>6. got' = Bytes(0, a + n) /\ got' \in Seq(1 .. MaxBytes) /\ Len(got') = a + n
  <2>1. n \in 0 .. m - pos /\ a + n \in Nat /\ 0 \in Nat
    BY <1>1, <1>2
  <2> HIDE DEF a, m
  <2>2. got' = Bytes(0, a + n) /\ got' \in Seq(1 .. MaxBytes)
    <3>1. a \in Nat /\ m \in Nat /\ pos \in 0 .. m /\ pos <= a
      BY <1>1
    <3>2. got' = Bytes(0, a) \o SubSeq(Bytes(a - pos, m), pos + 1, pos + n)
      BY <1>1, <1>3
    <3> QED
      BY <1>5, <2>1, <3>1, <3>2, BytesCopied
  <2> QED
    BY <2>1, <2>2, BytesType
<1>7. current' \in Seq(1 .. MaxBytes) /\ pos' \in 0 .. Len(current') /\ pos' <= a + n
      /\ (current' = <<>> \/ pos' < Len(current'))
      /\ a + n - pos' + Len(current') = a - pos + m
  <2>1. CASE used
    <3>1. current' = <<>> /\ Len(current') = 0 /\ pos' = 0
      BY <1>3, <2>1
    <3>2. n = m - pos
      BY <1>1, <2>1
    <3>3. a \in Nat /\ m \in Nat /\ pos \in Nat /\ n \in Nat /\ <<>> \in Seq(1 .. MaxBytes)
      BY <1>1, EmptySeq
    <3> HIDE DEF a, m
    <3> QED
      BY <1>1, <3>1, <3>2, <3>3
  <2>2. CASE ~used
    <3>1. current' = current /\ Len(current') = m /\ pos' = pos + n /\ ~(pos + n >= m)
      BY <1>3, <2>2
    <3>2. /\ a \in Nat /\ m \in Nat /\ pos \in Nat /\ n \in Nat /\ pos <= a
          /\ current \in Seq(1 .. MaxBytes)
      BY <1>1
    <3> HIDE DEF a, m
    <3>3. pos' \in 0 .. m /\ pos' <= a + n /\ pos' < m /\ a + n - pos' + m = a - pos + m
      BY <3>1, <3>2
    <3> QED
      BY <3>1, <3>2, <3>3
  <2> QED
    BY <2>1, <2>2
<1>8. TypeOK'
  BY <1>3, <1>6, <1>7 DEF IInv, TypeOK
<1>8a. pos' \in Nat /\ Len(current') \in Nat /\ a + n \in Nat /\ Len(got') = a + n
  BY <1>1, <1>2, <1>6, <1>7
<1>9. current' = Bytes(a + n - pos', Len(current'))
  <2>1. CASE used
    BY <1>3, <2>1, <1>1, <1>2 DEF Bytes
  <2>2. CASE ~used
    BY <1>1, <1>2, <1>3, <2>2
  <2> QED
    BY <2>1, <2>2
<1>10. InHand'
  <2>1. current' = Bytes(Len(got') - pos', Len(current')) /\ pos' <= Len(got')
    BY <1>7, <1>8a, <1>9
  <2>2. got' = Bytes(0, Len(got'))
    BY <1>6, Zenon
  <2> QED
    BY <1>7, <2>1, <2>2 DEF InHand
<1>11. InChannel'
  <2>1. cut[1] = a - pos + m
    BY <1>4 DEF Follow
  <2>2. cut[1] = Len(got') - pos' + Len(current')
    <3>1. Len(got') - pos' + Len(current') = a + n - pos' + Len(current')
      BY <1>8a
    <3> QED
      BY <1>7, <2>1, <3>1, Zenon
  <2> QED
    BY <1>3, <1>4, <2>2 DEF InChannel, Follow
<1>12. Ended'
  BY <1>1, <1>3 DEF IInv, Ended
<1> QED
  BY <1>8, <1>10, <1>11, <1>12 DEF IInv

LEMMA ReceiveStep ==
  ASSUME IInv, Receive
  PROVE  IInv'
<1> DEFINE L == Len(chan)
           a == Len(got)
<1>1. PICK cut \in [1 .. L + 1 -> 0 .. MaxBytes] : Follow(cut)
  BY DEF IInv, InChannel
<1>2. /\ chan \in Seq(Seq(1 .. MaxBytes)) /\ L \in Nat \ {0} /\ L <= ChanCap /\ a \in Nat
      /\ current = <<>> /\ Len(current) = 0 /\ pos = 0
      /\ chan' = Tail(chan) /\ current' = chan[1]
      /\ got' = got /\ pos' = pos /\ total' = total
  BY DEF IInv, TypeOK, InHand, Receive, sendVars
<1>3. /\ chan' \in Seq(Seq(1 .. MaxBytes)) /\ Len(chan') = L - 1
      /\ \A k \in 1 .. L - 1 : chan'[k] = chan[k + 1]
      /\ current' \in Seq(1 .. MaxBytes)
  <2>1. chan # <<>> /\ Head(chan) = chan[1]
    BY <1>2
  <2> QED
    BY <1>2, <2>1, HeadTailProperties
<1>4. /\ cut[1] = a /\ cut[L + 1] = total /\ chan[1] = Bytes(a, Len(chan[1]))
      /\ cut[2] = a + Len(chan[1])
  <2>1. cut[1] = a
    BY <1>1, <1>2 DEF Follow
  <2>2. 1 \in 1 .. L /\ 1 + 1 = 2
    BY <1>2
  <2> QED
    BY <1>1, <2>1, <2>2 DEF Follow
<1>5. Len(current') \in Nat
  BY <1>3, LenProperties
<1>6. TypeOK'
  BY <1>2, <1>3, <1>5, ReaderAssump DEF IInv, TypeOK, Receive, sendVars
<1>7. InHand'
  BY <1>2, <1>4, <1>5 DEF IInv, InHand, Bytes
<1>8. InChannel'
  <2> DEFINE new == [k \in 1 .. L |-> cut[k + 1]]
  <2>1. new \in [1 .. L -> 0 .. MaxBytes]
    BY <1>2
  <2>2. new[1] = a + Len(current') /\ new[L] = total
    BY <1>2, <1>4
  <2>3. ASSUME NEW k \in 1 .. L - 1
        PROVE  chan'[k] = Bytes(new[k], Len(chan'[k])) /\ new[k + 1] = new[k] + Len(chan'[k])
    BY <1>1, <1>2, <1>3 DEF Follow
  <2>4. Len(chan') = L - 1 /\ Len(chan') + 1 = L
    BY <1>2, <1>3
  <2>5. a - pos + Len(current') = a + Len(current')
    BY <1>2, <1>5
  <2> HIDE DEF new, L
  <2>6. /\ new \in [1 .. Len(chan') + 1 -> 0 .. MaxBytes]
        /\ new[Len(chan') + 1] = total'
        /\ \A k \in 1 .. Len(chan') :
             chan'[k] = Bytes(new[k], Len(chan'[k])) /\ new[k + 1] = new[k] + Len(chan'[k])
    BY <1>2, <2>1, <2>2, <2>3, <2>4
  <2>7. new[1] = Len(got') - pos' + Len(current')
    BY <1>2, <2>2, <2>5
  <2> QED
    BY <2>6, <2>7 DEF InChannel, Follow
<1>9. Ended'
  BY <1>2 DEF IInv, Ended, Receive, sendVars
<1> QED
  BY <1>6, <1>7, <1>8, <1>9 DEF IInv

\* The steps that move no bytes.
LEMMA OtherStep ==
  ASSUME IInv, ReadEof \/ Detect \/ UNCHANGED vars \/ \E n \in BufLen : Read(n)
  PROVE  IInv'
<1>1. CASE ReadEof
  <2>1. current = <<>> /\ Len(current) = 0 /\ pos = 0
    BY <1>1 DEF IInv, TypeOK, InHand, ReadEof
  <2>2. UNCHANGED <<sendVars, chan, current, pos, want, got, detected>> /\ eof' = TRUE
        /\ rpc' \in {"detect", "idle"} /\ chan = <<>> /\ ~tx_open
    BY <1>1, <2>1 DEF ReadEof
  <2>3. TypeOK'
    BY <2>1, <2>2 DEF IInv, TypeOK, sendVars
  <2> QED
    BY <2>1, <2>2, <2>3 DEF IInv, InHand, InChannel, Follow, Ended, sendVars
<1>2. CASE Detect
  <2>1. detected' \in Format /\ rpc' = "idle"
    BY <1>2 DEF Detect, Format
  <2>2. UNCHANGED <<sendVars, chan, current, pos, want, got, eof>>
    BY <1>2 DEF Detect
  <2>3. TypeOK'
    BY <2>1, <2>2 DEF IInv, TypeOK, sendVars
  <2> QED
    BY <2>2, <2>3 DEF IInv, InHand, InChannel, Follow, Ended, sendVars
<1>3. CASE \E n \in BufLen : Read(n)
  <2>1. rpc' = "loop" /\ want' \in BufLen /\ UNCHANGED <<sendVars, chan, current, pos, got, eof, detected>>
    BY <1>3 DEF Read
  <2>2. TypeOK'
    BY <2>1 DEF IInv, TypeOK, sendVars
  <2> QED
    BY <2>1, <2>2 DEF IInv, InHand, InChannel, Follow, Ended, sendVars
<1>4. CASE UNCHANGED vars
  BY <1>4 DEF vars, IInv, TypeOK, InHand, InChannel, Follow, Ended, sendVars, readVars
<1> QED
  BY <1>1, <1>2, <1>3, <1>4

LEMMA InitInv == Init => IInv
<1> SUFFICES ASSUME Init PROVE IInv
  OBVIOUS
<1>1. TypeOK
  <2>1. /\ chan = <<>> /\ current = <<>> /\ got = <<>> /\ pos = 0 /\ total = 0 /\ nchunks = 0
        /\ tx_open \in BOOLEAN /\ eof \in BOOLEAN /\ rpc = "loop" /\ want = PeekLen /\ detected = "none"
        /\ fmt \in Format
    BY DEF Init
  <2>2. chan \in Seq(Seq(1 .. MaxBytes)) /\ current \in Seq(1 .. MaxBytes) /\ got \in Seq(1 .. MaxBytes)
    BY <2>1, EmptySeq
  <2>3. Len(chan) = 0 /\ Len(current) = 0
    BY <2>1
  <2> QED
    BY <2>1, <2>2, <2>3, ReaderAssump DEF TypeOK
<1>2. InHand /\ Ended
  BY DEF Init, InHand, Ended, Bytes
<1>3. InChannel
  <2> DEFINE cut == [k \in 1 .. 1 |-> 0]
  <2>1. chan = <<>> /\ Len(chan) = 0 /\ total = 0 /\ pos = 0 /\ Len(got) = 0 /\ Len(current) = 0
    BY DEF Init
  <2>2. cut \in [1 .. Len(chan) + 1 -> 0 .. MaxBytes] /\ Follow(cut)
    BY <2>1, ReaderAssump DEF Follow
  <2> QED
    BY <2>2 DEF InChannel
<1> QED
  BY <1>1, <1>2, <1>3 DEF IInv

-----------------------------------------------------------------------------
(* The theorems.                                                           *)

\* The channel and the reader hold the body from the first byte not yet returned
\* to the last one sent, in order.
THEOREM Invariance == Spec => []IInv
<1>1. IInv /\ [Next]_vars => IInv'
  BY SendStep, DropTxStep, CopyStep, ReceiveStep, OtherStep DEF Next, ReaderStep, Terminated
<1> QED
  BY <1>1, InitInv, PTL DEF Spec

\* The parser gets the bytes of the body in order, none twice and none left out,
\* and the end of the parse is the end of the body, however frames and buffers cut it.
THEOREM BytesInOrder == Spec => []InOrder
<1>1. IInv => InOrder
  <2> SUFFICES ASSUME IInv PROVE InOrder
    OBVIOUS
  <2>1. got = [i \in 1 .. Len(got) |-> i]
    <3>1. \A i \in 1 .. Len(got) : 0 + i = i
      OBVIOUS
    <3> QED
      BY <3>1 DEF IInv, InHand, Bytes
  <2>2. ASSUME eof PROVE ~tx_open /\ Len(got) = total
    <3>1. ~tx_open /\ chan = <<>> /\ current = <<>> /\ Len(chan) = 0 /\ Len(current) = 0
      BY <2>2 DEF IInv, Ended
    <3>2. pos = 0 /\ Len(got) \in Nat
      BY <3>1 DEF IInv, TypeOK
    <3>3. PICK cut \in [1 .. 1 -> 0 .. MaxBytes] : cut[1] = Len(got) - pos + Len(current) /\ cut[1] = total
      BY <3>1 DEF IInv, InChannel, Follow
    <3> QED
      BY <3>1, <3>2, <3>3
  <2> QED
    BY <2>1, <2>2 DEF IInv, InOrder
<1> QED
  BY <1>1, Invariance, PTL

LEMMA MagicBytes ==
  ASSUME NEW f \in Format, NEW t, t = Magic[f]
  PROVE  /\ t \in Seq(Nat) /\ Len(t) \in 1 .. 6
         /\ f = "plain" => t[1] = 61
         /\ f = "zstd" => Len(t) = 4 /\ t[1] = 40
         /\ f = "gzip" => Len(t) = 2 /\ t[1] = 31
         /\ f = "xz" => Len(t) = 6 /\ t[1] = 253
<1>1. CASE f = "plain"
  <2>1. t = <<61, 101, 114, 108, 95, 99>>
    BY <1>1 DEF Magic
  <2>2. t \in Seq(Nat)
    BY <2>1
  <2>3. Len(t) = 6 /\ t[1] = 61
    BY <2>1
  <2> QED
    BY <1>1, <2>2, <2>3
<1>2. CASE f = "zstd"
  <2>1. t = <<40, 181, 47, 253>>
    BY <1>2 DEF Magic
  <2>2. t \in Seq(Nat)
    BY <2>1
  <2>3. Len(t) = 4 /\ t[1] = 40
    BY <2>1
  <2> QED
    BY <1>2, <2>2, <2>3
<1>3. CASE f = "gzip"
  <2>1. t = <<31, 139>>
    BY <1>3 DEF Magic
  <2>2. t \in Seq(Nat)
    BY <2>1
  <2>3. Len(t) = 2 /\ t[1] = 31
    BY <2>1
  <2> QED
    BY <1>3, <2>2, <2>3
<1>4. CASE f = "xz"
  <2>1. t = <<253, 55, 122, 88, 90, 0>>
    BY <1>4 DEF Magic
  <2>2. t \in Seq(Nat)
    BY <2>1
  <2>3. Len(t) = 6 /\ t[1] = 253
    BY <2>1
  <2> QED
    BY <1>4, <2>2, <2>3
<1> QED
  BY <1>1, <1>2, <1>3, <1>4 DEF Format

\* A magic number is compared byte by byte.
LEMMA StartsWithEach ==
  ASSUME NEW m \in Seq(Nat), Len(m) = 6, NEW f \in Format
  PROVE  StartsWith(m, f) <=> \A i \in 1 .. Len(Magic[f]) : m[i] = Magic[f][i]
<1> DEFINE t == Magic[f]
           s == SubSeq(m, 1, Len(t))
<1>1. t \in Seq(Nat) /\ Len(t) \in 1 .. 6
  BY MagicBytes
<1>2. \A i \in 1 .. Len(t) : m[i] \in Nat
  <2> HIDE DEF t
  <2>1. \A i \in 1 .. Len(t) : i \in 1 .. Len(m)
    <3>1. PICK n \in 1 .. 6 : n = Len(t)
      BY <1>1
    <3>2. \A i \in 1 .. n : i \in 1 .. 6
      OBVIOUS
    <3> QED
      BY <3>1, <3>2
  <2> QED
    BY <2>1, ElementOfSeq
<1>3. s \in Seq(Nat) /\ Len(s) = Len(t) /\ \A i \in 1 .. Len(t) : s[i] = m[i]
  <2> HIDE DEF t
  <2> QED
    BY <1>1, <1>2, SubSeqProperties
<1>4. s = t <=> \A i \in 1 .. Len(t) : m[i] = t[i]
  <2> HIDE DEF s, t
  <2>1. (\A i \in 1 .. Len(t) : s[i] = t[i]) => s = t
    BY <1>1, <1>3, SeqEqual
  <2> QED
    BY <1>3, <2>1
<1> QED
  BY <1>4 DEF StartsWith

\* No step takes the body for a compressed one of another format, and one that has
\* its whole magic number before it finds the right one.
THEOREM FormatDetected == Spec => DetectsFormat
<1> DEFINE Right == detected' # detected =>
                      /\ detected' \in {fmt, "plain"}
                      /\ Len(got) >= Len(Magic[fmt]) => detected' = fmt
<1>1. IInv /\ [Next]_vars => [Right]_vars
  <2> SUFFICES ASSUME IInv, Next, detected' # detected PROVE Right
    OBVIOUS
  <2>1. Detect
    BY DEF Next, SendChunk, DropTx, ReaderStep, Copy, Receive, ReadEof, Read, Terminated,
           readVars, vars
  <2> DEFINE m == [i \in 1 .. 6 |-> IF i <= Len(got) THEN ByteAt(i) ELSE 0]
             L == Len(got)
  <2>2. L \in Nat /\ fmt \in Format
    BY DEF IInv, TypeOK
  <2>3. \A i \in 1 .. 6 : ByteAt(i) \in Nat
    <3> TAKE i \in 1 .. 6
    <3>1. \A f \in Format : Magic[f] \in Seq(Nat)
      BY MagicBytes DEF Format
    <3>2. i <= Len(Magic[fmt]) => Magic[fmt][i] \in Nat
      BY <2>2, <3>1, ElementOfSeq
    <3> QED
      BY <3>2 DEF ByteAt
  <2>4. \A i \in 1 .. 6 : m[i] \in Nat
    BY <2>3
  <2>5. m \in Seq(Nat) /\ Len(m) = 6
    BY <2>4, IsASeq
  <2> HIDE DEF m
  <2>6. \A f \in Format : StartsWith(m, f) <=> \A i \in 1 .. Len(Magic[f]) : m[i] = Magic[f][i]
    BY <2>5, StartsWithEach
  <2>7. detected' = IF StartsWith(m, "zstd") THEN "zstd"
                    ELSE IF StartsWith(m, "gzip") THEN "gzip"
                    ELSE IF StartsWith(m, "xz") THEN "xz" ELSE "plain"
    BY <2>1 DEF Detect, m
  <2>8. \A i \in 1 .. 6 : i <= Len(Magic[fmt]) => m[i] = IF i <= L THEN Magic[fmt][i] ELSE 0
    BY DEF m, ByteAt
  <2>9. \A f \in Format : Len(Magic[f]) \in 1 .. 6
    BY MagicBytes
  <2>10. L >= Len(Magic[fmt]) => StartsWith(m, fmt)
    <3>1. PICK n \in 1 .. 6 : n = Len(Magic[fmt])
      BY <2>2, <2>9
    <3>2. ASSUME L >= n, NEW i \in 1 .. n PROVE m[i] = Magic[fmt][i]
      <4>1. i \in 1 .. 6 /\ i <= n /\ i <= L
        BY <2>2, <3>2
      <4> QED
        BY <2>8, <3>1, <4>1
    <3> QED
      BY <2>2, <2>6, <3>1, <3>2
  <2>11. ASSUME NEW f \in {"zstd", "gzip", "xz"}, f # fmt PROVE ~StartsWith(m, f)
    <3>1. 1 \in 1 .. 6 /\ 1 <= Len(Magic[fmt]) /\ 1 \in 1 .. Len(Magic[f]) /\ f \in Format
      <4>1. f \in Format
        BY DEF Format
      <4>2. \A n \in 1 .. 6 : 1 <= n /\ 1 \in 1 .. n
        OBVIOUS
      <4>3. 1 \in 1 .. 6
        OBVIOUS
      <4>4. Len(Magic[f]) \in 1 .. 6 /\ Len(Magic[fmt]) \in 1 .. 6
        BY <2>2, <2>9, <4>1
      <4> QED
        BY <4>1, <4>2, <4>3, <4>4, Zenon
    <3>2. m[1] = Magic[fmt][1] \/ m[1] = 0
      BY <2>8, <3>1
    <3>3. Magic[f][1] # 0 /\ Magic[f][1] # Magic[fmt][1]
      <4>1. \A g \in Format : Magic[g][1] = CASE g = "plain" -> 61 [] g = "zstd" -> 40
                                                [] g = "gzip" -> 31 [] g = "xz" -> 253
        BY MagicBytes DEF Format
      <4> QED
        BY <2>2, <2>11, <3>1, <4>1 DEF Format
    <3> QED
      BY <2>6, <3>1, <3>2, <3>3
  <2> QED
    BY <2>2, <2>7, <2>10, <2>11 DEF Format
<1> QED
  BY <1>1, Invariance, PTL DEF Spec, DetectsFormat

=============================================================================
