-------------------------- MODULE CrashdumpDbProofs --------------------------
(***************************************************************************)
(* Theorems about CrashdumpDb, for all addresses, blobs, bucket and frame  *)
(* sizes, and any number of threads.                                       *)
(***************************************************************************)
EXTENDS CrashdumpDbInv, SequenceTheorems, WellFoundedInduction, TLAPS

-----------------------------------------------------------------------------
(* Binary search, and chunks of a file.                                    *)

\* There is a least number in every set of them that is not empty.
LEMMA LeastExists ==
  ASSUME NEW T, T \subseteq Nat, T # {}
  PROVE  \E x \in T : \A y \in T : x <= y
<1> DEFINE R == OpToRel(<, Nat)
<1>1. PICK x \in T : \A y \in T : <<y, x>> \notin R
  BY NatLessThanWellFounded, WFMin
<1>2. ASSUME NEW y \in T PROVE x <= y
  <2>1. x \in Nat /\ y \in Nat
    OBVIOUS
  <2>2. y < x => <<y, x>> \in R
    BY <2>1 DEF OpToRel
  <2> HIDE DEF R
  <2> QED
    BY <1>1, <2>1, <2>2
<1> QED
  BY <1>2

\* partition_point on keys that ascend splits them at x.
LEMMA PartitionPointSplits ==
  ASSUME NEW keys \in Seq(Int), NEW x \in Int,
         \A i, j \in 1 .. Len(keys) : i < j => keys[i] <= keys[j]
  PROVE  /\ PartitionPoint(keys, x) \in 0 .. Len(keys)
         /\ \A i \in 1 .. PartitionPoint(keys, x) : keys[i] <= x
         /\ \A i \in PartitionPoint(keys, x) + 1 .. Len(keys) : keys[i] > x
<1> DEFINE L == Len(keys)
           T == {k \in 0 .. L : k = L \/ keys[k + 1] > x}
           Splits(k) == /\ \A i \in 1 .. k : keys[i] <= x
                        /\ \A i \in k + 1 .. L : keys[i] > x
<1>1. L \in Nat /\ \A i \in 1 .. L : keys[i] \in Int
  BY ElementOfSeq
<1>2. PICK k \in T : \A y \in T : k <= y
  <2>1. T \subseteq Nat /\ L \in T
    BY <1>1
  <2> QED
    BY <2>1, LeastExists
<1>3. k \in 0 .. L /\ (k = L \/ keys[k + 1] > x)
  BY <1>2
<1>4. ASSUME NEW i \in 1 .. k PROVE keys[i] <= x
  <2>1. i - 1 \in 0 .. L /\ i - 1 < k /\ (i - 1) + 1 = i /\ i \in 1 .. L
    BY <1>1, <1>3
  <2>2. i - 1 \notin T
    <3> HIDE DEF T
    <3> QED
      BY <1>2, <1>3, <2>1
  <2>3. keys[i] \in Int /\ ~(keys[i] > x)
    BY <1>1, <2>1, <2>2
  <2> QED
    BY <2>3
<1>5. ASSUME NEW i \in k + 1 .. L PROVE keys[i] > x
  <2>1. k # L /\ k + 1 \in 1 .. L /\ i \in 1 .. L /\ k + 1 <= i
    BY <1>1, <1>3
  <2>2. keys[k + 1] > x /\ keys[k + 1] <= keys[i]
    BY <1>1, <1>3, <2>1
  <2> QED
    BY <1>1, <2>1, <2>2
<1>6. \E j \in 0 .. L : Splits(j)
  BY <1>3, <1>4, <1>5
<1>7. PartitionPoint(keys, x) = CHOOSE j \in 0 .. L : Splits(j)
  BY DEF PartitionPoint
<1> HIDE DEF L, Splits
<1>8. PartitionPoint(keys, x) \in 0 .. L /\ Splits(PartitionPoint(keys, x))
  BY <1>6, <1>7
<1> QED
  BY <1>8 DEF L, Splits

\* new is the file with the content appended as the chunk c.
Extended(C, file, content, c, new) ==
  /\ new \in Files(C) /\ Laid(new) /\ Len(new) = Len(file) + 1
  /\ c.content = content /\ c.pos \in Nat /\ c.size \in Nat \ {0}
  /\ \A i \in 1 .. Len(file) : new[i] = file[i]
  /\ new[Len(file) + 1] = c

\* A chunk goes to the end of its file, clear of the others.
LEMMA ChunkAppended ==
  ASSUME NEW C, NEW file \in Files(C), Laid(file), NEW content \in Seq(C),
         NEW c, c = Chunk(file, content), NEW new, new = Append(file, c)
  PROVE  Extended(C, file, content, c, new)
<1> DEFINE R == [pos : Nat, size : Nat \ {0}, content : Seq(C)]
           L == Len(file)
<1>1. file \in Seq(R) /\ L \in Nat /\ \A i \in 1 .. L : file[i] \in R
  <2>1. file \in Seq(R)
    BY DEF Files
  <2> HIDE DEF R
  <2> QED
    BY <2>1, ElementOfSeq
<1>2. FilePos(file) \in Nat /\ \A i \in 1 .. L : file[i].pos + file[i].size <= FilePos(file)
  <2>1. CASE file = <<>>
    BY <2>1 DEF FilePos
  <2>2. CASE file # <<>>
    <3>1. L \in 1 .. L /\ FilePos(file) = file[L].pos + file[L].size /\ file[L] \in R
      BY <1>1, <2>2 DEF FilePos
    <3>2. ASSUME NEW i \in 1 .. L PROVE file[i].pos + file[i].size <= FilePos(file)
      <4>1. i = L \/ i < L
        BY <1>1
      <4>2. i < L => file[i].pos + file[i].size <= file[L].pos
        BY <3>1 DEF Laid
      <4> QED
        BY <1>1, <3>1, <4>1, <4>2
    <3> QED
      BY <3>1, <3>2
  <2> QED
    BY <2>1, <2>2
<1>3. c \in R /\ c.pos = FilePos(file) /\ c.content = content
  BY <1>2, LenProperties DEF Chunk, CompressedLen
<1> HIDE DEF R
<1>4. /\ new \in Seq(R) /\ Len(new) = L + 1 /\ new[L + 1] = c
      /\ \A i \in 1 .. L : new[i] = file[i]
  BY <1>1, <1>3, AppendProperties
<1>5. Laid(new)
  <2> SUFFICES ASSUME NEW i \in 1 .. L + 1, NEW j \in 1 .. L + 1, i < j
               PROVE  new[i].pos + new[i].size <= new[j].pos
    BY <1>4 DEF Laid
  <2>1. i \in 1 .. L /\ new[i] = file[i]
    BY <1>1, <1>4
  <2>2. CASE j = L + 1
    BY <1>2, <1>3, <1>4, <2>1, <2>2
  <2>3. CASE j # L + 1
    <3>0. L \in Nat /\ j \in 1 .. L
      <4>1. L \in Nat
        BY <1>1
      <4> HIDE DEF L
      <4> QED
        BY <2>3, <4>1
    <3>1. j \in 1 .. L /\ new[j] = file[j]
      BY <1>4, <3>0
    <3> QED
      BY <2>1, <3>1 DEF Laid
  <2> QED
    BY <2>2, <2>3
<1>6. c.pos \in Nat /\ c.size \in Nat \ {0}
  BY <1>3 DEF R
<1> QED
  BY <1>3, <1>4, <1>5, <1>6 DEF Files, R, Extended

\* A chunk is read where the index says it lies.
LEMMA ChunkRead ==
  ASSUME NEW C, NEW file \in Files(C), Laid(file), NEW i \in 1 .. Len(file)
  PROVE  /\ ReadAt(file, file[i].pos, file[i].size) = file[i].content
         /\ \A j \in 1 .. Len(file) : file[j].pos = file[i].pos => j = i
<1>1. \A j \in 1 .. Len(file) : file[j].pos \in Nat /\ file[j].size \in Nat \ {0}
  <2> DEFINE R == [pos : Nat, size : Nat \ {0}, content : Seq(C)]
  <2>1. file \in Seq(R)
    BY DEF Files
  <2>2. \A j \in 1 .. Len(file) : file[j] \in R
    <3> HIDE DEF R
    <3> QED
      BY <2>1, ElementOfSeq
  <2> QED
    BY <2>2
<1>2. \A j \in 1 .. Len(file) : file[j].pos = file[i].pos => j = i
  <2> SUFFICES ASSUME NEW j \in 1 .. Len(file), j # i PROVE file[j].pos # file[i].pos
    OBVIOUS
  <2>1. i < j \/ j < i
    OBVIOUS
  <2>2. DOMAIN file = 1 .. Len(file)
    BY DEF Files
  <2> QED
    BY <1>1, <2>1, <2>2 DEF Laid
<1>3. DOMAIN file = 1 .. Len(file)
  BY DEF Files
<1> QED
  BY <1>2, <1>3 DEF ReadAt

-----------------------------------------------------------------------------
(* The writer: the buckets and their index.                                *)

SparseEntry == [first_addr : Addr, pos : Nat, size : Nat]
FrameEntry  == [start : Nat, pos : Nat, size : Nat]

IndexType ==
  /\ index_bucket \in Seq(IndexEntry) /\ index_file \in Files(IndexEntry)
  /\ sparse_index \in Seq(SparseEntry)
DataType ==
  /\ data_buffer \in Seq(Byte) /\ data_file \in Files(Byte)
  /\ data_frames \in Seq(FrameEntry)
  /\ data_uncompressed_offset \in Nat /\ data_frame_uncompressed_start \in Nat

\* The members of a file of chunks, and of a sequence.
LEMMA Members ==
  /\ \A C : \A file \in Files(C) :
       /\ DOMAIN file = 1 .. Len(file) /\ Len(file) \in Nat
       /\ \A i \in 1 .. Len(file) :
            /\ file[i].pos \in Nat /\ file[i].size \in Nat \ {0}
            /\ file[i].content \in Seq(C)
  /\ \A S : \A q \in Seq(S) :
       DOMAIN q = 1 .. Len(q) /\ Len(q) \in Nat /\ \A k \in 1 .. Len(q) : q[k] \in S
<1>1. ASSUME NEW S, NEW q \in Seq(S)
      PROVE  DOMAIN q = 1 .. Len(q) /\ Len(q) \in Nat /\ \A k \in 1 .. Len(q) : q[k] \in S
  BY ElementOfSeq
<1>2. ASSUME NEW C, NEW file \in Files(C)
      PROVE  /\ DOMAIN file = 1 .. Len(file) /\ Len(file) \in Nat
             /\ \A i \in 1 .. Len(file) :
                  /\ file[i].pos \in Nat /\ file[i].size \in Nat \ {0}
                  /\ file[i].content \in Seq(C)
  <2> DEFINE R == [pos : Nat, size : Nat \ {0}, content : Seq(C)]
  <2>1. file \in Seq(R)
    BY DEF Files
  <2>2. DOMAIN file = 1 .. Len(file) /\ Len(file) \in Nat
        /\ \A i \in 1 .. Len(file) : file[i] \in R
    <3> HIDE DEF R
    <3> QED
      BY <1>1, <2>1
  <2> QED
    BY <2>2
<1> QED
  BY <1>1, <1>2

LEMMA EntriesMember ==
  ASSUME NEW bucket, NEW file,
         NEW E, E = { bucket[k] : k \in DOMAIN bucket } \cup
                    UNION { { file[i].content[k] : k \in DOMAIN file[i].content } :
                              i \in DOMAIN file },
         NEW x
  PROVE  x \in E <=> \/ \E k \in DOMAIN bucket : x = bucket[k]
                     \/ \E i \in DOMAIN file : \E k \in DOMAIN file[i].content :
                          x = file[i].content[k]
<1>1. x \in E <=> \/ x \in { bucket[k] : k \in DOMAIN bucket }
                  \/ x \in UNION { { file[i].content[k] : k \in DOMAIN file[i].content } :
                                    i \in DOMAIN file }
  OBVIOUS
<1> QED
  BY <1>1

\* A bucket is kept, or written to the file and entered in the sparse index.
LEMMA IndexStep ==
  ASSUME IndexType, IndexInv, NEW b \in Seq(IndexEntry), Ascends(b),
         \A i \in DOMAIN index_file : Below(index_file[i].content, b),
         (b # <<>> /\ FlushIndexBucket(b)) \/ KeepIndexBucket(b)
  PROVE  /\ IndexType' /\ IndexInv' /\ index_bucket' \in {b, <<>>}
         /\ Entries' = {b[k] : k \in DOMAIN b} \cup
                       UNION { { index_file[i].content[k] : k \in DOMAIN index_file[i].content } :
                                 i \in DOMAIN index_file }
<1> DEFINE L == Len(index_file)
<1>1. CASE KeepIndexBucket(b)
  BY <1>1 DEF KeepIndexBucket, IndexType, IndexInv, Entries
<1>2. CASE b # <<>> /\ FlushIndexBucket(b)
  <2> DEFINE c == Chunk(index_file, b)
             e == [first_addr |-> b[1].addr, pos |-> c.pos, size |-> c.size]
  <2>1. /\ index_file' = Append(index_file, c) /\ sparse_index' = Append(sparse_index, e)
        /\ index_bucket' = <<>>
    BY <1>2 DEF FlushIndexBucket
  <2>2. /\ index_file' \in Files(IndexEntry) /\ Laid(index_file)' /\ Len(index_file') = L + 1
        /\ c.content = b /\ c.pos \in Nat /\ c.size \in Nat \ {0}
        /\ \A i \in 1 .. L : index_file'[i] = index_file[i]
        /\ index_file'[L + 1] = c
    <3>1. index_file \in Files(IndexEntry) /\ Laid(index_file)
      BY DEF IndexType, IndexInv
    <3>2. PICK d : d = c /\ index_file' = Append(index_file, d) /\ d = Chunk(index_file, b)
      BY <2>1
    <3> HIDE DEF c
    <3>3. Laid(index_file)' <=> Laid(index_file')
      BY DEF Laid
    <3>4. Extended(IndexEntry, index_file, b, d, Append(index_file, d))
      BY <3>1, <3>2, ChunkAppended
    <3> QED
      BY <3>2, <3>3, <3>4 DEF Extended
  <2>3. 1 \in 1 .. Len(b) /\ b[1] \in IndexEntry /\ L \in Nat /\ Len(sparse_index) = L
        /\ DOMAIN index_file = 1 .. L /\ DOMAIN index_file' = 1 .. L + 1
    BY <1>2, <2>2, Members DEF IndexType, IndexInv
  <2> HIDE DEF c
  <2>4. e \in SparseEntry /\ e.first_addr = b[1].addr /\ e.pos = c.pos /\ e.size = c.size
    BY <2>2, <2>3 DEF SparseEntry, IndexEntry
  <2> HIDE DEF e
  <2>5. /\ sparse_index' \in Seq(SparseEntry) /\ Len(sparse_index') = L + 1
        /\ \A i \in 1 .. L : sparse_index'[i] = sparse_index[i]
        /\ sparse_index'[L + 1] = e
    BY <2>1, <2>3, <2>4, AppendProperties DEF IndexType
  <2>6. IndexType'
    BY <2>1, <2>2, <2>5, EmptySeq DEF IndexType
  <2>7. ASSUME NEW i \in 1 .. L + 1
        PROVE  /\ index_file'[i].content # <<>> /\ Ascends(index_file'[i].content)
               /\ sparse_index'[i].first_addr = index_file'[i].content[1].addr
               /\ sparse_index'[i].pos = index_file'[i].pos
               /\ sparse_index'[i].size = index_file'[i].size
    <3>1. CASE i \in 1 .. L
      BY <2>2, <2>3, <2>5, <3>1 DEF IndexInv
    <3>2. CASE i = L + 1
      BY <1>2, <2>2, <2>4, <2>5, <3>2
    <3> QED
      BY <2>3, <3>1, <3>2
  <2>8. ASSUME NEW i \in 1 .. L + 1, NEW j \in 1 .. L + 1, i < j
        PROVE  Below(index_file'[i].content, index_file'[j].content)
    <3>1. i \in 1 .. L
      BY <2>3, <2>8
    <3>2. CASE j \in 1 .. L
      BY <2>2, <2>3, <2>8, <3>1, <3>2 DEF IndexInv
    <3>3. CASE j = L + 1
      BY <2>2, <2>3, <3>1, <3>3
    <3> QED
      BY <2>3, <3>2, <3>3
  <2>9. ASSUME NEW q PROVE Below(q, index_bucket') /\ Ascends(index_bucket')
    BY <2>1 DEF Below, Ascends
  <2>10. IndexInv'
    BY <2>2, <2>3, <2>5, <2>7, <2>8, <2>9 DEF IndexInv, Ascends
  <2>11. Entries' = {b[k] : k \in DOMAIN b} \cup
                    UNION { { index_file[i].content[k] : k \in DOMAIN index_file[i].content } :
                              i \in DOMAIN index_file }
    <3>1. ASSUME NEW x
          PROVE  x \in Entries' <=> \/ \E k \in DOMAIN b : x = b[k]
                                    \/ \E i \in 1 .. L : \E k \in DOMAIN index_file[i].content :
                                         x = index_file[i].content[k]
      <4> DEFINE P(q) == \E k \in DOMAIN q : x = q[k]
      <4>1. x \in Entries' <=> \E i \in 1 .. L + 1 : P(index_file'[i].content)
        <5>1. DOMAIN index_bucket' = {}
          BY <2>1
        <5>2. DOMAIN index_file' = 1 .. L + 1
          BY <2>3
        <5> QED
          BY <5>1, <5>2, EntriesMember DEF Entries
      <4>2. \A i \in 1 .. L + 1 : i \in 1 .. L \/ i = L + 1
        BY <2>3
      <4>3. L + 1 \in 1 .. L + 1 /\ \A i \in 1 .. L : i \in 1 .. L + 1
        BY <2>3
      <4>4. \A i \in 1 .. L : index_file'[i].content = index_file[i].content
        BY <2>2
      <4>5. index_file'[L + 1].content = b
        BY <2>2
      <4> HIDE DEF P
      <4>6. ASSUME NEW i \in 1 .. L + 1, P(index_file'[i].content)
            PROVE  P(b) \/ \E j \in 1 .. L : P(index_file[j].content)
        <5>1. CASE i \in 1 .. L
          BY <4>4, <4>6, <5>1
        <5>2. CASE i = L + 1
          BY <4>5, <4>6, <5>2
        <5> QED
          BY <4>2, <5>1, <5>2
      <4>7. ASSUME NEW i \in 1 .. L, P(index_file[i].content)
            PROVE  \E j \in 1 .. L + 1 : P(index_file'[j].content)
        BY <4>3, <4>4, <4>7
      <4>8. P(b) => \E j \in 1 .. L + 1 : P(index_file'[j].content)
        BY <4>3, <4>5
      <4>9. x \in Entries' <=> P(b) \/ \E i \in 1 .. L : P(index_file[i].content)
        BY <4>1, <4>6, <4>7, <4>8
      <4> QED
        BY <4>9 DEF P
    <3> QED
      BY <2>3, <3>1
  <2> QED
    BY <2>1, <2>6, <2>10, <2>11
<1> QED
  BY <1>1, <1>2

-----------------------------------------------------------------------------
(* The writer: the frames and their index.                                 *)

\* A stretch holds a blob if each of its bytes is at its place.
LEMMA HoldsBytes ==
  ASSUME NEW content \in Seq(Byte), NEW start \in Nat, NEW e \in IndexEntry
  PROVE  Holds(content, start, e) <=>
           /\ start <= e.off /\ e.off + e.len <= start + Len(content)
           /\ \A k \in 1 .. e.len : content[e.off - start + k] = <<e.addr, k>>
<1>1. PICK a \in Addr, off \in Nat, n \in Nat : e.addr = a /\ e.off = off /\ e.len = n
  BY DbAssump DEF IndexEntry
<1>2. SUFFICES ASSUME start <= off, off + n <= start + Len(content)
               PROVE  SubSeq(content, off - start + 1, off - start + n) = Blob(a, n) <=>
                        \A k \in 1 .. n : content[off - start + k] = <<a, k>>
  BY <1>1 DEF Holds
<1>3. PICK d \in Nat : d = off - start /\ d + n <= Len(content)
  <2>1. Len(content) \in Nat
    OBVIOUS
  <2> QED
    BY <1>2, <2>1
<1> DEFINE t == SubSeq(content, d + 1, d + n)
           u == Blob(a, n)
<1>4. t \in Seq(Byte) /\ Len(t) = n /\ \A k \in 1 .. n : t[k] = content[d + k]
  <2>1. \A k \in d + 1 .. d + n : k \in 1 .. Len(content)
    BY <1>3
  <2>2. \A k \in d + 1 .. d + n : content[k] \in Byte
    BY <2>1, ElementOfSeq
  <2>3. d + 1 \in Int /\ d + n \in Int
    OBVIOUS
  <2>4. /\ t \in Seq(Byte) /\ Len(t) = IF d + 1 <= d + n THEN d + n - (d + 1) + 1 ELSE 0
        /\ \A k \in 1 .. d + n - (d + 1) + 1 : t[k] = content[d + 1 + k - 1]
    BY <2>2, <2>3, SubSeqProperties
  <2> HIDE DEF t
  <2> QED
    BY <2>4
<1>5. u \in Seq(Byte) /\ Len(u) = n /\ \A k \in 1 .. n : u[k] = <<a, k>>
  <2>1. \A k \in 1 .. n : <<a, k>> \in Byte
    BY DbAssump DEF Byte
  <2> QED
    BY <2>1, IsASeq DEF Blob
<1> HIDE DEF t, u
<1>6. t = u <=> \A k \in 1 .. n : content[d + k] = <<a, k>>
  BY <1>4, <1>5, SeqEqual
<1> QED
  BY <1>3, <1>6 DEF t, u

Held(e) ==
  \/ Holds(data_buffer, data_frame_uncompressed_start, e)
  \/ \E i \in DOMAIN data_frames : Holds(data_file[i].content, data_frames[i].start, e)

\* The stream grows by what b has more than the buffer; b is kept, or becomes a
\* frame.  What was held is still held, and so is what b holds.
LEMMA DataStep ==
  ASSUME DataType, DataInv, NEW b \in Seq(Byte), NEW end \in Nat,
         Len(data_buffer) <= Len(b), \A k \in 1 .. Len(data_buffer) : b[k] = data_buffer[k],
         data_frame_uncompressed_start + Len(b) = end, data_uncompressed_offset' = end,
         (b # <<>> /\ FlushDataFrame(b, end)) \/ KeepDataFrame(b)
  PROVE  /\ DataType' /\ DataInv' /\ data_buffer' \in {b, <<>>}
         /\ \A e \in IndexEntry :
              Held(e) \/ Holds(b, data_frame_uncompressed_start, e) => Held(e)'
<1> DEFINE L == Len(data_file)
           s == data_frame_uncompressed_start
<1>1. /\ s \in Nat /\ L \in Nat /\ Len(data_frames) = L /\ Len(data_buffer) \in Nat /\ Len(b) \in Nat
      /\ DOMAIN data_file = 1 .. L /\ DOMAIN data_frames = 1 .. L
      /\ data_buffer \in Seq(Byte) /\ data_file \in Files(Byte) /\ data_frames \in Seq(FrameEntry)
      /\ \A i \in 1 .. L : data_file[i].content \in Seq(Byte) /\ Len(data_file[i].content) \in Nat
      /\ \A i \in 1 .. L : data_frames[i].start \in Nat
  <2>1. /\ s \in Nat /\ data_buffer \in Seq(Byte) /\ data_file \in Files(Byte)
        /\ data_frames \in Seq(FrameEntry) /\ Len(data_frames) = L
    BY DEF DataType, DataInv
  <2>2. /\ L \in Nat /\ Len(data_buffer) \in Nat /\ Len(b) \in Nat
        /\ DOMAIN data_file = 1 .. L /\ DOMAIN data_frames = 1 .. L
        /\ \A i \in 1 .. L : data_file[i].content \in Seq(Byte)
        /\ \A i \in 1 .. L : data_frames[i] \in FrameEntry
    BY <2>1, Members
  <2>3. \A i \in 1 .. L : data_frames[i].start \in Nat
    BY <2>2 DEF FrameEntry
  <2>4. \A i \in 1 .. L : Len(data_file[i].content) \in Nat
    BY <2>2, LenProperties
  <2> QED
    BY <2>1, <2>2, <2>3, <2>4
<1>2. ASSUME NEW e \in IndexEntry, Holds(data_buffer, s, e)
      PROVE  Holds(b, s, e)
  <2>1. PICK a \in Addr, off \in Nat, n \in Nat : e.addr = a /\ e.off = off /\ e.len = n
    BY DbAssump DEF IndexEntry
  <2>2. /\ s <= off /\ off + n <= s + Len(data_buffer)
        /\ \A k \in 1 .. n : data_buffer[off - s + k] = <<a, k>>
    BY <1>1, <1>2, <2>1, HoldsBytes
  <2>3. \A k \in 1 .. n : off - s + k \in 1 .. Len(data_buffer)
    BY <1>1, <2>2
  <2>4. /\ s <= off /\ off + n <= s + Len(b)
        /\ \A k \in 1 .. n : b[off - s + k] = <<a, k>>
    <3>1. ASSUME NEW k \in 1 .. n PROVE b[off - s + k] = <<a, k>>
      <4>1. b[off - s + k] = data_buffer[off - s + k]
        BY <2>3
      <4> QED
        BY <2>2, <4>1
    <3>2. off + n <= s + Len(b)
      BY <1>1, <2>2
    <3> QED
      BY <2>2, <3>1, <3>2
  <2> QED
    BY <1>1, <2>1, <2>4, HoldsBytes
<1>3. CASE KeepDataFrame(b)
  <2>1. data_buffer' = b /\ UNCHANGED <<data_file, data_frames, data_frame_uncompressed_start>>
    BY <1>3 DEF KeepDataFrame
  <2>2. DataType' /\ DataInv'
    BY <1>1, <2>1 DEF DataType, DataInv, Laid
  <2>3. \A e \in IndexEntry : Held(e) \/ Holds(b, s, e) => Held(e)'
    BY <1>2, <2>1 DEF Held
  <2> QED
    BY <2>1, <2>2, <2>3
<1>4. CASE b # <<>> /\ FlushDataFrame(b, end)
  <2> DEFINE c == Chunk(data_file, b)
             f == [start |-> s, pos |-> c.pos, size |-> c.size]
  <2>1. /\ data_file' = Append(data_file, c) /\ data_frames' = Append(data_frames, f)
        /\ data_frame_uncompressed_start' = end /\ data_buffer' = <<>>
    BY <1>4 DEF FlushDataFrame
  <2>2. /\ data_file' \in Files(Byte) /\ Laid(data_file)' /\ Len(data_file') = L + 1
        /\ c.content = b /\ c.pos \in Nat /\ c.size \in Nat \ {0}
        /\ \A i \in 1 .. L : data_file'[i] = data_file[i]
        /\ data_file'[L + 1] = c
    <3>1. data_file \in Files(Byte) /\ Laid(data_file)
      BY DEF DataType, DataInv
    <3>2. PICK d : d = c /\ data_file' = Append(data_file, d) /\ d = Chunk(data_file, b)
      BY <2>1
    <3> HIDE DEF c
    <3>3. Laid(data_file)' <=> Laid(data_file')
      BY DEF Laid
    <3>4. Extended(Byte, data_file, b, d, Append(data_file, d))
      BY <3>1, <3>2, ChunkAppended
    <3> QED
      BY <3>2, <3>3, <3>4 DEF Extended
  <2> HIDE DEF c
  <2>3. f \in FrameEntry /\ f.start = s /\ f.pos = c.pos /\ f.size = c.size
    BY <1>1, <2>2 DEF FrameEntry
  <2> HIDE DEF f
  <2>4. /\ data_frames' \in Seq(FrameEntry) /\ Len(data_frames') = L + 1 /\ data_frames' # <<>>
        /\ \A i \in 1 .. L : data_frames'[i] = data_frames[i]
        /\ data_frames'[L + 1] = f
    BY <1>1, <2>1, <2>3, AppendProperties
  <2>5. DataType'
    BY <2>1, <2>2, <2>4, EmptySeq DEF DataType
  <2>6. DataInv'
    <3>1. DOMAIN data_file' = 1 .. L + 1
      BY <2>2, Members
    <3>2. Len(b) \in Nat \ {0} /\ end = s + Len(b)
      BY <1>1, <1>4
    <3>3. data_frames' # <<>> /\ data_frames'[1].start = 0
      <4>1. CASE L = 0
        <5>1. data_frames = <<>> /\ s = 0
          BY <1>1, <4>1 DEF DataInv
        <5>2. L + 1 = 1
          BY <4>1
        <5> HIDE DEF L, s
        <5>3. data_frames'[1] = f /\ f.start = 0
          BY <2>3, <2>4, <5>1, <5>2
        <5>4. data_frames'[1].start = 0
          BY <5>3, Zenon
        <5> QED
          BY <2>4, <5>4
      <4>2. CASE L # 0
        <5>1. 1 \in 1 .. L /\ data_frames # <<>>
          BY <1>1, <4>2
        <5> QED
          BY <1>1, <2>4, <5>1 DEF DataInv
      <4> QED
        BY <4>1, <4>2
    <3>4. ASSUME NEW i \in 1 .. L + 1
          PROVE  /\ data_file'[i].content # <<>>
                 /\ data_frames'[i].pos = data_file'[i].pos
                 /\ data_frames'[i].size = data_file'[i].size
                 /\ data_frames'[i].start + Len(data_file'[i].content) =
                      IF i < L + 1 THEN data_frames'[i + 1].start ELSE end
                 /\ data_frames'[i].start + Len(data_file'[i].content) <= end
      <4>1. CASE i \in 1 .. L
        <5>1. /\ data_file'[i] = data_file[i] /\ data_frames'[i] = data_frames[i]
              /\ i < L + 1 /\ (i < L => i + 1 \in 1 .. L)
          BY <1>1, <2>2, <2>4, <4>1
        <5>2. data_frames[i].start + Len(data_file[i].content) =
                IF i < L THEN data_frames[i + 1].start ELSE s
          BY <1>1, <4>1 DEF DataInv
        <5>3. data_frames[i].start + Len(data_file[i].content) = data_frames'[i + 1].start
          <6>1. i < L => data_frames'[i + 1] = data_frames[i + 1]
            BY <2>4, <5>1
          <6>2. ~(i < L) => i = L
            <7>1. L \in Nat /\ i \in 1 .. L
              BY <1>1, <4>1
            <7> HIDE DEF L
            <7> QED
              BY <7>1
          <6>3. i = L => data_frames'[i + 1].start = s
            BY <2>3, <2>4
          <6> QED
            BY <5>2, <6>1, <6>2, <6>3
        <5>4. data_frames[i].start + Len(data_file[i].content) <= end
          <6>1. data_frames[i].start + Len(data_file[i].content) <= s
            BY <1>1, <4>1 DEF DataInv
          <6> QED
            BY <1>1, <3>2, <4>1, <6>1
        <5>5. /\ data_file[i].content # <<>> /\ data_frames[i].pos = data_file[i].pos
              /\ data_frames[i].size = data_file[i].size
          BY <1>1, <4>1 DEF DataInv
        <5> QED
          BY <5>1, <5>3, <5>4, <5>5
      <4>2. CASE i = L + 1
        BY <1>1, <1>4, <2>2, <2>3, <2>4, <3>2, <4>2
      <4> QED
        BY <1>1, <4>1, <4>2
    <3>5. ASSUME NEW i \in 1 .. L + 1, NEW j \in 1 .. L + 1, i < j
          PROVE  data_frames'[i].start + Len(data_file'[i].content) <= data_frames'[j].start
      <4>1. i \in 1 .. L /\ (j \in 1 .. L \/ j = L + 1)
        BY <1>1, <3>5
      <4>2. CASE j \in 1 .. L
        BY <1>1, <2>2, <2>4, <3>5, <4>1, <4>2 DEF DataInv
      <4>3. CASE j = L + 1
        BY <1>1, <2>2, <2>3, <2>4, <4>1, <4>3 DEF DataInv
      <4> QED
        BY <4>1, <4>2, <4>3
    <3>6. Len(data_buffer') = 0 /\ end + 0 = end
      BY <2>1
    <3>7. /\ Laid(data_file)' /\ Len(data_frames') = Len(data_file') /\ data_frames' # <<>>
          /\ data_frame_uncompressed_start' = end /\ Len(data_frames') = L + 1
          /\ data_frame_uncompressed_start' + Len(data_buffer') = data_uncompressed_offset'
      BY <2>1, <2>2, <2>4, <3>6
    <3> HIDE DEF L, s
    <3> QED
      BY <3>1, <3>3, <3>4, <3>5, <3>7 DEF DataInv
  <2>7. \A e \in IndexEntry : Held(e) \/ Holds(b, s, e) => Held(e)'
    <3> TAKE e \in IndexEntry
    <3>1. DOMAIN data_frames' = 1 .. L + 1
      BY <2>4, Members
    <3>2. Holds(b, s, e) => Held(e)'
      <4>1. L + 1 \in 1 .. L + 1
        BY <1>1
      <4>2. data_file'[L + 1].content = b /\ data_frames'[L + 1].start = s
        BY <2>2, <2>3, <2>4
      <4> QED
        BY <3>1, <4>1, <4>2 DEF Held
    <3>3. ASSUME NEW i \in 1 .. L, Holds(data_file[i].content, data_frames[i].start, e)
          PROVE  Held(e)'
      <4>1. i \in 1 .. L + 1
        BY <1>1
      <4> QED
        BY <2>2, <2>4, <3>1, <3>3, <4>1 DEF Held
    <3> QED
      BY <1>1, <1>2, <3>2, <3>3 DEF Held
  <2> QED
    BY <2>1, <2>5, <2>6, <2>7
<1> QED
  BY <1>3, <1>4

-----------------------------------------------------------------------------
(* The writer's steps.                                                     *)

WriterType ==
  /\ phase \in {"open", "flushed", "ready", "failed"} /\ meta \in {"none", "torn", "whole"}
  /\ IndexType /\ DataType
  /\ Len(index_bucket) < BUCKET_SIZE /\ Len(data_buffer) < DATA_FRAME_SIZE
  /\ inserted \in Seq(Addr \X BlobLen)

WriterOk == WriterType /\ EveryRecordIndexed /\ IndexInv /\ DataInv

LEMMA TypesSplit ==
  /\ TypeOK => WriterType
  /\ WriterType /\ ReaderType => TypeOK
<1>1. TypeOK => WriterType
  BY DEF TypeOK, WriterType, IndexType, DataType, SparseEntry, FrameEntry
<1>2. ASSUME WriterType, ReaderType, NEW t \in Thread
      PROVE  /\ th[t].pc \in {"idle", "bucket", "search", "frame", "done"}
             /\ th[t].lo \in Nat /\ th[t].hi \in Nat
             /\ th[t].res[1] \in {"none", "some", "no_frame", "io_error", "panic"}
  <2>1. th[t] \in GetState
    BY <1>2 DEF ReaderType
  <2>2. th[t].res \in Answer
    BY <2>1 DEF GetState
  <2> QED
    BY <2>1, <2>2 DEF GetState, Answer
<1> QED
  BY <1>1, <1>2 DEF TypeOK, WriterType, IndexType, DataType, SparseEntry, FrameEntry

\* Entries are where they are written, and have their types.
LEMMA EntriesAre ==
  ASSUME IndexType
  PROVE  /\ Entries \subseteq IndexEntry
         /\ \A k \in 1 .. Len(index_bucket) : index_bucket[k] \in Entries
         /\ \A i \in 1 .. Len(index_file) : \A k \in 1 .. Len(index_file[i].content) :
              index_file[i].content[k] \in Entries
<1>1. /\ DOMAIN index_bucket = 1 .. Len(index_bucket)
      /\ \A k \in 1 .. Len(index_bucket) : index_bucket[k] \in IndexEntry
  BY Members DEF IndexType
<1>2. /\ DOMAIN index_file = 1 .. Len(index_file)
      /\ \A i \in 1 .. Len(index_file) : index_file[i].content \in Seq(IndexEntry)
  BY Members DEF IndexType
<1>3. \A i \in 1 .. Len(index_file) :
        /\ DOMAIN index_file[i].content = 1 .. Len(index_file[i].content)
        /\ \A k \in 1 .. Len(index_file[i].content) : index_file[i].content[k] \in IndexEntry
  BY <1>2, Members
<1>4. \A x : x \in Entries <=>
        \/ \E k \in DOMAIN index_bucket : x = index_bucket[k]
        \/ \E i \in DOMAIN index_file : \E k \in DOMAIN index_file[i].content :
             x = index_file[i].content[k]
  BY EntriesMember DEF Entries
<1>5. \A i \in 1 .. Len(index_file) : \A k \in 1 .. Len(index_file[i].content) :
        index_file[i].content[k] \in Entries
  BY <1>2, <1>3, <1>4
<1>6. \A k \in 1 .. Len(index_bucket) : index_bucket[k] \in Entries
  BY <1>1, <1>4
<1>7. ASSUME NEW x \in Entries PROVE x \in IndexEntry
  <2>1. CASE \E k \in DOMAIN index_bucket : x = index_bucket[k]
    BY <1>1, <2>1
  <2>2. CASE \E i \in DOMAIN index_file : \E k \in DOMAIN index_file[i].content :
               x = index_file[i].content[k]
    BY <1>2, <1>3, <2>2
  <2> QED
    BY <1>4, <1>7, <2>1, <2>2
<1> QED
  BY <1>5, <1>6, <1>7

LEMMA InsertStep ==
  ASSUME WriterOk, NEW a \in Addr, NEW n \in BlobLen, Insert(a, n)
  PROVE  WriterOk'
<1> DEFINE new    == [addr |-> a, off |-> data_uncompressed_offset, len |-> n]
           bucket == Append(index_bucket, new)
           blob   == Blob(a, n)
           buffer == data_buffer \o blob
           end    == data_uncompressed_offset + n
           s      == data_frame_uncompressed_start
<1>1. /\ IndexType /\ DataType /\ IndexInv /\ DataInv /\ EveryRecordIndexed
      /\ inserted \in Seq(Addr \X BlobLen)
  BY DEF WriterOk, WriterType
<1>2. /\ a \in Nat /\ n \in Nat /\ s \in Nat /\ data_uncompressed_offset \in Nat
      /\ data_buffer \in Seq(Byte) /\ index_bucket \in Seq(IndexEntry) /\ end \in Nat
      /\ data_uncompressed_offset = s + Len(data_buffer)
  BY <1>1, DbAssump DEF DataType, IndexType, DataInv
<1>3. /\ new \in IndexEntry /\ new.addr = a /\ new.len = n
      /\ new.off = data_uncompressed_offset
  BY <1>2 DEF IndexEntry
<1>4. /\ blob \in Seq(Byte) /\ Len(blob) = n /\ \A k \in 1 .. n : blob[k] = <<a, k>>
  <2>1. \A k \in 1 .. n : <<a, k>> \in Byte
    BY <1>2 DEF Byte
  <2> QED
    BY <1>2, <2>1, IsASeq DEF Blob
<1> HIDE DEF new, blob
<1>5. ASSUME NEW e \in Entries PROVE e.addr < a /\ e.addr \in Nat
  <2>1. e \in IndexEntry /\ Stored(e.addr, e.len)
    BY <1>1, EntriesAre DEF EveryRecordIndexed
  <2>2. PICK i \in DOMAIN inserted : inserted[i] = <<e.addr, e.len>>
    BY <2>1 DEF Stored
  <2>3. inserted[i][1] < a /\ inserted[i][1] = e.addr
    BY <2>2 DEF Insert
  <2>4. e.addr \in Addr
    BY <2>1 DEF IndexEntry
  <2> QED
    BY <2>3, <2>4, DbAssump
<1>6. /\ bucket \in Seq(IndexEntry) /\ bucket # <<>> /\ Len(bucket) = Len(index_bucket) + 1
      /\ \A k \in 1 .. Len(index_bucket) : bucket[k] = index_bucket[k]
      /\ bucket[Len(index_bucket) + 1] = new
      /\ DOMAIN bucket = 1 .. Len(index_bucket) + 1 /\ Len(index_bucket) \in Nat
      /\ DOMAIN index_bucket = 1 .. Len(index_bucket)
  <2>1. /\ bucket \in Seq(IndexEntry) /\ Len(bucket) = Len(index_bucket) + 1
        /\ \A k \in 1 .. Len(index_bucket) : bucket[k] = index_bucket[k]
        /\ bucket[Len(index_bucket) + 1] = new
    BY <1>2, <1>3, AppendProperties
  <2>2. /\ Len(index_bucket) \in Nat /\ DOMAIN index_bucket = 1 .. Len(index_bucket)
        /\ DOMAIN bucket = 1 .. Len(index_bucket) + 1
    <3> HIDE DEF bucket
    <3> QED
      BY <1>2, <2>1, LenProperties
  <2>3. bucket # <<>>
    <3> HIDE DEF bucket
    <3> QED
      BY <2>1, <2>2, EmptySeq
  <2> QED
    BY <2>1, <2>2, <2>3
<1> HIDE DEF bucket
<1>7. Ascends(bucket)
  <2> SUFFICES ASSUME NEW k \in 1 .. Len(index_bucket) + 1, NEW l \in 1 .. Len(index_bucket) + 1, k < l
               PROVE  bucket[k].addr < bucket[l].addr
    BY <1>6 DEF Ascends
  <2>1. k \in 1 .. Len(index_bucket) /\ (l \in 1 .. Len(index_bucket) \/ l = Len(index_bucket) + 1)
    BY <1>6
  <2>2. CASE l \in 1 .. Len(index_bucket)
    BY <1>1, <1>6, <2>1, <2>2 DEF IndexInv, Ascends
  <2>3. CASE l = Len(index_bucket) + 1
    BY <1>1, <1>3, <1>5, <1>6, <2>1, <2>3, EntriesAre
  <2> QED
    BY <2>1, <2>2, <2>3
<1>8. ASSUME NEW i \in DOMAIN index_file PROVE Below(index_file[i].content, bucket)
  <2>1. i \in 1 .. Len(index_file) /\ index_file[i].content \in Seq(IndexEntry)
    BY <1>1, Members DEF IndexType
  <2>2. DOMAIN index_file[i].content = 1 .. Len(index_file[i].content)
    BY <2>1, Members
  <2> SUFFICES ASSUME NEW k \in 1 .. Len(index_file[i].content), NEW l \in 1 .. Len(index_bucket) + 1
               PROVE  index_file[i].content[k].addr < bucket[l].addr
    BY <1>6, <2>2 DEF Below
  <2>3. l \in 1 .. Len(index_bucket) \/ l = Len(index_bucket) + 1
    BY <1>6
  <2>4. CASE l \in 1 .. Len(index_bucket)
    BY <1>1, <1>6, <2>1, <2>2, <2>4 DEF IndexInv, Below
  <2>5. CASE l = Len(index_bucket) + 1
    BY <1>1, <1>3, <1>5, <1>6, <2>1, <2>5, EntriesAre
  <2> QED
    BY <2>3, <2>4, <2>5
<1>9. /\ IF Len(bucket) >= BUCKET_SIZE THEN FlushIndexBucket(bucket) ELSE KeepIndexBucket(bucket)
      /\ IF Len(buffer) >= DATA_FRAME_SIZE THEN FlushDataFrame(buffer, end) ELSE KeepDataFrame(buffer)
      /\ inserted' = Append(inserted, <<a, n>>) /\ phase' = phase /\ meta' = meta
      /\ data_uncompressed_offset' = end
  BY DEF Insert, bucket, new, blob
<1>10. /\ IndexType' /\ IndexInv' /\ index_bucket' \in {bucket, <<>>}
       /\ Entries' = {bucket[k] : k \in DOMAIN bucket} \cup
                     UNION { { index_file[i].content[k] : k \in DOMAIN index_file[i].content } :
                               i \in DOMAIN index_file }
  BY <1>1, <1>6, <1>7, <1>8, <1>9, IndexStep
<1>11. ASSUME NEW x PROVE x \in Entries' <=> x \in Entries \/ x = new
  <2>1. x \in Entries' <=> \/ \E k \in DOMAIN bucket : x = bucket[k]
                           \/ \E i \in DOMAIN index_file : \E k \in DOMAIN index_file[i].content :
                                x = index_file[i].content[k]
    BY <1>10, EntriesMember
  <2>2. x \in Entries <=> \/ \E k \in DOMAIN index_bucket : x = index_bucket[k]
                          \/ \E i \in DOMAIN index_file : \E k \in DOMAIN index_file[i].content :
                               x = index_file[i].content[k]
    BY EntriesMember DEF Entries
  <2>3. (\E k \in DOMAIN bucket : x = bucket[k]) <=>
          (\E k \in DOMAIN index_bucket : x = index_bucket[k]) \/ x = new
    BY <1>6
  <2> QED
    BY <2>1, <2>2, <2>3
<1>12. /\ buffer \in Seq(Byte) /\ Len(buffer) = Len(data_buffer) + n
       /\ \A k \in 1 .. Len(data_buffer) : buffer[k] = data_buffer[k]
       /\ \A k \in 1 .. n : buffer[Len(data_buffer) + k] = <<a, k>>
       /\ Len(data_buffer) \in Nat
  <2>1. /\ buffer \in Seq(Byte) /\ Len(buffer) = Len(data_buffer) + n
        /\ \A k \in 1 .. Len(data_buffer) + n :
             buffer[k] = IF k <= Len(data_buffer) THEN data_buffer[k] ELSE blob[k - Len(data_buffer)]
    BY <1>2, <1>4, ConcatProperties
  <2>2. Len(data_buffer) \in Nat
    BY <1>2
  <2> HIDE DEF buffer
  <2>3. ASSUME NEW k \in 1 .. n PROVE buffer[Len(data_buffer) + k] = <<a, k>>
    <3>1. /\ Len(data_buffer) + k \in 1 .. Len(data_buffer) + n /\ ~(Len(data_buffer) + k <= Len(data_buffer))
          /\ Len(data_buffer) + k - Len(data_buffer) = k
      BY <1>2, <2>2
    <3> QED
      BY <1>4, <2>1, <3>1
  <2>4. ASSUME NEW k \in 1 .. Len(data_buffer) PROVE buffer[k] = data_buffer[k]
    <3>1. k \in 1 .. Len(data_buffer) + n /\ k <= Len(data_buffer)
      BY <1>2, <2>2
    <3> QED
      BY <2>1, <3>1
  <2> QED
    BY <2>1, <2>2, <2>3, <2>4
<1> HIDE DEF buffer
<1>13. Holds(buffer, s, new)
  <2>1. s + Len(data_buffer) - s = Len(data_buffer) /\ s <= s + Len(data_buffer)
        /\ s + Len(data_buffer) + n <= s + (Len(data_buffer) + n)
    BY <1>2, <1>12
  <2> HIDE DEF s
  <2>2. s <= new.off /\ new.off + new.len <= s + Len(buffer)
    BY <1>2, <1>3, <1>12, <2>1
  <2>3. ASSUME NEW k \in 1 .. n PROVE buffer[new.off - s + k] = <<a, k>>
    <3>1. new.off - s = Len(data_buffer)
      BY <1>2, <1>3, <2>1
    <3>2. buffer[Len(data_buffer) + k] = <<a, k>>
      BY <1>12
    <3> QED
      BY <3>1, <3>2
  <2> QED
    BY <1>2, <1>3, <1>12, <2>2, <2>3, HoldsBytes
<1>14. /\ DataType' /\ DataInv' /\ data_buffer' \in {buffer, <<>>}
       /\ \A e \in IndexEntry : Held(e) \/ Holds(buffer, s, e) => Held(e)'
  <2>1. /\ Len(data_buffer) <= Len(buffer) /\ s + Len(buffer) = end
        /\ Len(buffer) >= DATA_FRAME_SIZE => buffer # <<>>
    BY <1>2, <1>12, DbAssump
  <2>2. (buffer # <<>> /\ FlushDataFrame(buffer, end)) \/ KeepDataFrame(buffer)
    BY <1>9, <2>1
  <2> HIDE DEF end
  <2> QED
    BY <1>1, <1>2, <1>9, <1>12, <2>1, <2>2, DataStep
<1>15. EveryRecordIndexed'
  <2>1. /\ inserted' = Append(inserted, <<a, n>>) /\ <<a, n>> \in Addr \X BlobLen
        /\ inserted \in Seq(Addr \X BlobLen)
    BY <1>1, <1>9
  <2>2. /\ DOMAIN inserted = 1 .. Len(inserted) /\ DOMAIN inserted' = 1 .. Len(inserted) + 1
        /\ \A i \in 1 .. Len(inserted) : inserted'[i] = inserted[i]
        /\ inserted'[Len(inserted) + 1] = <<a, n>> /\ Len(inserted) \in Nat
    BY <2>1, AppendProperties, Members
  <2>3. ASSUME NEW i \in DOMAIN inserted'
        PROVE  \E e \in Entries' : e.addr = inserted'[i][1] /\ e.len = inserted'[i][2]
    <3>1. CASE i \in 1 .. Len(inserted)
      <4>1. PICK e \in Entries : e.addr = inserted[i][1] /\ e.len = inserted[i][2]
        BY <1>1, <2>2, <3>1 DEF EveryRecordIndexed
      <4> QED
        BY <1>11, <2>2, <3>1, <4>1
    <3>2. CASE i = Len(inserted) + 1
      BY <1>3, <1>11, <2>2, <3>2
    <3> QED
      BY <2>2, <3>1, <3>2
  <2>4. ASSUME NEW e \in Entries' PROVE Stored(e.addr, e.len)'
    <3>1. CASE e \in Entries
      <4>1. PICK i \in 1 .. Len(inserted) : inserted[i] = <<e.addr, e.len>>
        BY <1>1, <2>2, <3>1 DEF EveryRecordIndexed, Stored
      <4>2. i \in DOMAIN inserted' /\ inserted'[i] = <<e.addr, e.len>>
        BY <2>2, <4>1
      <4> QED
        BY <4>2 DEF Stored
    <3>2. CASE e = new
      <4>1. Len(inserted) + 1 \in DOMAIN inserted'
        BY <2>2
      <4> QED
        BY <1>3, <2>2, <3>2, <4>1 DEF Stored
    <3> QED
      BY <1>11, <2>4, <3>1, <3>2
  <2>5. ASSUME NEW e \in Entries' PROVE Held(e)'
    <3>1. e \in IndexEntry /\ (e \in Entries => Held(e))
      BY <1>1, <1>3, <1>11, <2>5, EntriesAre DEF EveryRecordIndexed, Held
    <3> QED
      BY <1>11, <1>13, <1>14, <2>5, <3>1
  <2> QED
    BY <2>3, <2>4, <2>5 DEF EveryRecordIndexed, Held
<1>16. WriterType'
  <2>1. inserted' \in Seq(Addr \X BlobLen)
    BY <1>1, <1>9, AppendProperties
  <2>2. Len(index_bucket') < BUCKET_SIZE
    <3>1. CASE Len(bucket) >= BUCKET_SIZE
      BY <1>9, <3>1, DbAssump DEF FlushIndexBucket
    <3>2. CASE ~(Len(bucket) >= BUCKET_SIZE)
      BY <1>6, <1>9, <3>2, DbAssump DEF KeepIndexBucket
    <3> QED
      BY <3>1, <3>2
  <2>3. Len(data_buffer') < DATA_FRAME_SIZE
    <3>1. CASE Len(buffer) >= DATA_FRAME_SIZE
      BY <1>9, <3>1, DbAssump DEF FlushDataFrame
    <3>2. CASE ~(Len(buffer) >= DATA_FRAME_SIZE)
      BY <1>2, <1>9, <1>12, <3>2, DbAssump DEF KeepDataFrame
    <3> QED
      BY <3>1, <3>2
  <2> QED
    BY <1>9, <1>10, <1>14, <2>1, <2>2, <2>3 DEF WriterType, WriterOk
<1> QED
  BY <1>10, <1>14, <1>15, <1>16 DEF WriterOk

LEMMA FlushStep ==
  ASSUME WriterOk, FlushRest
  PROVE  WriterOk' /\ index_bucket' = <<>> /\ data_buffer' = <<>>
<1>1. /\ IndexType /\ DataType /\ IndexInv /\ DataInv /\ EveryRecordIndexed
      /\ inserted \in Seq(Addr \X BlobLen)
  BY DEF WriterOk, WriterType
<1>2. /\ data_buffer \in Seq(Byte) /\ index_bucket \in Seq(IndexEntry)
      /\ data_uncompressed_offset \in Nat /\ Len(data_buffer) \in Nat
      /\ data_frame_uncompressed_start + Len(data_buffer) = data_uncompressed_offset
  BY <1>1, Members DEF IndexType, DataType, DataInv
<1>3. /\ phase' = "flushed" /\ meta' = meta /\ inserted' = inserted
      /\ data_uncompressed_offset' = data_uncompressed_offset
      /\ (data_buffer # <<>> /\ FlushDataFrame(data_buffer, data_uncompressed_offset))
           \/ (data_buffer = <<>> /\ KeepDataFrame(data_buffer))
      /\ (index_bucket # <<>> /\ FlushIndexBucket(index_bucket))
           \/ (index_bucket = <<>> /\ KeepIndexBucket(index_bucket))
  BY DEF FlushRest
<1>4. index_bucket' = <<>> /\ data_buffer' = <<>>
  BY <1>3 DEF FlushDataFrame, KeepDataFrame, FlushIndexBucket, KeepIndexBucket
<1>5. IndexType' /\ IndexInv' /\ Entries' = Entries
  <2>1. Ascends(index_bucket) /\ \A i \in DOMAIN index_file : Below(index_file[i].content, index_bucket)
    BY <1>1 DEF IndexInv
  <2>2. /\ IndexType' /\ IndexInv'
        /\ Entries' = { index_bucket[k] : k \in DOMAIN index_bucket } \cup
                       UNION { { index_file[i].content[k] : k \in DOMAIN index_file[i].content } :
                                 i \in DOMAIN index_file }
    BY <1>1, <1>2, <1>3, <2>1, IndexStep
  <2> QED
    BY <2>2 DEF Entries
<1>6. DataType' /\ DataInv' /\ \A e \in IndexEntry : Held(e) => Held(e)'
  BY <1>1, <1>2, <1>3, DataStep
<1>7. EveryRecordIndexed'
  <2>1. Entries \subseteq IndexEntry
    BY <1>1, EntriesAre
  <2>2. \A i \in DOMAIN inserted' : \E e \in Entries' :
          e.addr = inserted'[i][1] /\ e.len = inserted'[i][2]
    BY <1>1, <1>3, <1>5 DEF EveryRecordIndexed
  <2>3. ASSUME NEW e \in Entries' PROVE Stored(e.addr, e.len)' /\ Held(e)'
    <3>1. e \in IndexEntry /\ Stored(e.addr, e.len) /\ Held(e)
      BY <1>1, <1>5, <2>1 DEF EveryRecordIndexed, Held
    <3>2. Stored(e.addr, e.len)'
      BY <1>3, <3>1 DEF Stored
    <3> QED
      BY <1>6, <3>1, <3>2
  <2> QED
    BY <2>2, <2>3 DEF EveryRecordIndexed, Held
<1>8. WriterType'
  BY <1>1, <1>3, <1>4, <1>5, <1>6, DbAssump DEF WriterOk, WriterType
<1> QED
  BY <1>4, <1>5, <1>6, <1>7, <1>8 DEF WriterOk

\* Steps that leave the files and the indexes alone.
LEMMA WriterFrame ==
  ASSUME WriterOk,
         UNCHANGED <<index_bucket, data_buffer, data_uncompressed_offset,
                     data_frame_uncompressed_start, index_file, data_file,
                     sparse_index, data_frames, inserted>>,
         phase' \in {"open", "flushed", "ready", "failed"}, meta' \in {"none", "torn", "whole"}
  PROVE  WriterOk' /\ Entries' = Entries
<1>1. Entries' = Entries
  BY DEF Entries
<1>2. IndexType' /\ IndexInv' /\ DataType' /\ DataInv'
  BY DEF WriterOk, WriterType, IndexType, IndexInv, DataType, DataInv, Laid
<1>3. EveryRecordIndexed'
  BY <1>1 DEF WriterOk, EveryRecordIndexed, Stored
<1>4. WriterType'
  BY <1>2 DEF WriterOk, WriterType
<1> QED
  BY <1>1, <1>2, <1>3, <1>4 DEF WriterOk

-----------------------------------------------------------------------------
(* The readers: what the two indexes lead to.                              *)

\* The first addresses ascend, and each bounds its bucket from below.
LEMMA SparseKeys ==
  ASSUME WriterOk, NEW L, L = Len(index_file)
  PROVE  /\ L \in Nat /\ Len(sparse_index) = L
         /\ DOMAIN sparse_index = 1 .. L /\ DOMAIN index_file = 1 .. L
         /\ \A i \in 1 .. L :
              /\ index_file[i].content \in Seq(IndexEntry)
              /\ Len(index_file[i].content) \in Nat \ {0}
              /\ DOMAIN index_file[i].content = 1 .. Len(index_file[i].content)
              /\ sparse_index[i].first_addr \in Nat
              /\ \A k \in 1 .. Len(index_file[i].content) :
                   /\ index_file[i].content[k] \in IndexEntry
                   /\ index_file[i].content[k].addr \in Nat
                   /\ sparse_index[i].first_addr <= index_file[i].content[k].addr
         /\ \A i, j \in 1 .. L : i < j =>
              /\ sparse_index[i].first_addr < sparse_index[j].first_addr
              /\ \A k \in 1 .. Len(index_file[i].content) :
                   index_file[i].content[k].addr < sparse_index[j].first_addr
<1>1. IndexType /\ IndexInv
  BY DEF WriterOk, WriterType
<1>2. /\ L \in Nat /\ Len(sparse_index) = L
      /\ DOMAIN sparse_index = 1 .. L /\ DOMAIN index_file = 1 .. L
      /\ \A i \in 1 .. L : index_file[i].content \in Seq(IndexEntry)
  BY <1>1, Members DEF IndexType, IndexInv
<1>3. ASSUME NEW i \in 1 .. L
      PROVE  /\ index_file[i].content \in Seq(IndexEntry)
             /\ Len(index_file[i].content) \in Nat \ {0}
             /\ 1 \in 1 .. Len(index_file[i].content)
             /\ DOMAIN index_file[i].content = 1 .. Len(index_file[i].content)
             /\ sparse_index[i].first_addr = index_file[i].content[1].addr
             /\ \A k \in 1 .. Len(index_file[i].content) :
                  /\ index_file[i].content[k] \in IndexEntry
                  /\ index_file[i].content[k].addr \in Nat
                  /\ sparse_index[i].first_addr <= index_file[i].content[k].addr
  <2> DEFINE b == index_file[i].content
  <2>1. /\ b \in Seq(IndexEntry) /\ b # <<>> /\ Ascends(b)
        /\ sparse_index[i].first_addr = b[1].addr
    BY <1>1, <1>2 DEF IndexInv
  <2> HIDE DEF b
  <2>2. Len(b) \in Nat \ {0} /\ DOMAIN b = 1 .. Len(b) /\ 1 \in 1 .. Len(b)
    BY <2>1
  <2>3. \A k \in 1 .. Len(b) : b[k] \in IndexEntry
    BY <2>1, ElementOfSeq
  <2>4. \A k \in 1 .. Len(b) : b[k].addr \in Nat
    BY <2>3, DbAssump DEF IndexEntry
  <2>5. ASSUME NEW k \in 1 .. Len(b) PROVE b[1].addr <= b[k].addr
    <3>1. k = 1 \/ 1 < k
      BY <2>2
    <3>2. 1 < k => b[1].addr < b[k].addr
      BY <2>1, <2>2 DEF Ascends
    <3> QED
      BY <2>2, <2>4, <3>1, <3>2
  <2> QED
    BY <2>1, <2>2, <2>3, <2>4, <2>5 DEF b
<1>4. ASSUME NEW i \in 1 .. L, NEW j \in 1 .. L, i < j,
             NEW k \in 1 .. Len(index_file[i].content)
      PROVE  index_file[i].content[k].addr < sparse_index[j].first_addr
  <2>1. Below(index_file[i].content, index_file[j].content)
    BY <1>1, <1>2, <1>4 DEF IndexInv
  <2> QED
    BY <1>3, <2>1 DEF Below
<1> QED
  BY <1>2, <1>3, <1>4

\* An address that is present is in the bucket after whose first address it
\* comes, and before the first of the next.
LEMMA PresentInBucket ==
  ASSUME WriterOk, index_bucket = <<>>, NEW a, Present(a)
  PROVE  \E i \in 1 .. Len(index_file) :
           /\ \E k \in 1 .. Len(index_file[i].content) : index_file[i].content[k].addr = a
           /\ a \in Nat /\ sparse_index[i].first_addr <= a
           /\ \A j \in i + 1 .. Len(index_file) : a < sparse_index[j].first_addr
<1> DEFINE L == Len(index_file)
<1>1. PICK e \in Entries : e.addr = a
  BY DEF WriterOk, EveryRecordIndexed, Present
<1>2. DOMAIN index_bucket = {}
  OBVIOUS
<1>3. PICK i \in DOMAIN index_file : \E k \in DOMAIN index_file[i].content :
        e = index_file[i].content[k]
  BY <1>1, <1>2, EntriesMember DEF Entries
<1>4. PICK k \in DOMAIN index_file[i].content : e = index_file[i].content[k]
  BY <1>3
<1>5. L = Len(index_file)
  OBVIOUS
<1> HIDE DEF L
<1>6. L \in Nat /\ i \in 1 .. L /\ k \in 1 .. Len(index_file[i].content)
  BY <1>4, <1>5, SparseKeys
<1>7. /\ index_file[i].content[k].addr = a /\ a \in Nat
      /\ sparse_index[i].first_addr <= a
  BY <1>1, <1>4, <1>5, <1>6, SparseKeys
<1>8. ASSUME NEW j \in i + 1 .. L PROVE a < sparse_index[j].first_addr
  <2>1. j \in 1 .. L /\ i < j
    BY <1>6
  <2> QED
    BY <1>5, <1>6, <1>7, <2>1, SparseKeys
<1> QED
  BY <1>5, <1>6, <1>7, <1>8

\* What the frame index gives for an entry is the frame that holds its blob.
LEMMA FrameFound ==
  ASSUME WriterOk, data_buffer = <<>>, NEW e \in Entries,
         NEW f, f = PartitionPoint([k \in DOMAIN data_frames |-> data_frames[k].start], e.off)
  PROVE  /\ f \in 0 .. Len(data_frames) /\ (f = 0 => data_frames = <<>>)
         /\ f # 0 => Holds(data_file[f].content, data_frames[f].start, e)
<1> DEFINE L == Len(data_frames)
           s == data_frame_uncompressed_start
           keys == [k \in DOMAIN data_frames |-> data_frames[k].start]
<1>1. DataType /\ DataInv /\ IndexType
  BY DEF WriterOk, WriterType
<1>2. PICK off \in Nat, n \in Nat, a \in Addr : e.off = off /\ e.len = n /\ e.addr = a
                                        /\ e \in IndexEntry
  <2>1. e \in IndexEntry
    BY <1>1, EntriesAre
  <2> QED
    BY <2>1, DbAssump DEF IndexEntry
<1>3. /\ L \in Nat /\ s \in Nat /\ Len(data_file) = L
      /\ DOMAIN data_frames = 1 .. L /\ DOMAIN data_file = 1 .. L
      /\ \A i \in 1 .. L : data_file[i].content \in Seq(Byte) /\ data_frames[i] \in FrameEntry
  <2>1. s \in Nat /\ data_file \in Files(Byte) /\ data_frames \in Seq(FrameEntry)
        /\ Len(data_file) = L
    BY <1>1 DEF DataType, DataInv
  <2> QED
    BY <2>1, Members
<1>4. /\ \A i \in 1 .. L : data_frames[i].start \in Nat /\ Len(data_file[i].content) \in Nat
  <2>1. \A i \in 1 .. L : data_frames[i].start \in Nat
    BY <1>3 DEF FrameEntry
  <2> QED
    BY <1>3, <2>1, LenProperties
<1>5. /\ \A i, j \in 1 .. L : i < j =>
           data_frames[i].start + Len(data_file[i].content) <= data_frames[j].start
      /\ L # 0 => data_frames[1].start = 0 /\ data_frames[L].start + Len(data_file[L].content) = s
  <2>1. ASSUME L # 0 PROVE data_frames[1].start = 0
                           /\ data_frames[L].start + Len(data_file[L].content) = s
    <3>1. data_frames # <<>> /\ L \in 1 .. L /\ ~(L < Len(data_frames)) /\ L \in DOMAIN data_file
      BY <1>3, <2>1
    <3> HIDE DEF L
    <3> QED
      BY <1>1, <3>1 DEF DataInv
  <2>2. ASSUME NEW i \in 1 .. L, NEW j \in 1 .. L, i < j
        PROVE  data_frames[i].start + Len(data_file[i].content) <= data_frames[j].start
    BY <1>1, <1>3, <2>2 DEF DataInv
  <2> QED
    BY <2>1, <2>2
<1>6. /\ keys \in Seq(Int) /\ Len(keys) = L /\ \A k \in 1 .. L : keys[k] = data_frames[k].start
  BY <1>3, <1>4, IsASeq
<1>7. \A i, j \in 1 .. Len(keys) : i < j => keys[i] <= keys[j]
  <2> SUFFICES ASSUME NEW i \in 1 .. L, NEW j \in 1 .. L, i < j PROVE keys[i] <= keys[j]
    BY <1>6
  <2> HIDE DEF keys, L
  <2>1. data_frames[i].start + Len(data_file[i].content) <= data_frames[j].start
    BY <1>5
  <2>2. keys[i] = data_frames[i].start /\ keys[j] = data_frames[j].start
    BY <1>6
  <2>3. PICK x, y, l :
          /\ x = data_frames[i].start /\ y = data_frames[j].start /\ l = Len(data_file[i].content)
    OBVIOUS
  <2>4. x \in Nat /\ y \in Nat /\ l \in Nat
    BY <1>4, <2>3
  <2>5. x + l <= y
    BY <2>1, <2>3
  <2>6. x <= y
    BY <2>4, <2>5
  <2> QED
    BY <2>2, <2>3, <2>6
<1>8. f = PartitionPoint(keys, off)
  BY <1>2
<1>9. L = Len(data_frames)
  OBVIOUS
<1> HIDE DEF keys, L
<1>10. /\ f \in 0 .. L
       /\ \A i \in 1 .. f : data_frames[i].start <= off
       /\ \A i \in f + 1 .. L : data_frames[i].start > off
  <2>1. /\ PartitionPoint(keys, off) \in 0 .. Len(keys)
        /\ \A i \in 1 .. PartitionPoint(keys, off) : keys[i] <= off
        /\ \A i \in PartitionPoint(keys, off) + 1 .. Len(keys) : keys[i] > off
    <3>1. keys \in Seq(Int) /\ off \in Int
      BY <1>6
    <3> QED
      BY <1>7, <3>1, PartitionPointSplits
  <2>2. L \in Nat /\ f \in 0 .. L
    BY <1>3, <1>6, <1>8, <2>1
  <2>3. (\A i \in 1 .. f : i \in 1 .. L) /\ (\A i \in f + 1 .. L : i \in 1 .. L)
    BY <2>2
  <2> QED
    BY <1>6, <1>8, <2>1, <2>2, <2>3
<1>11. f = 0 => data_frames = <<>>
  <2> SUFFICES ASSUME f = 0, L # 0 PROVE FALSE
    BY <1>3, <1>9, EmptySeq
  <2>1. 1 \in f + 1 .. L /\ data_frames[1].start = 0
    BY <1>3, <1>5
  <2> QED
    BY <1>10, <2>1
<1>12. ASSUME f # 0 PROVE Holds(data_file[f].content, data_frames[f].start, e)
  <2>1. f \in 1 .. L /\ data_frames[f].start <= off
    BY <1>3, <1>10, <1>12
  \* A blob of no bytes at the start of a frame, or at the end of the last.
  <2>2. ASSUME n = 0, off <= data_frames[f].start + Len(data_file[f].content)
        PROVE  Holds(data_file[f].content, data_frames[f].start, e)
    <3>1. \A k \in 1 .. e.len : FALSE
      BY <1>2, <2>2
    <3>2. data_frames[f].start \in Nat /\ data_file[f].content \in Seq(Byte)
          /\ Len(data_file[f].content) \in Nat
      BY <1>3, <1>4, <2>1
    <3>3. e.off + e.len <= data_frames[f].start + Len(data_file[f].content)
          /\ data_frames[f].start <= e.off
      BY <1>2, <2>1, <2>2, <3>2
    <3> QED
      BY <1>2, <3>1, <3>2, <3>3, HoldsBytes
  <2>3. CASE Holds(data_buffer, s, e)
    <3>1. Len(data_buffer) = 0
      OBVIOUS
    <3>2. s <= off /\ off + n <= s
      BY <1>2, <1>3, <2>3, <3>1 DEF Holds
    <3>3. n = 0 /\ off = s
      <4>1. s \in Nat
        BY <1>3
      <4> HIDE DEF s
      <4> QED
        BY <3>2, <4>1
    <3>4. f = L
      <4> SUFFICES ASSUME f # L PROVE FALSE
        OBVIOUS
      <4>1. L \in f + 1 .. L /\ L # 0 /\ L \in 1 .. L
        BY <1>3, <2>1
      <4>2. data_frames[L].start > s /\ data_frames[L].start + Len(data_file[L].content) = s
        BY <1>5, <1>10, <3>3, <4>1
      <4> QED
        BY <1>3, <1>4, <4>1, <4>2
    <3>5. data_frames[f].start + Len(data_file[f].content) = s
      BY <1>3, <1>5, <2>1, <3>4
    <3> QED
      BY <1>2, <2>2, <3>3, <3>5
  <2>4. CASE \E i \in 1 .. L : Holds(data_file[i].content, data_frames[i].start, e)
    <3>1. PICK i \in 1 .. L : Holds(data_file[i].content, data_frames[i].start, e)
      BY <2>4
    <3>2. data_frames[i].start <= off
          /\ off + n <= data_frames[i].start + Len(data_file[i].content)
      BY <1>2, <3>1 DEF Holds
    <3>3. i <= f
      BY <1>3, <1>4, <1>10, <3>2
    <3>4. CASE i < f
      <4>1. data_frames[i].start + Len(data_file[i].content) <= data_frames[f].start
        BY <1>5, <2>1, <3>4
      <4>2. n = 0 /\ off <= data_frames[f].start + Len(data_file[f].content)
        <5>1. PICK x \in Nat, y \in Nat :
                x = data_frames[f].start /\ y = Len(data_file[f].content)
          BY <1>4, <2>1
        <5>2. off + n <= x /\ x <= off
          <6>1. PICK z \in Nat : z = data_frames[i].start + Len(data_file[i].content)
            BY <1>4
          <6> QED
            BY <2>1, <3>2, <4>1, <5>1, <6>1
        <5> QED
          BY <5>1, <5>2
      <4> QED
        BY <2>2, <4>2
    <3> QED
      BY <1>3, <2>1, <3>1, <3>3, <3>4
  <2>5. Held(e)
    BY DEF WriterOk, EveryRecordIndexed, Held
  <2> QED
    BY <1>3, <2>3, <2>4, <2>5 DEF Held
<1> QED
  BY <1>9, <1>10, <1>11, <1>12

-----------------------------------------------------------------------------
(* The readers' steps.                                                     *)

Faithful(cache, file) ==
  \A p \in DOMAIN cache : \E i \in DOMAIN file : file[i].pos = p /\ file[i].content = cache[p]

\* A chunk comes the same from a cache that agrees with its file and from the
\* file, and the cache still agrees when it has been put there.
LEMMA CachedIs ==
  ASSUME NEW C, NEW file \in Files(C), Laid(file), NEW cache, Faithful(cache, file),
         NEW i \in 1 .. Len(file), NEW e, e.pos = file[i].pos, e.size = file[i].size
  PROVE  Cached(cache, file, e) = file[i].content
<1>1. DOMAIN file = 1 .. Len(file)
  BY Members
<1>2. CASE e.pos \in DOMAIN cache
  <2>1. PICK j \in 1 .. Len(file) : file[j].pos = e.pos /\ file[j].content = cache[e.pos]
    BY <1>1, <1>2 DEF Faithful
  <2>2. j = i
    BY <2>1, ChunkRead
  <2> QED
    BY <1>2, <2>1, <2>2 DEF Cached
<1>3. CASE e.pos \notin DOMAIN cache
  BY <1>3, ChunkRead DEF Cached
<1> QED
  BY <1>2, <1>3

LEMMA CacheStep ==
  ASSUME NEW file, NEW cache, Faithful(cache, file), NEW i \in DOMAIN file, NEW p, p = file[i].pos
  PROVE  Faithful(CacheWith(cache, p, file[i].content), file)
<1> DEFINE new == CacheWith(cache, p, file[i].content)
<1>1. /\ DOMAIN new = DOMAIN cache \cup {p}
      /\ \A q \in DOMAIN new : new[q] = IF q = p THEN file[i].content ELSE cache[q]
  BY DEF CacheWith
<1> HIDE DEF new
<1>2. ASSUME NEW q \in DOMAIN new
      PROVE  \E j \in DOMAIN file : file[j].pos = q /\ file[j].content = new[q]
  <2>1. CASE q = p
    BY <1>1, <2>1
  <2>2. CASE q # p
    BY <1>1, <2>2 DEF Faithful
  <2> QED
    BY <2>1, <2>2
<1> QED
  BY <1>2 DEF Faithful, new

\* A step of one thread keeps the invariant if it does so for that thread.
LEMMA ThreadStep ==
  ASSUME IInv, phase = "ready", NEW t \in Thread, UNCHANGED writerVars,
         NEW g \in GetState, th' = [th EXCEPT ![t] = g],
         CachesFaithful', DOMAIN index_cache \subseteq DOMAIN index_cache', GetOk(t)'
  PROVE  IInv'
<1>1. WriterOk /\ ReaderType /\ Phases /\ Gets
  BY TypesSplit DEF IInv, WInv, WriterOk
<1>2. WriterOk' /\ Entries' = Entries
  <2>1. /\ UNCHANGED <<index_bucket, data_buffer, data_uncompressed_offset,
                       data_frame_uncompressed_start, index_file, data_file,
                       sparse_index, data_frames, inserted>>
        /\ phase' \in {"open", "flushed", "ready", "failed"}
        /\ meta' \in {"none", "torn", "whole"}
    BY <1>1 DEF writerVars, WriterOk, WriterType
  <2> QED
    BY <1>1, <2>1, WriterFrame
<1>3. ReaderType'
  BY <1>1 DEF ReaderType
<1>4. Phases'
  BY <1>1 DEF Phases, writerVars
<1>5. ASSUME NEW u \in Thread, u # t PROVE GetOk(u)'
  <2>1. th'[u] = th[u] /\ GetOk(u)
    BY <1>1, <1>5 DEF ReaderType, Gets
  <2>2. Chosen(u) => Chosen(u)'
    BY <2>1 DEF Chosen, writerVars
  <2>3. Narrowed(u) => Narrowed(u)'
    BY <2>1 DEF Narrowed, writerVars
  <2>4. Found(u) => Found(u)'
    BY <1>2, <2>1 DEF Found
  <2>5. Answered(u) => Answered(u)'
    BY <2>1 DEF Answered, AnswerRight, HasData, Stored, Present, writerVars
  <2> QED
    BY <2>1, <2>2, <2>3, <2>4, <2>5 DEF GetOk
<1>6. Gets'
  BY <1>5 DEF Gets
<1>7. TypeOK'
  <2>1. WriterType' /\ ReaderType'
    BY <1>2, <1>3 DEF WriterOk
  <2> QED
    BY <2>1, TypesSplit, PTL
<1> QED
  BY <1>2, <1>3, <1>4, <1>6, <1>7 DEF IInv, WInv, WriterOk

LEMMA IdleType == Idle \in GetState
BY DEF Idle, GetState, Answer

\* What holds in a thread inside get.
LEMMA Inside ==
  ASSUME IInv, NEW t \in Thread
  PROVE  /\ th \in [Thread -> GetState] /\ th[t] \in GetState /\ GetOk(t) /\ WriterOk
         /\ phase = "ready" => index_bucket = <<>> /\ data_buffer = <<>>
         /\ th[t].pc # "idle" => phase = "ready"
         /\ meta = "whole" => phase = "ready"
         /\ IndexType /\ IndexInv /\ DataType /\ DataInv
         /\ Faithful(index_cache, index_file) /\ Faithful(data_cache, data_file)
<1>1. WriterOk
  BY TypesSplit DEF IInv, WInv, WriterOk
<1>2. Faithful(index_cache, index_file) /\ Faithful(data_cache, data_file)
  BY DEF IInv, CachesFaithful, Faithful
<1> QED
  BY <1>1, <1>2 DEF IInv, ReaderType, Phases, Gets, WriterOk, WriterType

\* An answer that the caller may be given.
LEMMA ReturnStep ==
  ASSUME IInv, NEW t \in Thread, th[t].pc # "idle", UNCHANGED writerVars, CachesFaithful',
         DOMAIN index_cache \subseteq DOMAIN index_cache', NEW r \in Answer, Return(t, r),
         \/ r = <<"io_error">>
         \/ r = <<"no_frame">> /\ ~HasData
         \/ r = <<"none">> /\ ~Present(th[t].addr)
         \/ \E n \in BlobLen : Stored(th[t].addr, n) /\ r = <<"some", Blob(th[t].addr, n)>>
  PROVE  IInv'
<1> DEFINE g == [Idle EXCEPT !.addr = th[t].addr, !.pc = "done", !.res = r]
<1>1. th \in [Thread -> GetState] /\ th[t] \in GetState /\ phase = "ready"
  BY Inside
<1>2. g \in GetState /\ g.pc = "done" /\ g.res = r /\ g.addr = th[t].addr
  BY <1>1, IdleType DEF GetState
<1>3. th' = [th EXCEPT ![t] = g]
  BY DEF Return
<1> HIDE DEF g
<1>4. th'[t] = g
  BY <1>1, <1>3
<1>5. Answered(t)'
  BY <1>2, <1>4 DEF Answered, AnswerRight, HasData, Stored, Present, writerVars
<1>6. GetOk(t)'
  BY <1>2, <1>4, <1>5 DEF GetOk
<1> QED
  BY <1>1, <1>2, <1>3, <1>6, ThreadStep

LEMMA GetInv ==
  ASSUME IInv, NEW t \in Thread, NEW a \in Addr, Get(t, a)
  PROVE  IInv'
<1> DEFINE L == Len(index_file)
           keys == [k \in DOMAIN sparse_index |-> sparse_index[k].first_addr]
<1>1. PICK i : i = PartitionPoint(keys, a)
  OBVIOUS
<1> DEFINE g == [Idle EXCEPT !.addr = a, !.bucket = i, !.pc = IF i = 0 THEN "done" ELSE "bucket"]
<1>2. /\ phase = "ready" /\ th[t].pc = "idle" /\ th' = [th EXCEPT ![t] = g]
      /\ UNCHANGED <<writerVars, index_cache, data_cache>>
  BY <1>1, Inside DEF Get
<1>3. /\ th \in [Thread -> GetState] /\ WriterOk /\ index_bucket = <<>>
      /\ a \in Nat /\ a \in Int
  BY <1>2, Inside, DbAssump
<1>4. L = Len(index_file)
  OBVIOUS
<1> HIDE DEF L
<1>5. /\ L \in Nat /\ Len(sparse_index) = L /\ DOMAIN sparse_index = 1 .. L
      /\ \A k \in 1 .. L : sparse_index[k].first_addr \in Nat
      /\ \A k, l \in 1 .. L : k < l => sparse_index[k].first_addr < sparse_index[l].first_addr
  BY <1>3, <1>4, SparseKeys
<1>6. keys \in Seq(Int) /\ Len(keys) = L /\ \A k \in 1 .. L : keys[k] = sparse_index[k].first_addr
  BY <1>5, IsASeq
<1> HIDE DEF keys
<1>7. /\ i \in 0 .. L
      /\ \A k \in 1 .. i : sparse_index[k].first_addr <= a
      /\ \A k \in i + 1 .. L : sparse_index[k].first_addr > a
  <2>1. \A k, l \in 1 .. Len(keys) : k < l => keys[k] <= keys[l]
    BY <1>5, <1>6
  <2>2. /\ i \in 0 .. Len(keys) /\ \A k \in 1 .. i : keys[k] <= a
        /\ \A k \in i + 1 .. Len(keys) : keys[k] > a
    BY <1>1, <1>3, <1>6, <2>1, PartitionPointSplits
  <2>3. L \in Nat /\ i \in 0 .. L
    BY <1>5, <1>6, <2>2
  <2>4. (\A k \in 1 .. i : k \in 1 .. L) /\ (\A k \in i + 1 .. L : k \in 1 .. L)
    BY <2>3
  <2> QED
    BY <1>6, <2>2, <2>3, <2>4
<1>8. /\ g \in GetState /\ g.addr = a /\ g.bucket = i /\ g.res = <<"none">>
      /\ g.pc = IF i = 0 THEN "done" ELSE "bucket"
  <2>1. i \in Nat
    BY <1>5, <1>7
  <2> QED
    BY <2>1, IdleType DEF Idle, GetState, Answer
<1> HIDE DEF g
<1>9. th'[t] = g
  BY <1>2, <1>3
<1>10. ASSUME i = 0 PROVE GetOk(t)'
  <2>1. ~Present(a)
    <3> SUFFICES ASSUME Present(a) PROVE FALSE
      OBVIOUS
    <3>1. PICK j \in 1 .. L : sparse_index[j].first_addr <= a
      BY <1>3, <1>4, PresentInBucket
    <3>2. j \in i + 1 .. L
      BY <1>10, <3>1
    <3> QED
      BY <1>3, <1>5, <1>7, <3>1, <3>2
  <2>2. Answered(t)'
    BY <1>2, <1>8, <1>9, <2>1 DEF Answered, AnswerRight, Present, writerVars
  <2> QED
    BY <1>8, <1>9, <1>10, <2>2 DEF GetOk
<1>11. ASSUME i # 0 PROVE GetOk(t)'
  <2>1. i \in 1 .. L /\ i \in 1 .. i /\ (i < L => i + 1 \in i + 1 .. L)
    BY <1>5, <1>7, <1>11
  <2>2. /\ i \in 1 .. Len(sparse_index) /\ sparse_index[i].first_addr <= a
        /\ i < Len(sparse_index) => a < sparse_index[i + 1].first_addr
    <3>1. i < L => a < sparse_index[i + 1].first_addr
      <4> SUFFICES ASSUME i < L PROVE a < sparse_index[i + 1].first_addr
        OBVIOUS
      <4>1. i + 1 \in 1 .. L
        BY <1>5, <2>1
      <4> QED
        BY <1>3, <1>5, <1>7, <2>1, <4>1
    <3> QED
      BY <1>5, <1>7, <2>1, <3>1
  <2>3. Chosen(t)'
    BY <1>2, <1>8, <1>9, <2>2 DEF Chosen, writerVars
  <2> QED
    BY <1>8, <1>9, <1>11, <2>3 DEF GetOk
<1>12. GetOk(t)'
  BY <1>10, <1>11
<1>13. CachesFaithful' /\ DOMAIN index_cache \subseteq DOMAIN index_cache' /\ UNCHANGED writerVars
  BY <1>2 DEF IInv, CachesFaithful, writerVars
<1> QED
  BY <1>2, <1>8, <1>12, <1>13, ThreadStep

LEMMA GetBucketInv ==
  ASSUME IInv, NEW t \in Thread, GetBucket(t)
  PROVE  IInv'
<1>1. PICK e : e = sparse_index[th[t].bucket]
  OBVIOUS
<1>2. PICK b : b = Cached(index_cache, index_file, e)
  OBVIOUS
<1> DEFINE g == [th[t] EXCEPT !.pc = "search", !.lo = 0, !.hi = Len(b)]
<1>3. /\ th[t].pc = "bucket" /\ index_cache' = CacheWith(index_cache, e.pos, b)
      /\ th' = [th EXCEPT ![t].pc = "search", ![t].lo = 0, ![t].hi = Len(b)]
      /\ UNCHANGED <<writerVars, data_cache>>
  BY <1>1, <1>2 DEF GetBucket
<1>4. /\ th \in [Thread -> GetState] /\ th[t] \in GetState /\ WriterOk /\ phase = "ready"
      /\ Chosen(t) /\ IndexType /\ IndexInv /\ Faithful(index_cache, index_file)
  BY <1>3, Inside DEF GetOk
<1>5. PICK i : i = th[t].bucket /\ i \in 1 .. Len(index_file) /\ i \in DOMAIN index_file
  BY <1>4, SparseKeys DEF Chosen
<1>6. e.pos = index_file[i].pos /\ e.size = index_file[i].size /\ e = sparse_index[i]
  BY <1>1, <1>4, <1>5 DEF IndexInv
<1>7. /\ b = index_file[i].content /\ Faithful(index_cache', index_file)
      /\ DOMAIN index_cache' = DOMAIN index_cache \cup {index_file[i].pos}
  <2>1. index_file \in Files(IndexEntry) /\ Laid(index_file)
    BY <1>4 DEF IndexType, IndexInv
  <2>2. b = index_file[i].content
    BY <1>2, <1>4, <1>5, <1>6, <2>1, CachedIs
  <2>3. PICK p : p = index_file[i].pos /\ p = e.pos
    BY <1>6
  <2>4. Faithful(CacheWith(index_cache, p, index_file[i].content), index_file)
    BY <1>4, <1>5, <2>3, CacheStep, Zenon
  <2>5. DOMAIN CacheWith(index_cache, p, index_file[i].content) = DOMAIN index_cache \cup {p}
    BY DEF CacheWith
  <2>6. index_cache' = CacheWith(index_cache, p, b)
    BY <1>3, <2>3
  <2> QED
    BY <2>2, <2>3, <2>4, <2>5, <2>6
<1>8. Len(b) \in Nat
  BY <1>4, <1>5, <1>7, SparseKeys
<1>9. /\ g \in GetState /\ g.pc = "search" /\ g.lo = 0 /\ g.hi = Len(b)
      /\ g.bucket = i /\ g.addr = th[t].addr
  BY <1>4, <1>5, <1>8 DEF GetState
<1>10. th' = [th EXCEPT ![t] = g]
  BY <1>3, <1>4
<1> HIDE DEF g
<1>11. th'[t] = g
  BY <1>4, <1>10
<1>12. Chosen(t)'
  BY <1>3, <1>4, <1>5, <1>9, <1>11 DEF Chosen, writerVars
<1>13. Narrowed(t)'
  <2>1. index_file' = index_file /\ sparse_index' = sparse_index
    BY <1>3 DEF writerVars
  <2>2. sparse_index[i].pos \in DOMAIN index_cache'
    BY <1>6, <1>7
  <2>3. (\A k \in 1 .. 0 : FALSE) /\ (\A k \in Len(b) + 1 .. Len(b) : FALSE)
        /\ 0 <= Len(b) /\ Len(b) <= Len(b)
    BY <1>8
  <2> QED
    BY <1>7, <1>9, <1>11, <2>1, <2>2, <2>3 DEF Narrowed
<1>14. GetOk(t)'
  BY <1>9, <1>11, <1>12, <1>13 DEF GetOk
<1>15. CachesFaithful' /\ DOMAIN index_cache \subseteq DOMAIN index_cache' /\ UNCHANGED writerVars
  <2>1. Faithful(index_cache', index_file') /\ Faithful(data_cache', data_file')
    BY <1>3, <1>7, Inside DEF writerVars
  <2> QED
    BY <1>3, <1>7, <2>1 DEF CachesFaithful, Faithful
<1> QED
  BY <1>4, <1>9, <1>10, <1>14, <1>15, ThreadStep

LEMMA SearchBucketInv ==
  ASSUME IInv, NEW t \in Thread, SearchBucket(t)
  PROVE  IInv'
<1>1. /\ th[t].pc = "search" /\ UNCHANGED <<writerVars, index_cache, data_cache>>
  BY DEF SearchBucket
<1>2. /\ th \in [Thread -> GetState] /\ th[t] \in GetState /\ WriterOk /\ phase = "ready"
      /\ Chosen(t) /\ Narrowed(t) /\ IndexType /\ IndexInv /\ Faithful(index_cache, index_file)
      /\ index_bucket = <<>>
  BY <1>1, Inside DEF GetOk
<1>3. PICK i, a, lo, hi : /\ i = th[t].bucket /\ i \in 1 .. Len(index_file) /\ a = th[t].addr
                          /\ lo = th[t].lo /\ hi = th[t].hi
  BY <1>2, SparseKeys DEF Chosen
<1>4. PICK b : b = index_file[i].content
  OBVIOUS
<1>5. /\ Len(b) \in Nat /\ a \in Addr /\ a \in Nat /\ \A k \in 1 .. Len(b) : b[k].addr \in Nat /\ b[k] \in Entries
  <2>1. /\ Len(b) \in Nat /\ \A k \in 1 .. Len(b) : b[k].addr \in Nat
    BY <1>2, <1>3, <1>4, SparseKeys
  <2>2. \A k \in 1 .. Len(b) : b[k] \in Entries
    BY <1>2, <1>3, <1>4, EntriesAre
  <2> QED
    BY <1>2, <1>3, <2>1, <2>2, DbAssump DEF Chosen
<1>6. /\ lo \in Nat /\ hi \in Nat /\ lo <= hi /\ hi <= Len(b)
      /\ \A k \in 1 .. lo : b[k].addr < a
      /\ \A k \in hi + 1 .. Len(b) : b[k].addr > a
  BY <1>2, <1>3, <1>4 DEF Narrowed, GetState
<1>7. Bucket(t) = b /\ sparse_index[i].pos \in DOMAIN index_cache
  <2>1. DOMAIN index_file = 1 .. Len(index_file) /\ index_file \in Files(IndexEntry) /\ Laid(index_file)
    BY <1>2, SparseKeys DEF IndexType, IndexInv
  <2>2. sparse_index[i].pos \in DOMAIN index_cache
    BY <1>2, <1>3 DEF Narrowed
  <2>3. sparse_index[i].pos = index_file[i].pos
    BY <1>2, <1>3, <2>1 DEF IndexInv
  <2>4. PICK j \in 1 .. Len(index_file) : index_file[j].pos = index_file[i].pos
                      /\ index_file[j].content = index_cache[sparse_index[i].pos]
    BY <1>2, <2>1, <2>2, <2>3 DEF Faithful
  <2>5. j = i
    BY <1>3, <2>1, <2>4, ChunkRead
  <2> QED
    BY <1>3, <1>4, <2>2, <2>4, <2>5 DEF Bucket
<1>8. PICK mid : mid = lo + ((hi - lo) \div 2)
  OBVIOUS
<1>9. lo < hi => mid \in Nat /\ lo <= mid /\ mid < hi /\ mid + 1 \in 1 .. Len(b)
  BY <1>5, <1>6, <1>8
<1>10. Ascends(b) /\ DOMAIN b = 1 .. Len(b)
  BY <1>2, <1>3, <1>4, SparseKeys DEF IndexInv
<1>11. CachesFaithful' /\ DOMAIN index_cache \subseteq DOMAIN index_cache' /\ UNCHANGED writerVars
  BY <1>1 DEF IInv, CachesFaithful, writerVars
<1>12. CASE lo < hi /\ b[mid + 1].addr = a /\ Hit(t, b[mid + 1])
  <2>1. PICK e \in Entries : e = b[mid + 1] /\ e.addr = a /\ e \in IndexEntry
    BY <1>2, <1>5, <1>9, <1>12, EntriesAre
  <2> DEFINE g == [Idle EXCEPT !.addr = e.addr, !.pc = "frame", !.off = e.off, !.len = e.len]
  <2>2. e.off \in Nat /\ e.len \in Nat /\ e.addr \in Addr
    BY <2>1, DbAssump DEF IndexEntry
  <2>3. /\ g \in GetState /\ g.pc = "frame" /\ g.addr = e.addr /\ g.off = e.off /\ g.len = e.len
    BY <2>2, IdleType DEF GetState
  <2>4. th' = [th EXCEPT ![t] = g]
    BY <1>12, <2>1 DEF Hit
  <2> HIDE DEF g
  <2>5. th'[t] = g
    BY <1>2, <2>4
  <2>6. Entries' = Entries
    BY <1>11 DEF Entries, writerVars
  <2>7. Found(t)'
    BY <2>3, <2>5, <2>6 DEF Found
  <2>8. GetOk(t)'
    BY <2>3, <2>5, <2>7 DEF GetOk
  <2> QED
    BY <1>2, <1>11, <2>3, <2>4, <2>8, ThreadStep
\* Half of what is left has been ruled out.
<1>13. ASSUME lo < hi, NEW l \in Nat, NEW h \in Nat, l <= h, h <= Len(b),
              \A k \in 1 .. l : b[k].addr < a, \A k \in h + 1 .. Len(b) : b[k].addr > a,
              NEW g, g = [th[t] EXCEPT !.lo = l, !.hi = h], th' = [th EXCEPT ![t] = g]
       PROVE  IInv'
  <2>1. /\ g \in GetState /\ g.pc = "search" /\ g.lo = l /\ g.hi = h
        /\ g.bucket = i /\ g.addr = a
    BY <1>1, <1>2, <1>3, <1>13 DEF GetState
  <2>2. th'[t] = g
    BY <1>2, <1>13
  <2>3. Chosen(t)'
    BY <1>2, <1>3, <1>11, <2>1, <2>2 DEF Chosen, writerVars
  <2>4. index_file' = index_file /\ sparse_index' = sparse_index /\ index_cache' = index_cache
    BY <1>1 DEF writerVars
  <2>5. Narrowed(t)'
    BY <1>4, <1>7, <1>13, <2>1, <2>2, <2>4 DEF Narrowed
  <2>6. GetOk(t)'
    BY <2>1, <2>2, <2>3, <2>5 DEF GetOk
  <2> QED
    BY <1>2, <1>11, <1>13, <2>1, <2>6, ThreadStep
<1>14. CASE lo < hi /\ b[mid + 1].addr < a /\ th' = [th EXCEPT ![t].lo = mid + 1]
  <2>1. mid + 1 \in Nat /\ mid + 1 <= hi
    BY <1>6, <1>9, <1>14
  <2>2. ASSUME NEW k \in 1 .. mid + 1 PROVE b[k].addr < a
    <3>1. k \in 1 .. Len(b) /\ mid + 1 \in 1 .. Len(b) /\ (k = mid + 1 \/ k < mid + 1)
      BY <1>5, <1>6, <1>9, <1>14, <2>1
    <3>2. k < mid + 1 => b[k].addr < b[mid + 1].addr
      BY <1>10, <3>1 DEF Ascends
    <3> QED
      BY <1>5, <1>14, <3>1, <3>2
  <2> DEFINE g == [th[t] EXCEPT !.lo = mid + 1, !.hi = hi]
  <2>3. th' = [th EXCEPT ![t] = g]
    BY <1>2, <1>3, <1>14 DEF GetState
  <2> HIDE DEF g
  <2>4. g = [th[t] EXCEPT !.lo = mid + 1, !.hi = hi]
    BY DEF g
  <2> QED
    BY <1>6, <1>13, <1>14, <2>1, <2>2, <2>3, <2>4
<1>15. CASE lo < hi /\ b[mid + 1].addr > a /\ th' = [th EXCEPT ![t].hi = mid]
  <2>1. mid \in Nat /\ lo <= mid /\ mid <= Len(b)
    BY <1>5, <1>6, <1>9, <1>15
  <2>2. ASSUME NEW k \in mid + 1 .. Len(b) PROVE b[k].addr > a
    <3>1. k \in 1 .. Len(b) /\ mid + 1 \in 1 .. Len(b) /\ (k = mid + 1 \/ mid + 1 < k)
      BY <1>5, <1>6, <1>9, <1>15, <2>1
    <3>2. mid + 1 < k => b[mid + 1].addr < b[k].addr
      BY <1>10, <3>1 DEF Ascends
    <3> QED
      BY <1>5, <1>15, <3>1, <3>2
  <2> DEFINE g == [th[t] EXCEPT !.lo = lo, !.hi = mid]
  <2>3. th' = [th EXCEPT ![t] = g]
    BY <1>2, <1>3, <1>15 DEF GetState
  <2> HIDE DEF g
  <2>4. g = [th[t] EXCEPT !.lo = lo, !.hi = mid]
    BY DEF g
  <2> QED
    BY <1>6, <1>13, <1>15, <2>1, <2>2, <2>3, <2>4
<1>16. CASE lo >= hi /\ Return(t, <<"none">>)
  <2>1. \A k \in 1 .. Len(b) : b[k].addr # a
    <3> SUFFICES ASSUME NEW k \in 1 .. Len(b) PROVE b[k].addr # a
      OBVIOUS
    <3>1. k \in 1 .. lo \/ k \in hi + 1 .. Len(b)
      BY <1>5, <1>6, <1>16
    <3> QED
      BY <1>5, <1>6, <3>1
  <2>2. ~Present(a)
    <3> SUFFICES ASSUME Present(a) PROVE FALSE
      OBVIOUS
    <3> DEFINE L == Len(index_file)
    <3>0. L = Len(index_file)
      OBVIOUS
    <3> HIDE DEF L
    <3>1. PICK j \in 1 .. L :
            /\ \E k \in 1 .. Len(index_file[j].content) : index_file[j].content[k].addr = a
            /\ sparse_index[j].first_addr <= a
            /\ \A m \in j + 1 .. L : a < sparse_index[m].first_addr
      BY <1>2, <3>0, PresentInBucket
    <3>2. /\ L \in Nat /\ Len(sparse_index) = L /\ \A k \in 1 .. L : sparse_index[k].first_addr \in Nat
          /\ \A k, l \in 1 .. L : k < l => sparse_index[k].first_addr < sparse_index[l].first_addr
      BY <1>2, <3>0, SparseKeys
    <3>3. /\ sparse_index[i].first_addr <= a /\ i \in 1 .. L
          /\ i < L => a < sparse_index[i + 1].first_addr
      BY <1>2, <1>3, <3>0, <3>2 DEF Chosen
    <3>4. CASE j < i
      <4>1. i \in j + 1 .. L
        BY <3>2, <3>3, <3>4
      <4> QED
        BY <1>5, <3>1, <3>2, <3>3, <4>1
    <3>5. CASE i < j
      <4>1. i < L /\ i + 1 \in 1 .. L /\ (i + 1 = j \/ i + 1 < j)
        BY <3>2, <3>3, <3>5
      <4>2. a < sparse_index[i + 1].first_addr
            /\ sparse_index[i + 1].first_addr <= sparse_index[j].first_addr
        BY <3>2, <3>3, <4>1
      <4> QED
        BY <1>5, <3>1, <3>2, <4>1, <4>2
    <3>6. CASE i = j
      BY <1>4, <2>1, <3>1, <3>6
    <3> QED
      BY <3>2, <3>3, <3>4, <3>5, <3>6
  <2>3. <<"none">> \in Answer
    BY DEF Answer
  <2> QED
    BY <1>1, <1>3, <1>11, <1>16, <2>2, <2>3, ReturnStep
<1> QED
  BY <1>3, <1>7, <1>8, <1>12, <1>14, <1>15, <1>16 DEF SearchBucket

\* A database without data frames is one without data.
LEMMA NoFrameNoData ==
  ASSUME WriterOk, data_buffer = <<>>, data_frames = <<>>
  PROVE  ~HasData
<1> SUFFICES ASSUME NEW i \in DOMAIN inserted, inserted[i][2] > 0 PROVE FALSE
  BY DEF HasData
<1>1. IndexType /\ EveryRecordIndexed /\ DataType
  BY DEF WriterOk, WriterType
<1>2. PICK e \in Entries : e.addr = inserted[i][1] /\ e.len = inserted[i][2]
  BY <1>1 DEF EveryRecordIndexed
<1>3. e.off \in Nat /\ e.len \in Nat /\ e.len > 0
  BY <1>1, <1>2, EntriesAre, DbAssump DEF IndexEntry
<1>4. DOMAIN data_frames = {} /\ Len(data_buffer) = 0
      /\ data_frame_uncompressed_start \in Nat
  BY <1>1 DEF DataType
<1>5. Holds(data_buffer, data_frame_uncompressed_start, e)
  BY <1>1, <1>4 DEF EveryRecordIndexed
<1> QED
  BY <1>3, <1>4, <1>5 DEF Holds

LEMMA GetFrameInv ==
  ASSUME IInv, NEW t \in Thread, GetFrame(t)
  PROVE  IInv'
<1>1. PICK i : i = FrameIndex(t)
  OBVIOUS
<1>2. PICK f, d, s : /\ f = data_frames[i] /\ d = Cached(data_cache, data_file, f)
                     /\ s = th[t].off - f.start
  OBVIOUS
<1>3. /\ th[t].pc = "frame" /\ UNCHANGED <<writerVars, index_cache>>
      /\ \/ i = 0 /\ Return(t, <<"no_frame">>) /\ UNCHANGED data_cache
         \/ /\ i # 0
            /\ data_cache' = CacheWith(data_cache, f.pos, d)
            /\ Return(t, IF s + th[t].len <= Len(d)
                           THEN <<"some", SubSeq(d, s + 1, s + th[t].len)>>
                           ELSE <<"panic">>)
  BY <1>1, <1>2 DEF GetFrame
<1>4. /\ th[t].pc # "idle" /\ th[t] \in GetState /\ WriterOk /\ phase = "ready"
      /\ data_buffer = <<>> /\ Found(t) /\ IndexType /\ DataType /\ DataInv
      /\ Faithful(index_cache, index_file) /\ Faithful(data_cache, data_file)
  BY <1>3, Inside DEF GetOk
<1>5. PICK e \in Entries : e.addr = th[t].addr /\ e.off = th[t].off /\ e.len = th[t].len
  BY <1>4 DEF Found
<1>6. /\ i \in 0 .. Len(data_frames) /\ (i = 0 => data_frames = <<>>)
      /\ i # 0 => Holds(data_file[i].content, data_frames[i].start, e)
  <2>1. i = PartitionPoint([k \in DOMAIN data_frames |-> data_frames[k].start], e.off)
    BY <1>1, <1>5 DEF FrameIndex
  <2> QED
    BY <1>4, <2>1, FrameFound
<1>7. /\ Stored(e.addr, e.len) /\ e.len \in BlobLen /\ e.addr \in Addr
      /\ e.off \in Nat /\ e.len \in Nat
  <2>1. Stored(e.addr, e.len) /\ e \in IndexEntry
    BY <1>4, EntriesAre DEF WriterOk, EveryRecordIndexed
  <2> QED
    BY <2>1, DbAssump DEF IndexEntry
<1>8. Faithful(index_cache', index_file') /\ index_cache' = index_cache /\ data_file' = data_file
      /\ UNCHANGED writerVars
  BY <1>3, <1>4 DEF writerVars
<1>9. CASE i = 0
  <2>1. Return(t, <<"no_frame">>) /\ UNCHANGED data_cache
    BY <1>3, <1>9
  <2>2. CachesFaithful'
    BY <1>4, <1>8, <2>1 DEF CachesFaithful, Faithful
  <2>3. <<"no_frame">> \in Answer
    BY DEF Answer
  <2>4. ~HasData
    BY <1>4, <1>6, <1>9, NoFrameNoData
  <2> QED
    BY <1>4, <1>8, <2>1, <2>2, <2>3, <2>4, ReturnStep
<1>10. CASE i # 0
  <2>1. /\ i \in 1 .. Len(data_frames) /\ Len(data_frames) = Len(data_file)
        /\ i \in DOMAIN data_file /\ i \in 1 .. Len(data_file)
        /\ data_file[i].content \in Seq(Byte) /\ Len(data_file[i].content) \in Nat
        /\ data_frames[i].start \in Nat
    <3>1. data_file \in Files(Byte) /\ data_frames \in Seq(FrameEntry)
          /\ Len(data_frames) = Len(data_file)
      BY <1>4 DEF DataType, DataInv
    <3>2. Len(data_file) \in Nat
      BY <3>1, Members
    <3>3. i \in 1 .. Len(data_frames) /\ i \in 1 .. Len(data_file)
      BY <1>6, <1>10, <3>1, <3>2
    <3>4. /\ i \in DOMAIN data_file /\ data_file[i].content \in Seq(Byte)
          /\ data_frames[i] \in FrameEntry
      BY <3>1, <3>3, Members
    <3>5. data_frames[i].start \in Nat /\ Len(data_file[i].content) \in Nat
      BY <3>4, LenProperties DEF FrameEntry
    <3> QED
      BY <3>1, <3>3, <3>4, <3>5
  <2>2. f.pos = data_file[i].pos /\ f.size = data_file[i].size
    BY <1>2, <1>4, <2>1 DEF DataInv
  <2>3. d = data_file[i].content
    <3>1. data_file \in Files(Byte) /\ Laid(data_file)
      BY <1>4 DEF DataType, DataInv
    <3> QED
      BY <1>2, <1>4, <2>1, <2>2, <3>1, CachedIs
  <2>4. PICK p : p = data_file[i].pos /\ p = f.pos
    BY <2>2
  <2>5. Faithful(CacheWith(data_cache, p, data_file[i].content), data_file)
    BY <1>4, <2>1, <2>4, CacheStep, Zenon
  <2>6. data_cache' = CacheWith(data_cache, p, data_file[i].content)
    BY <1>3, <1>10, <2>3, <2>4
  <2>7. CachesFaithful'
    BY <1>8, <2>5, <2>6 DEF CachesFaithful, Faithful
  <2>8. s = e.off - data_frames[i].start
    BY <1>2, <1>5
  \* The slice lies in the frame and is the blob.
  <2>9. s + e.len <= Len(d) /\ SubSeq(d, s + 1, s + e.len) = Blob(e.addr, e.len)
    <3>1. Holds(d, data_frames[i].start, e)
      BY <1>6, <1>10, <2>3
    <3>2. /\ e.off + e.len <= data_frames[i].start + Len(d)
          /\ SubSeq(d, s + 1, s + e.len) = Blob(e.addr, e.len)
      BY <2>8, <3>1 DEF Holds
    <3>3. Len(d) \in Nat /\ data_frames[i].start \in Nat
      BY <2>1, <2>3
    <3>4. s + e.len <= Len(d)
      BY <1>7, <2>8, <3>2, <3>3
    <3> QED
      BY <3>2, <3>4
  <2>10. Return(t, <<"some", Blob(e.addr, e.len)>>)
    BY <1>3, <1>5, <1>10, <2>9
  <2>11. <<"some", Blob(e.addr, e.len)>> \in Answer
    <3>1. Blob(e.addr, e.len) \in Seq(Byte)
      <4>1. \A k \in 1 .. e.len : <<e.addr, k>> \in Byte
        BY <1>7 DEF Byte
      <4> QED
        BY <1>7, <4>1, IsASeq DEF Blob
    <3> QED
      BY <3>1 DEF Answer
  <2>12. \E n \in BlobLen : Stored(th[t].addr, n)
                /\ <<"some", Blob(e.addr, e.len)>> = <<"some", Blob(th[t].addr, n)>>
    BY <1>5, <1>7
  <2> QED
    BY <1>4, <1>8, <2>7, <2>10, <2>11, <2>12, ReturnStep
<1> QED
  BY <1>9, <1>10

LEMMA ReadErrorInv ==
  ASSUME IInv, NEW t \in Thread, ReadError(t)
  PROVE  IInv'
<1>1. /\ th[t].pc # "idle" /\ Return(t, <<"io_error">>)
      /\ UNCHANGED <<writerVars, index_cache, data_cache>>
  BY DEF ReadError
<1>2. CachesFaithful' /\ UNCHANGED writerVars
  BY <1>1 DEF IInv, CachesFaithful, writerVars
<1>3. <<"io_error">> \in Answer
  BY DEF Answer
<1> QED
  BY <1>1, <1>2, <1>3, ReturnStep

LEMMA TakeInv ==
  ASSUME IInv, NEW t \in Thread, Take(t)
  PROVE  IInv'
<1>1. /\ th[t].pc # "idle" /\ th' = [th EXCEPT ![t] = Idle]
      /\ UNCHANGED <<writerVars, index_cache, data_cache>>
  BY DEF Take
<1>2. th'[t] = Idle /\ phase = "ready"
  BY <1>1, Inside
<1>3. GetOk(t)'
  BY <1>2 DEF GetOk, Idle
<1>4. CachesFaithful' /\ UNCHANGED writerVars
  BY <1>1 DEF IInv, CachesFaithful, writerVars
<1> QED
  BY <1>1, <1>2, <1>3, <1>4, IdleType, ThreadStep

-----------------------------------------------------------------------------
(* The invariant.                                                          *)

LEMMA InitInv == Init => IInv
<1> SUFFICES ASSUME Init PROVE IInv
  OBVIOUS
<1>1. /\ <<>> \in Seq(IndexEntry) /\ <<>> \in Seq(Byte) /\ <<>> \in Files(IndexEntry)
      /\ <<>> \in Files(Byte) /\ <<>> \in Seq(SparseEntry) /\ <<>> \in Seq(FrameEntry)
      /\ <<>> \in Seq(Addr \X BlobLen) /\ Len(<<>>) = 0 /\ DOMAIN <<>> = {}
  BY EmptySeq DEF Files
<1>2. IndexType /\ DataType /\ WriterType
  BY <1>1, DbAssump DEF Init, IndexType, DataType, WriterType
<1>3. IndexInv /\ DataInv
  BY <1>1 DEF Init, IndexInv, DataInv, Laid, Ascends
<1>4. EveryRecordIndexed
  <2>1. \A x : x \notin Entries
    BY <1>1, EntriesMember DEF Init, Entries
  <2> QED
    BY <1>1, <2>1 DEF Init, EveryRecordIndexed
<1>5. ReaderType
  BY IdleType DEF Init, ReaderType
<1>6. Phases /\ CachesFaithful /\ Gets
  BY DEF Init, Phases, CachesFaithful, Gets, GetOk, Idle
<1> QED
  BY <1>2, <1>3, <1>4, <1>5, <1>6, TypesSplit DEF IInv, WInv

LEMMA WriterStep ==
  ASSUME IInv, Writer
  PROVE  IInv'
<1>1. WriterOk /\ ReaderType /\ Phases
  BY TypesSplit DEF IInv, WInv, WriterOk
<1>2. /\ phase # "ready" /\ UNCHANGED <<index_cache, data_cache, th>>
      /\ phase' \in {"open", "flushed", "ready", "failed"}
      /\ meta' \in {"none", "torn", "whole"} /\ (meta' = "whole" <=> phase' = "ready")
  <2>0. meta \in {"none", "torn", "whole"} /\ (meta = "whole" <=> phase = "ready")
    BY <1>1 DEF WriterOk, WriterType, Phases
  <2>1. ASSUME NEW a \in Addr, NEW n \in BlobLen, Insert(a, n)
        PROVE  /\ phase = "open" /\ phase' = "open" /\ meta' = meta
               /\ UNCHANGED <<index_cache, data_cache, th>>
    BY <2>1 DEF Insert
  <2>2. FlushRest => /\ phase = "open" /\ phase' = "flushed" /\ meta' = meta
                     /\ UNCHANGED <<index_cache, data_cache, th>>
    BY DEF FlushRest
  <2>3. WriteMeta \/ WriteError => /\ phase # "ready" /\ phase' \in {"ready", "failed"}
                                  /\ meta' \in {"none", "torn", "whole"}
                                  /\ (meta' = "whole" <=> phase' = "ready")
                                  /\ UNCHANGED <<index_cache, data_cache, th>>
    BY <2>0 DEF WriteMeta, WriteError
  <2> QED
    <3>1. CASE \E a \in Addr, n \in BlobLen : Insert(a, n)
      BY <2>0, <2>1, <3>1
    <3>2. CASE FlushRest
      BY <2>0, <2>2, <3>2
    <3>3. CASE WriteMeta \/ WriteError
      BY <2>0, <2>3, <3>3
    <3> QED
      BY <3>1, <3>2, <3>3 DEF Writer
<1>3. WriterOk' /\ (phase' \in {"flushed", "ready"} => index_bucket' = <<>> /\ data_buffer' = <<>>)
  <2>1. CASE \E a \in Addr, n \in BlobLen : Insert(a, n)
    <3>1. PICK a \in Addr, n \in BlobLen : Insert(a, n)
      BY <2>1
    <3>2. phase' = "open"
      BY <3>1 DEF Insert
    <3> QED
      BY <1>1, <3>1, <3>2, InsertStep
  <2>2. CASE FlushRest
    BY <1>1, <2>2, FlushStep
  <2>3. CASE WriteMeta \/ WriteError
    <3>1. UNCHANGED <<index_bucket, data_buffer, data_uncompressed_offset,
                      data_frame_uncompressed_start, index_file, data_file,
                      sparse_index, data_frames, inserted>>
      BY <2>3 DEF WriteMeta, WriteError
    <3>2. phase' \in {"flushed", "ready"} => phase = "flushed"
      BY <2>3 DEF WriteMeta, WriteError
    <3> QED
      BY <1>1, <1>2, <3>1, <3>2, WriterFrame DEF Phases
  <2> QED
    BY <2>1, <2>2, <2>3 DEF Writer
<1>4. ReaderType'
  BY <1>1, <1>2 DEF ReaderType
<1>5. Phases' /\ CachesFaithful' /\ Gets'
  <2>1. /\ \A t \in Thread : th[t].pc = "idle"
        /\ DOMAIN index_cache = {} /\ DOMAIN data_cache = {}
    BY <1>1, <1>2 DEF Phases
  <2>2. /\ \A t \in Thread : th'[t].pc = "idle"
        /\ DOMAIN index_cache' = {} /\ DOMAIN data_cache' = {}
    BY <1>2, <2>1
  <2> QED
    BY <1>2, <1>3, <2>2 DEF Phases, CachesFaithful, Gets, GetOk
<1>6. TypeOK'
  <2>1. WriterType' /\ ReaderType'
    BY <1>3, <1>4 DEF WriterOk
  <2> QED
    BY <2>1, TypesSplit, PTL
<1> QED
  BY <1>3, <1>4, <1>5, <1>6 DEF IInv, WInv, WriterOk

LEMMA StepInv ==
  ASSUME IInv, [Next]_vars
  PROVE  IInv'
<1>1. CASE Writer
  BY <1>1, WriterStep
<1>2. ASSUME NEW t \in Thread, GetStep(t) \/ \E a \in Addr : Get(t, a)
      PROVE  IInv'
  BY <1>2, GetInv, GetBucketInv, SearchBucketInv, GetFrameInv, ReadErrorInv, TakeInv DEF GetStep
<1>3. CASE UNCHANGED vars
  <2>1. WriterOk /\ phase \in {"open", "flushed", "ready", "failed"}
        /\ meta \in {"none", "torn", "whole"}
    BY TypesSplit DEF IInv, WInv, WriterOk, WriterType
  <2>2. WriterOk' /\ Entries' = Entries
    BY <1>3, <2>1, WriterFrame DEF vars, writerVars
  <2>3. ReaderType' /\ Phases' /\ CachesFaithful'
    BY <1>3 DEF IInv, ReaderType, Phases, CachesFaithful, vars, writerVars
  <2>4. Gets'
    BY <1>3, <2>2 DEF IInv, Gets, GetOk, Chosen, Narrowed, Found, Answered, AnswerRight, HasData,
                      Stored, Present,
                      vars, writerVars
  <2>5. TypeOK'
    <3>1. WriterType' /\ ReaderType'
      BY <2>2, <2>3 DEF WriterOk
    <3> QED
      BY <3>1, TypesSplit, PTL
  <2> QED
    BY <2>2, <2>3, <2>4, <2>5 DEF IInv, WInv, WriterOk
<1> QED
  BY <1>1, <1>2, <1>3 DEF Next, Stopped

\* In every reachable state of a database, however large its buckets and frames
\* and whatever is inserted, the invariant of CrashdumpDbInv holds.
THEOREM Invariance == Spec => []IInv
<1>1. Init => IInv
  BY InitInv
<1>2. IInv /\ [Next]_vars => IInv'
  BY StepInv
<1> QED
  BY <1>1, <1>2, PTL DEF Spec

LEMMA IndexesAgree ==
  ASSUME WriterOk
  PROVE  IndexesTile
<1>1. IndexInv /\ DataInv /\ IndexType /\ DataType
  BY DEF WriterOk, WriterType
<1>2. /\ Len(data_frames) = Len(data_file) /\ Len(sparse_index) = Len(index_file)
      /\ DOMAIN data_frames = DOMAIN data_file
      /\ DOMAIN sparse_index = 1 .. Len(index_file) /\ DOMAIN index_file = 1 .. Len(index_file)
  BY <1>1, Members DEF IndexInv, DataInv, IndexType, DataType
<1>3. ASSUME NEW i \in DOMAIN sparse_index, NEW j \in DOMAIN sparse_index, i < j
      PROVE  /\ sparse_index[i].first_addr < sparse_index[j].first_addr
             /\ sparse_index[i].pos < sparse_index[j].pos
  <2>1. sparse_index[i].first_addr < sparse_index[j].first_addr
    BY <1>2, <1>3, SparseKeys
  <2>2. /\ index_file[i].pos + index_file[i].size <= index_file[j].pos
        /\ sparse_index[i].pos = index_file[i].pos /\ sparse_index[j].pos = index_file[j].pos
    BY <1>1, <1>2, <1>3 DEF IndexInv, Laid
  <2>3. /\ index_file[i].pos \in Nat /\ index_file[i].size \in Nat \ {0}
        /\ index_file[j].pos \in Nat
    BY <1>1, <1>2, Members DEF IndexType
  <2> QED
    BY <2>1, <2>2, <2>3
<1> QED
  BY <1>1, <1>2, <1>3 DEF IndexesTile, DataInv

\* At every step of the writer each record has one entry that leads to its whole
\* blob, and the chunks of both files lie where the two indexes say.
THEOREM WriterKeeps == Spec => []WriterInv
<1>1. IInv => WriterInv
  BY TypesSplit, IndexesAgree DEF IInv, WInv, WriterInv, WriterOk
<1> QED
  BY <1>1, Invariance, PTL

\* In a database that holds a byte of data get answers with the blob that was
\* inserted, with None only for an address that was not, with an error only if a
\* read failed, and never panics, whatever the other threads have cached.
THEOREM GetAnswers == Spec => []GetCorrect
<1>1. IInv => GetCorrect
  BY DEF IInv, Gets, GetOk, Answered, GetCorrect
<1> QED
  BY <1>1, Invariance, PTL

=============================================================================
