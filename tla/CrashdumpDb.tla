----------------------------- MODULE CrashdumpDb -----------------------------
(***************************************************************************)
(* src/crashdump-db/src/lib.rs: the write-once database address -> blob.   *)
(*                                                                         *)
(* The Writer packs index entries into buckets of BUCKET_SIZE and blobs    *)
(* into data frames of at least DATA_FRAME_SIZE bytes, compresses each and *)
(* appends it to index.cdb or data.cdb; finish writes meta.bin last.  Then *)
(* any number of threads call Reader::get: sparse index, cached bucket,    *)
(* binary search, frame index, cached frame, slice.                        *)
(*                                                                         *)
(* Byte k of the blob stored under address a is the pair <<a, k>>, so a    *)
(* byte read at the wrong place is recognised.                             *)
(***************************************************************************)
EXTENDS Integers, Sequences

CONSTANTS Addr,              \* addresses inserted or looked up
          BlobLen,           \* lengths of blobs, 0 included
          BUCKET_SIZE, DATA_FRAME_SIZE,
          MaxRecords,        \* bound on the records of one database
          Thread             \* threads calling get

ASSUME DbAssump ==
  /\ Addr \subseteq Nat /\ BlobLen \subseteq Nat
  /\ BUCKET_SIZE \in Nat \ {0} /\ DATA_FRAME_SIZE \in Nat \ {0}
  /\ MaxRecords \in Nat

VARIABLES
  phase,                     \* "open", "flushed", "ready" or "failed"
  meta,                      \* meta.bin: "none", "torn" (created, cut short) or "whole"
  index_bucket, data_buffer, \* the bucket and the frame being filled
  data_uncompressed_offset,
  data_frame_uncompressed_start,
  index_file, data_file,     \* chunks written so far
  sparse_index, data_frames,
  inserted,                  \* history: <<addr, len>> in order
  index_cache, data_cache,   \* decompressed chunks by file offset
  th                         \* the get in progress in each thread

writerVars == <<phase, meta, index_bucket, data_buffer, data_uncompressed_offset,
                data_frame_uncompressed_start, index_file, data_file,
                sparse_index, data_frames, inserted>>
vars == <<writerVars, index_cache, data_cache, th>>

Blob(a, n) == [k \in 1 .. n |-> <<a, k>>]

\* Length of a compressed chunk: never 0, otherwise of no consequence.
CompressedLen(content) == Len(content) + 1

\* Mutant: the position is that of the last chunk, not of its end.
MutFilePos(file) == IF file = <<>> THEN 0 ELSE file[Len(file)].pos

FilePos(file) ==
  IF file = <<>> THEN 0 ELSE file[Len(file)].pos + file[Len(file)].size

Chunk(file, content) ==
  [pos |-> FilePos(file), size |-> CompressedLen(content), content |-> content]

Idle == [pc |-> "idle", addr |-> 0, bucket |-> 0, lo |-> 0, hi |-> 0,
         off |-> 0, len |-> 0, res |-> <<"none">>]

Init ==
  /\ phase = "open" /\ meta = "none"
  /\ index_bucket = <<>> /\ data_buffer = <<>>
  /\ data_uncompressed_offset = 0 /\ data_frame_uncompressed_start = 0
  /\ index_file = <<>> /\ data_file = <<>>
  /\ sparse_index = <<>> /\ data_frames = <<>>
  /\ inserted = <<>>
  /\ index_cache = [p \in {} |-> <<>>] /\ data_cache = [p \in {} |-> <<>>]
  /\ th = [t \in Thread |-> Idle]

-----------------------------------------------------------------------------
(* The writer.                                                             *)

\* Mutant: the start of the next frame is not moved.
MutFlushDataFrame(buffer, end) ==
  LET c == Chunk(data_file, buffer)
  IN  /\ data_file' = Append(data_file, c)
      /\ data_frames' = Append(data_frames,
           [start |-> data_frame_uncompressed_start, pos |-> c.pos, size |-> c.size])
      /\ data_frame_uncompressed_start' = data_frame_uncompressed_start
      /\ data_buffer' = <<>>

\* flush_data_frame, with the buffer as it is and the stream at `end'.
FlushDataFrame(buffer, end) ==
  LET c == Chunk(data_file, buffer)
  IN  /\ data_file' = Append(data_file, c)
      /\ data_frames' = Append(data_frames,
           [start |-> data_frame_uncompressed_start, pos |-> c.pos, size |-> c.size])
      /\ data_frame_uncompressed_start' = end
      /\ data_buffer' = <<>>

FlushIndexBucket(bucket) ==
  LET c == Chunk(index_file, bucket)
  IN  /\ index_file' = Append(index_file, c)
      /\ sparse_index' = Append(sparse_index,
           [first_addr |-> bucket[1].addr, pos |-> c.pos, size |-> c.size])
      /\ index_bucket' = <<>>

KeepDataFrame(buffer) ==
  /\ data_buffer' = buffer
  /\ UNCHANGED <<data_file, data_frames, data_frame_uncompressed_start>>

KeepIndexBucket(bucket) ==
  /\ index_bucket' = bucket
  /\ UNCHANGED <<index_file, sparse_index>>

\* insert(addr, data): the caller keeps addresses strictly ascending.
Insert(a, n) ==
  LET end    == data_uncompressed_offset + n
      bucket == Append(index_bucket, [addr |-> a, off |-> data_uncompressed_offset, len |-> n])
      buffer == data_buffer \o Blob(a, n)
  IN  /\ phase = "open" /\ Len(inserted) < MaxRecords
      /\ \A i \in DOMAIN inserted : inserted[i][1] < a
      /\ inserted' = Append(inserted, <<a, n>>)
      /\ data_uncompressed_offset' = end
      /\ IF Len(buffer) >= DATA_FRAME_SIZE
           THEN FlushDataFrame(buffer, end) ELSE KeepDataFrame(buffer)
      /\ IF Len(bucket) >= BUCKET_SIZE
           THEN FlushIndexBucket(bucket) ELSE KeepIndexBucket(bucket)
      /\ UNCHANGED <<phase, meta, index_cache, data_cache, th>>

\* The first half of finish: flush what is left ...
FlushRest ==
  /\ phase = "open"
  /\ phase' = "flushed"
  /\ IF data_buffer # <<>>
       THEN FlushDataFrame(data_buffer, data_uncompressed_offset) ELSE KeepDataFrame(<<>>)
  /\ IF index_bucket # <<>>
       THEN FlushIndexBucket(index_bucket) ELSE KeepIndexBucket(<<>>)
  /\ UNCHANGED <<meta, data_uncompressed_offset, inserted, index_cache, data_cache, th>>

\* ... and the second: meta.bin, both indexes after a magic number.
WriteMeta ==
  /\ phase = "flushed"
  /\ phase' = "ready" /\ meta' = "whole"
  /\ UNCHANGED <<index_bucket, data_buffer, data_uncompressed_offset,
                 data_frame_uncompressed_start, index_file, data_file,
                 sparse_index, data_frames, inserted, index_cache, data_cache, th>>

\* A write fails.  finish creates meta.bin before it has anything to put into it,
\* so from then on a failure leaves one that ends early.
WriteError ==
  /\ \/ phase = "open" /\ UNCHANGED meta
     \/ phase = "flushed" /\ meta' \in {"none", "torn"}
  /\ phase' = "failed"
  /\ UNCHANGED <<index_bucket, data_buffer, data_uncompressed_offset,
                 data_frame_uncompressed_start, index_file, data_file,
                 sparse_index, data_frames, inserted, index_cache, data_cache, th>>

-----------------------------------------------------------------------------
(* Reader::get, thread t.                                                  *)

\* slice::partition_point on ascending keys: how many are <= x.
PartitionPoint(keys, x) ==
  CHOOSE k \in 0 .. Len(keys) :
    /\ \A i \in 1 .. k : keys[i] <= x
    /\ \A i \in k + 1 .. Len(keys) : keys[i] > x

\* read_at + zstd_decompress of the chunk at a file position.
ReadAt(file, pos, size) ==
  (CHOOSE c \in { file[i] : i \in DOMAIN file } : c.pos = pos /\ c.size = size).content

\* A cached chunk, or the chunk from the file.
Cached(cache, file, e) ==
  IF e.pos \in DOMAIN cache THEN cache[e.pos] ELSE ReadAt(file, e.pos, e.size)

CacheWith(cache, pos, content) ==
  [p \in DOMAIN cache \cup {pos} |-> IF p = pos THEN content ELSE cache[p]]

\* Locals that are not used any more go back to their idle values.
Return(t, res) == th' = [th EXCEPT ![t] = [Idle EXCEPT !.addr = th[t].addr, !.pc = "done", !.res = res]]

\* search_bucket has found the entry.
Hit(t, e) ==
  th' = [th EXCEPT ![t] = [Idle EXCEPT !.addr = e.addr, !.pc = "frame", !.off = e.off, !.len = e.len]]

\* Step 1: the sparse index.  Reader::open yields a reader only for a whole
\* meta.bin: without one, or with a short magic number, it returns an error, and
\* on one that ends later the decoding of the indexes panics.
Get(t, a) ==
  LET i == PartitionPoint([k \in DOMAIN sparse_index |-> sparse_index[k].first_addr], a)
  IN  /\ meta = "whole" /\ th[t].pc = "idle"
      /\ th' = [th EXCEPT ![t] =
                  [Idle EXCEPT !.addr = a, !.bucket = i,
                               !.pc = IF i = 0 THEN "done" ELSE "bucket"]]
      /\ UNCHANGED <<writerVars, index_cache, data_cache>>

\* Step 2: the bucket, under the index_cache lock.
GetBucket(t) ==
  LET e == sparse_index[th[t].bucket]
      b == Cached(index_cache, index_file, e)
  IN  /\ th[t].pc = "bucket"
      /\ index_cache' = CacheWith(index_cache, e.pos, b)
      /\ th' = [th EXCEPT ![t].pc = "search", ![t].lo = 0, ![t].hi = Len(b)]
      /\ UNCHANGED <<writerVars, data_cache>>

Bucket(t) == index_cache[sparse_index[th[t].bucket].pos]

\* Mutant: the lower bound does not pass mid.
MutSearchBucket(t) ==
  LET lo  == th[t].lo
      hi  == th[t].hi
      mid == lo + ((hi - lo) \div 2)
      e   == Bucket(t)[mid + 1]
  IN  /\ th[t].pc = "search"
      /\ \/ lo < hi /\ e.addr = th[t].addr /\ Hit(t, e)
         \/ lo < hi /\ e.addr < th[t].addr /\ th' = [th EXCEPT ![t].lo = mid]
         \/ lo < hi /\ e.addr > th[t].addr /\ th' = [th EXCEPT ![t].hi = mid]
         \/ lo >= hi /\ Return(t, <<"none">>)
      /\ UNCHANGED <<writerVars, index_cache, data_cache>>

\* Step 3: one round of search_bucket.
SearchBucket(t) ==
  LET lo  == th[t].lo
      hi  == th[t].hi
      mid == lo + ((hi - lo) \div 2)
      e   == Bucket(t)[mid + 1]
  IN  /\ th[t].pc = "search"
      /\ \/ lo < hi /\ e.addr = th[t].addr /\ Hit(t, e)
         \/ /\ lo < hi /\ e.addr < th[t].addr
            /\ th' = [th EXCEPT ![t].lo = mid + 1]
         \/ /\ lo < hi /\ e.addr > th[t].addr
            /\ th' = [th EXCEPT ![t].hi = mid]
         \/ /\ lo >= hi
            /\ Return(t, <<"none">>)
      /\ UNCHANGED <<writerVars, index_cache, data_cache>>

\* Step 4: the frame index.
FrameIndex(t) ==
  PartitionPoint([k \in DOMAIN data_frames |-> data_frames[k].start], th[t].off)

\* Steps 5 and 6: the frame, under the data_cache lock, and the slice of it.
GetFrame(t) ==
  LET i == FrameIndex(t)
      f == data_frames[i]
      d == Cached(data_cache, data_file, f)
      s == th[t].off - f.start
  IN  /\ th[t].pc = "frame"
      /\ \/ i = 0 /\ Return(t, <<"no_frame">>) /\ UNCHANGED data_cache
         \/ /\ i # 0
            /\ data_cache' = CacheWith(data_cache, f.pos, d)
            /\ Return(t, IF s + th[t].len <= Len(d)
                           THEN <<"some", SubSeq(d, s + 1, s + th[t].len)>>
                           ELSE <<"panic">>)
      /\ UNCHANGED <<writerVars, index_cache>>

\* read_at or the decompression fails; a cache is only filled on success.
ReadError(t) ==
  /\ \/ th[t].pc = "bucket" /\ sparse_index[th[t].bucket].pos \notin DOMAIN index_cache
     \/ /\ th[t].pc = "frame" /\ FrameIndex(t) # 0
        /\ data_frames[FrameIndex(t)].pos \notin DOMAIN data_cache
  /\ Return(t, <<"io_error">>)
  /\ UNCHANGED <<writerVars, index_cache, data_cache>>

\* The caller takes the answer.
Take(t) ==
  /\ th[t].pc = "done"
  /\ th' = [th EXCEPT ![t] = Idle]
  /\ UNCHANGED <<writerVars, index_cache, data_cache>>

-----------------------------------------------------------------------------
Writer == (\E a \in Addr, n \in BlobLen : Insert(a, n)) \/ FlushRest \/ WriteMeta \/ WriteError
GetStep(t) == GetBucket(t) \/ SearchBucket(t) \/ GetFrame(t) \/ ReadError(t) \/ Take(t)

\* No database to read: the writer has failed.
Stopped == phase = "failed" /\ UNCHANGED vars

Next ==
  \/ Writer
  \/ \E t \in Thread : GetStep(t) \/ \E a \in Addr : Get(t, a)
  \/ Stopped

\* Every thread inside get is scheduled; nobody has to call get.
Spec == Init /\ [][Next]_vars /\ \A t \in Thread : WF_vars(GetStep(t))

-----------------------------------------------------------------------------
(* Properties.                                                             *)

IndexEntry == [addr : Addr, off : Nat, len : BlobLen]
Byte == Addr \X Nat
Files(C) == Seq([pos : Nat, size : Nat \ {0}, content : Seq(C)])

\* Types; a flushed frame or bucket leaves less than a full one behind.
TypeOK ==
  /\ phase \in {"open", "flushed", "ready", "failed"}
  /\ meta \in {"none", "torn", "whole"}
  /\ index_bucket \in Seq(IndexEntry) /\ Len(index_bucket) < BUCKET_SIZE
  /\ data_buffer \in Seq(Byte) /\ Len(data_buffer) < DATA_FRAME_SIZE
  /\ data_uncompressed_offset \in Nat /\ data_frame_uncompressed_start \in Nat
  /\ index_file \in Files(IndexEntry) /\ data_file \in Files(Byte)
  /\ sparse_index \in Seq([first_addr : Addr, pos : Nat, size : Nat])
  /\ data_frames \in Seq([start : Nat, pos : Nat, size : Nat])
  /\ inserted \in Seq(Addr \X BlobLen)
  /\ \A t \in Thread :
       /\ th[t].pc \in {"idle", "bucket", "search", "frame", "done"}
       /\ th[t].lo \in Nat /\ th[t].hi \in Nat
       /\ th[t].res[1] \in {"none", "some", "no_frame", "io_error", "panic"}

Stored(a, n) == \E i \in DOMAIN inserted : inserted[i] = <<a, n>>
Present(a) == \E i \in DOMAIN inserted : inserted[i][1] = a

\* Where the entry of an address is: in the bucket being filled or in a chunk.
Entries ==
  { index_bucket[k] : k \in DOMAIN index_bucket } \cup
  UNION { { index_file[i].content[k] : k \in DOMAIN index_file[i].content } :
            i \in DOMAIN index_file }

\* A stretch of the data stream holds the bytes of entry e.
Holds(content, start, e) ==
  /\ start <= e.off /\ e.off + e.len <= start + Len(content)
  /\ SubSeq(content, e.off - start + 1, e.off - start + e.len) = Blob(e.addr, e.len)

\* At any moment, each record inserted has its one index entry, and the entry's
\* offset leads into the one frame that holds the whole blob.
EveryRecordIndexed ==
  /\ \A i \in DOMAIN inserted : \E e \in Entries :
       e.addr = inserted[i][1] /\ e.len = inserted[i][2]
  /\ \A e \in Entries :
       /\ Stored(e.addr, e.len)
       /\ \/ Holds(data_buffer, data_frame_uncompressed_start, e)
          \/ \E i \in DOMAIN data_frames : Holds(data_file[i].content, data_frames[i].start, e)

\* The in-RAM indexes agree with the files: chunks lie end to end, frames tile
\* the data stream and both sparse keys ascend, as the binary searches need.
IndexesTile ==
  /\ Len(data_frames) = Len(data_file) /\ Len(sparse_index) = Len(index_file)
  /\ \A i \in DOMAIN data_frames :
       /\ data_frames[i].pos = data_file[i].pos /\ data_frames[i].size = data_file[i].size
       /\ data_frames[i].start + Len(data_file[i].content) =
            IF i < Len(data_frames) THEN data_frames[i + 1].start
                                    ELSE data_frame_uncompressed_start
  /\ data_frame_uncompressed_start + Len(data_buffer) = data_uncompressed_offset
  /\ \A i, j \in DOMAIN sparse_index :
       i < j => /\ sparse_index[i].first_addr < sparse_index[j].first_addr
                /\ sparse_index[i].pos < sparse_index[j].pos

\* What the writer keeps at every step, an insert or a flush away from done: each
\* record has one entry that leads to its whole blob, and the chunks of both
\* files lie where the two indexes say.
WriterInv == TypeOK /\ EveryRecordIndexed /\ IndexesTile

\* What a cache holds for a file position is what the file holds there.
CachesFaithful ==
  /\ \A p \in DOMAIN index_cache :
       \E i \in DOMAIN index_file : index_file[i].pos = p /\ index_file[i].content = index_cache[p]
  /\ \A p \in DOMAIN data_cache :
       \E i \in DOMAIN data_file : data_file[i].pos = p /\ data_file[i].content = data_cache[p]

\* The answer that thread t has is the right one: the blob inserted under the
\* address, None if there is none, or the error of a read that failed.
AnswerRight(t) ==
  \/ th[t].res = <<"io_error">>
  \/ th[t].res = <<"none">> /\ ~Present(th[t].addr)
  \/ \E n \in BlobLen : Stored(th[t].addr, n) /\ th[t].res = <<"some", Blob(th[t].addr, n)>>

HasData == \E i \in DOMAIN inserted : inserted[i][2] > 0

\* In a database that holds a byte of data get answers with exactly the blob
\* inserted, None for an address that is not there, an error only if reading
\* fails; it never panics.  (Without any data see EveryAddressAnswered.)  Nor
\* will a later answer be wrong: both caches agree with the files at every step
\* of every thread.
GetCorrect ==
  /\ CachesFaithful
  /\ \A t \in Thread : th[t].pc = "done" =>
       \/ AnswerRight(t)
       \/ th[t].res = <<"no_frame">> /\ ~HasData

\* What the docs of insert ("`data` may be empty", lib.rs:129) and of get
\* ("Returns `None` if the address is not in the database", 270) say of every
\* database, and what TLC refutes for one whose blobs are all empty.
EveryAddressAnswered == \A t \in Thread : th[t].pc = "done" => AnswerRight(t)

\* Every get returns: the binary search and the two cache locks cannot hang.
GetReturns == \A t \in Thread : th[t].pc # "idle" ~> th[t].pc = "idle"
=============================================================================
