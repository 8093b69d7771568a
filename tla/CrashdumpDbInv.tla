--------------------------- MODULE CrashdumpDbInv ---------------------------
(***************************************************************************)
(* The inductive invariant of CrashdumpDb that the theorems of             *)
(* CrashdumpDbProofs rest on.                                              *)
(***************************************************************************)
EXTENDS CrashdumpDb

\* The answer of a get, and the get in progress in a thread.
Answer == {<<"none">>, <<"no_frame">>, <<"io_error">>, <<"panic">>}
            \cup ({"some"} \X Seq(Byte))
GetState == [pc : {"idle", "bucket", "search", "frame", "done"}, addr : Addr \cup {0},
             bucket : Nat, lo : Nat, hi : Nat, off : Nat, len : Nat, res : Answer]
ReaderType == th \in [Thread -> GetState]

\* The chunks of a file do not overlap.
Laid(file) ==
  \A i, j \in DOMAIN file : i < j => file[i].pos + file[i].size <= file[j].pos

Ascends(b) == \A k, l \in DOMAIN b : k < l => b[k].addr < b[l].addr
Below(b, c) == \A k \in DOMAIN b, l \in DOMAIN c : b[k].addr < c[l].addr

\* The buckets, the one being filled last, hold ascending addresses, and the
\* sparse index has the first of each.
IndexInv ==
  /\ Laid(index_file) /\ Ascends(index_bucket)
  /\ \A i \in DOMAIN index_file :
       /\ index_file[i].content # <<>> /\ Ascends(index_file[i].content)
       /\ Below(index_file[i].content, index_bucket)
       /\ \A j \in DOMAIN index_file :
            i < j => Below(index_file[i].content, index_file[j].content)
  /\ Len(sparse_index) = Len(index_file)
  /\ \A i \in DOMAIN index_file :
       /\ sparse_index[i].first_addr = index_file[i].content[1].addr
       /\ sparse_index[i].pos = index_file[i].pos /\ sparse_index[i].size = index_file[i].size

\* The frames, none empty, tile the data stream from 0 to the one being filled.
DataInv ==
  /\ Laid(data_file)
  /\ Len(data_frames) = Len(data_file)
  /\ data_frames = <<>> => data_frame_uncompressed_start = 0
  /\ data_frames # <<>> => data_frames[1].start = 0
  /\ \A i \in DOMAIN data_file :
       /\ data_file[i].content # <<>>
       /\ data_frames[i].pos = data_file[i].pos /\ data_frames[i].size = data_file[i].size
       /\ data_frames[i].start + Len(data_file[i].content) =
            IF i < Len(data_frames) THEN data_frames[i + 1].start
                                    ELSE data_frame_uncompressed_start
       /\ data_frames[i].start + Len(data_file[i].content) <= data_frame_uncompressed_start
       /\ \A j \in DOMAIN data_file :
            i < j => data_frames[i].start + Len(data_file[i].content) <= data_frames[j].start
  /\ data_frame_uncompressed_start + Len(data_buffer) = data_uncompressed_offset

\* Nothing is left to write when the readers come, and none comes before.
Phases ==
  /\ phase \in {"flushed", "ready"} => index_bucket = <<>> /\ data_buffer = <<>>
  /\ meta = "whole" <=> phase = "ready"
  /\ phase # "ready" => /\ \A t \in Thread : th[t].pc = "idle"
                        /\ DOMAIN index_cache = {} /\ DOMAIN data_cache = {}

\* The bucket chosen is the only one that may have the address.
Chosen(t) ==
  /\ th[t].bucket \in 1 .. Len(sparse_index) /\ th[t].addr \in Addr
  /\ sparse_index[th[t].bucket].first_addr <= th[t].addr
  /\ th[t].bucket < Len(sparse_index) => th[t].addr < sparse_index[th[t].bucket + 1].first_addr

\* Outside lo .. hi the address has been ruled out.
Narrowed(t) ==
  LET b == index_file[th[t].bucket].content
  IN  /\ sparse_index[th[t].bucket].pos \in DOMAIN index_cache
      /\ th[t].lo <= th[t].hi /\ th[t].hi <= Len(b)
      /\ \A k \in 1 .. th[t].lo : b[k].addr < th[t].addr
      /\ \A k \in th[t].hi + 1 .. Len(b) : b[k].addr > th[t].addr

Found(t) == \E e \in Entries : e.addr = th[t].addr /\ e.off = th[t].off /\ e.len = th[t].len

Answered(t) ==
  \/ AnswerRight(t)
  \/ th[t].res = <<"no_frame">> /\ ~HasData

GetOk(t) ==
  /\ th[t].pc \in {"bucket", "search"} => Chosen(t)
  /\ th[t].pc = "search" => Narrowed(t)
  /\ th[t].pc = "frame" => Found(t)
  /\ th[t].pc = "done" => Answered(t)
Gets == \A t \in Thread : GetOk(t)

WInv == TypeOK /\ EveryRecordIndexed /\ IndexInv /\ DataInv
IInv == WInv /\ ReaderType /\ Phases /\ CachesFaithful /\ Gets
=============================================================================
