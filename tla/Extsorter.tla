------------------------------ MODULE Extsorter ------------------------------
(***************************************************************************)
(* src/src/extsorter.rs: the external sort that turns the address -> blob  *)
(* records of a dump, which arrive in any order, into the ascending stream *)
(* that crashdump_db::Writer wants.                                        *)
(*                                                                         *)
(* Two threads.  The scan thread fills `current_run', hands full runs over *)
(* a channel of capacity 1 to the spill worker, and in the end closes the  *)
(* channel, joins the worker and merges the run files with a min-heap.     *)
(* The worker sorts each run and writes it to a file of its own.  Either   *)
(* may meet an I/O error; one of them, in the last flush of a run file,    *)
(* goes unnoticed.  The caller may also drop the sorter while the worker   *)
(* is busy, because reading the dump failed.                               *)
(*                                                                         *)
(* A blob is abstracted to its length (the heap compares lengths) and to   *)
(* `id', the number of the insert that brought it.                         *)
(***************************************************************************)
EXTENDS Integers, Sequences, Functions

CONSTANTS Addr,        \* addresses (u64) the dump may mention
          BlobLen,     \* lengths (u32) a blob may have
          RunSize,     \* Config::run_size
          MaxInserts   \* bound on the records of one dump

ASSUME ConstAssump ==
  /\ Addr \subseteq Nat
  /\ BlobLen \subseteq Nat
  /\ RunSize \in Nat \ {0}
  /\ MaxInserts \in Nat

VARIABLES
  pc,             \* where the scan thread is
  result,         \* what insert/finish returned to parse_scanner
  current_run,    \* the run being filled, in insertion order
  pending,        \* the SpillTask inside `spill_tx.send'
  run_count,      \* run_paths.len()
  total_entries,
  channel,        \* SpillTasks in the sync_channel
  tx_open,        \* spill_tx not dropped yet
  wstate, wtask,  \* the worker and the SpillTask it owns
  files,          \* run files of tmp_dir, by run number: what can be read of each
  cut,            \* the runs whose file ends inside the blob of its last record
  lost,           \* history: records that a flush nobody looked at did not write
  tmp_dir,        \* does the temporary directory exist
  rd,             \* entry headers read so far from each run file
  heap,           \* the merge heap of (addr, len, run)
  prev_addr,
  out,            \* what writer.insert received, in order
  inserted        \* history: every record given to insert

scanVars   == <<current_run, run_count, total_entries, inserted>>
workerVars == <<wstate, wtask, files, cut, lost>>
mergeVars  == <<rd, heap, prev_addr, out>>
vars == <<pc, result, pending, channel, tx_open, tmp_dir,
          scanVars, workerVars, mergeVars>>

Record == [addr : Addr, len : BlobLen, id : 1 .. MaxInserts]
Task   == [run : Nat, entries : Seq(Record)]

NoAddr == -1                               \* prev_addr == None
NoTask == [run |-> 0, entries |-> <<>>]

ChannelCap == 1

-----------------------------------------------------------------------------
(* Filling runs: insert and spill.                                         *)

Init ==
  /\ pc = "scan" /\ result = "none"
  /\ current_run = <<>> /\ run_count = 0 /\ total_entries = 0
  /\ pending = NoTask /\ channel = <<>> /\ tx_open = TRUE
  /\ wstate = "recv" /\ wtask = NoTask
  /\ files = [i \in {} |-> <<>>] /\ cut = {} /\ lost = {} /\ tmp_dir = TRUE
  /\ rd = [i \in {} |-> 0] /\ heap = {} /\ prev_addr = NoAddr /\ out = <<>>
  /\ inserted = {}

\* Mutants: the buffer is not replaced; the run number does not advance.
MutSpillKeepsBuffer(entries) ==
  /\ pending' = [run |-> run_count, entries |-> entries]
  /\ run_count' = run_count + 1
  /\ current_run' = entries
MutSpillReusesName(entries) ==
  /\ pending' = [run |-> run_count, entries |-> entries]
  /\ run_count' = run_count
  /\ current_run' = <<>>

\* The synchronous part of spill(): name the run, take its entries, leave an
\* empty buffer.  The send that follows may block, so it is a step of its own.
StartSpill(entries) ==
  /\ pending' = [run |-> run_count, entries |-> entries]
  /\ run_count' = run_count + 1
  /\ current_run' = <<>>

\* insert(addr, blob)
Insert(a, l) ==
  LET r == [addr |-> a, len |-> l, id |-> total_entries + 1]
      filled == Append(current_run, r)
  IN  /\ pc = "scan" /\ total_entries < MaxInserts
      /\ total_entries' = total_entries + 1
      /\ inserted' = inserted \cup {r}
      /\ \/ /\ Len(filled) >= RunSize
            /\ StartSpill(filled)
            /\ pc' = "send"
         \/ /\ Len(filled) < RunSize
            /\ current_run' = filled
            /\ UNCHANGED <<pc, pending, run_count>>
      /\ UNCHANGED <<result, channel, tx_open, tmp_dir, workerVars, mergeVars>>

\* The channel takes the task as soon as it has room.
Send ==
  /\ pc \in {"send", "send_last"} /\ wstate # "failed"
  /\ Len(channel) < ChannelCap
  /\ channel' = Append(channel, pending)
  /\ pending' = NoTask
  /\ pc' = IF pc = "send" THEN "scan" ELSE "close"
  /\ UNCHANGED <<result, tx_open, tmp_dir, scanVars, workerVars, mergeVars>>

\* The worker returned, so its receiver is gone: send fails, even if blocked.
SendError ==
  /\ pc \in {"send", "send_last"} /\ wstate = "failed"
  /\ pending' = NoTask
  /\ pc' = "drop" /\ result' = "err"
  /\ UNCHANGED <<channel, tx_open, tmp_dir, scanVars, workerVars, mergeVars>>

-----------------------------------------------------------------------------
(* finish: spill the rest, close the channel, join the worker.             *)

\* Mutant: the last, partial run is forgotten.
MutFinish ==
  /\ pc = "scan" /\ pc' = "close"
  /\ UNCHANGED <<result, pending, channel, tx_open, tmp_dir, scanVars, workerVars, mergeVars>>

Finish ==
  /\ pc = "scan"
  /\ \/ current_run # <<>> /\ StartSpill(current_run) /\ pc' = "send_last"
     \/ current_run = <<>> /\ pc' = "close" /\ UNCHANGED <<pending, run_count, current_run>>
  /\ UNCHANGED <<result, total_entries, inserted, channel, tx_open, tmp_dir,
                 workerVars, mergeVars>>

\* Mutant: spill_tx is not dropped before the join.
MutCloseChannel ==
  /\ pc = "close" /\ pc' = "join"
  /\ UNCHANGED <<result, pending, channel, tx_open, tmp_dir, scanVars, workerVars, mergeVars>>

CloseChannel ==
  /\ pc = "close"
  /\ tx_open' = FALSE /\ pc' = "join"
  /\ UNCHANGED <<result, pending, channel, tmp_dir, scanVars, workerVars, mergeVars>>

\* Mutant: the worker is not waited for.
MutJoin ==
  /\ pc = "join" /\ pc' = "open"
  /\ UNCHANGED <<result, pending, channel, tx_open, tmp_dir, scanVars, workerVars, mergeVars>>

Join ==
  /\ pc = "join"
  /\ \/ wstate = "exited" /\ pc' = "open" /\ UNCHANGED result
     \/ wstate = "failed" /\ pc' = "drop" /\ result' = "err"
  /\ UNCHANGED <<pending, channel, tx_open, tmp_dir, scanVars, workerVars, mergeVars>>

-----------------------------------------------------------------------------
(* The spill worker: for task in rx { write_spill_file(task)? }            *)

Receive ==
  /\ wstate = "recv" /\ channel # <<>>
  /\ wtask' = Head(channel) /\ channel' = Tail(channel)
  /\ wstate' = "sort"
  /\ UNCHANGED <<pc, result, pending, tx_open, tmp_dir, files, cut, lost,
                 scanVars, mergeVars>>

\* The loop ends when the channel is closed and drained.
WorkerExit ==
  /\ wstate = "recv" /\ channel = <<>> /\ ~tx_open
  /\ wstate' = "exited"
  /\ UNCHANGED <<pc, result, pending, channel, tx_open, tmp_dir, wtask, files, cut, lost,
                 scanVars, mergeVars>>

Ascending(s) == \A j, k \in DOMAIN s : j < k => s[j].addr <= s[k].addr

\* Mutant: the index is sorted, the blobs stay where they were.
MutSortings(s) ==
  { [k \in DOMAIN s |-> [s[k] EXCEPT !.addr = s[p[k]].addr]] :
      p \in { q \in Bijection(DOMAIN s, DOMAIN s) : Ascending([k \in DOMAIN s |-> s[q[k]]]) } }

\* sort_unstable_by_key: entries with equal addresses come out in any order.
Sortings(s) ==
  { t \in { [k \in DOMAIN s |-> s[p[k]]] : p \in Bijection(DOMAIN s, DOMAIN s) } :
      Ascending(t) }

\* File::create, which needs the directory.
CreateRunFile ==
  /\ wstate = "sort" /\ tmp_dir
  /\ files' = [i \in DOMAIN files \cup {wtask.run} |->
                 IF i = wtask.run THEN <<>> ELSE files[i]]
  /\ wstate' = "write"
  /\ UNCHANGED <<pc, result, pending, channel, tx_open, tmp_dir, wtask, cut, lost,
                 scanVars, mergeVars>>

\* s is what can be read of the worker's run file from now on, unless the file
\* has been unlinked meanwhile.
Leave(s) ==
  files' = [i \in DOMAIN files |-> IF i = wtask.run THEN s ELSE files[i]]

\* All the sorted entries reach the file.
WriteRunFile ==
  /\ wstate = "write"
  /\ \E s \in Sortings(wtask.entries) : Leave(s)
  /\ wtask' = NoTask
  /\ wstate' = "recv"
  /\ UNCHANGED <<pc, result, pending, channel, tx_open, tmp_dir, cut, lost,
                 scanVars, mergeVars>>

\* enc.finish()? hands the BufWriter back, and the statement drops it: what it
\* still holds is flushed then, and an error of that write is thrown away.  The
\* file keeps the first n entries, and with `inBlob' the last of them has its
\* header but not all of its blob; the worker goes on as if all were written.
LoseTail ==
  /\ wstate = "write"
  /\ \E s \in Sortings(wtask.entries), n \in 0 .. Len(wtask.entries), inBlob \in BOOLEAN :
       /\ IF inBlob THEN n > 0 /\ s[n].len > 0 ELSE n < Len(s)
       /\ Leave(SubSeq(s, 1, n))
       /\ cut' = IF inBlob THEN cut \cup {wtask.run} ELSE cut
       /\ lost' = lost \cup { s[k] : k \in (IF inBlob THEN n ELSE n + 1) .. Len(s) }
  /\ wtask' = NoTask
  /\ wstate' = "recv"
  /\ UNCHANGED <<pc, result, pending, channel, tx_open, tmp_dir, scanVars, mergeVars>>

\* Any other I/O error ends the worker; its receiver and the queued task go with it.
WorkerError ==
  /\ wstate \in {"sort", "write"}
  /\ wstate' = "failed" /\ wtask' = NoTask /\ channel' = <<>>
  /\ UNCHANGED <<pc, result, pending, tx_open, tmp_dir, files, cut, lost,
                 scanVars, mergeVars>>

-----------------------------------------------------------------------------
(* finish: the k-way merge.                                                *)

Headers(i, n) ==
  IF n \in DOMAIN files[i]
  THEN {[addr |-> files[i][n].addr, len |-> files[i][n].len, run |-> i]}
  ELSE {}            \* UnexpectedEof: the end of the file, or of what is left of it

\* Mutant: the last run is not opened.
MutOpenRuns ==
  /\ pc = "open" /\ pc' = "merge"
  /\ heap' = UNION { Headers(i, 1) : i \in 0 .. run_count - 2 }
  /\ rd' = [i \in 0 .. run_count - 1 |-> 1]
  /\ UNCHANGED <<result, pending, channel, tx_open, tmp_dir, prev_addr, out, scanVars, workerVars>>

\* Open every run file and push its first header; create the db writer.
OpenRuns ==
  /\ pc = "open"
  /\ DOMAIN files = 0 .. run_count - 1
  /\ heap' = UNION { Headers(i, 1) : i \in 0 .. run_count - 1 }
  /\ rd' = [i \in 0 .. run_count - 1 |-> 1]
  /\ pc' = "merge"
  /\ UNCHANGED <<result, pending, channel, tx_open, tmp_dir, prev_addr, out,
                 scanVars, workerVars>>

\* Mutant: the length is compared first.
MutHeapBefore(g, h) ==
  \/ g.len < h.len
  \/ g.len = h.len /\ g.addr < h.addr
  \/ g.len = h.len /\ g.addr = h.addr /\ g.run < h.run

\* Order of the tuples (addr, blob_len, run_idx).
HeapBefore(g, h) ==
  \/ g.addr < h.addr
  \/ g.addr = h.addr /\ g.len < h.len
  \/ g.addr = h.addr /\ g.len = h.len /\ g.run < h.run

\* Mutant: a blob that cannot be read whole is taken as it is.
MutBlobCut(i) == FALSE

\* The file of run i ends inside the blob it is positioned at.
BlobCut(i) == i \in cut /\ rd[i] = Len(files[i])

\* One round of the merge loop: pop the least header, read the blob its run
\* file is positioned at (all of it, otherwise there is only MergeError), push
\* that run's next header, write the record unless its address was written just
\* before.
MergeRound ==
  /\ pc = "merge"
  /\ \E h \in heap :
       /\ \A g \in heap \ {h} : HeapBefore(h, g)
       /\ ~BlobCut(h.run)
       /\ heap' = (heap \ {h}) \cup Headers(h.run, rd[h.run] + 1)
       /\ rd' = [rd EXCEPT ![h.run] = @ + 1]
       /\ \/ prev_addr = h.addr /\ UNCHANGED <<prev_addr, out>>
          \/ /\ prev_addr # h.addr
             /\ prev_addr' = h.addr
             /\ out' = Append(out, [addr |-> h.addr, len |-> h.len,
                                    id |-> files[h.run][rd[h.run]].id])
  /\ UNCHANGED <<pc, result, pending, channel, tx_open, tmp_dir, scanVars, workerVars>>

\* writer.finish()
MergeDone ==
  /\ pc = "merge" /\ heap = {}
  /\ pc' = "drop" /\ result' = "ok"
  /\ UNCHANGED <<pending, channel, tx_open, tmp_dir, scanVars, workerVars, mergeVars>>

\* Reading a run file or writing the db fails.
MergeError ==
  /\ pc \in {"open", "merge"}
  /\ pc' = "drop" /\ result' = "err"
  /\ UNCHANGED <<pending, channel, tx_open, tmp_dir, scanVars, workerVars, mergeVars>>

-----------------------------------------------------------------------------
(* Dropping the sorter: tmp_dir is its first field, spill_tx a later one.  *)

\* parse_scanner returns early: the dump cannot be read on, or the text store not
\* be written.
Abandon ==
  /\ pc = "scan"
  /\ pc' = "drop" /\ result' = "err"
  /\ UNCHANGED <<pending, channel, tx_open, tmp_dir, scanVars, workerVars, mergeVars>>

\* Mutant: run files are left in the directory.
MutUnlinkRuns ==
  /\ pc = "drop" /\ pc' = "rmdir"
  /\ UNCHANGED <<result, pending, channel, tx_open, tmp_dir, scanVars, workerVars, mergeVars>>

\* TempDir::drop deletes the files it lists ...
UnlinkRuns ==
  /\ pc = "drop"
  /\ files' = [i \in {} |-> <<>>]
  /\ pc' = "rmdir"
  /\ UNCHANGED <<result, pending, channel, tx_open, tmp_dir, wstate, wtask, cut, lost,
                 scanVars, mergeVars>>

\* ... and removes the directory if nothing was created in it since; an
\* error is ignored.  Then spill_tx goes and the worker's handle is detached.
RemoveDir ==
  /\ pc = "rmdir"
  /\ tmp_dir' = (DOMAIN files # {})
  /\ tx_open' = FALSE
  /\ pc' = "end"
  /\ UNCHANGED <<result, pending, channel, scanVars, workerVars, mergeVars>>

-----------------------------------------------------------------------------
ScanThread ==
  \/ \E a \in Addr, l \in BlobLen : Insert(a, l)
  \/ Send \/ SendError \/ Finish \/ CloseChannel \/ Join
  \/ OpenRuns \/ MergeRound \/ MergeDone \/ MergeError
  \/ Abandon \/ UnlinkRuns \/ RemoveDir

Worker ==
  Receive \/ WorkerExit \/ CreateRunFile \/ WriteRunFile \/ LoseTail \/ WorkerError

\* Both threads have returned.
Terminated ==
  /\ pc = "end" /\ wstate \in {"exited", "failed"}
  /\ UNCHANGED vars

Next == ScanThread \/ Worker \/ Terminated

\* Neither thread is starved by the operating system, and a dump ends.
Fairness == WF_vars(ScanThread) /\ WF_vars(Worker)

Spec == Init /\ [][Next]_vars /\ Fairness
-----------------------------------------------------------------------------
(* What makes the sorter correct.                                          *)

\* Types: a buffered run never exceeds run_size and the channel never exceeds
\* its capacity, whatever the two threads do.
TypeOK ==
  /\ pc \in {"scan", "send", "send_last", "close", "join", "open", "merge",
             "drop", "rmdir", "end"}
  /\ result \in {"none", "ok", "err"}
  /\ current_run \in Seq(Record) /\ Len(current_run) < RunSize
  /\ pending \in Task /\ Len(pending.entries) <= RunSize
  /\ run_count \in Nat /\ total_entries \in 0 .. MaxInserts
  /\ channel \in Seq(Task) /\ Len(channel) <= ChannelCap
  /\ \A k \in DOMAIN channel : Len(channel[k].entries) <= RunSize
  /\ tx_open \in BOOLEAN /\ tmp_dir \in BOOLEAN
  /\ wstate \in {"recv", "sort", "write", "exited", "failed"}
  /\ wtask \in Task /\ Len(wtask.entries) <= RunSize
  /\ DOMAIN files \subseteq Nat
  /\ \A i \in DOMAIN files : files[i] \in Seq(Record)
  /\ cut \subseteq Nat /\ lost \subseteq Record
  /\ DOMAIN rd \subseteq Nat /\ \A i \in DOMAIN rd : rd[i] \in Nat
  /\ heap \subseteq [addr : Addr, len : BlobLen, run : Nat]
  /\ prev_addr \in Addr \cup {NoAddr}
  /\ out \in Seq(Record)
  /\ inserted \subseteq Record

Holds(b) == IF b THEN 1 ELSE 0

\* Buffers of entries alive at once: being filled, in a blocked send, queued,
\* and with the worker.
RunsInRam ==
  Holds(current_run # <<>>) + Holds(pending.entries # <<>>) + Len(channel)
    + Holds(wtask.entries # <<>>)

\* The memory bound of a parse: never more than three runs in RAM, so never
\* more than 3 * run_size entries (sync_channel(1), spill's blocking send).
AtMostThreeRuns == RunsInRam <= 3

\* What the module's doc says instead (extsorter.rs:13, 74-76), and what TLC refutes:
\* at most two full runs.  A third waits in the channel or in the send while the worker
\* writes one and the scan fills or hands over another.
AtMostTwoRuns == RunsInRam <= 2

Queued == UNION { Range(channel[k].entries) : k \in DOMAIN channel }
InRam ==
  Range(current_run) \cup Range(pending.entries) \cup Queued \cup Range(wtask.entries)
OnDisk == UNION { Range(files[i]) : i \in DOMAIN files }

\* Until a failure is reported, every record given to insert is in a buffer or in
\* a run file, or a flush that failed unseen lost it: handing a run over,
\* queueing, sorting and writing lose nothing else.
NoRecordLost ==
  result = "none" /\ wstate # "failed" => inserted \subseteq InRam \cup OnDisk \cup lost

\* Run files are read only when the worker is gone and has written, as far as it
\* knows, all of them.
MergeAfterWorker ==
  pc \in {"open", "merge"} =>
    /\ wstate = "exited" /\ channel = <<>>
    /\ DOMAIN files = 0 .. run_count - 1
    /\ inserted \subseteq OnDisk \cup lost

\* crashdump_db::Writer::insert wants strictly ascending addresses (its doc,
\* crashdump-db/src/lib.rs:128); duplicates across runs must not get through.
WriterInputAscending ==
  \A j, k \in DOMAIN out : j < k => out[j].addr < out[k].addr

\* A record written to the database is one that was inserted: the merge never
\* pairs the header of one record with the blob of another.
BlobsKeepTheirAddress == Range(out) \subseteq inserted

Addresses(S) == { r.addr : r \in S }

\* finish returned Ok: only inserted addresses were written, and every one of
\* them but those whose records a failing last flush of a run file took along.
AllAddressesWritten ==
  result = "ok" =>
    /\ Addresses(Range(out)) \subseteq Addresses(inserted)
    /\ Addresses(inserted \ lost) \subseteq Addresses(Range(out))

\* A run file that ends inside a blob is noticed: its records come out in order,
\* the read of that blob fails, and finish returns the error.
CutBlobIsError == result = "ok" => cut = {}

\* What read_header's doc says (extsorter.rs:223): None at a clean end of the
\* file, an error on a partial read.  Then no file that lacks records could be
\* merged to an Ok.  But every UnexpectedEof gives None, that of a header or of a
\* zstd frame of which only a part is there too.
PartialReadIsError == result = "ok" => lost = {}

\* After a successful finish nothing of the sort is left on disk.
RunFilesCleanedUp == pc = "end" /\ result = "ok" => ~tmp_dir /\ files = <<>>

\* Both threads end: the scan thread returns whatever fails (no deadlock between
\* a blocked send, the join and the worker), and the worker ends even when the
\* sorter was abandoned.
ThreadsEnd == <>(pc = "end") /\ <>(wstate \in {"exited", "failed"})

-----------------------------------------------------------------------------
(* Refinement: the sorter implements AddrStore.                            *)

WrittenMap ==
  [a \in Addresses(Range(out)) |-> CHOOSE r \in Range(out) : r.addr = a]

Store == INSTANCE AddrStore WITH
  records <- inserted,
  lost    <- lost,
  status  <- CASE result = "none" -> "open"
               [] result = "ok"   -> "ready"
               [] result = "err"  -> "failed",
  db      <- IF result = "ok" THEN WrittenMap ELSE [a \in {} |-> a]

\* Runs, threads, spills and the merge are invisible to parse_scanner: it sees
\* a store that takes records, may lose some where a last flush fails, and ends
\* as a map holding for each address put and not lost one of its blobs, or as an
\* error.
ImplementsAddrStore == Store!Spec
=============================================================================
