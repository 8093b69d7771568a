---------------------------- MODULE ExtsorterInv ----------------------------
(***************************************************************************)
(* The inductive invariant of Extsorter, in the layers the proofs of       *)
(* ExtsorterProofs go through: control, then where records are, then what  *)
(* the merge has done.                                                     *)
(***************************************************************************)
EXTENDS Extsorter

Scanning == {"scan", "send", "send_last", "close"}
Working  == Scanning \cup {"join", "open", "merge"}

\* Which thread can be where: what the scan thread's position says of the
\* result, the channel and the worker, and which task slots are in use.
Control ==
  /\ result = "none" <=> pc \in Working
  /\ pc \in Scanning => tx_open
  /\ pc \in {"join", "open", "merge"} => ~tx_open
  /\ pending.entries # <<>> <=> pc \in {"send", "send_last"}
  /\ pc \in Working \ {"scan"} => current_run = <<>>
  /\ \A k \in DOMAIN channel : channel[k].entries # <<>>
  /\ wtask.entries # <<>> <=> wstate \in {"sort", "write"}
  /\ wstate = "exited" => ~tx_open /\ channel = <<>>
  /\ pc \in {"open", "merge"} => wstate = "exited"
  /\ result = "ok" => wstate = "exited"
  /\ pc \in Working => tmp_dir
  /\ pc = "rmdir" /\ result = "ok" => files = <<>>
  /\ pc = "end" /\ result = "ok" => files = <<>> /\ ~tmp_dir

InUse(t) == t.entries # <<>>

\* Run numbers: each of 0 .. run_count-1 belongs to exactly one of the blocked
\* send, the queue, the worker and the finished files.
Numbering ==
  /\ DOMAIN files \subseteq 0 .. run_count - 1
  /\ InUse(pending) =>
       /\ pending.run < run_count /\ pending.run \notin DOMAIN files
       /\ InUse(wtask) => wtask.run # pending.run
       /\ \A k \in DOMAIN channel : channel[k].run # pending.run
  /\ \A k \in DOMAIN channel :
       /\ channel[k].run < run_count /\ channel[k].run \notin DOMAIN files
       /\ InUse(wtask) => wtask.run # channel[k].run
  /\ InUse(wtask) => wtask.run < run_count
  /\ wstate = "sort" => wtask.run \notin DOMAIN files
  /\ wstate = "write" /\ result = "none" =>
       wtask.run \in DOMAIN files /\ files[wtask.run] = <<>>
  /\ result = "none" /\ wstate # "failed" =>
       \A i \in 0 .. run_count - 1 :
         \/ i \in DOMAIN files
         \/ InUse(pending) /\ i = pending.run
         \/ InUse(wtask) /\ i = wtask.run
         \/ \E k \in DOMAIN channel : i = channel[k].run

\* Buffers and run files hold inserted records only, run files in order; what is
\* lost was inserted.
Contents ==
  /\ InRam \cup OnDisk \cup lost \subseteq inserted
  /\ \A i \in DOMAIN files : Ascending(files[i])

\* Merging: every run is read in order up to rd; what was read is written,
\* what was not is announced by the header its run has in the heap.
Merging ==
  /\ pc \in Scanning \cup {"join", "open"} => out = <<>> /\ prev_addr = NoAddr
  /\ out = <<>> <=> prev_addr = NoAddr
  /\ out # <<>> => prev_addr = out[Len(out)].addr
  /\ pc = "merge" =>
       /\ DOMAIN rd = DOMAIN files
       /\ \A h \in heap :
            /\ h.run \in DOMAIN files
            /\ rd[h.run] \in DOMAIN files[h.run]
            /\ h.addr = files[h.run][rd[h.run]].addr
            /\ h.len = files[h.run][rd[h.run]].len
            /\ prev_addr <= h.addr
       /\ \A i \in DOMAIN files : \A k \in DOMAIN files[i] :
            \/ k < rd[i] /\ files[i][k].addr \in Addresses(Range(out))
            \/ k >= rd[i] /\ \E h \in heap : h.run = i

\* The runs that end inside a blob: a header of theirs, that of the cut blob in
\* the end, stays in the heap.
Cuts ==
  /\ pc \in Working => \A i \in cut : i \in DOMAIN files /\ files[i] # <<>>
  /\ pc = "merge" => \A i \in cut : rd[i] <= Len(files[i])

\* The whole invariant.
IInv ==
  /\ TypeOK /\ Control /\ Numbering
  /\ Contents /\ NoRecordLost /\ MergeAfterWorker
  /\ Merging /\ BlobsKeepTheirAddress /\ WriterInputAscending /\ AllAddressesWritten
  /\ Cuts /\ CutBlobIsError
=============================================================================
