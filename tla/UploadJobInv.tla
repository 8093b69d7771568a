---------------------------- MODULE UploadJobInv ----------------------------
(***************************************************************************)
(* The inductive invariant of UploadJob that the theorems of               *)
(* UploadJobProofs rest on.                                                *)
(***************************************************************************)
EXTENDS UploadJob

\* Where the background task is, against the handler, the parse and the status.
Stages ==
  /\ hpc = "start" <=> status = "none"
  /\ bpc # "off" => hpc = "ok"
  /\ bpc \in {"meta", "complete", "push_done", "set_done"} => ppc = "ok"
  /\ bpc \in {"rmdir", "push_error", "set_failed"} => ppc = "err"
  /\ bpc = "end" => \/ status = "done" /\ ppc = "ok"
                    \/ status = "failed" /\ ppc = "err"
  /\ bpc # "end" => status \in {"none", "running"}

\* The dump may be found, and so deleted, only after it was parsed.
Commit ==
  disk.complete \/ dpc # "off" => ppc = "ok" /\ bpc \in {"push_done", "set_done", "end"}

\* What the parse has left on the disk, unless the upload was cleaned up.
Written ==
  hpc # "bad_request" =>
    /\ ppc \in {"recv", "scan", "sort"} => disk.data # "none"
    /\ ppc = "ok" /\ dpc = "off" => disk.data = "full"

\* What the background task has put there, or taken away, if no step of it failed.
Settled ==
  ~io_failed =>
    /\ bpc \in {"complete", "push_done", "set_done", "end"} /\ ppc = "ok" /\ dpc = "off"
         => disk.meta
    /\ bpc \in {"push_done", "set_done", "end"} /\ ppc = "ok" /\ dpc = "off"
         => disk.complete
    /\ bpc \in {"push_error", "set_failed", "end"} /\ ppc = "err" => disk = NoDir

\* How the job ended is among the first n events.
Told(n) == \E i \in 1 .. n : events[i][1] \in Terminal

\* A stream has taken the first `index' events and no more.  If its copy of the
\* status is a final one, it was made after the terminal event was pushed.
StreamOk(s) ==
  /\ sse[s].pc # "off" => status # "none"
  /\ sse[s].index <= Len(events)
  /\ sse[s].got \o sse[s].pending = SubSeq(events, 1, sse[s].index)
  /\ sse[s].pc \in {"off", "snap", "read", "closed"} => sse[s].pending = <<>>
  /\ sse[s].pc \in {"read", "send"} => sse[s].status # "none"
  /\ sse[s].status \in {"done", "failed"} => bpc = "end"
  /\ sse[s].pc = "send" /\ sse[s].status \in {"done", "failed"} => Told(sse[s].index)
  /\ sse[s].pc = "closed" => Told(sse[s].index)

Streams ==
  /\ bpc \in {"set_done", "set_failed", "end"} => Told(Len(events))
  /\ \A s \in Stream : StreamOk(s)

IInv == TypeOK /\ Stages /\ Commit /\ Written /\ Settled /\ Streams
=============================================================================
