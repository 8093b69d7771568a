------------------------------ MODULE UploadJob ------------------------------
(***************************************************************************)
(* src/src/bin/ecd-server.rs: the life of one upload, POST /dumps to the   *)
(* end of its event streams.                                               *)
(*                                                                         *)
(* Tasks: the request handler upload_dump, which passes the body on over a *)
(* bounded channel; the blocking parse thread; the relay that turns the    *)
(* parser's messages into events; the background task that awaits the      *)
(* parser and settles the job; the SSE tasks of job_stream; delete_dump.   *)
(* Jobs of different uploads share nothing, so one job is modelled.  A job *)
(* lives in memory only: a crash leaves the disk.                          *)
(***************************************************************************)
EXTENDS Integers, Sequences, SequencesExt

CONSTANTS Stream,       \* GET /jobs/{id}/stream requests
          ChanCap,      \* capacity of the body channel (64)
          SseCap,       \* capacity of the channel of a stream (16)
          MaxChunks,    \* bound on the chunks of one body
          MaxProgress   \* bound on the parser's messages

ASSUME JobAssump ==
  /\ ChanCap \in Nat \ {0} /\ SseCap \in Nat \ {0}
  /\ MaxChunks \in Nat /\ MaxProgress \in Nat

VARIABLES
  up,                       \* the server process is alive
  status, events,           \* the ParseJob of this upload
  hpc, sent,                \* upload_dump; chunks received from the client
  chunks, tx_open, rx_open, \* the body channel
  ppc, progress, produced,  \* parse thread, unread messages, messages so far
  rpc, msg,                 \* the relay and the message it holds
  bpc, io_failed,           \* background task; one of its file steps failed
  disk,                     \* the dump's directory
  dpc,                      \* delete_dump
  sse                       \* the SSE tasks, what each has sent and its client taken

jobVars     == <<status, events>>
handlerVars == <<hpc, sent>>
chanVars    == <<chunks, tx_open, rx_open>>
parseVars   == <<ppc, progress, produced>>
relayVars   == <<rpc, msg>>
bgVars      == <<bpc, io_failed>>
vars == <<up, jobVars, handlerVars, chanVars, parseVars, relayVars, bgVars,
          disk, dpc, sse>>

EventKind == {"started", "progress", "done", "error"}
Terminal  == {"done", "error"}
ParseOver == {"ok", "err"}
NoDir     == [data |-> "none", meta |-> FALSE, complete |-> FALSE]

Init ==
  /\ up = TRUE /\ status = "none" /\ events = <<>>
  /\ hpc = "start" /\ sent = 0
  /\ chunks = 0 /\ tx_open = TRUE /\ rx_open = TRUE
  /\ ppc = "off" /\ progress = <<>> /\ produced = 0
  /\ rpc = "off" /\ msg = 0
  /\ bpc = "off" /\ io_failed = FALSE
  /\ disk = NoDir /\ dpc = "off"
  /\ sse = [s \in Stream |-> [pc |-> "off", status |-> "none", index |-> 0,
                              pending |-> <<>>, got |-> <<>>, taken |-> 0]]

-----------------------------------------------------------------------------
(* The request handler.                                                    *)

\* The job is registered, then the relay and the parse thread are spawned.
Register ==
  /\ hpc = "start"
  /\ hpc' = "fields" /\ status' = "running" /\ ppc' = "create" /\ rpc' = "recv"
  /\ UNCHANGED <<up, events, sent, chanVars, progress, produced, msg, bgVars,
                 disk, dpc, sse>>

DumpField ==
  /\ hpc = "fields" /\ hpc' = "chunks"
  /\ UNCHANGED <<up, jobVars, sent, chanVars, parseVars, relayVars, bgVars, disk, dpc, sse>>

\* The body ends without a field `dump': tx is dropped ...
NoDumpField ==
  /\ hpc = "fields"
  /\ hpc' = "cleanup" /\ tx_open' = FALSE
  /\ UNCHANGED <<up, jobVars, sent, chunks, rx_open, parseVars, relayVars, bgVars, disk, dpc, sse>>

\* ... and the directory removed, an error being ignored.
Cleanup ==
  /\ hpc = "cleanup" /\ hpc' = "bad_request"
  /\ disk' \in {NoDir, disk}
  /\ UNCHANGED <<up, jobVars, sent, chanVars, parseVars, relayVars, bgVars, dpc, sse>>

\* A multipart error returns early, a lost connection drops the handler: tx
\* goes with it and nothing else is done.
Abort ==
  /\ hpc \in {"fields", "chunks", "send"}
  /\ hpc' = "aborted" /\ tx_open' = FALSE
  /\ UNCHANGED <<up, jobVars, sent, chunks, rx_open, parseVars, relayVars, bgVars, disk, dpc, sse>>

NextChunk ==
  /\ hpc = "chunks" /\ sent < MaxChunks
  /\ hpc' = "send" /\ sent' = sent + 1
  /\ UNCHANGED <<up, jobVars, chanVars, parseVars, relayVars, bgVars, disk, dpc, sse>>

SendChunk ==
  /\ hpc = "send" /\ rx_open /\ chunks < ChanCap
  /\ hpc' = "chunks" /\ chunks' = chunks + 1
  /\ UNCHANGED <<up, jobVars, sent, tx_open, rx_open, parseVars, relayVars, bgVars, disk, dpc, sse>>

\* The last chunk has been passed on, or the receiver is gone: tx is dropped,
\* the background task spawned and the job id returned.
EndUpload ==
  /\ hpc = "chunks" \/ (hpc = "send" /\ ~rx_open)
  /\ hpc' = "ok" /\ tx_open' = FALSE /\ bpc' = "started"
  /\ UNCHANGED <<up, jobVars, sent, chunks, rx_open, parseVars, relayVars, io_failed,
                 disk, dpc, sse>>

-----------------------------------------------------------------------------
(* The parse thread.                                                       *)

\* k more messages are sent to the relay.
Report(k) ==
  /\ produced + k <= MaxProgress
  /\ produced' = produced + k
  /\ progress' = progress \o [i \in 1 .. k |-> produced + i]

\* Mutant: the receiver outlives the parse.
MutReceiverDropped == UNCHANGED <<chunks, rx_open>>

ReceiverDropped == chunks' = 0 /\ rx_open' = FALSE

CreateDir ==
  /\ ppc = "create" /\ ppc' = "recv"
  /\ disk' = [disk EXCEPT !.data = "partial"]
  /\ UNCHANGED <<up, jobVars, handlerVars, chanVars, progress, produced, relayVars, bgVars, dpc, sse>>

\* blocking_recv hands over a chunk ...
ReadChunk ==
  /\ ppc = "recv" /\ chunks > 0
  /\ ppc' = "scan" /\ chunks' = chunks - 1
  /\ UNCHANGED <<up, jobVars, handlerVars, tx_open, rx_open, progress, produced, relayVars,
                 bgVars, disk, dpc, sse>>

\* ... its lines are scanned, and more are wanted.
ScanChunk ==
  /\ ppc = "scan" /\ ppc' = "recv"
  /\ \E k \in {0, 1} : Report(k)
  /\ UNCHANGED <<up, jobVars, handlerVars, chanVars, relayVars, bgVars, disk, dpc, sse>>

AtEof == ppc = "recv" /\ chunks = 0 /\ ~tx_open

\* The scan ends at the end of the body, or at the end of a compressed stream
\* the client sends more bytes after.
ScanEnds ==
  /\ AtEof \/ ppc = "scan"
  /\ ppc' = "sort" /\ ReceiverDropped
  /\ Report(IF produced < MaxProgress THEN 1 ELSE 0)
  /\ UNCHANGED <<up, jobVars, handlerVars, tx_open, relayVars, bgVars, disk, dpc, sse>>

\* The address database is written; its directory is created if need be.
SortEnds ==
  /\ ppc = "sort" /\ ppc' = "ok"
  /\ disk' = [disk EXCEPT !.data = IF @ = "none" THEN "partial" ELSE "full"]
  /\ \E k \in {0, 1} : Report(k)
  /\ UNCHANGED <<up, jobVars, handlerVars, chanVars, relayVars, bgVars, dpc, sse>>

ParseFails ==
  /\ AtEof \/ ppc \in {"create", "scan", "sort"}
  /\ ppc' = "err" /\ ReceiverDropped
  /\ UNCHANGED <<up, jobVars, handlerVars, tx_open, progress, produced, relayVars, bgVars,
                 disk, dpc, sse>>

-----------------------------------------------------------------------------
(* The relay.  progress_tx goes with the parser, which ends the loop.      *)

PushEvent(kind, n) == events' = Append(events, <<kind, n>>)

RelayReceive ==
  /\ rpc = "recv" /\ progress # <<>>
  /\ rpc' = "push" /\ msg' = Head(progress) /\ progress' = Tail(progress)
  /\ UNCHANGED <<up, jobVars, handlerVars, chanVars, ppc, produced, bgVars, disk, dpc, sse>>

RelayPush ==
  /\ rpc = "push" /\ rpc' = "recv"
  /\ PushEvent("progress", msg)
  /\ UNCHANGED <<up, status, handlerVars, chanVars, parseVars, msg, bgVars, disk, dpc, sse>>

RelayEnd ==
  /\ rpc = "recv" /\ progress = <<>> /\ ppc \in ParseOver
  /\ rpc' = "end"
  /\ UNCHANGED <<up, jobVars, handlerVars, chanVars, parseVars, msg, bgVars, disk, dpc, sse>>

-----------------------------------------------------------------------------
(* The background task.                                                    *)

bgUnchanged == UNCHANGED <<up, handlerVars, chanVars, parseVars, relayVars, dpc, sse>>

PushStarted ==
  /\ bpc = "started" /\ bpc' = "await"
  /\ PushEvent("started", 0)
  /\ bgUnchanged /\ UNCHANGED <<status, io_failed, disk>>

\* Mutant: the result is taken before it is there.
MutAwaitParse ==
  /\ bpc = "await"
  /\ bpc' = IF ppc = "err" THEN "rmdir" ELSE "meta"
  /\ bgUnchanged /\ UNCHANGED <<jobVars, io_failed, disk>>

AwaitParse ==
  /\ bpc = "await" /\ ppc \in ParseOver
  /\ bpc' = IF ppc = "ok" THEN "meta" ELSE "rmdir"
  /\ bgUnchanged /\ UNCHANGED <<jobVars, io_failed, disk>>

\* Mutant: the job is settled before .complete is there.
MutWriteMeta ==
  /\ bpc = "meta" /\ bpc' = "push_done"
  /\ \/ disk' = [disk EXCEPT !.meta = TRUE] /\ UNCHANGED io_failed
     \/ io_failed' = TRUE /\ UNCHANGED disk
  /\ bgUnchanged /\ UNCHANGED jobVars

\* meta.json; a failure is logged.
WriteMeta ==
  /\ bpc = "meta" /\ bpc' = "complete"
  /\ \/ disk' = [disk EXCEPT !.meta = TRUE] /\ UNCHANGED io_failed
     \/ io_failed' = TRUE /\ UNCHANGED disk
  /\ bgUnchanged /\ UNCHANGED jobVars

\* .complete; a failure is logged.
WriteComplete ==
  /\ bpc = "complete" /\ bpc' = "push_done"
  /\ \/ disk' = [disk EXCEPT !.complete = TRUE] /\ UNCHANGED io_failed
     \/ io_failed' = TRUE /\ UNCHANGED disk
  /\ bgUnchanged /\ UNCHANGED jobVars

\* A failed parse: its directory goes, an error being ignored.
RemoveFailed ==
  /\ bpc = "rmdir" /\ bpc' = "push_error"
  /\ \/ disk' = NoDir /\ UNCHANGED io_failed
     \/ io_failed' = TRUE /\ UNCHANGED disk
  /\ bgUnchanged /\ UNCHANGED jobVars

PushTerminal ==
  /\ \/ bpc = "push_done" /\ bpc' = "set_done" /\ PushEvent("done", 0)
     \/ bpc = "push_error" /\ bpc' = "set_failed" /\ PushEvent("error", 0)
  /\ bgUnchanged /\ UNCHANGED <<status, io_failed, disk>>

\* Mutant: a failure is pushed as an event only.
MutSetStatus ==
  /\ \/ bpc = "set_done" /\ status' = "done"
     \/ bpc = "set_failed" /\ UNCHANGED status
  /\ bpc' = "end"
  /\ bgUnchanged /\ UNCHANGED <<events, io_failed, disk>>

SetStatus ==
  /\ \/ bpc = "set_done" /\ status' = "done"
     \/ bpc = "set_failed" /\ status' = "failed"
  /\ bpc' = "end"
  /\ bgUnchanged /\ UNCHANGED <<events, io_failed, disk>>

-----------------------------------------------------------------------------
(* The event streams: job_stream.                                          *)

sseUnchanged == UNCHANGED <<up, jobVars, handlerVars, chanVars, parseVars, relayVars,
                            bgVars, disk, dpc>>

\* Only the response of upload_dump tells the job id.
OpenStream(s) ==
  /\ hpc = "ok" /\ sse[s].pc = "off"
  /\ sse' = [sse EXCEPT ![s].pc = "snap"]
  /\ sseUnchanged

\* The job is cloned, its status with it; the events are shared.
Snapshot(s) ==
  /\ sse[s].pc = "snap"
  /\ sse' = [sse EXCEPT ![s].pc = "read", ![s].status = status]
  /\ sseUnchanged

\* Mutant: off by one when the next index is remembered.
MutReadEvents(s) ==
  /\ sse[s].pc = "read"
  /\ sse' = [sse EXCEPT ![s].pc = "send", ![s].index = Len(events) + 1,
               ![s].pending = SubSeq(events, sse[s].index + 1, Len(events))]
  /\ sseUnchanged

ReadEvents(s) ==
  /\ sse[s].pc = "read"
  /\ sse' = [sse EXCEPT ![s].pc = "send", ![s].index = Len(events),
               ![s].pending = SubSeq(events, sse[s].index + 1, Len(events))]
  /\ sseUnchanged

\* What has been sent and not taken is in the channel to the response.
InChannel(s) == Len(sse[s].got) - sse[s].taken

\* The task waits to send until there is room in the channel.
Blocked(s) == sse[s].pc = "send" /\ sse[s].pending # <<>> /\ InChannel(s) >= SseCap

SendEvent(s) ==
  /\ sse[s].pc = "send" /\ sse[s].pending # <<>> /\ ~Blocked(s)
  /\ sse' = [sse EXCEPT ![s].got = Append(@, Head(sse[s].pending)),
                        ![s].pending = Tail(@)]
  /\ sseUnchanged

\* The response takes an event out of the channel when the connection has room
\* for it, so only as long as the client reads.
ClientTakes(s) ==
  /\ InChannel(s) > 0
  /\ sse' = [sse EXCEPT ![s].taken = @ + 1]
  /\ sseUnchanged

\* The client has closed the connection, which a send, even a waiting one, finds out.
StreamLost(s) ==
  /\ sse[s].pc = "send" /\ sse[s].pending # <<>>
  /\ sse' = [sse EXCEPT ![s].pc = "lost"]
  /\ sseUnchanged

\* Mutants: the current status decides, not the one of the snapshot; only a
\* job that is done ends the stream.
MutCheckFinished(s) ==
  /\ sse[s].pc = "send" /\ sse[s].pending = <<>>
  /\ sse' = [sse EXCEPT ![s].pc = IF status = "running" THEN "snap" ELSE "closed"]
  /\ sseUnchanged

CheckFinished(s) ==
  /\ sse[s].pc = "send" /\ sse[s].pending = <<>>
  /\ sse' = [sse EXCEPT ![s].pc = IF sse[s].status = "running"
                                    THEN "snap" ELSE "closed"]
  /\ sseUnchanged

-----------------------------------------------------------------------------
(* delete_dump, and a crash of the server.                                 *)

delUnchanged == UNCHANGED <<up, jobVars, handlerVars, chanVars, parseVars, relayVars,
                            bgVars, sse>>

\* Only a dump with .complete is found.
Delete ==
  /\ dpc = "off" /\ disk.complete
  /\ dpc' = "removing"
  /\ delUnchanged /\ UNCHANGED disk

\* remove_dir_all takes the entries in the order the directory lists them.
RemoveEntry ==
  /\ dpc = "removing"
  /\ \/ disk.data # "none" /\ disk' = [disk EXCEPT !.data = IF @ = "full" THEN "partial" ELSE "none"]
     \/ disk.meta /\ disk' = [disk EXCEPT !.meta = FALSE]
     \/ disk.complete /\ disk' = [disk EXCEPT !.complete = FALSE]
  /\ dpc' = IF disk' = NoDir THEN "end" ELSE "removing"
  /\ delUnchanged

Crash ==
  /\ up /\ up' = FALSE
  /\ UNCHANGED <<jobVars, handlerVars, chanVars, parseVars, relayVars, bgVars, disk, dpc, sse>>

-----------------------------------------------------------------------------
ParseStep == CreateDir \/ ReadChunk \/ ScanChunk \/ ScanEnds \/ SortEnds \/ ParseFails
RelayStep == RelayReceive \/ RelayPush \/ RelayEnd
BgStep == PushStarted \/ AwaitParse \/ WriteMeta \/ WriteComplete \/ RemoveFailed
            \/ PushTerminal \/ SetStatus
SseStep(s) == Snapshot(s) \/ ReadEvents(s) \/ SendEvent(s) \/ CheckFinished(s)
ClientStep(s) == OpenStream(s) \/ ClientTakes(s) \/ StreamLost(s)
HandlerStep == Register \/ DumpField \/ NoDumpField \/ Cleanup \/ Abort \/ NextChunk
                 \/ SendChunk \/ EndUpload

\* Nothing is left to do: the upload is over and every task has ended.
Terminated ==
  /\ \/ ~up
     \/ /\ hpc \in {"ok", "bad_request", "aborted"} /\ rpc = "end" /\ bpc \in {"off", "end"}
        /\ \A s \in Stream : sse[s].pc \in {"off", "lost", "closed"}
  /\ UNCHANGED vars

Next ==
  \/ up /\ \/ HandlerStep \/ ParseStep \/ RelayStep \/ BgStep
           \/ Delete \/ RemoveEntry
           \/ \E s \in Stream : ClientStep(s) \/ SseStep(s)
  \/ Crash
  \/ Terminated

\* The server's own tasks run on.  The client is free to stop at any point, to
\* send and to read alike; but a chunk received is passed on, and the directory
\* cleaned up, by the server.
Fairness ==
  /\ WF_vars(up /\ ParseStep) /\ WF_vars(up /\ RelayStep) /\ WF_vars(up /\ BgStep)
  /\ \A s \in Stream : WF_vars(up /\ SseStep(s))
  /\ WF_vars(up /\ (SendChunk \/ Cleanup \/ (hpc = "send" /\ EndUpload)))

SafeSpec == Init /\ [][Next]_vars
Spec == SafeSpec /\ Fairness

-----------------------------------------------------------------------------
Event == EventKind \X (0 .. MaxProgress)
Task  == [pc : {"off", "snap", "read", "send", "lost", "closed"},
          status : {"none", "running", "done", "failed"}, index : Nat,
          pending : Seq(Event), got : Seq(Event), taken : Nat]

JobType ==
  up \in BOOLEAN /\ status \in {"none", "running", "done", "failed"} /\ events \in Seq(Event)
HandlerType ==
  /\ hpc \in {"start", "fields", "chunks", "send", "cleanup", "ok", "bad_request", "aborted"}
  /\ sent \in 0 .. MaxChunks
ChanType == chunks \in 0 .. ChanCap /\ tx_open \in BOOLEAN /\ rx_open \in BOOLEAN
ParseType ==
  /\ ppc \in {"off", "create", "recv", "scan", "sort"} \cup ParseOver
  /\ progress \in Seq(1 .. MaxProgress) /\ produced \in 0 .. MaxProgress
RelayType == rpc \in {"off", "recv", "push", "end"} /\ msg \in 0 .. MaxProgress
BgType ==
  /\ bpc \in {"off", "started", "await", "meta", "complete", "rmdir", "push_done",
              "push_error", "set_done", "set_failed", "end"}
  /\ io_failed \in BOOLEAN
DiskType ==
  /\ disk \in [data : {"none", "partial", "full"}, meta : BOOLEAN, complete : BOOLEAN]
  /\ dpc \in {"off", "removing", "end"}
SseType == sse \in [Stream -> Task] /\ \A s \in Stream : InChannel(s) \in 0 .. SseCap

TypeOK ==
  /\ JobType /\ HandlerType /\ ChanType /\ ParseType /\ RelayType /\ BgType
  /\ DiskType /\ SseType

\* A dump that is listed and served was parsed to the end, whatever crashed or
\* failed on the way (until somebody deletes it): .complete is the commit point.
CompleteMeansParsed ==
  /\ TypeOK
  /\ disk.complete /\ dpc = "off" => disk.data = "full"

\* A settled job and the disk agree, over any schedule of the tasks, when the server
\* could write and remove files: a poll that answers "done" is about a dump that can be
\* opened, with its meta data, and one that answers "failed" about no files at all.
SettledJob ==
  ~io_failed =>
    /\ status = "done" /\ dpc = "off" => disk.complete /\ disk.meta
    /\ status = "failed" => disk = NoDir

\* A stream the server closes has been sent how the job ended.
ClosedStreamTold ==
  \A s \in Stream : sse[s].pc = "closed" =>
    \E i \in DOMAIN sse[s].got : sse[s].got[i][1] \in Terminal

\* A stream is sent the events in their order, each once, none left out.
StreamInOrder == \A s \in Stream : IsPrefix(sse[s].got \o sse[s].pending, events)

\* The handler never waits for ever to pass a chunk on, even to a parser that
\* has failed or stopped reading; and whatever became of the upload, the parse
\* thread ends.
UploadEnds ==
  /\ hpc = "send" ~> hpc # "send" \/ ~up
  /\ hpc \in {"ok", "bad_request", "aborted"} ~> ppc \in ParseOver \/ ~up

\* Once the client has the job id, the job is settled, whatever the streams on
\* it do; and each of those ends unless its client leaves the channel full for good.
JobEnds ==
  /\ hpc = "ok" ~> status \in {"done", "failed"} \/ ~up
  /\ \A s \in Stream : []<>~Blocked(s) =>
       (sse[s].pc = "snap" ~> sse[s].pc \in {"closed", "lost"} \/ ~up)
=============================================================================
