--------------------------- MODULE UploadJobProofs ---------------------------
(***************************************************************************)
(* Theorems about UploadJob, for every set of streams, every capacity of   *)
(* both channels, every number of chunks and of messages.                  *)
(***************************************************************************)
EXTENDS UploadJobInv, SequenceTheorems, TLAPS

-----------------------------------------------------------------------------
(* Types.                                                                  *)

\* What is not touched keeps its type.
LEMMA TypeFrame ==
  /\ UNCHANGED <<up, jobVars>> /\ JobType => JobType'
  /\ UNCHANGED handlerVars /\ HandlerType => HandlerType'
  /\ UNCHANGED chanVars /\ ChanType => ChanType'
  /\ UNCHANGED parseVars /\ ParseType => ParseType'
  /\ UNCHANGED relayVars /\ RelayType => RelayType'
  /\ UNCHANGED bgVars /\ BgType => BgType'
  /\ UNCHANGED <<disk, dpc>> /\ DiskType => DiskType'
  /\ UNCHANGED sse /\ SseType => SseType'
BY DEF jobVars, handlerVars, chanVars, parseVars, relayVars, bgVars, JobType, HandlerType,
       ChanType, ParseType, RelayType, BgType, DiskType, SseType, InChannel

\* The parser drops its end of the body channel.
LEMMA DroppedType ==
  ASSUME TypeOK, ReceiverDropped, tx_open' = tx_open
  PROVE  ChanType'
<1>1. chunks' \in 0 .. ChanCap
  BY JobAssump DEF ReceiverDropped
<1>2. tx_open' \in BOOLEAN
  BY DEF TypeOK, ChanType
<1>3. rx_open' \in BOOLEAN
  BY DEF ReceiverDropped
<1> QED
  BY <1>1, <1>2, <1>3 DEF ChanType

LEMMA NoDirType ==
  NoDir \in [data : {"none", "partial", "full"}, meta : BOOLEAN, complete : BOOLEAN]
BY DEF NoDir

\* Messages of the parser are numbered.
LEMMA ReportType ==
  ASSUME TypeOK, NEW k \in {0, 1}, Report(k)
  PROVE  progress' \in Seq(1 .. MaxProgress) /\ produced' \in 0 .. MaxProgress
<1> DEFINE new == [i \in 1 .. k |-> produced + i]
<1>1. produced \in 0 .. MaxProgress /\ produced + k <= MaxProgress /\ MaxProgress \in Nat
  BY JobAssump DEF TypeOK, ParseType, Report
<1>2. new \in Seq(1 .. MaxProgress)
  <2>1. \A i \in 1 .. k : produced + i \in 1 .. MaxProgress
    BY <1>1
  <2> QED
    BY <2>1
<1>3. progress' = progress \o new /\ progress \in Seq(1 .. MaxProgress)
  BY DEF Report, TypeOK, ParseType
<1>4. progress' \in Seq(1 .. MaxProgress)
  <2> HIDE DEF new
  <2> QED
    BY <1>2, <1>3, ConcatProperties
<1> QED
  BY <1>1, <1>4 DEF Report

\* An event is appended.
LEMMA PushType ==
  ASSUME TypeOK, NEW kind \in EventKind, NEW n \in 0 .. MaxProgress, PushEvent(kind, n)
  PROVE  /\ events' \in Seq(Event) /\ Len(events') = Len(events) + 1
         /\ \A i \in 1 .. Len(events) : events'[i] = events[i]
         /\ events'[Len(events) + 1] = <<kind, n>>
<1>1. events \in Seq(Event) /\ <<kind, n>> \in Event
  BY DEF TypeOK, JobType, Event
<1> QED
  BY <1>1, AppendProperties DEF PushEvent

LEMMA TypeHandler ==
  ASSUME TypeOK, HandlerStep
  PROVE  TypeOK'
<1> USE TypeFrame DEF TypeOK
<1>1. CASE Register
  BY <1>1 DEF Register, handlerVars, jobVars, parseVars, relayVars, JobType, HandlerType,
              ParseType, RelayType
<1>2. CASE DumpField \/ Abort \/ NoDumpField
  BY <1>2 DEF DumpField, Abort, NoDumpField, HandlerType, ChanType
<1>3. CASE Cleanup
  BY <1>3, NoDirType DEF Cleanup, HandlerType, DiskType
<1>4. CASE NextChunk
  BY <1>4, JobAssump DEF NextChunk, HandlerType
<1>5. CASE SendChunk
  BY <1>5, JobAssump DEF SendChunk, HandlerType, ChanType
<1>6. CASE EndUpload
  BY <1>6 DEF EndUpload, HandlerType, ChanType, BgType
<1> QED
  BY <1>1, <1>2, <1>3, <1>4, <1>5, <1>6 DEF HandlerStep

LEMMA TypeParse ==
  ASSUME TypeOK, ParseStep
  PROVE  TypeOK'
<1> USE TypeFrame DEF TypeOK
<1>1. CASE CreateDir
  BY <1>1 DEF CreateDir, ParseType, DiskType
<1>2. CASE ReadChunk
  BY <1>2, JobAssump DEF ReadChunk, ChanType, ParseType
<1>3. CASE ScanChunk
  BY <1>3, ReportType DEF ScanChunk, ParseType
<1>4. CASE ScanEnds
  <2>1. ChanType'
    BY <1>4, DroppedType DEF ScanEnds
  <2>2. ParseType'
    BY <1>4, ReportType DEF ScanEnds, ParseType
  <2> QED
    BY <1>4, <2>1, <2>2 DEF ScanEnds
<1>5. CASE SortEnds
  BY <1>5, ReportType DEF SortEnds, ParseType, DiskType, ParseOver
<1>6. CASE ParseFails
  <2>1. ChanType'
    BY <1>6, DroppedType DEF ParseFails
  <2>2. ParseType'
    BY <1>6 DEF ParseFails, ParseType, ParseOver
  <2> QED
    BY <1>6, <2>1, <2>2 DEF ParseFails
<1> QED
  BY <1>1, <1>2, <1>3, <1>4, <1>5, <1>6 DEF ParseStep

LEMMA TypeRelay ==
  ASSUME TypeOK, RelayStep
  PROVE  TypeOK'
<1> USE TypeFrame DEF TypeOK
<1>1. CASE RelayReceive
  <2>1. Head(progress) \in 1 .. MaxProgress /\ Tail(progress) \in Seq(1 .. MaxProgress)
    BY <1>1, HeadTailProperties DEF RelayReceive, ParseType
  <2> QED
    BY <1>1, <2>1, JobAssump DEF RelayReceive, ParseType, RelayType
<1>2. CASE RelayPush
  BY <1>2, PushType DEF RelayPush, EventKind, JobType, RelayType, relayVars
<1>3. CASE RelayEnd
  BY <1>3 DEF RelayEnd, RelayType
<1> QED
  BY <1>1, <1>2, <1>3 DEF RelayStep

LEMMA TypeBg ==
  ASSUME TypeOK, BgStep
  PROVE  TypeOK'
<1> USE TypeFrame DEF TypeOK, bgUnchanged
<1>1. CASE PushStarted
  BY <1>1, PushType, JobAssump DEF PushStarted, EventKind, JobType, BgType
<1>2. CASE AwaitParse
  BY <1>2 DEF AwaitParse, BgType
<1>3. CASE WriteMeta \/ WriteComplete \/ RemoveFailed
  <2>1. BgType' /\ DiskType'
    BY <1>3, NoDirType DEF WriteMeta, WriteComplete, RemoveFailed, BgType, DiskType
  <2> QED
    BY <1>3, <2>1 DEF WriteMeta, WriteComplete, RemoveFailed
<1>4. CASE PushTerminal
  BY <1>4, PushType, JobAssump DEF PushTerminal, EventKind, JobType, BgType
<1>5. CASE SetStatus
  BY <1>5 DEF SetStatus, JobType, BgType
<1> QED
  BY <1>1, <1>2, <1>3, <1>4, <1>5 DEF BgStep

LEMMA TypeDelete ==
  ASSUME TypeOK, Delete \/ RemoveEntry
  PROVE  TypeOK'
<1> USE TypeFrame DEF TypeOK, delUnchanged
<1>1. CASE Delete
  BY <1>1 DEF Delete, DiskType
<1>2. CASE RemoveEntry
  BY <1>2 DEF RemoveEntry, DiskType
<1> QED
  BY <1>1, <1>2

\* What the streams do to themselves.
LEMMA TypeStream ==
  ASSUME TypeOK, NEW s \in Stream, ClientStep(s) \/ SseStep(s)
  PROVE  TypeOK'
<1> USE TypeFrame DEF TypeOK, sseUnchanged
<1> DEFINE n == Len(sse[s].got) - sse[s].taken
<1>0. /\ sse \in [Stream -> Task] /\ sse[s] \in Task /\ events \in Seq(Event)
      /\ n \in 0 .. SseCap /\ SseCap \in Nat /\ Len(sse[s].got) \in Nat /\ sse[s].taken \in Nat
  BY JobAssump, LenProperties DEF SseType, JobType, InChannel, Task
<1>1. SUFFICES sse' \in [Stream -> Task]
               /\ Len(sse'[s].got) - sse'[s].taken \in 0 .. SseCap
  <2>1. \A r \in Stream \ {s} : sse'[r] = sse[r]
    BY <1>0 DEF ClientStep, OpenStream, ClientTakes, StreamLost, SseStep, Snapshot, ReadEvents,
                SendEvent, CheckFinished
  <2>2. (\A r \in Stream : InChannel(r) \in 0 .. SseCap)'
    BY <1>1, <2>1 DEF SseType, InChannel
  <2>3. SseType'
    BY <1>1, <2>2 DEF SseType
  <2> QED
    BY <2>3 DEF ClientStep, OpenStream, ClientTakes, StreamLost, SseStep, Snapshot, ReadEvents,
                SendEvent, CheckFinished
<1>2. CASE OpenStream(s) \/ StreamLost(s) \/ CheckFinished(s)
  <2>1. PICK t \in {"snap", "lost", "closed"} : sse' = [sse EXCEPT ![s].pc = t]
    BY <1>2 DEF OpenStream, StreamLost, CheckFinished
  <2> QED
    BY <1>0, <2>1 DEF Task
<1>3. CASE Snapshot(s)
  BY <1>0, <1>3 DEF Snapshot, JobType, Task
<1>4. CASE ReadEvents(s)
  <2>1. SubSeq(events, sse[s].index + 1, Len(events)) \in Seq(Event)
    BY <1>0 DEF Task
  <2> DEFINE t == [sse[s] EXCEPT !.pc = "send"]
             u == [t EXCEPT !.index = Len(events)]
             v == [u EXCEPT !.pending = SubSeq(events, sse[s].index + 1, Len(events))]
  <2>2. sse' = [sse EXCEPT ![s] = v]
    BY <1>0, <1>4 DEF ReadEvents
  <2>3. t \in Task
    BY <1>0 DEF Task
  <2>4. u \in Task
    BY <1>0, <2>3, LenProperties DEF Task
  <2>5. v \in Task
    BY <2>1, <2>4 DEF Task
  <2>6. v.got = sse[s].got /\ v.taken = sse[s].taken
    BY <1>0 DEF Task
  <2> QED
    BY <1>0, <2>2, <2>5, <2>6
<1>5. CASE SendEvent(s)
  <2> DEFINE g == Append(sse[s].got, Head(sse[s].pending))
  <2>1. /\ g \in Seq(Event) /\ Len(g) = Len(sse[s].got) + 1
        /\ Tail(sse[s].pending) \in Seq(Event)
    BY <1>0, <1>5, HeadTailProperties, AppendProperties DEF SendEvent, Task
  <2>2. n < SseCap
    BY <1>0, <1>5 DEF SendEvent, Blocked, InChannel
  <2>3. sse' \in [Stream -> Task] /\ sse'[s].got = g /\ sse'[s].taken = sse[s].taken
    <3> HIDE DEF g
    <3>1. sse' = [sse EXCEPT ![s].got = g, ![s].pending = Tail(@)]
      BY <1>5 DEF SendEvent, g
    <3> QED
      BY <1>0, <2>1, <3>1 DEF Task
  <2> HIDE DEF g
  <2> QED
    BY <1>0, <2>1, <2>2, <2>3
<1>6. CASE ClientTakes(s)
  <2>1. n > 0 /\ sse' = [sse EXCEPT ![s].taken = @ + 1]
    BY <1>6 DEF ClientTakes, InChannel
  <2> HIDE DEF n
  <2> DEFINE t == [sse[s] EXCEPT !.taken = sse[s].taken + 1]
  <2>2. t \in Task /\ t.got = sse[s].got /\ t.taken = sse[s].taken + 1
    <3> DEFINE k == sse[s].taken + 1
    <3>1. k \in Nat /\ sse[s] \in Task /\ t = [sse[s] EXCEPT !.taken = k]
      BY <1>0
    <3> HIDE DEF k, t
    <3>2. t \in Task /\ t.got = sse[s].got /\ t.taken = k
      BY <3>1 DEF Task
    <3> QED
      BY <3>2 DEF k
  <2>3. sse' = [sse EXCEPT ![s] = t]
    BY <1>0, <2>1
  <2> HIDE DEF t
  <2>4. sse' \in [Stream -> Task] /\ sse'[s] = t
    BY <1>0, <2>2, <2>3
  <2> QED
    BY <1>0, <2>1, <2>2, <2>4 DEF n
<1> QED
  BY <1>2, <1>3, <1>4, <1>5, <1>6 DEF ClientStep, SseStep

LEMMA TypeStep == TypeOK /\ [Next]_vars => TypeOK'
<1> SUFFICES ASSUME TypeOK, [Next]_vars PROVE TypeOK'
  OBVIOUS
<1>1. CASE Crash
  BY <1>1, TypeFrame DEF Crash, TypeOK, JobType, jobVars
<1>2. CASE UNCHANGED vars
  BY <1>2, TypeFrame DEF TypeOK, vars
<1> QED
  BY <1>1, <1>2, TypeHandler, TypeParse, TypeRelay, TypeBg, TypeDelete, TypeStream
     DEF Next, Terminated

LEMMA TypeInit == Init => TypeOK
<1> SUFFICES ASSUME Init PROVE TypeOK
  OBVIOUS
<1>1. SseType /\ JobType
  BY EmptySeq, JobAssump DEF Init, SseType, InChannel, Task, JobType
<1>2. HandlerType /\ ChanType /\ RelayType
  BY JobAssump DEF Init, HandlerType, ChanType, RelayType
<1>3. ParseType
  BY JobAssump, EmptySeq DEF Init, ParseType
<1>4. BgType /\ DiskType
  BY NoDirType DEF Init, BgType, DiskType
<1> QED
  BY <1>1, <1>2, <1>3, <1>4 DEF TypeOK

-----------------------------------------------------------------------------
(* The job and its directory.                                              *)

JobInv == Stages /\ Commit /\ Written /\ Settled

\* While the handler runs, there is no background task, and nothing to delete.
LEMMA JobHandler ==
  ASSUME TypeOK, JobInv, HandlerStep
  PROVE  JobInv'
<1> USE DEF JobInv, Stages, Commit, Written, Settled, jobVars, bgVars, parseVars
<1>1. CASE Register
  BY <1>1 DEF Register
<1>2. CASE DumpField \/ Abort \/ NoDumpField \/ NextChunk \/ SendChunk
  BY <1>2 DEF DumpField, Abort, NoDumpField, NextChunk, SendChunk
<1>3. CASE Cleanup
  BY <1>3 DEF Cleanup, NoDir
<1>4. CASE EndUpload
  BY <1>4 DEF EndUpload
<1> QED
  BY <1>1, <1>2, <1>3, <1>4 DEF HandlerStep

LEMMA JobParse ==
  ASSUME TypeOK, JobInv, ParseStep
  PROVE  JobInv'
<1> USE DEF JobInv, Stages, Commit, Written, Settled, jobVars, bgVars, handlerVars, TypeOK, DiskType
<1>1. CASE CreateDir
  BY <1>1 DEF CreateDir
<1>2. CASE ReadChunk \/ ScanChunk \/ ScanEnds
  BY <1>2 DEF ReadChunk, ScanChunk, ScanEnds, AtEof
<1>3. CASE SortEnds
  BY <1>3 DEF SortEnds
<1>4. CASE ParseFails
  BY <1>4 DEF ParseFails, AtEof
<1> QED
  BY <1>1, <1>2, <1>3, <1>4 DEF ParseStep

LEMMA JobRelay ==
  ASSUME TypeOK, JobInv, RelayStep
  PROVE  JobInv'
<1> USE DEF JobInv, Stages, Commit, Written, Settled, jobVars, bgVars, handlerVars, parseVars
<1> QED
  BY DEF RelayStep, RelayReceive, RelayPush, RelayEnd

LEMMA JobBg ==
  ASSUME TypeOK, JobInv, BgStep
  PROVE  JobInv'
<1> USE DEF JobInv, Stages, Commit, Written, Settled, jobVars, handlerVars, parseVars, bgUnchanged,
            TypeOK, DiskType
<1>1. CASE PushStarted
  BY <1>1 DEF PushStarted
<1>2. CASE AwaitParse
  BY <1>2 DEF AwaitParse, ParseOver
<1>3. CASE WriteMeta
  BY <1>3 DEF WriteMeta
<1>4. CASE WriteComplete
  BY <1>4 DEF WriteComplete
<1>5. CASE RemoveFailed
  BY <1>5 DEF RemoveFailed, NoDir
<1>6. CASE PushTerminal
  BY <1>6 DEF PushTerminal
<1>7. CASE SetStatus
  BY <1>7 DEF SetStatus
<1> QED
  BY <1>1, <1>2, <1>3, <1>4, <1>5, <1>6, <1>7 DEF BgStep

LEMMA JobDelete ==
  ASSUME TypeOK, JobInv, Delete \/ RemoveEntry
  PROVE  JobInv'
<1> USE DEF JobInv, Stages, Commit, Written, Settled, jobVars, bgVars, handlerVars, parseVars,
            delUnchanged, TypeOK, DiskType
<1>1. CASE Delete
  BY <1>1 DEF Delete
<1>2. CASE RemoveEntry
  BY <1>2 DEF RemoveEntry
<1> QED
  BY <1>1, <1>2

LEMMA JobStep == TypeOK /\ JobInv /\ [Next]_vars => JobInv'
<1> SUFFICES ASSUME TypeOK, JobInv, [Next]_vars PROVE JobInv'
  OBVIOUS
<1>1. CASE UNCHANGED <<jobVars, handlerVars, parseVars, bgVars, disk, dpc>>
  BY <1>1 DEF JobInv, Stages, Commit, Written, Settled, jobVars, bgVars, handlerVars, parseVars
<1>2. CASE UNCHANGED vars \/ Crash \/ \E s \in Stream : ClientStep(s) \/ SseStep(s)
  BY <1>1, <1>2 DEF vars, Crash, ClientStep, OpenStream, ClientTakes, StreamLost, SseStep,
                    Snapshot, ReadEvents, SendEvent, CheckFinished, sseUnchanged
<1> QED
  BY <1>2, JobHandler, JobParse, JobRelay, JobBg, JobDelete DEF Next, Terminated

LEMMA JobInit == Init => JobInv
BY DEF Init, JobInv, Stages, Commit, Written, Settled, NoDir

-----------------------------------------------------------------------------
(* The event streams.                                                      *)

\* A step that leaves events and streams alone, and does not go back.
LEMMA StreamsFrame ==
  ASSUME Streams, UNCHANGED <<events, sse>>,
         status' = "none" => status = "none",
         bpc = "end" => bpc' = "end",
         bpc' \in {"set_done", "set_failed", "end"} => bpc \in {"set_done", "set_failed", "end"}
  PROVE  Streams'
BY DEF Streams, StreamOk, Told

\* A step that appends an event, the terminal one before the status is set.
LEMMA StreamsPush ==
  ASSUME TypeOK, Streams, NEW kind \in EventKind, NEW n \in 0 .. MaxProgress,
         PushEvent(kind, n), UNCHANGED <<status, sse>>,
         bpc = "end" => bpc' = "end",
         bpc' \in {"set_done", "set_failed", "end"} =>
           bpc \in {"set_done", "set_failed", "end"} \/ kind \in Terminal
  PROVE  Streams'
<1> DEFINE L == Len(events)
<1>1. /\ events \in Seq(Event) /\ events' \in Seq(Event) /\ L \in Nat /\ Len(events') = L + 1
      /\ \A i \in 1 .. L : events'[i] = events[i]
      /\ events'[L + 1] = <<kind, n>>
  BY PushType DEF TypeOK, JobType
<1>2. ASSUME NEW k \in 0 .. L
      PROVE  SubSeq(events', 1, k) = SubSeq(events, 1, k) /\ (Told(k) => Told(k)')
  <2>1. Told(k) => Told(k)'
    BY <1>1, <1>2 DEF Told
  <2>2. /\ SubSeq(events', 1, k) = [i \in 1 .. k |-> events'[i]]
        /\ SubSeq(events, 1, k) = [i \in 1 .. k |-> events[i]]
    BY <1>1, <1>2
  <2> QED
    BY <1>1, <1>2, <2>1, <2>2
<1>3. bpc' \in {"set_done", "set_failed", "end"} => Told(Len(events))'
  <2>1. CASE kind \in Terminal
    BY <1>1, <2>1 DEF Told
  <2>2. CASE bpc \in {"set_done", "set_failed", "end"}
    BY <1>1, <2>2 DEF Told, Streams
  <2> QED
    BY <2>1, <2>2
<1>4. ASSUME NEW s \in Stream PROVE StreamOk(s)'
  <2>0. StreamOk(s) /\ sse[s] \in Task
    BY DEF Streams, TypeOK, SseType
  <2>1. StreamOk(s) /\ sse[s].index \in 0 .. L
    BY <1>1, <2>0 DEF StreamOk, Task
  <2>2. /\ SubSeq(events', 1, sse[s].index) = SubSeq(events, 1, sse[s].index)
        /\ Told(sse[s].index) => Told(sse[s].index)'
    BY <1>2, <2>1 DEF Told
  <2> QED
    BY <1>1, <2>1, <2>2 DEF StreamOk
<1> QED
  BY <1>3, <1>4 DEF Streams

\* The steps that are not a stream's.
LEMMA StreamsOthers ==
  ASSUME TypeOK, JobInv, Streams,
         HandlerStep \/ ParseStep \/ RelayStep \/ BgStep \/ Delete \/ RemoveEntry
  PROVE  Streams'
<1>1. CASE HandlerStep
  <2>1. UNCHANGED <<events, sse>> /\ (status' = "none" => status = "none")
    BY <1>1 DEF HandlerStep, Register, DumpField, NoDumpField, Cleanup, Abort, NextChunk,
                SendChunk, EndUpload, jobVars
  <2>2. bpc' = bpc \/ (bpc = "off" /\ bpc' = "started")
    BY <1>1 DEF HandlerStep, Register, DumpField, NoDumpField, Cleanup, Abort, NextChunk,
                SendChunk, EndUpload, bgVars, JobInv, Stages
  <2> QED
    BY <2>1, <2>2, StreamsFrame
<1>2. CASE ParseStep \/ Delete \/ RemoveEntry \/ RelayReceive \/ RelayEnd
  <2>1. UNCHANGED <<status, events, bpc, sse>>
    BY <1>2 DEF ParseStep, CreateDir, ReadChunk, ScanChunk, ScanEnds, SortEnds, ParseFails,
                Delete, RemoveEntry, RelayReceive, RelayEnd, delUnchanged, jobVars, bgVars
  <2> QED
    BY <2>1, StreamsFrame
<1>3. CASE RelayPush
  BY <1>3, StreamsPush DEF RelayPush, EventKind, TypeOK, RelayType, bgVars
<1>4. CASE AwaitParse \/ WriteMeta \/ WriteComplete \/ RemoveFailed \/ SetStatus
  <2>1. /\ UNCHANGED <<events, sse>> /\ (status' = "none" => status = "none")
        /\ bpc # "end"
        /\ bpc' \in {"set_done", "set_failed", "end"} => bpc \in {"set_done", "set_failed", "end"}
    BY <1>4 DEF AwaitParse, WriteMeta, WriteComplete, RemoveFailed, SetStatus, bgUnchanged, jobVars
  <2> QED
    BY <2>1, StreamsFrame
<1>5. CASE PushStarted
  BY <1>5, StreamsPush, JobAssump DEF PushStarted, EventKind, bgUnchanged
<1>6. CASE PushTerminal
  <2>1. PICK kind \in Terminal : PushEvent(kind, 0) /\ UNCHANGED <<status, sse>> /\ bpc # "end"
    BY <1>6 DEF PushTerminal, Terminal, bgUnchanged
  <2> QED
    BY <2>1, StreamsPush, JobAssump DEF EventKind, Terminal
<1> QED
  BY <1>1, <1>2, <1>3, <1>4, <1>5, <1>6 DEF RelayStep, BgStep

\* An element moved from the head of one sequence to the end of another.
LEMMA SentConcat ==
  ASSUME NEW S, NEW g \in Seq(S), NEW p \in Seq(S), p # <<>>
  PROVE  Append(g, Head(p)) \o Tail(p) = g \o p
<1>1. /\ Head(p) \in S /\ Tail(p) \in Seq(S) /\ Append(g, Head(p)) = g \o <<Head(p)>>
      /\ <<Head(p)>> \in Seq(S)
  BY HeadTailProperties, AppendIsConcat
<1>2. (g \o <<Head(p)>>) \o Tail(p) = g \o (<<Head(p)>> \o Tail(p))
  BY <1>1, ConcatAssociative
<1>3. <<Head(p)>> \o Tail(p) = p
  <2>1. /\ <<Head(p)>> \o Tail(p) \in Seq(S) /\ Len(<<Head(p)>> \o Tail(p)) = Len(p)
        /\ \A i \in 1 .. Len(p) : (<<Head(p)>> \o Tail(p))[i] = p[i]
    BY <1>1, HeadTailProperties, ConcatProperties
  <2> QED
    BY <2>1, SeqEqual
<1> QED
  BY <1>1, <1>2, <1>3

\* The steps of one stream change nothing of the others.
LEMMA StreamsOne ==
  ASSUME TypeOK, JobInv, Streams, NEW s \in Stream, ClientStep(s) \/ SseStep(s)
  PROVE  Streams'
<1> DEFINE L == Len(events)
<1>1. /\ StreamOk(s) /\ sse[s] \in Task /\ sse \in [Stream -> Task]
      /\ events \in Seq(Event) /\ L \in Nat
  BY DEF Streams, TypeOK, SseType, JobType
<1>2. UNCHANGED <<status, events, bpc>>
  BY DEF ClientStep, OpenStream, ClientTakes, StreamLost, SseStep, Snapshot, ReadEvents,
         SendEvent, CheckFinished, sseUnchanged, jobVars, bgVars
<1>3. \A r \in Stream \ {s} : sse'[r] = sse[r]
  BY <1>1 DEF ClientStep, OpenStream, ClientTakes, StreamLost, SseStep, Snapshot, ReadEvents,
              SendEvent, CheckFinished
<1>4. SUFFICES StreamOk(s)'
  BY <1>2, <1>3 DEF Streams, StreamOk, Told
<1>5. CASE OpenStream(s)
  BY <1>1, <1>2, <1>5 DEF OpenStream, StreamOk, Told, Task, JobInv, Stages
<1>6. CASE Snapshot(s)
  BY <1>1, <1>2, <1>6 DEF Snapshot, StreamOk, Told, Task, JobInv, Stages
<1>7. CASE ReadEvents(s)
  <2> DEFINE k == sse[s].index
             t == sse'[s]
  <2>1. k \in 0 .. L /\ sse[s].pending = <<>> /\ sse[s].got = SubSeq(events, 1, k)
    BY <1>1, <1>7 DEF ReadEvents, StreamOk, Task
  <2>2. SubSeq(events, 1, k) \o SubSeq(events, k + 1, L) = SubSeq(events, 1, L)
    <3>1. 1 \in 1 .. L + 1 /\ k \in 1 - 1 .. L /\ L \in k .. L
      BY <1>1, <2>1
    <3> HIDE DEF k
    <3> QED
      BY <1>1, <3>1, ConcatAdjacentSubSeq
  <2>3. /\ t.pc = "send" /\ t.status = sse[s].status /\ t.got = sse[s].got
        /\ t.index = L /\ t.pending = SubSeq(events, k + 1, L)
    BY <1>1, <1>7 DEF ReadEvents, Task
  <2>4. t.status \in {"done", "failed"} => bpc = "end" /\ Told(L)
    BY <1>1, <2>3 DEF StreamOk, Streams
  <2>5. t.got \o t.pending = SubSeq(events, 1, L)
    BY <2>1, <2>2, <2>3
  <2>6. t.status # "none" /\ status # "none"
    BY <1>1, <1>7, <2>3 DEF StreamOk, ReadEvents
  <2>7. t.status \in {"done", "failed"} => bpc' = "end" /\ Told(Len(events))'
    BY <1>2, <2>4 DEF Told
  <2>8. t.index <= Len(events')
    BY <1>1, <1>2, <2>3
  <2>9. t.got \o t.pending = SubSeq(events', 1, t.index)
    <3> HIDE DEF t
    <3> QED
      BY <1>2, <2>3, <2>5
  <2> QED
    BY <1>2, <2>3, <2>6, <2>7, <2>8, <2>9 DEF StreamOk, Told
<1>8. CASE SendEvent(s)
  <2> DEFINE t == sse'[s]
             g == sse[s].got
             p == sse[s].pending
  <2>1. g \in Seq(Event) /\ p \in Seq(Event) /\ p # <<>>
    BY <1>1, <1>8 DEF SendEvent, Task
  <2>2. /\ t.pc = "send" /\ t.status = sse[s].status /\ t.index = sse[s].index
        /\ t.got = Append(g, Head(p)) /\ t.pending = Tail(p) /\ sse[s].pc = "send"
    BY <1>1, <1>8 DEF SendEvent, Task
  <2>3. t.got \o t.pending = g \o p
    BY <2>1, <2>2, SentConcat
  <2> QED
    BY <1>1, <1>2, <2>2, <2>3 DEF StreamOk, Told
<1>9. CASE StreamLost(s)
  BY <1>1, <1>2, <1>9 DEF StreamLost, StreamOk, Told, Task
<1>10. CASE CheckFinished(s)
  BY <1>1, <1>2, <1>10 DEF CheckFinished, StreamOk, Told, Task
<1>11. CASE ClientTakes(s)
  BY <1>1, <1>2, <1>11 DEF ClientTakes, StreamOk, Told, Task
<1> QED
  BY <1>5, <1>6, <1>7, <1>8, <1>9, <1>10, <1>11 DEF ClientStep, SseStep

LEMMA StreamsStep == TypeOK /\ JobInv /\ Streams /\ [Next]_vars => Streams'
<1> SUFFICES ASSUME TypeOK, JobInv, Streams, [Next]_vars PROVE Streams'
  OBVIOUS
<1>1. CASE UNCHANGED vars \/ Crash
  <2>1. UNCHANGED <<status, events, bpc, sse>>
    BY <1>1 DEF vars, Crash, jobVars, bgVars
  <2> QED
    BY <2>1, StreamsFrame
<1> QED
  BY <1>1, StreamsOthers, StreamsOne DEF Next, Terminated

LEMMA StreamsInit == Init => Streams
<1> SUFFICES ASSUME Init PROVE Streams
  OBVIOUS
<1>1. events = <<>> /\ events \in Seq(Event) /\ Len(events) = 0 /\ bpc = "off"
  BY EmptySeq DEF Init
<1>2. <<>> \o <<>> = SubSeq(events, 1, 0)
  BY <1>1, SubSeqEmpty, ConcatEmptySeq, EmptySeq
<1> QED
  BY <1>1, <1>2 DEF Init, Streams, StreamOk

-----------------------------------------------------------------------------
(* The theorems.                                                           *)

\* The job's state, its directory and its streams fit together in every
\* reachable state, crashes, aborts and failed file steps included.
THEOREM Invariance == Spec => []IInv
<1>1. Init => IInv
  BY TypeInit, JobInit, StreamsInit DEF IInv, JobInv
<1>2. IInv /\ [Next]_vars => IInv'
  BY TypeStep, JobStep, StreamsStep DEF IInv, JobInv
<1> QED
  BY <1>1, <1>2, PTL DEF Spec, SafeSpec

\* Every part of the state keeps its type; neither the body channel nor that of
\* a stream ever holds more than its capacity.
THEOREM TypeCorrect == Spec => []TypeOK
<1>1. IInv => TypeOK
  BY DEF IInv
<1> QED
  BY <1>1, Invariance, PTL

\* The marker .complete commits: with it, until a delete begins, the dump's
\* stores were written to the end, wherever the server crashed.
THEOREM MarkerCommits == Spec => []CompleteMeansParsed
<1>1. IInv => CompleteMeansParsed
  BY DEF IInv, Stages, Commit, Written, CompleteMeansParsed
<1> QED
  BY <1>1, Invariance, PTL

\* The status a client polls and the dump's directory agree when no file step of
\* the background task failed.
THEOREM StatusSettled == Spec => []SettledJob
<1>1. IInv => SettledJob
  BY DEF IInv, Stages, Settled, SettledJob
<1> QED
  BY <1>1, Invariance, PTL

\* A stream delivers a prefix of the job's events, each once and in order, for
\* any number of streams, wherever each of them stands.
THEOREM StreamPrefix == Spec => []StreamInOrder
<1>1. IInv => StreamInOrder
  <2> SUFFICES ASSUME IInv, NEW s \in Stream
               PROVE  IsPrefix(sse[s].got \o sse[s].pending, events)
    BY DEF StreamInOrder
  <2> DEFINE k == sse[s].index
             t == SubSeq(events, 1, k)
  <2>1. /\ events \in Seq(Event) /\ Len(events) \in Nat /\ k \in 0 .. Len(events)
        /\ sse[s].got \o sse[s].pending = t
    <3>1. StreamOk(s) /\ sse[s] \in Task /\ events \in Seq(Event) /\ Len(events) \in Nat
      BY DEF IInv, Streams, TypeOK, SseType, JobType
    <3> QED
      BY <3>1 DEF StreamOk, Task
  <2>2. t \in Seq(Event) /\ Len(t) = k
    BY <2>1, SubSeqProperties
  <2>3. SubSeq(t, 1, k) = t
    BY <2>2, SubSeqFull
  <2> QED
    BY <2>1, <2>2, <2>3 DEF IsPrefix
<1> QED
  BY <1>1, Invariance, PTL

\* A stream that the server ends has delivered `done' or `error'.
THEOREM EndIsTold == Spec => []ClosedStreamTold
<1>1. IInv => ClosedStreamTold
  <2> SUFFICES ASSUME IInv, NEW s \in Stream, sse[s].pc = "closed"
               PROVE  \E i \in DOMAIN sse[s].got : sse[s].got[i][1] \in Terminal
    BY DEF ClosedStreamTold
  <2> DEFINE k == sse[s].index
             g == sse[s].got
  <2>1. /\ events \in Seq(Event) /\ Len(events) \in Nat /\ k \in 0 .. Len(events)
        /\ g \in Seq(Event) /\ g \o <<>> = SubSeq(events, 1, k) /\ Told(k)
    <3>1. StreamOk(s) /\ sse[s] \in Task /\ events \in Seq(Event) /\ Len(events) \in Nat
      BY DEF IInv, Streams, TypeOK, SseType, JobType
    <3>2. /\ sse[s].pending = <<>> /\ Told(k) /\ k <= Len(events)
          /\ g \o sse[s].pending = SubSeq(events, 1, k)
      BY <3>1 DEF StreamOk
    <3>3. k \in Nat /\ g \in Seq(Event)
      BY <3>1 DEF Task
    <3> QED
      BY <3>1, <3>2, <3>3
  <2>2. g = SubSeq(events, 1, k)
    BY <2>1, ConcatEmptySeq
  <2>3. \A i \in 1 .. k : i \in DOMAIN g /\ g[i] = events[i]
    BY <2>1, <2>2, SubSeqProperties, LenProperties
  <2> QED
    BY <2>1, <2>3 DEF Told
<1> QED
  BY <1>1, Invariance, PTL

=============================================================================
