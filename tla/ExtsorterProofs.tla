--------------------------- MODULE ExtsorterProofs ---------------------------
(***************************************************************************)
(* Theorems about Extsorter, for every Addr, BlobLen, RunSize and          *)
(* MaxInserts.                                                             *)
(***************************************************************************)
EXTENDS ExtsorterInv, SequenceTheorems, TLAPS

-----------------------------------------------------------------------------
(* Sequences.                                                              *)

\* Appending adds one element to the range.
LEMMA AppendRange ==
  ASSUME NEW S, NEW s \in Seq(S), NEW x \in S
  PROVE  /\ Append(s, x) \in Seq(S)
         /\ Len(Append(s, x)) = Len(s) + 1
         /\ Append(s, x) # <<>>
         /\ Range(Append(s, x)) = Range(s) \cup {x}
         /\ \A k \in DOMAIN Append(s, x) :
              Append(s, x)[k] = IF k = Len(s) + 1 THEN x ELSE s[k]
<1> DEFINE t == Append(s, x)
<1>1. /\ t \in Seq(S) /\ Len(t) = Len(s) + 1 /\ t # <<>>
      /\ \A k \in 1 .. Len(s) : t[k] = s[k]
      /\ t[Len(s) + 1] = x
  BY AppendProperties
<1>2. Len(s) \in Nat /\ DOMAIN s = 1 .. Len(s) /\ DOMAIN t = 1 .. Len(s) + 1
  BY <1>1, LenProperties
<1>3. Range(t) = Range(s) \cup {x}
  <2>1. \A k \in DOMAIN t : t[k] \in Range(s) \cup {x}
    BY <1>1, <1>2 DEF Range
  <2>2. \A k \in DOMAIN s : s[k] \in Range(t)
    BY <1>1, <1>2 DEF Range
  <2>3. x \in Range(t)
    BY <1>1, <1>2 DEF Range
  <2> QED
    BY <2>1, <2>2, <2>3 DEF Range
<1> QED
  BY <1>1, <1>2, <1>3

\* A queue of at most one task: its head is all there is.
LEMMA ShortQueue ==
  ASSUME NEW S, NEW q \in Seq(S), Len(q) <= 1, q # <<>>
  PROVE  /\ DOMAIN q = {1} /\ Head(q) = q[1] /\ Head(q) \in S
         /\ Tail(q) = <<>>
<1>1. Len(q) = 1
  <2>1. Len(q) \in Nat \ {0}
    BY EmptySeq
  <2> QED
    BY <2>1
<1>2. Tail(q) = <<>>
  <2>1. Tail(q) \in Seq(S) /\ Len(Tail(q)) = 0
    BY <1>1, HeadTailProperties
  <2> QED
    BY <2>1, EmptySeq
<1> QED
  BY <1>1, <1>2, HeadTailProperties

\* Putting a task in the empty queue.
LEMMA FillQueue ==
  ASSUME NEW S, NEW q \in Seq(S), Len(q) < 1, NEW x \in S
  PROVE  /\ q = <<>> /\ Append(q, x) \in Seq(S) /\ Len(Append(q, x)) = 1
         /\ DOMAIN Append(q, x) = {1} /\ Append(q, x)[1] = x
BY AppendProperties, EmptySeq, LenProperties

\* The empty sequence.
LEMMA EmptyRange == Range(<<>>) = {} /\ Ascending(<<>>) /\ DOMAIN <<>> = {}
BY DEF Range, Ascending

\* Sorting permutes: sort_unstable_by_key keeps the entries and orders them.
LEMMA SortingsPermute ==
  ASSUME NEW S, NEW s \in Seq(S), NEW t \in Sortings(s)
  PROVE  /\ t \in Seq(S) /\ Len(t) = Len(s)
         /\ Range(t) = Range(s)
         /\ Ascending(t)
<1>1. PICK p \in Bijection(DOMAIN s, DOMAIN s) : t = [k \in DOMAIN s |-> s[p[k]]]
  BY DEF Sortings
<1>2. /\ p \in [DOMAIN s -> DOMAIN s]
      /\ \A j \in DOMAIN s : \E k \in DOMAIN s : p[k] = j
  BY <1>1 DEF Bijection, Injection, Surjection
<1>3. DOMAIN s = 1 .. Len(s) /\ \A k \in DOMAIN s : s[k] \in S
  OBVIOUS
<1>4. t \in Seq(S) /\ Len(t) = Len(s)
  BY <1>1, <1>2, <1>3
<1>5. Range(t) = Range(s)
  BY <1>1, <1>2 DEF Range
<1> QED
  BY <1>4, <1>5 DEF Sortings

\* What is left of a file whose tail was lost: the first n entries, in order,
\* and the lost ones are the rest.
LEMMA LeftOver ==
  ASSUME NEW S, NEW s \in Seq(S), Ascending(s), NEW n \in 0 .. Len(s), NEW inBlob \in BOOLEAN,
         IF inBlob THEN n > 0 /\ s[n].len > 0 ELSE n < Len(s)
  PROVE  LET left == SubSeq(s, 1, n)
             gone == { s[k] : k \in (IF inBlob THEN n ELSE n + 1) .. Len(s) }
         IN  /\ left \in Seq(S) /\ Ascending(left)
             /\ inBlob => left # <<>>
             /\ Range(left) \subseteq Range(s) /\ gone \subseteq Range(s) /\ gone \subseteq S
             /\ Range(s) \subseteq Range(left) \cup gone
<1> DEFINE left == SubSeq(s, 1, n)
           gone == { s[k] : k \in (IF inBlob THEN n ELSE n + 1) .. Len(s) }
<1>1. Len(s) \in Nat /\ DOMAIN s = 1 .. Len(s) /\ \A k \in DOMAIN s : s[k] \in S
  BY LenProperties
<1>2. left \in Seq(S) /\ Len(left) = n /\ \A k \in 1 .. n : left[k] = s[k]
  BY <1>1, SubSeqProperties
<1>3. DOMAIN left = 1 .. n
  BY <1>2, LenProperties
<1>4. Ascending(left)
  BY <1>1, <1>2, <1>3 DEF Ascending
<1>5. inBlob => left # <<>>
  BY <1>2
<1>6. Range(left) \subseteq Range(s)
  BY <1>1, <1>2, <1>3 DEF Range
<1>7. gone \subseteq Range(s) /\ gone \subseteq S
  BY <1>1 DEF Range
<1>8. Range(s) \subseteq Range(left) \cup gone
  <2> SUFFICES ASSUME NEW k \in 1 .. Len(s) PROVE s[k] \in Range(left) \cup gone
    BY <1>1 DEF Range
  <2>1. CASE k <= n
    <3>1. k \in DOMAIN left /\ left[k] = s[k]
      BY <1>1, <1>2, <1>3, <2>1
    <3> HIDE DEF left
    <3> QED
      BY <3>1 DEF Range
  <2>2. CASE k > n
    BY <1>1, <2>2
  <2> QED
    BY <1>1, <2>1, <2>2
<1> QED
  BY <1>2, <1>4, <1>5, <1>6, <1>7, <1>8

\* The two for the worker's file.
LEMMA LostTail ==
  ASSUME TypeOK, LoseTail
  PROVE  \E left \in Seq(Record), gone \in SUBSET Record, inBlob \in BOOLEAN :
           /\ files' = [i \in DOMAIN files |-> IF i = wtask.run THEN left ELSE files[i]]
           /\ cut' = IF inBlob THEN cut \cup {wtask.run} ELSE cut
           /\ lost' = lost \cup gone
           /\ Ascending(left) /\ (inBlob => left # <<>>)
           /\ Range(left) \subseteq Range(wtask.entries)
           /\ gone \subseteq Range(wtask.entries)
           /\ Range(wtask.entries) \subseteq Range(left) \cup gone
<1>1. PICK s \in Sortings(wtask.entries), n \in 0 .. Len(wtask.entries), inBlob \in BOOLEAN :
        /\ IF inBlob THEN n > 0 /\ s[n].len > 0 ELSE n < Len(s)
        /\ Leave(SubSeq(s, 1, n))
        /\ cut' = IF inBlob THEN cut \cup {wtask.run} ELSE cut
        /\ lost' = lost \cup { s[k] : k \in (IF inBlob THEN n ELSE n + 1) .. Len(s) }
  BY DEF LoseTail
<1>2. /\ s \in Seq(Record) /\ Len(s) = Len(wtask.entries) /\ Ascending(s)
      /\ Range(s) = Range(wtask.entries)
  BY SortingsPermute DEF TypeOK, Task
<1> DEFINE left == SubSeq(s, 1, n)
           gone == { s[k] : k \in (IF inBlob THEN n ELSE n + 1) .. Len(s) }
<1>3. /\ left \in Seq(Record) /\ Ascending(left)
      /\ inBlob => left # <<>>
      /\ Range(left) \subseteq Range(s) /\ gone \subseteq Range(s) /\ gone \subseteq Record
      /\ Range(s) \subseteq Range(left) \cup gone
  BY <1>1, <1>2, LeftOver
<1>4. /\ Leave(left) /\ lost' = lost \cup gone
      /\ cut' = IF inBlob THEN cut \cup {wtask.run} ELSE cut
  BY <1>1
<1> HIDE DEF left, gone
<1> QED
  BY <1>2, <1>3, <1>4 DEF Leave

-----------------------------------------------------------------------------
(* Types.                                                                  *)

\* What read_header yields.
LEMMA HeadersType ==
  ASSUME TypeOK, NEW i \in DOMAIN files, NEW n
  PROVE  Headers(i, n) \subseteq [addr : Addr, len : BlobLen, run : Nat]
<1>1. i \in Nat /\ files[i] \in Seq(Record)
  BY DEF TypeOK
<1>2. CASE n \in DOMAIN files[i]
  <2>1. files[i][n] \in Record
    BY <1>1, <1>2
  <2> QED
    BY <1>1, <1>2, <2>1 DEF Headers, Record
<1>3. CASE n \notin DOMAIN files[i]
  BY <1>3 DEF Headers
<1> QED
  BY <1>2, <1>3

\* Every action keeps the types; in particular no buffer outgrows RunSize.
LEMMA TypeStep == TypeOK /\ Merging /\ [Next]_vars => TypeOK'
<1> SUFFICES ASSUME TypeOK, Merging, [Next]_vars PROVE TypeOK'
  OBVIOUS
<1> USE ConstAssump
<1>0. /\ <<>> \in Seq(Record) /\ Len(<<>>) = 0
      /\ NoTask \in Task /\ NoTask.entries = <<>>
  BY EmptySeq DEF NoTask, Task
<1>1. ASSUME NEW a \in Addr, NEW l \in BlobLen, Insert(a, l) PROVE TypeOK'
  <2> DEFINE r == [addr |-> a, len |-> l, id |-> total_entries + 1]
             filled == Append(current_run, r)
  <2>1. /\ total_entries < MaxInserts
        /\ total_entries' = total_entries + 1 /\ inserted' = inserted \cup {r}
        /\ \/ Len(filled) >= RunSize /\ StartSpill(filled) /\ pc' = "send"
           \/ /\ Len(filled) < RunSize /\ current_run' = filled
              /\ UNCHANGED <<pc, pending, run_count>>
        /\ UNCHANGED <<result, channel, tx_open, tmp_dir, workerVars, mergeVars>>
    BY <1>1 DEF Insert
  <2>2. r \in Record
    BY <2>1 DEF TypeOK, Record
  <2>3. filled \in Seq(Record) /\ Len(filled) = Len(current_run) + 1
    BY <2>2, AppendRange DEF TypeOK
  <2>4. Len(current_run) \in Nat /\ Len(current_run) < RunSize
    BY LenProperties DEF TypeOK
  <2>5. /\ current_run' \in Seq(Record) /\ Len(current_run') < RunSize
        /\ pending' \in Task /\ Len(pending'.entries) <= RunSize
        /\ run_count' \in Nat
        /\ pc' \in {pc, "send"}
    <3>1. CASE Len(filled) >= RunSize /\ StartSpill(filled) /\ pc' = "send"
      <4>1. Len(filled) <= RunSize
        BY <2>3, <2>4
      <4> HIDE DEF filled
      <4> QED
        BY <3>1, <4>1, <2>3, <1>0 DEF StartSpill, Task, TypeOK
    <3>2. CASE Len(filled) < RunSize /\ current_run' = filled
                /\ UNCHANGED <<pc, pending, run_count>>
      BY <3>2, <2>3 DEF TypeOK
    <3> QED
      BY <2>1, <3>1, <3>2
  <2> HIDE DEF r, filled
  <2> QED
    BY <2>1, <2>2, <2>5 DEF TypeOK, workerVars, mergeVars
<1>2. CASE Send
  <2>1. channel = <<>> /\ channel' \in Seq(Task) /\ Len(channel') = 1
        /\ DOMAIN channel' = {1} /\ channel'[1] = pending
    BY <1>2, FillQueue DEF Send, TypeOK, ChannelCap
  <2> QED
    BY <1>2, <2>1, <1>0 DEF Send, TypeOK, ChannelCap, scanVars, workerVars, mergeVars
<1>3. CASE SendError
  BY <1>3, <1>0 DEF SendError, TypeOK, scanVars, workerVars, mergeVars
<1>4. CASE Finish
  <2>1. /\ current_run' \in Seq(Record) /\ Len(current_run') < RunSize
        /\ pending' \in Task /\ Len(pending'.entries) <= RunSize
        /\ run_count' \in Nat
        /\ pc' \in {"send_last", "close"}
    <3>1. Len(current_run) \in Nat
      BY LenProperties DEF TypeOK
    <3>2. CASE StartSpill(current_run) /\ pc' = "send_last"
      BY <3>1, <3>2, <1>0 DEF StartSpill, Task, TypeOK
    <3>3. CASE pc' = "close" /\ UNCHANGED <<pending, run_count, current_run>>
      BY <3>3 DEF TypeOK
    <3> QED
      BY <1>4, <3>2, <3>3 DEF Finish
  <2> QED
    BY <1>4, <2>1 DEF Finish, TypeOK, workerVars, mergeVars
<1>5. CASE CloseChannel
  BY <1>5 DEF CloseChannel, TypeOK, scanVars, workerVars, mergeVars
<1>6. CASE Join
  BY <1>6 DEF Join, TypeOK, scanVars, workerVars, mergeVars
<1>7. CASE Receive
  <2>1. Head(channel) \in Task /\ Head(channel) = channel[1] /\ DOMAIN channel = {1}
        /\ Tail(channel) = <<>>
    BY <1>7, ShortQueue DEF Receive, TypeOK, ChannelCap
  <2>2. channel' = <<>> /\ channel' \in Seq(Task) /\ Len(channel') = 0
        /\ DOMAIN channel' = {}
    <3>1. <<>> \in Seq(Task) /\ Len(<<>>) = 0 /\ DOMAIN <<>> = {}
      OBVIOUS
    <3>2. channel' = <<>>
      BY <1>7, <2>1 DEF Receive
    <3> QED
      BY <3>1, <3>2
  <2> QED
    BY <1>7, <2>1, <2>2 DEF Receive, TypeOK, ChannelCap, scanVars, mergeVars
<1>8. CASE WorkerExit
  BY <1>8 DEF WorkerExit, TypeOK, scanVars, mergeVars
<1>9. CASE CreateRunFile
  <2>1. DOMAIN files' \subseteq Nat /\ \A i \in DOMAIN files' : files'[i] \in Seq(Record)
    BY <1>9, <1>0 DEF CreateRunFile, TypeOK, Task
  <2> QED
    BY <1>9, <2>1 DEF CreateRunFile, TypeOK, scanVars, mergeVars
<1>10. CASE WriteRunFile
  <2>1. PICK s \in Sortings(wtask.entries) :
          files' = [i \in DOMAIN files |-> IF i = wtask.run THEN s ELSE files[i]]
    BY <1>10 DEF WriteRunFile, Leave
  <2>2. s \in Seq(Record)
    BY SortingsPermute DEF TypeOK, Task
  <2>3. DOMAIN files' \subseteq Nat /\ \A i \in DOMAIN files' : files'[i] \in Seq(Record)
    BY <2>1, <2>2 DEF TypeOK
  <2> QED
    BY <1>10, <2>3, <1>0 DEF WriteRunFile, TypeOK, scanVars, mergeVars
<1>20. CASE LoseTail
  <2>1. PICK left \in Seq(Record), gone \in SUBSET Record, inBlob \in BOOLEAN :
          /\ files' = [i \in DOMAIN files |-> IF i = wtask.run THEN left ELSE files[i]]
          /\ cut' = IF inBlob THEN cut \cup {wtask.run} ELSE cut
          /\ lost' = lost \cup gone
    BY <1>20, LostTail
  <2>2. DOMAIN files' \subseteq Nat /\ \A i \in DOMAIN files' : files'[i] \in Seq(Record)
    BY <2>1 DEF TypeOK
  <2>3. cut' \subseteq Nat /\ lost' \subseteq Record
    BY <2>1 DEF TypeOK, Task
  <2> QED
    BY <1>20, <2>2, <2>3, <1>0 DEF LoseTail, TypeOK, scanVars, mergeVars
<1>11. CASE WorkerError
  <2>1. <<>> \in Seq(Task) /\ Len(<<>>) = 0 /\ DOMAIN <<>> = {}
    OBVIOUS
  <2> QED
    BY <1>11, <1>0, <2>1 DEF WorkerError, TypeOK, ChannelCap, scanVars, mergeVars
<1>12. CASE OpenRuns
  <2>1. DOMAIN rd' \subseteq Nat /\ \A i \in DOMAIN rd' : rd'[i] \in Nat
    BY <1>12 DEF OpenRuns, TypeOK
  <2>2. heap' \subseteq [addr : Addr, len : BlobLen, run : Nat]
    <3>1. \A i \in DOMAIN files : Headers(i, 1) \subseteq [addr : Addr, len : BlobLen, run : Nat]
      BY HeadersType DEF TypeOK
    <3> QED
      BY <1>12, <3>1 DEF OpenRuns
  <2> QED
    BY <1>12, <2>1, <2>2 DEF OpenRuns, TypeOK, scanVars, workerVars
<1>13. CASE MergeRound
  <2>1. PICK h \in heap :
          /\ heap' = (heap \ {h}) \cup Headers(h.run, rd[h.run] + 1)
          /\ rd' = [rd EXCEPT ![h.run] = @ + 1]
          /\ \/ prev_addr = h.addr /\ UNCHANGED <<prev_addr, out>>
             \/ /\ prev_addr # h.addr
                /\ prev_addr' = h.addr
                /\ out' = Append(out, [addr |-> h.addr, len |-> h.len,
                                       id |-> files[h.run][rd[h.run]].id])
    BY <1>13 DEF MergeRound
  <2>2. /\ h.addr \in Addr /\ h.len \in BlobLen
        /\ h.run \in DOMAIN files /\ h.run \in DOMAIN rd
        /\ rd[h.run] \in Nat /\ rd[h.run] \in DOMAIN files[h.run]
    BY <1>13 DEF MergeRound, Merging, TypeOK
  <2>3. files[h.run][rd[h.run]] \in Record
    <3>1. files[h.run] \in Seq(Record)
      BY <2>2 DEF TypeOK
    <3> QED
      BY <2>2, <3>1
  <2>4. heap' \subseteq [addr : Addr, len : BlobLen, run : Nat]
    BY <2>1, <2>2, HeadersType DEF TypeOK
  <2>5. DOMAIN rd' \subseteq Nat /\ \A i \in DOMAIN rd' : rd'[i] \in Nat
    BY <2>1, <2>2 DEF TypeOK
  <2>6. prev_addr' \in Addr \cup {NoAddr} /\ out' \in Seq(Record)
    <3> DEFINE w == [addr |-> h.addr, len |-> h.len, id |-> files[h.run][rd[h.run]].id]
    <3>1. w \in Record
      BY <2>2, <2>3 DEF Record
    <3>2. \/ prev_addr' = prev_addr /\ out' = out
          \/ prev_addr' = h.addr /\ out' = Append(out, w)
      BY <2>1
    <3> HIDE DEF w
    <3>3. out \in Seq(Record) /\ prev_addr \in Addr \cup {NoAddr}
      BY DEF TypeOK
    <3>4. Append(out, w) \in Seq(Record)
      BY <3>1, <3>3
    <3> QED
      BY <2>2, <3>2, <3>3, <3>4
  <2> QED
    BY <1>13, <2>4, <2>5, <2>6 DEF MergeRound, TypeOK, scanVars, workerVars
<1>14. CASE MergeDone
  BY <1>14 DEF MergeDone, TypeOK, scanVars, workerVars, mergeVars
<1>15. CASE MergeError
  BY <1>15 DEF MergeError, TypeOK, scanVars, workerVars, mergeVars
<1>16. CASE Abandon
  BY <1>16 DEF Abandon, TypeOK, scanVars, workerVars, mergeVars
<1>17. CASE UnlinkRuns
  BY <1>17 DEF UnlinkRuns, TypeOK, scanVars, mergeVars
<1>18. CASE RemoveDir
  BY <1>18 DEF RemoveDir, TypeOK, scanVars, workerVars, mergeVars
<1>19. CASE UNCHANGED vars
  BY <1>19 DEF vars, TypeOK, scanVars, workerVars, mergeVars
<1> QED
  BY <1>1, <1>2, <1>3, <1>4, <1>5, <1>6, <1>7, <1>8, <1>9, <1>10, <1>11, <1>12,
     <1>13, <1>14, <1>15, <1>16, <1>17, <1>18, <1>19, <1>20
     DEF Next, ScanThread, Worker, Terminated
\* The run after an insert.
LEMMA InsertedRun ==
  ASSUME TypeOK, NEW a \in Addr, NEW l \in BlobLen, Insert(a, l)
  PROVE  LET r == [addr |-> a, len |-> l, id |-> total_entries + 1]
         IN  /\ r \in Record
             /\ Append(current_run, r) # <<>>
             /\ Range(Append(current_run, r)) = Range(current_run) \cup {r}
<1> DEFINE r == [addr |-> a, len |-> l, id |-> total_entries + 1]
<1>1. r \in Record
  BY ConstAssump DEF Insert, TypeOK, Record
<1>2. current_run \in Seq(Record)
  BY DEF TypeOK
<1> HIDE DEF r
<1>3. /\ r \in Record
      /\ Append(current_run, r) # <<>>
      /\ Range(Append(current_run, r)) = Range(current_run) \cup {r}
  BY <1>1, <1>2, AppendRange
<1> QED
  BY <1>3 DEF r

-----------------------------------------------------------------------------
(* Control: where the two threads can be.                                  *)

LEMMA ControlStep == TypeOK /\ Control /\ [Next]_vars => Control'
<1> SUFFICES ASSUME TypeOK, Control, [Next]_vars PROVE Control'
  OBVIOUS
<1> USE DEF Control, Scanning, Working
<1>1. ASSUME NEW a \in Addr, NEW l \in BlobLen, Insert(a, l) PROVE Control'
  <2> DEFINE r == [addr |-> a, len |-> l, id |-> total_entries + 1]
             filled == Append(current_run, r)
  <2>1. filled # <<>>
    BY <1>1, InsertedRun
  <2> QED
    BY <1>1, <2>1 DEF Insert, StartSpill, TypeOK, workerVars, mergeVars
<1>2. CASE Send
  BY <1>2 DEF Send, NoTask, scanVars, workerVars, mergeVars
<1>3. CASE SendError
  BY <1>3 DEF SendError, NoTask, scanVars, workerVars, mergeVars
<1>4. CASE Finish
  BY <1>4 DEF Finish, NoTask, scanVars, workerVars, mergeVars, StartSpill
<1>5. CASE CloseChannel
  BY <1>5 DEF CloseChannel, NoTask, scanVars, workerVars, mergeVars
<1>6. CASE Join
  BY <1>6 DEF Join, NoTask, scanVars, workerVars, mergeVars
<1>7. CASE Receive
  <2>1. channel \in Seq(Task) /\ Len(channel) <= 1 /\ channel # <<>>
    BY <1>7 DEF Receive, TypeOK, ChannelCap
  <2>2. DOMAIN channel = {1} /\ Head(channel) = channel[1] /\ Tail(channel) = <<>>
    BY <2>1, ShortQueue
  <2> QED
    BY <1>7, <2>2, EmptyRange DEF Receive, scanVars, mergeVars
<1>8. CASE WorkerExit
  BY <1>8 DEF WorkerExit, NoTask, scanVars, workerVars, mergeVars
<1>9. CASE CreateRunFile
  BY <1>9 DEF CreateRunFile, NoTask, scanVars, workerVars, mergeVars
<1>10. CASE WriteRunFile
  BY <1>10 DEF WriteRunFile, Leave, NoTask, scanVars, workerVars, mergeVars
<1>20. CASE LoseTail
  BY <1>20 DEF LoseTail, Leave, NoTask, scanVars, workerVars, mergeVars
<1>11. CASE WorkerError
  BY <1>11 DEF WorkerError, NoTask, scanVars, workerVars, mergeVars
<1>12. CASE OpenRuns
  BY <1>12 DEF OpenRuns, NoTask, scanVars, workerVars, mergeVars
<1>13. CASE MergeRound
  BY <1>13 DEF MergeRound, NoTask, scanVars, workerVars, mergeVars
<1>14. CASE MergeDone
  BY <1>14 DEF MergeDone, NoTask, scanVars, workerVars, mergeVars
<1>15. CASE MergeError
  BY <1>15 DEF MergeError, NoTask, scanVars, workerVars, mergeVars
<1>16. CASE Abandon
  BY <1>16 DEF Abandon, NoTask, scanVars, workerVars, mergeVars
<1>17. CASE UnlinkRuns
  BY <1>17 DEF UnlinkRuns, NoTask, scanVars, workerVars, mergeVars
<1>18. CASE RemoveDir
  BY <1>18, EmptyRange DEF RemoveDir, NoTask, scanVars, workerVars, mergeVars
<1>19. CASE UNCHANGED vars
  BY <1>19 DEF vars, scanVars, workerVars, mergeVars
<1> QED
  BY <1>1, <1>2, <1>3, <1>4, <1>5, <1>6, <1>7, <1>8, <1>9, <1>10, <1>11, <1>12, <1>13, <1>14, <1>15, <1>16, <1>17, <1>18, <1>19, <1>20
     DEF Next, ScanThread, Worker, Terminated
-----------------------------------------------------------------------------
(* Numbering: every run has exactly one owner.                             *)

LEMMA NumberingStep ==
  TypeOK /\ Control /\ Numbering /\ [Next]_vars => Numbering'
<1> SUFFICES ASSUME TypeOK, Control, Numbering, [Next]_vars PROVE Numbering'
  OBVIOUS
<1> USE DEF Numbering, InUse
<1>0. /\ run_count \in Nat /\ pending.run \in Nat /\ wtask.run \in Nat
      /\ \A k \in DOMAIN channel : channel[k].run \in Nat
  <2>1. \A k \in DOMAIN channel : channel[k] \in Task
    BY LenProperties DEF TypeOK
  <2> QED
    BY <2>1 DEF TypeOK, Task
<1>0a. ASSUME NEW e, StartSpill(e), UNCHANGED <<result, channel, workerVars>>,
              pending.entries = <<>>, e # <<>>
       PROVE  Numbering'
  <2>1. /\ pending'.run = run_count /\ pending'.entries = e /\ run_count' = run_count + 1
        /\ UNCHANGED <<result, channel, wstate, wtask, files>>
    BY <1>0a DEF StartSpill, workerVars
  <2>2. /\ InUse(wtask) => wtask.run \in Nat /\ wtask.run < run_count
        /\ \A k \in DOMAIN channel : channel[k].run \in Nat /\ channel[k].run < run_count
    BY <1>0
  <2>3. DOMAIN files \subseteq 0 .. run_count - 1 /\ run_count \notin DOMAIN files
    BY <1>0
  <2>4. \A i \in 0 .. run_count' - 1 : i = run_count \/ i \in 0 .. run_count - 1
    BY <1>0, <2>1
  <2>5. DOMAIN files' \subseteq 0 .. run_count' - 1
    BY <2>1, <2>3, <1>0
  <2>6. result' = "none" /\ wstate' # "failed" =>
          \A i \in 0 .. run_count' - 1 :
            \/ i \in DOMAIN files'
            \/ InUse(pending') /\ i = pending'.run
            \/ InUse(wtask') /\ i = wtask'.run
            \/ \E k \in DOMAIN channel' : i = channel'[k].run
    BY <1>0a, <2>1, <2>4
  <2>7. /\ \A k \in DOMAIN channel' : channel'[k].run < run_count'
        /\ InUse(wtask') => wtask'.run < run_count'
        /\ pending'.run < run_count'
    BY <1>0, <2>1, <2>2
  <2> QED
    BY <1>0, <1>0a, <2>1, <2>2, <2>3, <2>5, <2>6, <2>7
<1>1. ASSUME NEW a \in Addr, NEW l \in BlobLen, Insert(a, l) PROVE Numbering'
  <2> DEFINE filled == Append(current_run, [addr |-> a, len |-> l, id |-> total_entries + 1])
  <2>1. pending.entries = <<>>
    BY <1>1 DEF Insert, Control
  <2>2. filled # <<>>
    BY <1>1, InsertedRun
  <2>3. \/ StartSpill(filled)
        \/ UNCHANGED <<pending, run_count>>
    BY <1>1 DEF Insert
  <2> HIDE DEF filled
  <2>4. CASE StartSpill(filled)
    BY <1>1, <2>1, <2>2, <2>4, <1>0a DEF Insert, workerVars
  <2>5. CASE UNCHANGED <<pending, run_count>>
    BY <1>1, <2>5 DEF Insert, workerVars
  <2> QED
    BY <2>3, <2>4, <2>5
<1>2. CASE Send
  <2>1. channel = <<>> /\ DOMAIN channel' = {1} /\ channel'[1] = pending
    BY <1>2, FillQueue DEF Send, TypeOK, ChannelCap
  <2> QED
    BY <1>2, <2>1, EmptyRange DEF Send, NoTask, Control, scanVars, workerVars
<1>3. CASE SendError
  BY <1>3 DEF SendError, NoTask, scanVars, workerVars
<1>4. CASE Finish
  <2>1. pending.entries = <<>>
    BY <1>4 DEF Finish, Control
  <2>2. CASE current_run # <<>> /\ StartSpill(current_run)
    BY <1>4, <1>0a, <2>1, <2>2 DEF Finish
  <2>3. CASE UNCHANGED <<pending, run_count>>
    BY <1>4, <2>3 DEF Finish, workerVars
  <2> QED
    BY <1>4, <2>2, <2>3 DEF Finish
<1>5. CASE CloseChannel
  BY <1>5 DEF CloseChannel, scanVars, workerVars
<1>6. CASE Join
  BY <1>6 DEF Join, scanVars, workerVars
<1>7. CASE Receive
  <2>1. channel \in Seq(Task) /\ Len(channel) <= 1 /\ channel # <<>>
    BY <1>7 DEF Receive, TypeOK, ChannelCap
  <2>2. /\ DOMAIN channel = {1} /\ Head(channel) = channel[1]
        /\ DOMAIN Tail(channel) = {}
    BY <2>1, ShortQueue, EmptyRange
  <2>3. wtask.entries = <<>> /\ channel[1].entries # <<>>
    BY <1>7, <2>2 DEF Receive, Control
  <2>4. /\ wtask' = channel[1] /\ wstate' = "sort" /\ DOMAIN channel' = {}
        /\ UNCHANGED <<result, pending, files, run_count>>
    BY <1>7, <2>2 DEF Receive, scanVars
  <2>5. 1 \in DOMAIN channel /\ wstate = "recv"
    BY <1>7, <2>2 DEF Receive
  <2> QED
    BY <2>2, <2>3, <2>4, <2>5
<1>8. CASE WorkerExit
  BY <1>8 DEF WorkerExit, scanVars
<1>9. CASE CreateRunFile
  <2>1. wtask.entries # <<>> /\ wtask.run \in 0 .. run_count - 1
    BY <1>9, <1>0 DEF CreateRunFile, Control
  <2>2. /\ DOMAIN files' = DOMAIN files \cup {wtask.run} /\ files'[wtask.run] = <<>>
        /\ UNCHANGED <<result, pending, channel, run_count, wtask>>
        /\ wstate = "sort" /\ wstate' = "write"
    BY <1>9 DEF CreateRunFile, scanVars
  <2> QED
    BY <2>1, <2>2
<1>10. CASE WriteRunFile
  <2>1. wtask.entries # <<>>
    BY <1>10 DEF WriteRunFile, Control
  <2>2. DOMAIN files' = DOMAIN files
    BY <1>10 DEF WriteRunFile, Leave
  <2> QED
    BY <1>10, <2>1, <2>2 DEF WriteRunFile, NoTask, scanVars
<1>20. CASE LoseTail
  <2>1. wtask.entries # <<>>
    BY <1>20 DEF LoseTail, Control
  <2>2. DOMAIN files' = DOMAIN files
    BY <1>20 DEF LoseTail, Leave
  <2> QED
    BY <1>20, <2>1, <2>2 DEF LoseTail, NoTask, scanVars
<1>11. CASE WorkerError
  BY <1>11, EmptyRange DEF WorkerError, NoTask, scanVars
<1>12. CASE OpenRuns
  BY <1>12 DEF OpenRuns, scanVars, workerVars
<1>13. CASE MergeRound
  BY <1>13 DEF MergeRound, scanVars, workerVars
<1>14. CASE MergeDone
  BY <1>14 DEF MergeDone, scanVars, workerVars
<1>15. CASE MergeError
  BY <1>15 DEF MergeError, scanVars, workerVars
<1>16. CASE Abandon
  BY <1>16 DEF Abandon, scanVars, workerVars
<1>17. CASE UnlinkRuns
  BY <1>17, <1>0 DEF UnlinkRuns, scanVars, Control, Working, Scanning
<1>18. CASE RemoveDir
  BY <1>18 DEF RemoveDir, scanVars, workerVars
<1>19. CASE UNCHANGED vars
  BY <1>19 DEF vars, scanVars, workerVars
<1> QED
  BY <1>1, <1>2, <1>3, <1>4, <1>5, <1>6, <1>7, <1>8, <1>9, <1>10, <1>11, <1>12, <1>13, <1>14, <1>15, <1>16, <1>17, <1>18, <1>19, <1>20
     DEF Next, ScanThread, Worker, Terminated
-----------------------------------------------------------------------------
(* Where the records are.                                                  *)

\* No step invents a record; unless something fails none forgets one.
Moved ==
  /\ inserted \subseteq inserted' /\ lost \subseteq lost'
  /\ InRam' \cup OnDisk' \cup lost' \subseteq InRam \cup OnDisk \cup lost \cup inserted'
  /\ result' = "none" /\ wstate' # "failed" =>
       InRam \cup OnDisk \cup (inserted' \ inserted)
         \subseteq InRam' \cup OnDisk' \cup lost'

LEMMA RecordsMove == TypeOK /\ Control /\ Numbering /\ [Next]_vars => Moved
<1> SUFFICES ASSUME TypeOK, Control, Numbering, [Next]_vars PROVE Moved
  OBVIOUS
<1>a. ASSUME UNCHANGED <<channel, current_run, pending, wtask>> PROVE InRam' = InRam
  BY <1>a DEF InRam, Queued
<1>b. ASSUME UNCHANGED files PROVE OnDisk' = OnDisk
  BY <1>b DEF OnDisk
<1>c. ASSUME UNCHANGED channel PROVE Queued' = Queued
  BY <1>c DEF Queued
<1>d. NoTask.entries = <<>> /\ Range(<<>>) = {}
  BY EmptyRange DEF NoTask
<1>1. ASSUME NEW a \in Addr, NEW l \in BlobLen, Insert(a, l) PROVE Moved
  <2> DEFINE r == [addr |-> a, len |-> l, id |-> total_entries + 1]
             filled == Append(current_run, r)
  <2>1. Range(filled) = Range(current_run) \cup {r}
    BY <1>1, InsertedRun
  <2>2. inserted' = inserted \cup {r}
    BY <1>1 DEF Insert
  <2>3. \/ StartSpill(filled)
        \/ current_run' = filled /\ UNCHANGED pending
    BY <1>1 DEF Insert
  <2>4. pending.entries = <<>>
    BY <1>1 DEF Insert, Control
  <2>5. OnDisk' = OnDisk /\ Queued' = Queued /\ wtask' = wtask /\ lost' = lost
    BY <1>1, <1>b, <1>c DEF Insert, workerVars
  <2> HIDE DEF r, filled
  <2>6. InRam' = InRam \cup {r}
    <3>1. CASE StartSpill(filled)
      BY <3>1, <2>1, <2>4, <2>5, <1>d DEF StartSpill, InRam
    <3>2. CASE current_run' = filled /\ UNCHANGED pending
      BY <3>2, <2>1, <2>5 DEF InRam
    <3> QED
      BY <2>3, <3>1, <3>2
  <2> QED
    BY <2>2, <2>5, <2>6 DEF Moved
<1>2. CASE Send
  <2>1. channel = <<>> /\ DOMAIN channel' = {1} /\ channel'[1] = pending
    BY <1>2, FillQueue DEF Send, TypeOK, ChannelCap
  <2>2. Queued = {} /\ Queued' = Range(pending.entries)
    BY <2>1, EmptyRange DEF Queued
  <2>3. InRam' = InRam
    BY <1>2, <2>2, <1>d DEF Send, InRam, scanVars, workerVars
  <2> QED
    BY <1>2, <1>b, <2>3 DEF Send, Moved, scanVars, workerVars
<1>3. CASE SendError
  <2>1. InRam' \subseteq InRam
    BY <1>3, <1>c, <1>d DEF SendError, InRam, scanVars, workerVars
  <2> QED
    BY <1>3, <1>b, <2>1 DEF SendError, Moved, scanVars, workerVars
<1>4. CASE Finish
  <2>1. pending.entries = <<>>
    BY <1>4 DEF Finish, Control
  <2>2. InRam' = InRam
    BY <1>4, <2>1, <1>c, <1>d DEF Finish, StartSpill, InRam, workerVars
  <2> QED
    BY <1>4, <1>b, <2>2 DEF Finish, Moved, workerVars
<1>5. CASE CloseChannel
  BY <1>5, <1>a, <1>b DEF CloseChannel, Moved, scanVars, workerVars
<1>6. CASE Join
  BY <1>6, <1>a, <1>b DEF Join, Moved, scanVars, workerVars
<1>7. CASE Receive
  <2>1. channel \in Seq(Task) /\ Len(channel) <= 1 /\ channel # <<>>
    BY <1>7 DEF Receive, TypeOK, ChannelCap
  <2>2. /\ DOMAIN channel = {1} /\ Head(channel) = channel[1]
        /\ DOMAIN Tail(channel) = {}
    BY <2>1, ShortQueue, EmptyRange
  <2>3. wtask.entries = <<>>
    BY <1>7 DEF Receive, Control
  <2>4. Queued = Range(channel[1].entries) /\ Queued' = {}
    BY <1>7, <2>2 DEF Receive, Queued
  <2>5. InRam' = InRam
    BY <1>7, <2>2, <2>3, <2>4, <1>d DEF Receive, InRam, scanVars
  <2> QED
    BY <1>7, <1>b, <2>5 DEF Receive, Moved, scanVars
<1>8. CASE WorkerExit
  BY <1>8, <1>a, <1>b DEF WorkerExit, Moved, scanVars
<1>9. CASE CreateRunFile
  <2>1. wtask.run \notin DOMAIN files
    BY <1>9 DEF CreateRunFile, Numbering
  <2>2. OnDisk' = OnDisk
    BY <1>9, <2>1, <1>d DEF CreateRunFile, OnDisk
  <2> QED
    BY <1>9, <1>a, <2>2 DEF CreateRunFile, Moved, scanVars
<1>10. CASE WriteRunFile
  <2>1. PICK s \in Sortings(wtask.entries) :
          files' = [i \in DOMAIN files |-> IF i = wtask.run THEN s ELSE files[i]]
    BY <1>10 DEF WriteRunFile, Leave
  <2>2. Range(s) = Range(wtask.entries)
    BY SortingsPermute DEF TypeOK, Task
  <2>3. InRam = InRam' \cup Range(wtask.entries)
    BY <1>10, <1>c, <1>d DEF WriteRunFile, InRam, scanVars
  <2>4. OnDisk' \subseteq OnDisk \cup Range(wtask.entries)
    BY <2>1, <2>2 DEF OnDisk
  <2>5. ASSUME result = "none" PROVE OnDisk \cup Range(wtask.entries) \subseteq OnDisk'
    <3>1. wtask.run \in DOMAIN files /\ files[wtask.run] = <<>>
      BY <1>10, <2>5 DEF WriteRunFile, Numbering
    <3>2. \A i \in DOMAIN files : Range(files[i]) \subseteq Range(files'[i])
      BY <2>1, <3>1, <1>d
    <3>3. files'[wtask.run] = s /\ DOMAIN files' = DOMAIN files
      BY <2>1, <3>1
    <3>4. OnDisk \subseteq OnDisk'
      BY <3>2, <3>3 DEF OnDisk
    <3> QED
      BY <3>1, <3>3, <3>4, <2>2 DEF OnDisk
  <2> QED
    BY <1>10, <2>3, <2>4, <2>5 DEF WriteRunFile, Moved, scanVars
<1>20. CASE LoseTail
  <2>1. PICK left \in Seq(Record), gone \in SUBSET Record :
          /\ files' = [i \in DOMAIN files |-> IF i = wtask.run THEN left ELSE files[i]]
          /\ lost' = lost \cup gone
          /\ Range(left) \subseteq Range(wtask.entries)
          /\ gone \subseteq Range(wtask.entries)
          /\ Range(wtask.entries) \subseteq Range(left) \cup gone
    BY <1>20, LostTail
  <2>2. InRam = InRam' \cup Range(wtask.entries)
    BY <1>20, <1>c, <1>d DEF LoseTail, InRam, scanVars
  <2>3. OnDisk' \subseteq OnDisk \cup Range(wtask.entries)
    BY <2>1 DEF OnDisk
  <2>4. ASSUME result = "none" PROVE OnDisk \cup Range(wtask.entries) \subseteq OnDisk' \cup lost'
    <3>1. wtask.run \in DOMAIN files /\ files[wtask.run] = <<>>
      BY <1>20, <2>4 DEF LoseTail, Numbering
    <3>2. \A i \in DOMAIN files : Range(files[i]) \subseteq Range(files'[i])
      BY <2>1, <3>1, <1>d
    <3>3. files'[wtask.run] = left /\ DOMAIN files' = DOMAIN files
      BY <2>1, <3>1
    <3>4. OnDisk \subseteq OnDisk'
      BY <3>2, <3>3 DEF OnDisk
    <3>5. Range(left) \subseteq OnDisk'
      BY <3>1, <3>3 DEF OnDisk
    <3> QED
      BY <3>4, <3>5, <2>1
  <2> QED
    BY <1>20, <2>1, <2>2, <2>3, <2>4 DEF LoseTail, Moved, scanVars
<1>11. CASE WorkerError
  <2>1. Queued' = {}
    BY <1>11, EmptyRange DEF WorkerError, Queued
  <2>2. InRam' \subseteq InRam
    BY <1>11, <2>1, <1>d DEF WorkerError, InRam, scanVars
  <2> QED
    BY <1>11, <1>b, <2>2 DEF WorkerError, Moved, scanVars
<1>12. CASE OpenRuns
  BY <1>12, <1>a, <1>b DEF OpenRuns, Moved, scanVars, workerVars
<1>13. CASE MergeRound
  BY <1>13, <1>a, <1>b DEF MergeRound, Moved, scanVars, workerVars
<1>14. CASE MergeDone
  BY <1>14, <1>a, <1>b DEF MergeDone, Moved, scanVars, workerVars
<1>15. CASE MergeError
  BY <1>15, <1>a, <1>b DEF MergeError, Moved, scanVars, workerVars
<1>16. CASE Abandon
  BY <1>16, <1>a, <1>b DEF Abandon, Moved, scanVars, workerVars
<1>17. CASE UnlinkRuns
  <2>1. OnDisk' = {} /\ result' # "none"
    BY <1>17 DEF UnlinkRuns, OnDisk, Control, Working, Scanning
  <2> QED
    BY <1>17, <1>a, <2>1 DEF UnlinkRuns, Moved, scanVars
<1>18. CASE RemoveDir
  BY <1>18, <1>a, <1>b DEF RemoveDir, Moved, scanVars, workerVars
<1>19. CASE UNCHANGED vars
  BY <1>19, <1>a, <1>b DEF vars, Moved, scanVars, workerVars
<1> QED
  BY <1>1, <1>2, <1>3, <1>4, <1>5, <1>6, <1>7, <1>8, <1>9, <1>10, <1>11, <1>12, <1>13, <1>14, <1>15, <1>16, <1>17, <1>18, <1>19, <1>20
     DEF Next, ScanThread, Worker, Terminated
\* Buffers and files stay within what was inserted, files stay sorted.
LEMMA ContentsStep ==
  TypeOK /\ Control /\ Numbering /\ Contents /\ [Next]_vars => Contents'
<1> SUFFICES ASSUME TypeOK, Control, Numbering, Contents, [Next]_vars PROVE Contents'
  OBVIOUS
<1>1. InRam' \cup OnDisk' \cup lost' \subseteq inserted'
  BY RecordsMove DEF Moved, Contents
<1>2. \A i \in DOMAIN files' : Ascending(files'[i])
  <2>1. CASE UNCHANGED files
    BY <2>1 DEF Contents
  <2>2. CASE CreateRunFile
    BY <2>2, EmptyRange DEF CreateRunFile, Contents
  <2>3. CASE WriteRunFile
    <3>1. PICK s \in Sortings(wtask.entries) :
            files' = [i \in DOMAIN files |-> IF i = wtask.run THEN s ELSE files[i]]
      BY <2>3 DEF WriteRunFile, Leave
    <3>2. Ascending(s)
      BY SortingsPermute DEF TypeOK, Task
    <3> QED
      BY <3>1, <3>2 DEF Contents
  <2>4. CASE UnlinkRuns
    BY <2>4 DEF UnlinkRuns
  <2>5. CASE LoseTail
    <3>1. PICK left \in Seq(Record) :
            /\ files' = [i \in DOMAIN files |-> IF i = wtask.run THEN left ELSE files[i]]
            /\ Ascending(left)
      BY <2>5, LostTail
    <3> QED
      BY <3>1 DEF Contents
  <2> QED
    BY <2>1, <2>2, <2>3, <2>4, <2>5
       DEF Next, ScanThread, Worker, Terminated, vars, workerVars, Insert, Send, SendError,
           Finish, CloseChannel, Join, Receive, WorkerExit, WorkerError, OpenRuns,
           MergeRound, MergeDone, MergeError, Abandon, RemoveDir
<1> QED
  BY <1>1, <1>2 DEF Contents

\* A failure is final: no step takes back an error.
LEMMA FailureStays ==
  ASSUME TypeOK, Control, [Next]_vars, result' = "none", wstate' # "failed"
  PROVE  result = "none" /\ wstate # "failed"
BY DEF Next, ScanThread, Worker, Terminated, vars, workerVars, Insert, Send, SendError,
       Finish, CloseChannel, Join, Receive, WorkerExit, CreateRunFile, WriteRunFile,
       LoseTail, WorkerError, OpenRuns, MergeRound, MergeDone, MergeError, Abandon, UnlinkRuns,
       RemoveDir, Control, Scanning, Working

\* Conservation is kept by every step.
LEMMA NoRecordLostStep ==
  TypeOK /\ Control /\ Numbering /\ NoRecordLost /\ [Next]_vars => NoRecordLost'
BY RecordsMove, FailureStays DEF Moved, NoRecordLost

\* The join hands over complete files.
LEMMA MergeAfterWorkerStep ==
  TypeOK /\ Control /\ Numbering /\ NoRecordLost /\ MergeAfterWorker /\ [Next]_vars
    => MergeAfterWorker'
<1> SUFFICES ASSUME TypeOK, Control, Numbering, NoRecordLost, MergeAfterWorker, [Next]_vars,
                    pc' \in {"open", "merge"}
             PROVE  /\ wstate' = "exited" /\ channel' = <<>>
                    /\ DOMAIN files' = 0 .. run_count' - 1
                    /\ inserted' \subseteq OnDisk' \cup lost'
  BY DEF MergeAfterWorker
<1>1. CASE Join
  <2>1. /\ wstate = "exited" /\ result = "none"
        /\ UNCHANGED <<wstate, channel, files, lost, run_count, inserted>>
    BY <1>1 DEF Join, workerVars, scanVars, Control, Working, Scanning
  <2>2. /\ channel = <<>> /\ wtask.entries = <<>> /\ pending.entries = <<>>
        /\ current_run = <<>>
    BY <1>1, <2>1 DEF Join, Control, Working, Scanning
  <2>3. DOMAIN files = 0 .. run_count - 1
    BY <2>1, <2>2, EmptyRange DEF Numbering, InUse
  <2>4. InRam = {}
    BY <2>2, EmptyRange DEF InRam, Queued
  <2>5. inserted \subseteq OnDisk \cup lost
    BY <2>1, <2>4 DEF NoRecordLost
  <2>6. OnDisk' = OnDisk
    BY <2>1 DEF OnDisk
  <2> QED
    BY <2>1, <2>2, <2>3, <2>5, <2>6
<1>2. CASE pc \in {"open", "merge"}
      /\ UNCHANGED <<wstate, channel, files, lost, run_count, inserted>>
  <2>1. OnDisk' = OnDisk
    BY <1>2 DEF OnDisk
  <2> QED
    BY <1>2, <2>1 DEF MergeAfterWorker
<1> QED
  <2>1. pc \in {"open", "merge"} => wstate = "exited" /\ channel = <<>>
    BY DEF MergeAfterWorker
  <2> QED
    BY <1>1, <1>2, <2>1
       DEF Next, ScanThread, Worker, Terminated, vars, workerVars, scanVars, Insert, Send,
           SendError, Finish, CloseChannel, Receive, WorkerExit, CreateRunFile, WriteRunFile,
           LoseTail, WorkerError, OpenRuns, MergeRound, MergeDone, MergeError, Abandon, UnlinkRuns,
           RemoveDir
-----------------------------------------------------------------------------
(* The merge.                                                              *)

\* What one round of the merge loop does: the least header is popped, its
\* address has been written afterwards, and its record is one of its run.
LEMMA RoundFacts ==
  ASSUME TypeOK, Contents, Merging, MergeRound
  PROVE  \E h \in heap :
           /\ h.run \in DOMAIN files /\ h.run \in DOMAIN rd
           /\ rd[h.run] \in DOMAIN files[h.run] /\ rd[h.run] \in Nat
           /\ h.addr = files[h.run][rd[h.run]].addr
           /\ h.addr \in Addr
           /\ \A g \in heap \ {h} : h.addr <= g.addr /\ g.run # h.run
           /\ heap' = (heap \ {h}) \cup Headers(h.run, rd[h.run] + 1)
           /\ rd' = [rd EXCEPT ![h.run] = rd[h.run] + 1]
           /\ prev_addr' = h.addr
           /\ prev_addr <= h.addr
           /\ \/ prev_addr = h.addr /\ out' = out
              \/ prev_addr # h.addr /\ out' = Append(out, files[h.run][rd[h.run]])
           /\ files[h.run][rd[h.run]] \in Record \cap inserted
<1>1. PICK h \in heap :
        /\ \A g \in heap \ {h} : HeapBefore(h, g)
        /\ heap' = (heap \ {h}) \cup Headers(h.run, rd[h.run] + 1)
        /\ rd' = [rd EXCEPT ![h.run] = rd[h.run] + 1]
        /\ \/ prev_addr = h.addr /\ prev_addr' = prev_addr /\ out' = out
           \/ /\ prev_addr # h.addr
              /\ prev_addr' = h.addr
              /\ out' = Append(out, [addr |-> h.addr, len |-> h.len,
                                     id |-> files[h.run][rd[h.run]].id])
  BY DEF MergeRound
<1>2. \A g \in heap :
        /\ g.run \in DOMAIN files /\ rd[g.run] \in DOMAIN files[g.run]
        /\ g.addr = files[g.run][rd[g.run]].addr /\ g.len = files[g.run][rd[g.run]].len
        /\ prev_addr <= g.addr
  BY DEF Merging, MergeRound
<1>3. heap \subseteq [addr : Addr, len : BlobLen, run : Nat]
  BY DEF TypeOK
<1>4. h.run \in DOMAIN rd /\ rd[h.run] \in Nat
  BY <1>2 DEF Merging, MergeRound, TypeOK
<1>5. \A g \in heap \ {h} : h.addr <= g.addr /\ g.run # h.run
  <2> SUFFICES ASSUME NEW g \in heap \ {h} PROVE h.addr <= g.addr /\ g.run # h.run
    OBVIOUS
  <2>1. h.addr \in Nat /\ g.addr \in Nat
    BY <1>3, ConstAssump
  <2>2. h.addr <= g.addr
    BY <1>1, <2>1 DEF HeapBefore
  <2>3. g.run = h.run => g = h
    BY <1>2, <1>3
  <2> QED
    BY <2>2, <2>3
<1> DEFINE r == files[h.run][rd[h.run]]
<1>6. r \in Record
  <2>1. files[h.run] \in Seq(Record)
    BY <1>2 DEF TypeOK
  <2> QED
    BY <1>2, <2>1
<1>7. [addr |-> h.addr, len |-> h.len, id |-> r.id] = r
  <2>1. r.addr = h.addr /\ r.len = h.len
    BY <1>2
  <2> HIDE DEF r
  <2> QED
    BY <1>6, <2>1 DEF Record
<1>8. r \in inserted
  BY <1>2 DEF Contents, OnDisk, Range
<1> QED
  BY <1>1, <1>2, <1>3, <1>4, <1>5, <1>6, <1>7, <1>8

\* The addresses written grow by the popped one.
LEMMA RoundWrites ==
  ASSUME TypeOK, Merging, NEW r \in Record, prev_addr' = r.addr,
         \/ prev_addr = r.addr /\ out' = out
         \/ prev_addr # r.addr /\ out' = Append(out, r)
  PROVE  /\ Addresses(Range(out')) = Addresses(Range(out)) \cup {r.addr}
         /\ out' \in Seq(Record) /\ out' # <<>>
         /\ out'[Len(out')].addr = r.addr
         /\ Range(out') \subseteq Range(out) \cup {r}
<1>0. out \in Seq(Record) /\ r.addr \in Addr /\ Addr \subseteq Nat
  BY ConstAssump DEF TypeOK, Record
<1>1. CASE prev_addr = r.addr /\ out' = out
  <2>1. out # <<>> /\ r.addr = out[Len(out)].addr
    BY <1>0, <1>1 DEF Merging, NoAddr
  <2>2. Len(out) \in DOMAIN out
    BY <1>0, <2>1, EmptySeq, LenProperties
  <2>3. out[Len(out)] \in Range(out)
    BY <2>2 DEF Range
  <2> QED
    BY <1>0, <1>1, <2>1, <2>3 DEF Addresses
<1>2. CASE out' = Append(out, r)
  <2>1. /\ out' \in Seq(Record) /\ out' # <<>> /\ Len(out') = Len(out) + 1
        /\ Range(out') = Range(out) \cup {r}
        /\ out'[Len(out')] = r
    BY <1>0, <1>2, AppendRange, AppendProperties
  <2> QED
    BY <2>1 DEF Addresses
<1> QED
  BY <1>1, <1>2

\* The merge invariant is kept.
LEMMA MergingStep ==
  TypeOK /\ Control /\ Contents /\ MergeAfterWorker /\ Merging /\ [Next]_vars => Merging'
<1> SUFFICES ASSUME TypeOK, Control, Contents, MergeAfterWorker, Merging, [Next]_vars
             PROVE  Merging'
  OBVIOUS
<1>1. CASE UNCHANGED mergeVars /\ pc' = pc /\ (pc = "merge" => UNCHANGED files)
  BY <1>1 DEF Merging, mergeVars
<1>2. CASE UNCHANGED mergeVars /\ pc' \notin Scanning \cup {"join", "open", "merge"}
  BY <1>2 DEF Merging, mergeVars
<1>3. CASE UNCHANGED mergeVars /\ pc \in Scanning \cup {"join"} /\ pc' # "merge"
  BY <1>3 DEF Merging, mergeVars, Scanning
<1>4. CASE OpenRuns
  <2>1. /\ prev_addr = NoAddr /\ out = <<>> /\ UNCHANGED <<prev_addr, out, files, run_count>>
        /\ pc' = "merge" /\ DOMAIN files = 0 .. run_count - 1
        /\ rd' = [i \in DOMAIN files |-> 1]
        /\ heap' = UNION { Headers(i, 1) : i \in DOMAIN files }
    BY <1>4 DEF OpenRuns, Merging, scanVars, workerVars
  <2>2. ASSUME NEW h \in heap'
        PROVE  /\ h.run \in DOMAIN files /\ 1 \in DOMAIN files[h.run]
               /\ h.addr = files[h.run][1].addr /\ h.len = files[h.run][1].len
    BY <2>1, <2>2 DEF Headers
  <2>3. ASSUME NEW i \in DOMAIN files, NEW k \in DOMAIN files[i]
        PROVE  k >= 1 /\ \E h \in heap' : h.run = i
    <3>1. files[i] \in Seq(Record) /\ 1 \in DOMAIN files[i] /\ k >= 1
      BY LenProperties DEF TypeOK
    <3>2. [addr |-> files[i][1].addr, len |-> files[i][1].len, run |-> i] \in heap'
      BY <2>1, <3>1 DEF Headers
    <3> QED
      BY <3>1, <3>2
  <2>4. ASSUME NEW h \in heap' PROVE prev_addr <= h.addr
    <3>1. files[h.run] \in Seq(Record) /\ 1 \in DOMAIN files[h.run]
      BY <2>2 DEF TypeOK
    <3>2. files[h.run][1] \in Record
      BY <3>1
    <3>3. h.addr \in Nat
      BY <2>2, <3>2, ConstAssump DEF Record
    <3> QED
      BY <2>1, <3>3 DEF NoAddr
  <2> QED
    BY <2>1, <2>2, <2>3, <2>4 DEF Merging, Scanning
<1>5. CASE MergeRound
  <2>1. PICK h \in heap :
           /\ h.run \in DOMAIN files /\ h.run \in DOMAIN rd
           /\ rd[h.run] \in DOMAIN files[h.run] /\ rd[h.run] \in Nat
           /\ h.addr = files[h.run][rd[h.run]].addr
           /\ h.addr \in Addr
           /\ \A g \in heap \ {h} : h.addr <= g.addr /\ g.run # h.run
           /\ heap' = (heap \ {h}) \cup Headers(h.run, rd[h.run] + 1)
           /\ rd' = [rd EXCEPT ![h.run] = rd[h.run] + 1]
           /\ prev_addr' = h.addr
           /\ prev_addr <= h.addr
           /\ \/ prev_addr = h.addr /\ out' = out
              \/ prev_addr # h.addr /\ out' = Append(out, files[h.run][rd[h.run]])
           /\ files[h.run][rd[h.run]] \in Record \cap inserted
    BY <1>5, RoundFacts
  <2> DEFINE i == h.run
             n == rd[h.run]
             r == files[h.run][rd[h.run]]
  <2>2. /\ Addresses(Range(out')) = Addresses(Range(out)) \cup {h.addr}
        /\ out' # <<>> /\ out'[Len(out')].addr = h.addr
    BY <2>1, RoundWrites
  <2>3. pc = "merge" /\ pc' = "merge" /\ UNCHANGED files
    BY <1>5 DEF MergeRound, workerVars
  <2>4. h.addr # NoAddr /\ DOMAIN rd' = DOMAIN files /\ rd'[i] = n + 1
        /\ \A j \in DOMAIN files \ {i} : rd'[j] = rd[j]
    BY <2>1, <2>3, ConstAssump DEF NoAddr, Merging
  <2>5. files[i] \in Seq(Record) /\ Ascending(files[i])
    BY <2>1 DEF TypeOK, Contents
  <2>6. ASSUME NEW g \in heap'
        PROVE  /\ g.run \in DOMAIN files
               /\ rd'[g.run] \in DOMAIN files[g.run]
               /\ g.addr = files[g.run][rd'[g.run]].addr
               /\ g.len = files[g.run][rd'[g.run]].len
               /\ h.addr <= g.addr
    <3>1. CASE g \in heap \ {h}
      BY <2>1, <2>3, <2>4, <3>1 DEF Merging
    <3>2. CASE g \in Headers(i, n + 1)
      <4>1. /\ n + 1 \in DOMAIN files[i] /\ g.run = i
            /\ g.addr = files[i][n + 1].addr /\ g.len = files[i][n + 1].len
        BY <3>2 DEF Headers
      <4>2. files[i][n].addr <= files[i][n + 1].addr
        BY <2>1, <2>5, <4>1 DEF Ascending
      <4> QED
        BY <2>1, <2>4, <4>1, <4>2
    <3> QED
      BY <2>1, <2>6, <3>1, <3>2
  <2>7. ASSUME NEW j \in DOMAIN files, NEW k \in DOMAIN files[j]
        PROVE  \/ k < rd'[j] /\ files[j][k].addr \in Addresses(Range(out'))
               \/ k >= rd'[j] /\ \E g \in heap' : g.run = j
    <3>1. \/ k < rd[j] /\ files[j][k].addr \in Addresses(Range(out))
          \/ k >= rd[j] /\ \E g \in heap : g.run = j
      BY <2>3 DEF Merging
    <3>2. CASE j # i
      BY <2>1, <2>2, <2>4, <3>1, <3>2
    <3>3. CASE j = i
      <4>0. k \in 1 .. Len(files[i]) /\ n \in 1 .. Len(files[i]) /\ Len(files[i]) \in Nat
            /\ DOMAIN files[i] = 1 .. Len(files[i])
        BY <2>1, <2>5, <3>3, LenProperties
      <4>1. CASE k < n
        BY <2>1, <2>2, <2>4, <3>1, <3>3, <4>0, <4>1
      <4>2. CASE k = n
        BY <2>1, <2>2, <2>4, <3>3, <4>0, <4>2
      <4>3. CASE k > n
        <5>1. n + 1 \in DOMAIN files[i] /\ k >= n + 1
          BY <4>0, <4>3
        <5>2. [addr |-> files[i][n + 1].addr, len |-> files[i][n + 1].len, run |-> i] \in heap'
          BY <2>1, <5>1 DEF Headers
        <5> QED
          BY <2>4, <3>3, <5>1, <5>2
      <4> QED
        BY <4>0, <4>1, <4>2, <4>3
    <3> QED
      BY <3>2, <3>3
  <2> QED
    BY <2>1, <2>2, <2>3, <2>4, <2>6, <2>7 DEF Merging, Scanning
<1> QED
  <2>1. pc = "merge" => wstate = "exited"
    BY DEF Control
  <2> QED
    BY <1>1, <1>2, <1>3, <1>4, <1>5, <2>1
       DEF Next, ScanThread, Worker, Terminated, vars, workerVars, scanVars, mergeVars,
           Insert, Send, SendError, Finish, CloseChannel, Join, Receive, WorkerExit,
           CreateRunFile, WriteRunFile, LoseTail, WorkerError, MergeDone, MergeError,
           Abandon, UnlinkRuns, RemoveDir, Scanning
-----------------------------------------------------------------------------
(* The output.                                                             *)

\* A step that is not a merge round leaves the output alone.
LEMMA OutputOnlyInRounds ==
  ASSUME [Next]_vars, ~MergeRound
  PROVE  out' = out
BY DEF Next, ScanThread, Worker, Terminated, vars, workerVars, scanVars, mergeVars,
       Insert, Send, SendError, Finish, CloseChannel, Join, Receive, WorkerExit,
       CreateRunFile, WriteRunFile, LoseTail, WorkerError, OpenRuns, MergeDone, MergeError,
       Abandon, UnlinkRuns, RemoveDir

\* Blobs stay with the address they were inserted under.
LEMMA BlobsKeepTheirAddressStep ==
  TypeOK /\ Control /\ Numbering /\ Contents /\ Merging /\ BlobsKeepTheirAddress /\ [Next]_vars
    => BlobsKeepTheirAddress'
<1> SUFFICES ASSUME TypeOK, Control, Numbering, Contents, Merging, BlobsKeepTheirAddress,
                    [Next]_vars
             PROVE  Range(out') \subseteq inserted'
  BY DEF BlobsKeepTheirAddress
<1>1. Range(out) \subseteq inserted'
  BY RecordsMove DEF Moved, BlobsKeepTheirAddress
<1>2. CASE MergeRound
  <2>1. PICK h \in heap :
           /\ h.addr = files[h.run][rd[h.run]].addr
           /\ prev_addr' = h.addr
           /\ \/ prev_addr = h.addr /\ out' = out
              \/ prev_addr # h.addr /\ out' = Append(out, files[h.run][rd[h.run]])
           /\ files[h.run][rd[h.run]] \in Record \cap inserted
    BY <1>2, RoundFacts
  <2>2. Range(out') \subseteq Range(out) \cup {files[h.run][rd[h.run]]}
    BY <2>1, RoundWrites
  <2> QED
    BY <1>1, <1>2, <2>1, <2>2 DEF MergeRound, scanVars
<1> QED
  BY <1>1, <1>2, OutputOnlyInRounds

\* The merge only appends addresses above the last one.
LEMMA WriterInputAscendingStep ==
  TypeOK /\ Contents /\ Merging /\ WriterInputAscending /\ [Next]_vars
    => WriterInputAscending'
<1> SUFFICES ASSUME TypeOK, Contents, Merging, WriterInputAscending, [Next]_vars
             PROVE  WriterInputAscending'
  OBVIOUS
<1>1. CASE out' = out
  BY <1>1 DEF WriterInputAscending
<1>2. CASE MergeRound
  <2>1. PICK h \in heap :
           /\ h.addr = files[h.run][rd[h.run]].addr
           /\ h.addr \in Addr
           /\ prev_addr <= h.addr
           /\ \/ prev_addr = h.addr /\ out' = out
              \/ prev_addr # h.addr /\ out' = Append(out, files[h.run][rd[h.run]])
           /\ files[h.run][rd[h.run]] \in Record \cap inserted
    BY <1>2, RoundFacts
  <2> DEFINE r == files[h.run][rd[h.run]]
  <2>2. CASE prev_addr # h.addr /\ out' = Append(out, r)
    <3>1. out \in Seq(Record) /\ r \in Record /\ r.addr \in Nat
      BY <2>1, ConstAssump DEF TypeOK
    <3>2. prev_addr < r.addr
      <4>1. prev_addr \in Int
        BY ConstAssump DEF TypeOK, NoAddr
      <4>2. h.addr = r.addr /\ prev_addr <= h.addr /\ prev_addr # h.addr
        BY <2>1, <2>2
      <4> HIDE DEF r
      <4> QED
        BY <3>1, <4>1, <4>2
    <3>3. \A j \in DOMAIN out : out[j].addr \in Nat
      <4>1. \A j \in DOMAIN out : out[j] \in Record
        BY <3>1
      <4> QED
        BY <4>1, ConstAssump DEF Record
    <3>4. \A j \in DOMAIN out : out[j].addr < r.addr
      <4> SUFFICES ASSUME NEW j \in DOMAIN out PROVE out[j].addr < r.addr
        OBVIOUS
      <4>1. j \in 1 .. Len(out) /\ Len(out) \in DOMAIN out /\ out # <<>>
        BY <3>1, LenProperties, EmptySeq
      <4>2. prev_addr = out[Len(out)].addr
        BY <4>1 DEF Merging
      <4>3. out[j].addr <= out[Len(out)].addr
        BY <3>3, <4>1 DEF WriterInputAscending
      <4> QED
        BY <3>1, <3>2, <3>3, <4>1, <4>2, <4>3
    <3> HIDE DEF r
    <3>5. /\ Len(out) \in Nat /\ DOMAIN out = 1 .. Len(out)
          /\ DOMAIN Append(out, r) = 1 .. Len(out) + 1
          /\ \A k \in DOMAIN Append(out, r) :
               Append(out, r)[k] = IF k = Len(out) + 1 THEN r ELSE out[k]
      <4>1. /\ Append(out, r) \in Seq(Record) /\ Len(Append(out, r)) = Len(out) + 1
            /\ \A k \in DOMAIN Append(out, r) :
                 Append(out, r)[k] = IF k = Len(out) + 1 THEN r ELSE out[k]
        BY <3>1, AppendRange
      <4> HIDE DEF r
      <4>2. /\ Len(out) \in Nat /\ DOMAIN out = 1 .. Len(out)
            /\ DOMAIN Append(out, r) = 1 .. Len(Append(out, r))
        BY <3>1, <4>1, LenProperties
      <4> QED
        BY <4>1, <4>2
    <3> QED
      BY <2>2, <3>4, <3>5 DEF WriterInputAscending
  <2> QED
    BY <1>1, <2>1, <2>2
<1> QED
  BY <1>1, <1>2, OutputOnlyInRounds

\* When the heap runs empty everything on disk has been written.
LEMMA AllAddressesWrittenStep ==
  TypeOK /\ Control /\ MergeAfterWorker /\ Merging /\ BlobsKeepTheirAddress
    /\ AllAddressesWritten /\ [Next]_vars => AllAddressesWritten'
<1> SUFFICES ASSUME TypeOK, Control, MergeAfterWorker, Merging, BlobsKeepTheirAddress,
                    AllAddressesWritten, [Next]_vars
             PROVE  AllAddressesWritten'
  OBVIOUS
<1>1. CASE MergeDone
  <2>1. pc = "merge" /\ heap = {} /\ UNCHANGED <<out, inserted, lost>>
    BY <1>1 DEF MergeDone, mergeVars, scanVars, workerVars
  <2>2. \A i \in DOMAIN files : \A k \in DOMAIN files[i] :
          files[i][k].addr \in Addresses(Range(out))
    BY <2>1 DEF Merging
  <2>3. \A r \in OnDisk : r.addr \in Addresses(Range(out))
    BY <2>2 DEF OnDisk, Range
  <2>4. Addresses(inserted \ lost) \subseteq Addresses(Range(out))
    BY <2>1, <2>3 DEF MergeAfterWorker, Addresses
  <2>5. Addresses(Range(out)) \subseteq Addresses(inserted)
    BY DEF BlobsKeepTheirAddress, Addresses
  <2> QED
    BY <2>1, <2>4, <2>5 DEF AllAddressesWritten
<1>2. CASE result = "ok" /\ UNCHANGED <<out, inserted, lost>>
  BY <1>2 DEF AllAddressesWritten
<1>3. CASE result' # "ok"
  BY <1>3 DEF AllAddressesWritten
<1> QED
  BY <1>1, <1>2, <1>3
     DEF Next, ScanThread, Worker, Terminated, vars, workerVars, scanVars, mergeVars,
         Insert, Send, SendError, Finish, CloseChannel, Join, Receive, WorkerExit,
         CreateRunFile, WriteRunFile, LoseTail, WorkerError, OpenRuns, MergeRound, MergeError,
         Abandon, UnlinkRuns, RemoveDir, Control, Working, Scanning

\* While something is being merged a cut run is not read past its end, and so
\* the heap cannot run empty.
LEMMA CutsStep ==
  TypeOK /\ Control /\ Numbering /\ Contents /\ Merging /\ Cuts /\ CutBlobIsError /\ [Next]_vars
    => Cuts' /\ CutBlobIsError'
<1> SUFFICES ASSUME TypeOK, Control, Numbering, Contents, Merging, Cuts, CutBlobIsError,
                    [Next]_vars
             PROVE  Cuts' /\ CutBlobIsError'
  OBVIOUS
<1>1. CASE CreateRunFile
  <2>1. pc' = pc /\ cut' = cut /\ rd' = rd /\ result' = result
    BY <1>1 DEF CreateRunFile, mergeVars
  <2>2. \A i \in DOMAIN files : i \in DOMAIN files' /\ files'[i] = files[i]
    BY <1>1 DEF CreateRunFile, Numbering
  <2> QED
    BY <1>1, <2>1, <2>2 DEF CreateRunFile, Cuts, CutBlobIsError, Control
<1>2. CASE WriteRunFile
  <2>1. PICK s \in Sortings(wtask.entries) :
          files' = [i \in DOMAIN files |-> IF i = wtask.run THEN s ELSE files[i]]
    BY <1>2 DEF WriteRunFile, Leave
  <2>2. pc' = pc /\ cut' = cut /\ result' = result /\ pc # "merge"
    BY <1>2 DEF WriteRunFile, Control
  <2>3. pc \in Working => \A i \in cut : i # wtask.run
    BY <1>2 DEF WriteRunFile, Cuts, Control, Numbering
  <2> QED
    BY <2>1, <2>2, <2>3 DEF Cuts, CutBlobIsError
<1>3. CASE LoseTail
  <2>1. PICK left \in Seq(Record), inBlob \in BOOLEAN :
          /\ files' = [i \in DOMAIN files |-> IF i = wtask.run THEN left ELSE files[i]]
          /\ cut' = IF inBlob THEN cut \cup {wtask.run} ELSE cut
          /\ inBlob => left # <<>>
    BY <1>3, LostTail
  <2>2. pc' = pc /\ result' = result /\ pc # "merge" /\ result # "ok"
    BY <1>3 DEF LoseTail, Control
  <2>3. pc \in Working => wtask.run \in DOMAIN files /\ \A i \in cut : i # wtask.run
    BY <1>3 DEF LoseTail, Cuts, Control, Numbering
  <2> QED
    BY <2>1, <2>2, <2>3 DEF Cuts, CutBlobIsError
<1>4. CASE OpenRuns
  <2>1. /\ rd' = [i \in DOMAIN files |-> 1] /\ UNCHANGED <<cut, files, result>>
        /\ pc = "open"
    BY <1>4 DEF OpenRuns, workerVars
  <2>2. \A i \in cut : i \in DOMAIN files /\ files[i] # <<>>
    BY <2>1 DEF Cuts, Working
  <2>3. \A i \in cut : 1 <= Len(files[i])
    BY <2>2, EmptySeq, LenProperties DEF TypeOK
  <2> QED
    BY <2>1, <2>2, <2>3 DEF Cuts, CutBlobIsError
<1>5. CASE MergeRound
  <2>1. PICK h \in heap : ~BlobCut(h.run) /\ rd' = [rd EXCEPT ![h.run] = @ + 1]
    BY <1>5 DEF MergeRound
  <2>2. UNCHANGED <<cut, files, result>> /\ pc = "merge" /\ pc' = "merge"
    BY <1>5 DEF MergeRound, workerVars
  <2>3. h.run \in DOMAIN rd /\ rd[h.run] \in DOMAIN files[h.run] /\ h.run \in DOMAIN files
        /\ files[h.run] \in Seq(Record) /\ DOMAIN rd = DOMAIN files
    BY <2>2 DEF Merging, TypeOK
  <2>4. \A i \in cut : i \in DOMAIN files /\ files[i] # <<>> /\ rd[i] <= Len(files[i])
    BY <2>2 DEF Cuts, Working
  <2>5. h.run \in cut => rd[h.run] + 1 <= Len(files[h.run])
    BY <2>1, <2>3, <2>4, LenProperties DEF BlobCut
  <2>6. \A i \in cut : rd'[i] <= Len(files[i])
    BY <2>1, <2>3, <2>4, <2>5
  <2> QED
    BY <2>2, <2>4, <2>6 DEF Cuts, CutBlobIsError
<1>6. CASE MergeDone
  <2>1. heap = {} /\ pc = "merge" /\ UNCHANGED cut /\ pc' \notin Working
    BY <1>6 DEF MergeDone, workerVars, Working, Scanning
  <2>2. cut = {}
    <3> SUFFICES ASSUME NEW i \in cut PROVE FALSE
      OBVIOUS
    <3>1. /\ i \in DOMAIN files /\ files[i] # <<>> /\ files[i] \in Seq(Record)
          /\ rd[i] <= Len(files[i]) /\ rd[i] \in Nat
      BY <2>1 DEF Cuts, Working, Merging, TypeOK
    <3>2. Len(files[i]) \in DOMAIN files[i] /\ Len(files[i]) \in Nat
      BY <3>1, EmptySeq, LenProperties
    <3>3. Len(files[i]) < rd[i]
      BY <2>1, <3>1, <3>2 DEF Merging
    <3> QED
      BY <3>1, <3>2, <3>3
  <2> QED
    BY <1>6, <2>1, <2>2 DEF MergeDone, Cuts, CutBlobIsError
<1>7. CASE UnlinkRuns
  BY <1>7 DEF UnlinkRuns, Cuts, CutBlobIsError, Working, Scanning
<1>8. CASE UNCHANGED <<files, cut, result>>
           /\ (pc' = "merge" => pc = "merge" /\ UNCHANGED rd) /\ (pc' \in Working => pc \in Working)
  BY <1>8 DEF Cuts, CutBlobIsError
<1>9. CASE UNCHANGED <<files, cut>> /\ pc' \notin Working /\ result' # "ok"
  BY <1>9 DEF Cuts, CutBlobIsError, Working, Scanning
<1> QED
  BY <1>1, <1>2, <1>3, <1>4, <1>5, <1>6, <1>7, <1>8, <1>9
     DEF Next, ScanThread, Worker, Terminated, vars, workerVars, scanVars, mergeVars, Insert,
         Send, SendError, Finish, CloseChannel, Join, Receive, WorkerExit, WorkerError,
         MergeError, Abandon, RemoveDir, Working, Scanning, StartSpill

-----------------------------------------------------------------------------
(* The theorems.                                                           *)

\* The invariant holds initially.
LEMMA InitIInv == Init => IInv
<1> SUFFICES ASSUME Init PROVE IInv
  OBVIOUS
<1> USE ConstAssump DEF Init
<1>0. /\ <<>> \in Seq(Record) /\ <<>> \in Seq(Task) /\ Len(<<>>) = 0
      /\ DOMAIN <<>> = {} /\ Range(<<>>) = {}
      /\ NoTask \in Task /\ NoTask.entries = <<>>
      /\ DOMAIN files = {} /\ DOMAIN rd = {}
  BY EmptyRange DEF NoTask, Task
<1>1. TypeOK
  BY <1>0 DEF TypeOK, ChannelCap
<1>2. Control
  BY <1>0 DEF Control, Working, Scanning
<1>3. Numbering
  BY <1>0 DEF Numbering, InUse
<1>4. InRam = {} /\ OnDisk = {}
  BY <1>0 DEF InRam, Queued, OnDisk
<1>5. Contents /\ NoRecordLost /\ MergeAfterWorker
  BY <1>0, <1>4 DEF Contents, NoRecordLost, MergeAfterWorker
<1>6. Merging /\ BlobsKeepTheirAddress /\ WriterInputAscending /\ AllAddressesWritten
  BY <1>0 DEF Merging, Scanning, BlobsKeepTheirAddress, WriterInputAscending,
              AllAddressesWritten
<1>7. Cuts /\ CutBlobIsError
  BY DEF Cuts, CutBlobIsError
<1> QED
  BY <1>1, <1>2, <1>3, <1>5, <1>6, <1>7 DEF IInv

\* Every step keeps the invariant.
LEMMA NextIInv == IInv /\ [Next]_vars => IInv'
BY TypeStep, ControlStep, NumberingStep, ContentsStep, NoRecordLostStep,
   MergeAfterWorkerStep, MergingStep, BlobsKeepTheirAddressStep,
   WriterInputAscendingStep, AllAddressesWrittenStep, CutsStep
   DEF IInv

\* The inductive invariant is an invariant of every behaviour of the two threads.
THEOREM Invariance == Spec => []IInv
BY InitIInv, NextIInv, PTL DEF Spec

\* Types, and with them the length of every buffer, for every run size.
THEOREM TypeCorrect == Spec => []TypeOK
<1>1. IInv => TypeOK
  BY DEF IInv
<1> QED
  BY Invariance, <1>1, PTL

\* The memory bound: a parse never holds more than three runs of run_size
\* entries, however the scan thread and the spill worker interleave.
THEOREM MemoryBound == Spec => []AtMostThreeRuns
<1>1. IInv => AtMostThreeRuns
  <2> SUFFICES ASSUME TypeOK, Control PROVE AtMostThreeRuns
    BY DEF IInv
  <2>1. Len(channel) \in Nat /\ Len(channel) <= 1
    BY LenProperties DEF TypeOK, ChannelCap
  <2>2. pending.entries # <<>> => current_run = <<>>
    BY DEF Control, Working, Scanning
  <2> QED
    BY <2>1, <2>2 DEF AtMostThreeRuns, RunsInRam, Holds
<1> QED
  BY Invariance, <1>1, PTL

\* Conservation: until a failure is reported every inserted record is in a buffer
\* or in a run file, through spills, queueing, sorting and writing, or it was in
\* the tail that a failing last flush lost.
THEOREM Conservation == Spec => []NoRecordLost
<1>1. IInv => NoRecordLost
  BY DEF IInv
<1> QED
  BY Invariance, <1>1, PTL

\* Reading starts when the worker has gone; every run then has its file, and what
\* no file holds is what a failing last flush lost.
THEOREM FilesComplete == Spec => []MergeAfterWorker
<1>1. IInv => MergeAfterWorker
  BY DEF IInv
<1> QED
  BY Invariance, <1>1, PTL

\* The database writer is only ever given strictly ascending addresses.
THEOREM StrictlyAscending == Spec => []WriterInputAscending
<1>1. IInv => WriterInputAscending
  BY DEF IInv
<1> QED
  BY Invariance, <1>1, PTL

\* Whatever is written under an address was inserted under that address.
THEOREM BlobsFaithful == Spec => []BlobsKeepTheirAddress
<1>1. IInv => BlobsKeepTheirAddress
  BY DEF IInv
<1> QED
  BY Invariance, <1>1, PTL

\* An Ok from finish means that the database has every inserted address but those
\* of records lost in a failing last flush, and no other address.
THEOREM Completeness == Spec => []AllAddressesWritten
<1>1. IInv => AllAddressesWritten
  BY DEF IInv
<1> QED
  BY Invariance, <1>1, PTL

\* A run file that ends inside a blob is never merged to an Ok, however many runs
\* there are and wherever it is cut.
THEOREM CutsNoticed == Spec => []CutBlobIsError
<1>1. IInv => CutBlobIsError
  BY DEF IInv
<1> QED
  BY Invariance, <1>1, PTL

\* A successful sort leaves no temporary file or directory behind.
THEOREM CleanedUp == Spec => []RunFilesCleanedUp
<1>1. IInv => RunFilesCleanedUp
  BY DEF IInv, Control, RunFilesCleanedUp
<1> QED
  BY Invariance, <1>1, PTL
-----------------------------------------------------------------------------
(* Refinement of AddrStore.                                                *)

\* On success the written map is a map of inserted records that lacks none but
\* lost ones.
LEMMA WrittenMapIsOne ==
  ASSUME BlobsKeepTheirAddress, Addresses(inserted \ lost) \subseteq Addresses(Range(out))
  PROVE  \E kept \in SUBSET inserted :
           inserted \ lost \subseteq kept /\ WrittenMap \in Store!Maps(kept)
<1> DEFINE kept == { r \in inserted : r.addr \in Addresses(Range(out)) }
<1>1. \A a \in Addresses(Range(out)) : \E r \in Range(out) : r.addr = a
  BY DEF Addresses
<1>2. \A a \in Addresses(Range(out)) :
        /\ WrittenMap[a] \in Range(out)
        /\ WrittenMap[a].addr = a
  BY <1>1 DEF WrittenMap
<1>3. Addresses(kept) = Addresses(Range(out)) /\ Range(out) \subseteq kept
  BY DEF Addresses, BlobsKeepTheirAddress
<1>4. WrittenMap \in [Addresses(kept) -> kept]
  BY <1>2, <1>3 DEF WrittenMap
<1>5. inserted \ lost \subseteq kept
  BY DEF Addresses
<1>6. WrittenMap \in Store!Maps(kept)
  BY <1>2, <1>3, <1>4 DEF Store!Maps, Addresses
<1> QED
  BY <1>5, <1>6

\* Every step of the sorter is a step of the abstract store, or invisible.
LEMMA StoreStep == IInv /\ [Next]_vars => [Store!Next]_(Store!vars)
<1> SUFFICES ASSUME IInv, [Next]_vars PROVE [Store!Next]_(Store!vars)
  OBVIOUS
<1>0. TypeOK /\ TypeOK' /\ Control /\ BlobsKeepTheirAddress' /\ AllAddressesWritten'
  BY NextIInv DEF IInv
<1>a. ASSUME UNCHANGED <<inserted, lost, result, out>> PROVE UNCHANGED Store!vars
  BY <1>a DEF Store!vars, WrittenMap
<1>b. ASSUME UNCHANGED <<inserted, lost, result>>, result # "ok" PROVE UNCHANGED Store!vars
  BY <1>b DEF Store!vars
<1>c. ASSUME UNCHANGED <<inserted, lost>>, result = "none", result' = "err" PROVE Store!Fail
  BY <1>c DEF Store!Fail
<1>1. ASSUME NEW a \in Addr, NEW l \in BlobLen, Insert(a, l) PROVE Store!Next
  <2> DEFINE r == [addr |-> a, len |-> l, id |-> total_entries + 1]
  <2>1. r \in Record
    BY <1>0, <1>1, InsertedRun
  <2>2. inserted' = inserted \cup {r} /\ result = "none" /\ result' = "none" /\ lost' = lost
    BY <1>0, <1>1 DEF Insert, Control, Working, Scanning, workerVars
  <2> HIDE DEF r
  <2>3. Store!Put(r)
    BY <2>2 DEF Store!Put
  <2> QED
    BY <2>1, <2>3 DEF Store!Next
<1>2. CASE MergeDone
  <2>1. /\ result = "none" /\ result' = "ok" /\ inserted' = inserted /\ out' = out
        /\ lost' = lost
    BY <1>0, <1>2 DEF MergeDone, Control, Working, scanVars, mergeVars, workerVars
  <2>2. BlobsKeepTheirAddress /\ Addresses(inserted \ lost) \subseteq Addresses(Range(out))
    BY <1>0, <2>1 DEF AllAddressesWritten, BlobsKeepTheirAddress
  <2>3. \E kept \in SUBSET inserted :
          inserted \ lost \subseteq kept /\ WrittenMap' \in Store!Maps(kept)
    BY <2>1, <2>2, WrittenMapIsOne DEF WrittenMap
  <2> QED
    BY <2>1, <2>3 DEF Store!Next, Store!Build
<1>3. CASE MergeRound
  BY <1>0, <1>3, <1>b DEF MergeRound, Control, Working, scanVars, workerVars
<1>4. CASE SendError \/ Abandon \/ MergeError
  BY <1>0, <1>4, <1>c DEF SendError, Abandon, MergeError, Control, Working, Scanning,
                          scanVars, workerVars, Store!Next
<1>5. CASE Join
  BY <1>0, <1>5, <1>a, <1>c DEF Join, Control, Working, scanVars, mergeVars, workerVars, Store!Next
<1>6. CASE LoseTail
  <2>1. PICK gone \in SUBSET Record :
          lost' = lost \cup gone /\ gone \subseteq Range(wtask.entries)
    BY <1>0, <1>6, LostTail
  <2>2. lost' \subseteq inserted
    BY <1>0, <2>1 DEF Contents, InRam, IInv
  <2>3. UNCHANGED <<inserted, result, out>> /\ result # "ok" /\ lost \subseteq lost'
    BY <1>0, <1>6, <2>1 DEF LoseTail, Control, scanVars, mergeVars
  <2> QED
    BY <1>0, <2>2, <2>3 DEF Store!Lose, Store!Next, TypeOK
<1> QED
  BY <1>a, <1>1, <1>2, <1>3, <1>4, <1>5, <1>6
     DEF Next, ScanThread, Worker, Terminated, vars, workerVars, scanVars, mergeVars,
         Send, Finish, CloseChannel, Receive, WorkerExit,
         CreateRunFile, WriteRunFile, LoseTail, WorkerError, OpenRuns, UnlinkRuns, RemoveDir

\* To parse_scanner the sorter is a plain address store: what it returns is a
\* map with one inserted blob per inserted address, but for what a failing last
\* flush lost, or an error.
THEOREM RefinesAddrStore == Spec => Store!SafeSpec
<1>1. Init => Store!Init
  BY DEF Init, Store!Init, Store!EmptyMap
<1> QED
  BY <1>1, Invariance, StoreStep, PTL DEF Spec, Store!SafeSpec
=============================================================================
