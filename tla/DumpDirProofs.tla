---------------------------- MODULE DumpDirProofs ----------------------------
(***************************************************************************)
(* Theorems about DumpDir, for every Proc, View, Labeller, Deleter, Label. *)
(***************************************************************************)
EXTENDS DumpDirInv, TLAPS

-----------------------------------------------------------------------------
(* Types.                                                                  *)

\* A removed entry is gone, and what was open keeps the contents it had.
LEMMA RemoveEntryType ==
  ASSUME TypeOK, Handles, RemoveEntry
  PROVE  /\ dir /\ dir' = dir /\ complete' \in BOOLEAN
         /\ data' \in {"none", "partial", "whole", "torn"} /\ by' \in Proc \cup {None}
         /\ meta' \in {meta, NoMeta} /\ metaopen' \subseteq Labeller
         /\ open' \in [Reader -> [addr : {"closed", "current", "whole", "torn"},
                                  text : {"closed", "current", "whole", "torn"}]]
         /\ Handles'
<1>1. dir
  BY DEF TypeOK, RemoveEntry, Empty
<1>2. CASE /\ data # "none" /\ data' = "none" /\ by' = None
           /\ open' = [r \in Reader |-> [addr |-> Frozen(open[r].addr),
                                         text |-> Frozen(open[r].text)]]
           /\ UNCHANGED <<dir, meta, complete, metaopen>>
  <2>1. ASSUME NEW r \in Reader
        PROVE  /\ Frozen(open[r].addr) \in {"closed", "whole", "torn"}
               /\ Frozen(open[r].text) \in {"closed", "whole", "torn"}
    <3>1. open[r] \in [addr : {"closed", "current", "whole", "torn"},
                       text : {"closed", "current", "whole", "torn"}]
      BY DEF TypeOK
    <3> QED
      BY <3>1 DEF Handles, Openable, Frozen
  <2>2. \A r \in Reader : open'[r].addr # "current" /\ open'[r].text # "current"
    BY <1>2, <2>1
  <2> QED
    BY <1>1, <1>2, <2>1, <2>2 DEF TypeOK, Handles
<1>3. CASE /\ meta.st # "none" /\ meta' = NoMeta /\ metaopen' = {}
           /\ UNCHANGED <<dir, data, by, complete, open>>
  BY <1>1, <1>3 DEF TypeOK, Handles, Openable
<1>4. CASE /\ complete /\ complete' = FALSE
           /\ UNCHANGED <<dir, data, by, meta, open, metaopen>>
  BY <1>1, <1>4 DEF TypeOK, Handles, Openable
<1> QED
  BY <1>2, <1>3, <1>4 DEF RemoveEntry

\* Values of meta.json.
LEMMA MetaType ==
  /\ NoMeta \in [st : {"none", "empty", "garbled", "json"}, by : {"none", "ecd", "server"},
                 label : Label \cup {None}]
  /\ \A w \in {"ecd", "server"}, l \in Label \cup {None} :
       /\ Json(w, l) \in [st : {"none", "empty", "garbled", "json"},
                          by : {"none", "ecd", "server"}, label : Label \cup {None}]
       /\ Json(w, l).st = "json"
  /\ \A s \in {"empty", "garbled"} :
       [NoMeta EXCEPT !.st = s] \in [st : {"none", "empty", "garbled", "json"},
                                     by : {"none", "ecd", "server"}, label : Label \cup {None}]
  /\ NoMeta.st = "none"
BY DEF NoMeta, Json

\* A step of a reader that leaves everything else alone.
LEMMA GoType ==
  ASSUME TypeOK, Handles, NEW r \in Reader,
         NEW from, NEW to \in {"exit", "check", "clean", "mkdir", "parse", "parsing", "meta",
                               "complete", "open", "open_text", "read"},
         Go(r, from, to), UNCHANGED <<origin, disk, hist, open, lab, metaopen, del>>
  PROVE  TypeOK' /\ Handles'
<1>1. pc' \in [Reader -> {"exit", "check", "clean", "mkdir", "parse", "parsing", "meta",
                          "complete", "open", "open_text", "read"}]
  BY DEF Go, TypeOK
<1> QED
  BY <1>1 DEF TypeOK, Handles, Openable, Empty, disk, hist

\* Stopping the other walks.
LEMMA StrayType ==
  ASSUME TypeOK, NEW x
  PROVE  Stray(x) \in [Deleter -> {"off", "found", "removing", "stray"}]
BY DEF TypeOK, Stray

\* Every ecd step keeps the types, and handles are on stores that open.
LEMMA TypeEcd ==
  ASSUME TypeOK, Handles, NEW p \in Proc, EcdStep(p)
  PROVE  TypeOK' /\ Handles'
<1>0. p \in Reader
  BY DEF Reader
<1>1. CASE ByPath(p)
  BY <1>0, <1>1, GoType DEF ByPath, serverIdle
<1>2. CASE ById(p)
  BY <1>0, <1>2, GoType DEF ById, serverIdle
<1>3. CASE Hit(p)
  BY <1>0, <1>3, GoType DEF Hit, serverIdle
<1>4. CASE Miss(p)
  BY <1>0, <1>4, GoType DEF Miss, serverIdle
<1>5. CASE Clean(p)
  <2>1. CASE dir /\ Go(p, "clean", "clean") /\ RemoveEntry /\ UNCHANGED <<origin, lab, del, hist>>
    BY <1>0, <2>1, RemoveEntryType, MetaType DEF Go, TypeOK, Empty, hist
  <2>2. CASE /\ Go(p, "clean", "mkdir") /\ RemoveDir /\ del' = Stray(None)
             /\ UNCHANGED <<origin, open, lab, metaopen, deleted, acked>>
    BY <1>0, <2>2, StrayType DEF RemoveDir, Go, TypeOK, Empty, Handles, Openable
  <2>3. CASE ~dir /\ Go(p, "clean", "mkdir") /\ UNCHANGED <<origin, disk, open, hist>> /\ serverIdle
    BY <1>0, <2>3, GoType DEF serverIdle
  <2> QED
    BY <1>5, <2>1, <2>2, <2>3 DEF Clean
<1>6. CASE MakeDir(p)
  <2>1. pc' \in [Reader -> {"exit", "check", "clean", "mkdir", "parse", "parsing", "meta",
                            "complete", "open", "open_text", "read"}]
    BY <1>0, <1>6 DEF MakeDir, Go, TypeOK
  <2> QED
    <3>1. Handles'
      BY <1>6 DEF MakeDir, serverIdle, Handles, Openable
    <3>2. /\ dir' = TRUE /\ deleted' = FALSE
          /\ UNCHANGED <<origin, data, by, meta, complete, open, hurt, acked>>
          /\ UNCHANGED <<lab, metaopen, del>>
      BY <1>6 DEF MakeDir, serverIdle
    <3>3. TypeOK'
      <4>1. origin' \in {"ecd", "server"} /\ dir' \in BOOLEAN /\ complete' \in BOOLEAN
        BY <3>2 DEF TypeOK
      <4>2. data' \in {"none", "partial", "whole", "torn"} /\ by' \in Proc \cup {None}
        BY <3>2 DEF TypeOK
      <4>3. hurt' \in BOOLEAN /\ deleted' \in BOOLEAN /\ acked' \in Label \cup {None}
            /\ metaopen' \subseteq Labeller
        BY <3>2 DEF TypeOK
      <4> QED
        BY <2>1, <3>2, <4>1, <4>2, <4>3 DEF TypeOK
    <3> QED
      BY <3>1, <3>3
<1>7. CASE ParseBegins(p)
  BY <1>0, <1>7 DEF ParseBegins, serverIdle, Go, TypeOK, Handles, Openable
<1>8. CASE ParseEnds(p)
  BY <1>0, <1>8 DEF ParseEnds, serverIdle, Go, TypeOK, Handles, Openable, Empty, hist
<1>9. CASE WriteMeta(p)
  BY <1>0, <1>9, MetaType DEF WriteMeta, serverIdle, Go, TypeOK, Handles, Openable, hist
<1>10. CASE WriteComplete(p)
  BY <1>0, <1>10 DEF WriteComplete, serverIdle, Go, TypeOK, Handles, Openable, hist
<1> QED
  BY <1>1, <1>2, <1>3, <1>4, <1>5, <1>6, <1>7, <1>8, <1>9, <1>10 DEF EcdStep

\* So does every step of a reader ...
LEMMA TypeReader ==
  ASSUME TypeOK, Handles, NEW r \in Reader,
         StartView(r) \/ OpenAddr(r) \/ OpenText(r) \/ Stop(r)
  PROVE  TypeOK' /\ Handles'
<1>1. CASE StartView(r)
  BY <1>1, GoType DEF StartView, serverIdle
<1>2. CASE OpenAddr(r)
  BY <1>2 DEF OpenAddr, serverIdle, Go, TypeOK, Handles, Openable, Empty, disk, hist
<1>3. CASE OpenText(r)
  BY <1>3 DEF OpenText, serverIdle, Go, TypeOK, Handles, Openable, Empty, disk, hist
<1>4. CASE Stop(r)
  BY <1>4 DEF Stop, serverIdle, Go, Closed, TypeOK, Handles, Openable, Empty, disk, hist
<1> QED
  BY <1>1, <1>2, <1>3, <1>4

\* A label update that takes a step.
LEMMA TaskType ==
  ASSUME TypeOK, NEW c \in Labeller, NEW s \in {"off", "checked", "read", "write"},
         NEW w \in {"none", "ecd", "server"}
  PROVE  /\ [lab EXCEPT ![c].pc = s] \in
              [Labeller -> [pc : {"off", "checked", "read", "write"}, label : Label \cup {None},
                            by : {"none", "ecd", "server"}, solo : BOOLEAN]]
         /\ [lab EXCEPT ![c].pc = s, ![c].by = w] \in
              [Labeller -> [pc : {"off", "checked", "read", "write"}, label : Label \cup {None},
                            by : {"none", "ecd", "server"}, solo : BOOLEAN]]
<1> DEFINE Task == [pc : {"off", "checked", "read", "write"}, label : Label \cup {None},
                    by : {"none", "ecd", "server"}, solo : BOOLEAN]
           t == [lab[c] EXCEPT !.pc = s]
           u == [t EXCEPT !.by = w]
<1>1. lab \in [Labeller -> Task]
  BY DEF TypeOK
<1>2. t \in Task
  BY <1>1
<1>3. u \in Task
  BY <1>2
<1>4. [lab EXCEPT ![c].pc = s] = [lab EXCEPT ![c] = t]
  BY <1>1
<1>5. [lab EXCEPT ![c].pc = s, ![c].by = w] = [lab EXCEPT ![c] = u]
  BY <1>1
<1> QED
  BY <1>1, <1>2, <1>3, <1>4, <1>5

\* ... of a label update ...
LEMMA TypeLabel ==
  ASSUME TypeOK, Handles, NEW c \in Labeller, LabelStep(c)
  PROVE  TypeOK' /\ Handles'
<1> DEFINE Task == [pc : {"off", "checked", "read", "write"}, label : Label \cup {None},
                    by : {"none", "ecd", "server"}, solo : BOOLEAN]
<1>0. Idle \in Task
  BY DEF Idle
<1>1. ASSUME NEW l \in Label, CheckDump(c, l) PROVE TypeOK' /\ Handles'
  <2>1. lab' \in [Labeller -> Task]
    <3> DEFINE alone == \A x \in Labeller \ {c} : lab[x].pc = "off"
               mine == [pc |-> "checked", label |-> l, by |-> "none", solo |-> alone]
               other(x) == [lab[x] EXCEPT !.solo = FALSE]
    <3>1. mine \in Task
      <4> alone \in BOOLEAN
        OBVIOUS
      <4> HIDE DEF alone
      <4> QED
        OBVIOUS
    <3>2. ASSUME NEW x \in Labeller PROVE other(x) \in Task
      <4>1. lab[x] \in Task
        BY DEF TypeOK
      <4> QED
        BY <4>1
    <3>3. lab' = [x \in Labeller |-> IF x = c THEN mine ELSE other(x)]
      BY <1>1 DEF CheckDump
    <3> HIDE DEF mine, other
    <3> QED
      BY <3>1, <3>2, <3>3
  <2> QED
    BY <1>1, <2>1 DEF CheckDump, labUnchanged, TypeOK, Handles, Openable, Empty, hist
<1>2. CASE ReadMeta(c)
  <2>1. lab' \in [Labeller -> Task]
    <3>1. meta.by \in {"none", "ecd", "server"}
      BY DEF TypeOK
    <3> QED
      BY <1>2, <3>1, TaskType DEF ReadMeta
  <2> QED
    BY <1>2, <2>1 DEF ReadMeta, labUnchanged, TypeOK, Handles, Openable, Empty, hist
<1>3. CASE TruncateMeta(c)
  <2>1. lab' \in [Labeller -> Task]
    BY <1>3, TaskType DEF TruncateMeta
  <2> QED
    BY <1>3, <2>1, MetaType DEF TruncateMeta, labUnchanged, TypeOK, Handles, Openable, hist
<1>4. CASE PutMeta(c)
  <2>1. lab' \in [Labeller -> Task] /\ lab[c] \in Task
    BY <1>0, <1>4 DEF PutMeta, TypeOK
  <2> QED
    <3>1. lab[c].by \in {"none", "ecd", "server"} /\ lab[c].label \in Label \cup {None}
      BY <2>1
    <3>2. Written(c).st # "none" /\ Written(c) \in
            [st : {"none", "empty", "garbled", "json"}, by : {"none", "ecd", "server"},
             label : Label \cup {None}]
      BY <3>1 DEF Written, Json, NoMeta
    <3>3. meta' \in {meta, Written(c)} /\ acked' \in Label \cup {None}
      BY <1>4, <3>1 DEF PutMeta
    <3>4. Handles'
      BY <1>4, <3>2 DEF PutMeta, labUnchanged, Handles, Openable
    <3>5. ~dir => Empty /\ meta' = meta
      BY <1>4 DEF PutMeta, TypeOK, Handles, Empty
    <3> QED
      BY <1>4, <2>1, <3>2, <3>3, <3>4, <3>5 DEF PutMeta, labUnchanged, TypeOK, Empty
<1>5. CASE LabelFails(c)
  BY <1>0, <1>5 DEF LabelFails, labUnchanged, TypeOK, Handles, Openable, Empty, hist
<1> QED
  BY <1>1, <1>2, <1>3, <1>4, <1>5 DEF LabelStep

\* ... and of a delete.
LEMMA TypeDelete ==
  ASSUME TypeOK, Handles, NEW d \in Deleter, DeleteStep(d)
  PROVE  TypeOK' /\ Handles'
<1>1. CASE FindDump(d)
  BY <1>1 DEF FindDump, delUnchanged, TypeOK, Handles, Openable, Empty, disk, hist
<1>2. CASE OpenDir(d)
  BY <1>2 DEF OpenDir, delUnchanged, TypeOK, Handles, Openable, Empty, disk
<1>3. CASE DeleteEntry(d)
  BY <1>3, RemoveEntryType, MetaType DEF DeleteEntry, delUnchanged, TypeOK, Empty, hist
<1>4. CASE DeleteDir(d)
  BY <1>4, StrayType DEF DeleteDir, delUnchanged, RemoveDir, TypeOK, Handles, Openable, Empty
<1>5. CASE DeleteFails(d)
  BY <1>5 DEF DeleteFails, delUnchanged, TypeOK, Handles, Openable, Empty, disk, hist
<1> QED
  BY <1>1, <1>2, <1>3, <1>4, <1>5 DEF DeleteStep

LEMMA TypeStep == TypeOK /\ Handles /\ [Next]_vars => TypeOK' /\ Handles'
<1> SUFFICES ASSUME TypeOK, Handles, [Next]_vars PROVE TypeOK' /\ Handles'
  OBVIOUS
<1>1. CASE Crash
  BY <1>1 DEF Crash, Closed, Idle, TypeOK, Handles, Openable, Empty, disk, hist
<1>2. CASE UNCHANGED vars
  BY <1>2 DEF vars, disk, tasks, hist, TypeOK, Handles, Openable, Empty
<1>3. ASSUME NEW v \in View, StartView(v) PROVE TypeOK' /\ Handles'
  BY <1>3, TypeReader DEF Reader
<1> QED
  BY <1>1, <1>2, <1>3, TypeEcd, TypeReader, TypeLabel, TypeDelete DEF Next

LEMMA TypeInit == Init => TypeOK /\ Handles
<1> SUFFICES ASSUME Init PROVE TypeOK /\ Handles
  OBVIOUS
<1>1. /\ open \in [Reader -> [addr : {"closed", "current", "whole", "torn"},
                              text : {"closed", "current", "whole", "torn"}]]
      /\ Handles
  BY DEF Init, Closed, Handles
<1>2. lab \in [Labeller -> [pc : {"off", "checked", "read", "write"}, label : Label \cup {None},
                            by : {"none", "ecd", "server"}, solo : BOOLEAN]]
  BY DEF Init, Idle
<1>3. meta \in [st : {"none", "empty", "garbled", "json"}, by : {"none", "ecd", "server"},
                label : Label \cup {None}]
  BY MetaType DEF Init
<1>4. ~dir => Empty
  BY MetaType DEF Init, Empty
<1> QED
  BY <1>1, <1>2, <1>3, <1>4 DEF Init, TypeOK

\* TypeOK, with what Frozen needs, is inductive.
THEOREM TypeCorrect == Spec => []TypeOK
<1>1. TypeOK /\ Handles /\ [Next]_vars => (TypeOK /\ Handles)'
  BY TypeStep
<1> QED
  BY <1>1, TypeInit, PTL DEF Spec

-----------------------------------------------------------------------------
(* Deletes.                                                                *)

\* Only an ecd process that parses creates the directory, and that ends what a
\* delete promised.
THEOREM DeletedForGood == Spec => []DeletedStaysDeleted
<1>1. Init => DeletedStaysDeleted
  BY DEF Init, DeletedStaysDeleted
<1>2. DeletedStaysDeleted /\ [Next]_vars => DeletedStaysDeleted'
  <2> SUFFICES ASSUME DeletedStaysDeleted, [Next]_vars PROVE DeletedStaysDeleted'
    OBVIOUS
  <2> USE DEF DeletedStaysDeleted
  <2>1. ASSUME NEW p \in Proc, EcdStep(p) PROVE DeletedStaysDeleted'
    <3>1. CASE Clean(p)
      BY <3>1 DEF Clean, RemoveEntry, RemoveDir, disk, hist
    <3>2. CASE MakeDir(p) \/ ParseBegins(p)
      BY <3>2 DEF MakeDir, ParseBegins
    <3>3. CASE ByPath(p) \/ ById(p) \/ Hit(p) \/ Miss(p)
      BY <3>3 DEF ByPath, ById, Hit, Miss, disk, hist
    <3>4. CASE ParseEnds(p) \/ WriteMeta(p) \/ WriteComplete(p)
      BY <3>4 DEF ParseEnds, WriteMeta, WriteComplete, hist
    <3> QED
      BY <2>1, <3>1, <3>2, <3>3, <3>4 DEF EcdStep
  <2>2. ASSUME NEW r \in Reader, StartView(r) \/ OpenAddr(r) \/ OpenText(r) \/ Stop(r)
        PROVE  DeletedStaysDeleted'
    BY <2>2 DEF StartView, OpenAddr, OpenText, Stop, disk, hist
  <2>3. ASSUME NEW c \in Labeller, LabelStep(c) PROVE DeletedStaysDeleted'
    BY <2>3 DEF LabelStep, CheckDump, ReadMeta, TruncateMeta, PutMeta, LabelFails,
                labUnchanged, hist
  <2>4. ASSUME NEW d \in Deleter, DeleteStep(d) PROVE DeletedStaysDeleted'
    BY <2>4 DEF DeleteStep, FindDump, OpenDir, DeleteEntry, DeleteDir, DeleteFails,
                RemoveEntry, RemoveDir, disk, hist
  <2>5. CASE Crash
    BY <2>5 DEF Crash, disk, hist
  <2>6. CASE UNCHANGED vars
    BY <2>6 DEF vars, disk, hist
  <2> QED
    BY <2>1, <2>2, <2>3, <2>4, <2>5, <2>6 DEF Next, Reader
<1> QED
  BY <1>1, <1>2, PTL DEF Spec

-----------------------------------------------------------------------------
(* Labels.                                                                 *)

\* What a step that touches no label, meta.json, marker or delete keeps.
LEMMA LabelFrame ==
  ASSUME LabelInv, UNCHANGED <<origin, meta, complete, lab, metaopen, del, hurt, acked>>,
         \A p \in Proc : pc'[p] \in Preparing \cup {"check"} =>
           pc[p] \in Preparing \cup {"check"} \/ origin = "ecd"
  PROVE  Deleting' /\ ServerOnly' /\ Alone' /\ Acked'
BY DEF LabelInv, Deleting, ServerOnly, Alone, Acked

\* An entry is removed by a delete, or by an ecd process that prepares its own dump.
LEMMA LabelRemoveEntry ==
  ASSUME LabelInv, RemoveEntry, UNCHANGED <<origin, pc, lab, del, hist>>,
         origin = "ecd" \/ hurt
  PROVE  Deleting' /\ ServerOnly' /\ Alone' /\ Acked'
<1>1. /\ UNCHANGED <<origin, pc, lab, del, hurt, acked>>
      /\ complete' => complete
      /\ (meta' = meta /\ metaopen' = metaopen) \/ (meta' = NoMeta /\ metaopen' = {})
  BY DEF RemoveEntry, hist
<1>2. Deleting' /\ Acked'
  BY <1>1 DEF LabelInv, Deleting, Acked
<1>3. ServerOnly'
  BY <1>1, MetaType DEF LabelInv, ServerOnly
<1>4. Alone'
  BY <1>1 DEF LabelInv, Alone
<1> QED
  BY <1>2, <1>3, <1>4

\* A directory without its marker is removed, and no delete walks over it any more.
LEMMA LabelRemoveDir ==
  ASSUME LabelInv, RemoveDir, UNCHANGED <<origin, lab, metaopen, acked>>,
         \A d \in Deleter : del'[d] # "removing",
         \A p \in Proc : pc'[p] \in Preparing \cup {"check"} =>
           pc[p] \in Preparing \cup {"check"}
  PROVE  Deleting' /\ ServerOnly' /\ Alone' /\ Acked'
<1>1. UNCHANGED <<meta, complete>> /\ ~complete
  BY DEF RemoveDir, Empty
<1> QED
  BY <1>1 DEF LabelInv, Deleting, ServerOnly, Alone, Acked

LEMMA LabelEcd ==
  ASSUME LabelInv, NEW p \in Proc, EcdStep(p)
  PROVE  Deleting' /\ ServerOnly' /\ Alone' /\ Acked'
<1>0. /\ p \in Reader /\ Proc \subseteq Reader /\ pc = [q \in Reader |-> pc[q]]
      /\ DumpDirAssump
  BY DumpDirAssump DEF Reader, LabelInv, TypeOK
<1>1. CASE ByPath(p) \/ ById(p) \/ Hit(p) \/ Miss(p)
  BY <1>0, <1>1, LabelFrame
     DEF ByPath, ById, Hit, Miss, Go, serverIdle, Preparing, disk, hist
<1>2. CASE Clean(p)
  <2>1. origin = "ecd"
    BY <1>0, <1>2 DEF Clean, Go, Preparing, LabelInv, ServerOnly, TypeOK
  <2>2. CASE dir /\ Go(p, "clean", "clean") /\ RemoveEntry /\ UNCHANGED <<origin, lab, del, hist>>
    <3>1. pc' = pc
      BY <1>0, <2>2 DEF Go
    <3> QED
      BY <2>1, <2>2, <3>1, LabelRemoveEntry DEF hist
  <2>3. CASE /\ Go(p, "clean", "mkdir") /\ RemoveDir /\ del' = Stray(None)
             /\ UNCHANGED <<origin, open, lab, metaopen, deleted, acked>>
    <3>1. \A d \in Deleter : del'[d] # "removing"
      BY <1>0, <2>3 DEF Stray, DumpDirAssump
    <3> QED
      BY <1>0, <2>3, <3>1, LabelRemoveDir DEF Go, Preparing
  <2>4. CASE ~dir /\ Go(p, "clean", "mkdir") /\ UNCHANGED <<origin, disk, open, hist>> /\ serverIdle
    BY <1>0, <2>4, LabelFrame DEF Go, serverIdle, Preparing, disk, hist
  <2> QED
    BY <1>2, <2>2, <2>3, <2>4 DEF Clean
<1>3. CASE MakeDir(p) \/ ParseBegins(p) \/ ParseEnds(p)
  BY <1>0, <1>3, LabelFrame
     DEF MakeDir, ParseBegins, ParseEnds, Go, serverIdle, Preparing, disk, hist
<1>4. CASE WriteMeta(p) \/ WriteComplete(p)
  <2>1. origin = "ecd"
    BY <1>0, <1>4 DEF WriteMeta, WriteComplete, Go, Preparing, LabelInv, ServerOnly, TypeOK
  <2>2. UNCHANGED <<origin, lab, del, hurt>>
    BY <1>4 DEF WriteMeta, WriteComplete, serverIdle, hist
  <2> QED
    BY <2>1, <2>2 DEF LabelInv, Deleting, ServerOnly, Alone, Acked
<1> QED
  BY <1>1, <1>2, <1>3, <1>4 DEF EcdStep

LEMMA LabelReader ==
  ASSUME LabelInv, NEW r \in Reader,
         StartView(r) \/ OpenAddr(r) \/ OpenText(r) \/ Stop(r)
  PROVE  Deleting' /\ ServerOnly' /\ Alone' /\ Acked'
<1>1. pc = [q \in Reader |-> pc[q]] /\ Proc \subseteq Reader
  BY DEF Reader, LabelInv, TypeOK
<1> QED
  BY <1>1, LabelFrame
     DEF StartView, OpenAddr, OpenText, Stop, Go, serverIdle, Preparing, disk, hist

LEMMA LabelLabel ==
  ASSUME LabelInv, NEW c \in Labeller, LabelStep(c)
  PROVE  Deleting' /\ ServerOnly' /\ Alone' /\ Acked'
<1>0. /\ lab \in [Labeller -> [pc : {"off", "checked", "read", "write"}, label : Label \cup {None},
                               by : {"none", "ecd", "server"}, solo : BOOLEAN]]
      /\ \A x \in Labeller \ {c} : lab[c].pc # "off" => ~lab[x].solo
  BY DEF LabelInv, Alone, TypeOK
<1>1. ASSUME NEW l \in Label, CheckDump(c, l) PROVE Deleting' /\ ServerOnly' /\ Alone' /\ Acked'
  <2>1. UNCHANGED <<origin, pc, del, meta, complete, metaopen, hurt, acked>>
    BY <1>1 DEF CheckDump, labUnchanged, hist
  <2>2. /\ lab'[c].pc = "checked"
        /\ lab'[c].solo => \A x \in Labeller \ {c} : lab[x].pc = "off"
        /\ \A x \in Labeller \ {c} :
             lab'[x].pc = lab[x].pc /\ lab'[x].by = lab[x].by /\ lab'[x].solo = FALSE
    BY <1>0, <1>1 DEF CheckDump
  <2>3. ServerOnly'
    BY <2>1, <2>2 DEF LabelInv, ServerOnly
  <2>4. Alone'
    BY <2>1, <2>2 DEF Alone
  <2> QED
    BY <2>1, <2>3, <2>4 DEF LabelInv, Deleting, Acked
<1>2. CASE ReadMeta(c)
  <2>1. UNCHANGED <<origin, pc, del, meta, complete, metaopen, hurt, acked>>
    BY <1>2 DEF ReadMeta, labUnchanged, hist
  <2>2. /\ lab'[c].pc = "read" /\ lab[c].pc = "checked" /\ lab'[c].solo = lab[c].solo
        /\ origin = "server" => lab'[c].by = "server"
        /\ \A x \in Labeller \ {c} : lab'[x] = lab[x]
    BY <1>0, <1>2 DEF ReadMeta, LabelInv, ServerOnly
  <2>3. ServerOnly'
    BY <2>1, <2>2 DEF LabelInv, ServerOnly
  <2>4. Alone'
    BY <1>0, <2>1, <2>2 DEF LabelInv, Alone
  <2> QED
    BY <2>1, <2>3, <2>4 DEF LabelInv, Deleting, Acked
<1>3. CASE TruncateMeta(c)
  <2>1. /\ UNCHANGED <<origin, pc, del, complete, hurt>>
        /\ meta'.st = "empty" /\ c \in metaopen' /\ acked' = None
    BY <1>3 DEF TruncateMeta, labUnchanged, NoMeta
  <2>2. /\ lab'[c].pc = "write" /\ lab[c].pc = "read" /\ lab'[c].solo = lab[c].solo
        /\ lab'[c].by = lab[c].by
        /\ \A x \in Labeller \ {c} : lab'[x] = lab[x]
    BY <1>0, <1>3 DEF TruncateMeta
  <2>3. ServerOnly'
    BY <2>1, <2>2 DEF LabelInv, ServerOnly
  <2>4. Alone'
    BY <1>0, <2>1, <2>2 DEF LabelInv, Alone
  <2> QED
    BY <2>1, <2>3, <2>4 DEF LabelInv, Deleting, Acked
<1>4. CASE PutMeta(c)
  <2>1. /\ UNCHANGED <<origin, pc, del, complete, hurt>>
        /\ meta' = IF c \in metaopen THEN Written(c) ELSE meta
        /\ acked' = IF lab[c].solo THEN lab[c].label ELSE None
    BY <1>4 DEF PutMeta, labUnchanged
  <2>2. /\ lab[c].pc = "write" /\ lab'[c] = Idle
        /\ \A x \in Labeller \ {c} : lab'[x] = lab[x]
    BY <1>0, <1>4 DEF PutMeta
  <2>3. Written(c).st = "json" => Written(c) = Json(lab[c].by, lab[c].label)
    BY DEF Written, NoMeta
  <2>4. ServerOnly'
    <3>1. origin = "server" /\ Written(c).st = "json" => Written(c).by = "server"
      BY <2>2, <2>3 DEF LabelInv, ServerOnly, Json
    <3> QED
      BY <2>1, <2>2, <3>1 DEF LabelInv, ServerOnly, Idle
  <2>5. Alone'
    BY <1>0, <2>2 DEF Alone, Idle
  <2>6. Acked'
    <3>1. CASE lab[c].solo /\ origin = "server" /\ c \in metaopen
      <4>1. meta.st = "empty" /\ lab[c].by = "server"
        BY <2>2, <3>1 DEF LabelInv, Alone, ServerOnly
      <4> QED
        BY <2>1, <3>1, <4>1 DEF Written, Acked
    <3>2. CASE lab[c].solo /\ origin = "server" /\ c \notin metaopen
      BY <2>1, <2>2, <3>2 DEF LabelInv, Alone, Acked
    <3> QED
      BY <2>1, <3>1, <3>2 DEF Acked
  <2> QED
    BY <2>1, <2>4, <2>5, <2>6 DEF LabelInv, Deleting
<1>5. CASE LabelFails(c)
  <2>1. UNCHANGED <<origin, pc, del, meta, complete, hurt, acked>>
    BY <1>5 DEF LabelFails, labUnchanged, hist
  <2>2. /\ lab[c].pc # "off" /\ lab'[c] = Idle
        /\ \A x \in Labeller \ {c} : lab'[x] = lab[x]
    BY <1>0, <1>5 DEF LabelFails
  <2>3. ServerOnly'
    BY <2>1, <2>2 DEF LabelInv, ServerOnly, Idle
  <2>4. Alone'
    BY <1>0, <2>2 DEF Alone, Idle
  <2> QED
    BY <2>1, <2>3, <2>4 DEF LabelInv, Deleting, Acked
<1> QED
  BY <1>1, <1>2, <1>3, <1>4, <1>5 DEF LabelStep

LEMMA LabelDelete ==
  ASSUME LabelInv, NEW d \in Deleter, DeleteStep(d)
  PROVE  Deleting' /\ ServerOnly' /\ Alone' /\ Acked'
<1>0. del = [x \in Deleter |-> del[x]]
  BY DEF LabelInv, TypeOK
<1>1. CASE FindDump(d) \/ OpenDir(d) \/ DeleteFails(d)
  <2>1. /\ UNCHANGED <<origin, pc, lab, meta, complete, metaopen, acked>>
        /\ hurt => hurt'
        /\ \A x \in Deleter : del'[x] = "removing" => del[x] = "removing" \/ hurt'
    BY <1>0, <1>1 DEF FindDump, OpenDir, DeleteFails, delUnchanged, disk, hist
  <2> QED
    BY <2>1 DEF LabelInv, Deleting, ServerOnly, Alone, Acked
<1>2. CASE DeleteEntry(d)
  <2>1. hurt
    BY <1>2 DEF DeleteEntry, LabelInv, Deleting
  <2> QED
    BY <1>2, <2>1, LabelRemoveEntry DEF DeleteEntry, delUnchanged
<1>3. CASE DeleteDir(d)
  <2>1. \A x \in Deleter : del'[x] # "removing"
    BY <1>0, <1>3 DEF DeleteDir, Stray
  <2> QED
    BY <1>3, <2>1, LabelRemoveDir DEF DeleteDir, delUnchanged
<1> QED
  BY <1>1, <1>2, <1>3 DEF DeleteStep

LEMMA LabelInit == Init => LabelInv
<1> SUFFICES ASSUME Init PROVE Deleting /\ ServerOnly /\ Alone /\ Acked
  BY TypeInit DEF LabelInv
<1> QED
  BY DEF Init, Deleting, ServerOnly, Alone, Acked, Preparing, Idle, NoMeta, Json, Reader

\* LabelInv is inductive.
LEMMA LabelStepInv == LabelInv /\ [Next]_vars => LabelInv'
<1> SUFFICES ASSUME LabelInv, [Next]_vars PROVE Deleting' /\ ServerOnly' /\ Alone' /\ Acked'
  BY TypeStep DEF LabelInv
<1>1. CASE Crash
  <2>1. /\ \A p \in Proc : pc'[p] \in {"exit", pc[p]}
        /\ \A c \in Labeller : lab'[c].pc = "off" /\ ~lab'[c].solo
        /\ \A d \in Deleter : del'[d] = "off"
        /\ UNCHANGED <<origin, meta, complete, hurt, acked>>
    BY <1>1 DEF Crash, Idle, Reader, disk, hist
  <2> QED
    BY <2>1 DEF LabelInv, Deleting, ServerOnly, Alone, Acked, Preparing
<1>2. CASE UNCHANGED vars
  BY <1>2, LabelFrame DEF vars, disk, tasks, hist
<1> QED
  BY <1>1, <1>2, LabelEcd, LabelReader, LabelLabel, LabelDelete DEF Next, Reader

\* In a dump of the server no ecd process writes, and an update alone in meta.json
\* finds there what it put there.
THEOREM LabelsKept == Spec => []LabelKept
<1>1. LabelInv => LabelKept
  BY DEF LabelInv, Acked, LabelKept, ShownLabel, Json
<1> QED
  BY <1>1, LabelInit, LabelStepInv, PTL DEF Spec

-----------------------------------------------------------------------------
(* The stores, where at most one ecd process works on the dump.            *)

\* What a step keeps that touches no store, handle, marker or place of a process, and
\* removes no meta.json.
LEMMA StoreFrame ==
  ASSUME StoreInv, UNCHANGED <<origin, dir, data, by, complete, pc, open>>,
         meta.st # "none" => meta'.st # "none",
         hurt => hurt'
  PROVE  data' # "torn" /\ Parsing' /\ Reading' /\ Parsed'
BY DEF StoreInv, Parsing, Reading, Parsed

\* What a step of a reader into a place that asks for nothing keeps.
LEMMA StoreGo ==
  ASSUME StoreInv, UNCHANGED <<origin, disk, open, hist>>,
         NEW r \in Reader, NEW from, NEW to, Go(r, from, to),
         to \notin {"parse", "parsing", "meta", "complete", "open_text", "read"},
         to \in Preparing => ~complete,
         to = "mkdir" => ~dir
  PROVE  data' # "torn" /\ Parsing' /\ Reading' /\ Parsed'
<1>1. \A q \in Reader : pc'[q] = IF q = r THEN to ELSE pc[q]
  BY DEF Go, StoreInv, LabelInv, TypeOK
<1>2. UNCHANGED <<origin, dir, data, by, meta, complete, open, hurt>>
  BY DEF disk, hist
<1>3. Parsing'
  BY <1>1, <1>2 DEF StoreInv, Parsing, Preparing, Reader
<1>4. Reading'
  BY <1>1, <1>2 DEF StoreInv, Reading
<1> QED
  BY <1>2, <1>3, <1>4 DEF StoreInv, Parsed

\* Removing an entry harms a directory that is being deleted, or one whose owner is
\* about to parse.
LEMMA StoreRemoveEntry ==
  ASSUME StoreInv, RemoveEntry, UNCHANGED <<origin, pc, hist>>,
         \/ hurt
         \/ ~complete /\ \A p \in Proc : pc[p] \notin {"meta", "complete"}
  PROVE  data' # "torn" /\ Parsing' /\ Reading' /\ Parsed'
<1>0. dir /\ Handles /\ TypeOK /\ UNCHANGED <<pc, hurt, dir>>
  BY RemoveEntryType DEF StoreInv, LabelInv, RemoveEntry, hist
<1>1. CASE /\ data # "none" /\ data' = "none" /\ by' = None
           /\ open' = [r \in Reader |-> [addr |-> Frozen(open[r].addr),
                                         text |-> Frozen(open[r].text)]]
           /\ UNCHANGED <<dir, meta, complete, metaopen>>
  <2>1. \A r \in Reader : Frozen(open[r].addr) # "torn" /\ Frozen(open[r].text) # "torn"
    BY DEF StoreInv, Reading, Frozen
  <2>2. \A r \in Reader : /\ open[r].addr # "closed" => Frozen(open[r].addr) # "closed"
                          /\ open[r].text # "closed" => Frozen(open[r].text) # "closed"
    BY <1>0 DEF TypeOK, Frozen
  <2>3. Reading'
    BY <1>0, <1>1, <2>1, <2>2 DEF StoreInv, Reading
  <2>4. Parsing'
    BY <1>0, <1>1 DEF StoreInv, Parsing
  <2> QED
    BY <1>0, <1>1, <2>3, <2>4 DEF Parsed
<1>2. CASE /\ data' = data /\ by' = by /\ open' = open
           /\ complete' => complete
  BY <1>0, <1>2 DEF StoreInv, Parsing, Reading, Parsed
<1> QED
  BY <1>1, <1>2 DEF RemoveEntry

\* Removing the directory itself.
LEMMA StoreRemoveDir ==
  ASSUME StoreInv, RemoveDir, open' = open,
         \/ pc' = pc
         \/ \E r \in Reader : Go(r, "clean", "mkdir")
  PROVE  data' # "torn" /\ Parsing' /\ Reading' /\ Parsed'
<1>1. /\ ~complete /\ ~dir' /\ data = "none"
      /\ UNCHANGED <<data, by, complete, open>>
  BY DEF RemoveDir, Empty
<1>2. \A q \in Reader : pc'[q] = pc[q] \/ pc'[q] = "mkdir"
  BY DEF Go, StoreInv, LabelInv, TypeOK
<1>3. Parsing'
  BY <1>1, <1>2 DEF StoreInv, Parsing, Preparing, Reader
<1> QED
  BY <1>1, <1>2, <1>3 DEF StoreInv, Reading, Parsed

\* The parse of the only process.
LEMMA StoreParse ==
  ASSUME OneEcd, StoreInv, NEW p \in Proc,
         \/ MakeDir(p) \/ ParseBegins(p) \/ ParseEnds(p)
         \/ WriteMeta(p) \/ WriteComplete(p)
  PROVE  data' # "torn" /\ Parsing' /\ Reading' /\ Parsed'
<1>0. /\ p \in Reader /\ TypeOK /\ \A q \in Proc : q = p
  BY DEF Reader, OneEcd, StoreInv, LabelInv
<1>1. /\ UNCHANGED <<origin, open, hurt>>
      /\ \A r \in Reader : pc'[r] \in {"open_text", "read"} => pc[r] = pc'[r]
  BY <1>0 DEF MakeDir, ParseBegins, ParseEnds, WriteMeta, WriteComplete, Go, hist, TypeOK
<1>2. Reading'
  BY <1>1 DEF StoreInv, Reading
<1>3. CASE MakeDir(p)
  <2>1. /\ pc[p] = "mkdir" /\ pc'[p] = "parse" /\ data' = data /\ complete' = complete
    BY <1>0, <1>3 DEF MakeDir, Go, TypeOK
  <2>2. data = "none" /\ ~complete
    BY <1>0, <2>1 DEF StoreInv, Parsing, TypeOK, Empty
  <2> QED
    BY <1>0, <1>2, <2>1, <2>2 DEF Parsing, Parsed
<1>4. CASE ParseBegins(p)
  <2>1. /\ pc[p] = "parse" /\ pc'[p] = "parsing" /\ by' = p /\ complete' = complete
        /\ data' = IF data \in {"none", "partial"} THEN "partial" ELSE "torn"
    BY <1>0, <1>4 DEF ParseBegins, Go, TypeOK
  <2>2. data = "none" /\ ~complete
    BY <2>1 DEF StoreInv, Parsing, Preparing
  <2> QED
    BY <1>0, <1>2, <2>1, <2>2 DEF Parsing, Parsed
<1>5. CASE ParseEnds(p)
  <2>1. /\ pc[p] = "parsing" /\ pc'[p] = "meta" /\ complete' = complete /\ data # "none"
        /\ data' = IF by = p THEN "whole" ELSE IF data = "partial" THEN "torn" ELSE data
    BY <1>0, <1>5 DEF ParseEnds, Go, TypeOK
  <2>2. data = "partial" /\ by = p /\ ~complete
    BY <2>1 DEF StoreInv, Parsing, Preparing
  <2> QED
    BY <1>0, <1>2, <2>1, <2>2 DEF Parsing, Parsed
<1>6. CASE WriteMeta(p)
  <2>1. /\ pc[p] = "meta" /\ pc'[p] = "complete" /\ complete' = complete
        /\ UNCHANGED <<dir, data>> /\ meta'.st = "json"
    BY <1>0, <1>6 DEF WriteMeta, Go, Json, TypeOK
  <2>2. ~complete
    BY <2>1 DEF StoreInv, Parsing, Preparing
  <2> QED
    BY <1>0, <1>1, <1>2, <2>1, <2>2 DEF StoreInv, Parsing, Parsed
<1>7. CASE WriteComplete(p)
  <2>1. /\ pc[p] = "complete" /\ pc'[p] = "open" /\ dir
        /\ UNCHANGED <<data, meta>>
    BY <1>0, <1>7 DEF WriteComplete, Go, TypeOK
  <2> QED
    BY <1>0, <1>1, <1>2, <2>1 DEF StoreInv, Parsing, Preparing, Parsed
<1> QED
  BY <1>3, <1>4, <1>5, <1>6, <1>7

LEMMA StoreEcd ==
  ASSUME OneEcd, StoreInv, NEW p \in Proc, EcdStep(p)
  PROVE  data' # "torn" /\ Parsing' /\ Reading' /\ Parsed'
<1>0. p \in Reader /\ TypeOK
  BY DEF Reader, StoreInv, LabelInv
<1>1. CASE ByPath(p) \/ ById(p) \/ Hit(p) \/ Miss(p)
  BY <1>0, <1>1, StoreGo DEF ByPath, ById, Hit, Miss, Preparing
<1>2. CASE Clean(p)
  <2>1. ~complete
    BY <1>2 DEF Clean, Go, StoreInv, Parsing, Preparing
  <2>2. CASE dir /\ Go(p, "clean", "clean") /\ RemoveEntry /\ UNCHANGED <<origin, lab, del, hist>>
    <3>1. pc' = pc /\ pc[p] = "clean"
      BY <1>0, <2>2 DEF Go, TypeOK
    <3>2. \A q \in Proc : pc[q] = "clean"
      BY <3>1 DEF OneEcd
    <3> QED
      BY <2>1, <2>2, <3>1, <3>2, StoreRemoveEntry
  <2>3. CASE /\ Go(p, "clean", "mkdir") /\ RemoveDir /\ del' = Stray(None)
             /\ UNCHANGED <<origin, open, lab, metaopen, deleted, acked>>
    BY <1>0, <2>3, StoreRemoveDir
  <2>4. CASE ~dir /\ Go(p, "clean", "mkdir") /\ UNCHANGED <<origin, disk, open, hist>> /\ serverIdle
    BY <1>0, <2>1, <2>4, StoreGo
  <2> QED
    BY <1>2, <2>2, <2>3, <2>4 DEF Clean
<1> QED
  BY <1>1, <1>2, StoreParse DEF EcdStep

LEMMA StoreReader ==
  ASSUME StoreInv, NEW r \in Reader,
         StartView(r) \/ OpenAddr(r) \/ OpenText(r) \/ Stop(r)
  PROVE  data' # "torn" /\ Parsing' /\ Reading' /\ Parsed'
<1>0. TypeOK
  BY DEF StoreInv, LabelInv
<1>1. CASE StartView(r)
  BY <1>1, StoreGo DEF StartView, Preparing
<1>2. CASE OpenAddr(r) \/ OpenText(r)
  <2>1. /\ UNCHANGED <<origin, dir, data, by, meta, complete, hurt>>
        /\ pc'[r] \in {"open_text", "read"}
        /\ \A q \in Reader \ {r} : pc'[q] = pc[q] /\ open'[q] = open[q]
    BY <1>0, <1>2 DEF OpenAddr, OpenText, Go, TypeOK, disk, hist
  <2>2. \/ pc'[r] = "open_text" /\ open'[r].addr = "current" /\ open'[r].text = open[r].text
        \/ /\ pc'[r] = "read" /\ open'[r].addr = open[r].addr /\ open'[r].text = "current"
           /\ pc[r] = "open_text"
    BY <1>0, <1>2 DEF OpenAddr, OpenText, Go, TypeOK
  <2>3. Reading'
    BY <2>1, <2>2 DEF StoreInv, Reading
  <2>4. Parsing'
    BY <2>1 DEF StoreInv, Parsing, Preparing, Reader
  <2> QED
    BY <2>1, <2>3, <2>4 DEF StoreInv, Parsed
<1>3. CASE Stop(r)
  <2>1. /\ UNCHANGED <<origin, dir, data, by, meta, complete, hurt>>
        /\ pc'[r] = "exit" /\ open'[r] = Closed
        /\ \A q \in Reader \ {r} : pc'[q] = pc[q] /\ open'[q] = open[q]
    BY <1>0, <1>3 DEF Stop, Go, TypeOK, disk, hist
  <2>2. Reading'
    BY <2>1 DEF StoreInv, Reading, Closed
  <2>3. Parsing'
    BY <2>1 DEF StoreInv, Parsing, Preparing, Reader
  <2> QED
    BY <2>1, <2>2, <2>3 DEF StoreInv, Parsed
<1> QED
  BY <1>1, <1>2, <1>3

LEMMA StoreLabel ==
  ASSUME StoreInv, NEW c \in Labeller, LabelStep(c)
  PROVE  data' # "torn" /\ Parsing' /\ Reading' /\ Parsed'
<1>1. CASE PutMeta(c)
  BY <1>1, StoreFrame DEF PutMeta, Written, Json, NoMeta, labUnchanged
<1>2. CASE TruncateMeta(c)
  BY <1>2, StoreFrame DEF TruncateMeta, NoMeta, labUnchanged
<1>3. CASE ReadMeta(c) \/ LabelFails(c) \/ \E l \in Label : CheckDump(c, l)
  BY <1>3, StoreFrame DEF ReadMeta, LabelFails, CheckDump, labUnchanged, hist
<1> QED
  BY <1>1, <1>2, <1>3 DEF LabelStep

LEMMA StoreDelete ==
  ASSUME StoreInv, NEW d \in Deleter, DeleteStep(d)
  PROVE  data' # "torn" /\ Parsing' /\ Reading' /\ Parsed'
<1>1. CASE FindDump(d) \/ OpenDir(d) \/ DeleteFails(d)
  BY <1>1, StoreFrame DEF FindDump, OpenDir, DeleteFails, delUnchanged, disk, hist
<1>2. CASE DeleteEntry(d)
  BY <1>2, StoreRemoveEntry DEF DeleteEntry, delUnchanged, StoreInv, LabelInv, Deleting
<1>3. CASE DeleteDir(d)
  BY <1>3, StoreRemoveDir DEF DeleteDir, delUnchanged
<1> QED
  BY <1>1, <1>2, <1>3 DEF DeleteStep

\* StoreInv is inductive.
LEMMA StoreInvariant == OneEcd => (Spec => []StoreInv)
<1> SUFFICES ASSUME OneEcd PROVE Spec => []StoreInv
  OBVIOUS
<1>1. Init => StoreInv
  <2> SUFFICES ASSUME Init PROVE data # "torn" /\ Parsing /\ Reading /\ Parsed
    BY LabelInit DEF StoreInv
  <2>1. /\ \A r \in Reader : pc[r] = "exit" /\ open[r] = Closed
        /\ data # "torn" /\ (complete => data = "whole" /\ origin = "server")
    BY DEF Init
  <2> QED
    BY <2>1 DEF Parsing, Reading, Parsed, Preparing, Reader, Closed
<1>2. StoreInv /\ [Next]_vars => StoreInv'
  <2> SUFFICES ASSUME StoreInv, [Next]_vars
               PROVE  data' # "torn" /\ Parsing' /\ Reading' /\ Parsed'
    BY LabelStepInv DEF StoreInv
  <2>1. CASE Crash
    <3>1. /\ \A r \in Reader : \/ pc'[r] = "exit" /\ open'[r] = Closed
                               \/ pc'[r] = pc[r] /\ open'[r] = open[r]
          /\ UNCHANGED <<origin, dir, data, by, meta, complete, hurt>>
      BY <2>1 DEF Crash, disk, hist
    <3>2. Reading'
      BY <3>1 DEF StoreInv, Reading, Closed
    <3>3. Parsing'
      BY <3>1 DEF StoreInv, Parsing, Preparing, Reader
    <3> QED
      BY <3>1, <3>2, <3>3 DEF StoreInv, Parsed
  <2>2. CASE UNCHANGED vars
    BY <2>2, StoreFrame DEF vars, disk, tasks, hist
  <2> QED
    BY <2>1, <2>2, StoreEcd, StoreReader, StoreLabel, StoreDelete DEF Next, Reader
<1> QED
  BY <1>1, <1>2, PTL DEF Spec

\* Beside one ecd process, whatever the server's tasks do and wherever any of them
\* stops, a marker says that the dump was parsed.
THEOREM HitsParsed == OneEcd => (Spec => []HitMeansParsed)
<1>1. StoreInv => HitMeansParsed
  BY DEF StoreInv, LabelInv, Parsed, HitMeansParsed
<1> QED
  BY <1>1, StoreInvariant, PTL

\* And who has opened both stores has them whole, even when they have been removed.
THEOREM ReadersReadWhole == OneEcd => (Spec => []ReadsWhole)
<1>1. StoreInv => ReadsWhole
  <2> SUFFICES ASSUME StoreInv, NEW r \in Reader, pc[r] = "read"
               PROVE  Frozen(open[r].addr) = "whole" /\ Frozen(open[r].text) = "whole"
    BY DEF ReadsWhole
  <2>1. open[r].addr \in {"current", "whole"} /\ open[r].text \in {"current", "whole"}
    <3>1. open[r] \in [addr : {"closed", "current", "whole", "torn"},
                       text : {"closed", "current", "whole", "torn"}]
      BY DEF StoreInv, LabelInv, TypeOK
    <3> QED
      BY <3>1 DEF StoreInv, Reading
  <2>2. open[r].addr = "current" \/ open[r].text = "current" => data = "whole"
    BY DEF StoreInv, LabelInv, Handles, Openable
  <2> QED
    BY <2>1, <2>2 DEF Frozen
<1> QED
  BY <1>1, StoreInvariant, PTL

=============================================================================
