------------------------------- MODULE DumpDir -------------------------------
(***************************************************************************)
(* The directory of one dump, which ecd (src/src/bin/ecd.rs) and           *)
(* ecd-server (src/src/bin/ecd-server.rs) share: both keep their dumps in  *)
(* $XDG_CACHE_HOME/ecd.                                                    *)
(*                                                                         *)
(* A dump that ecd parsed is named by its fingerprint: ensure_parsed takes *)
(* .complete for a hit, else it removes what is there, parses, and writes  *)
(* .complete last.  A dump that the server parsed is named by a UUID, and  *)
(* ecd reads it by its ID only.  The server reads, labels and deletes      *)
(* either.  No lock keeps any of them apart; a process may be killed, a    *)
(* step may fail and the server may crash at any point.                    *)
(*                                                                         *)
(* The stores `addr' and `text' are one piece of data, created or          *)
(* truncated when a parse begins and openable when their meta.bin are      *)
(* there, at its end.  Two parsers that write to the same files write the  *)
(* same bytes; one whose files were removed writes to nothing.  An open    *)
(* file outlives its name.  The upload itself is in UploadJob.             *)
(***************************************************************************)
EXTENDS Integers

CONSTANTS Proc,       \* ecd processes, each running ecd again and again
          View,       \* tasks of the server that answer from the stores
          Labeller,   \* tasks of the server in label_update
          Deleter,    \* tasks of the server in delete_dump
          Label,      \* labels; a label is its length
          None        \* no process, no label

ASSUME DumpDirAssump == None \notin Proc \cup Deleter \cup Label /\ Label \subseteq Nat

VARIABLES
  origin,     \* who parses this dump: "ecd" or "server"
  dir,        \* the directory exists
  data, by,   \* the stores, and the ecd process that created or truncated them last
  meta,       \* meta.json
  complete,   \* .complete
  pc, open,   \* of each reader: its step, its handles on the two stores
  lab, metaopen, \* label updates, and those that have this meta.json open
  del,        \* deletes
  hurt, deleted, acked \* history: a delete began on this directory; the last was
                       \* answered OK; the last label acknowledged and not overlapped

disk  == <<dir, data, by, meta, complete>>
hist  == <<hurt, deleted, acked>>
tasks == <<pc, open, lab, metaopen, del>>
vars  == <<origin, disk, tasks, hist>>

Reader == Proc \cup View

NoMeta == [st |-> "none", by |-> "none", label |-> None]
Json(writer, label) == [st |-> "json", by |-> writer, label |-> label]
Closed == [addr |-> "closed", text |-> "closed"]
Idle == [pc |-> "off", label |-> None, by |-> "none", solo |-> FALSE]

\* Nothing yet, or the dump of a finished upload, whose meta.json may be missing.
Init ==
  /\ origin \in {"ecd", "server"} /\ dir = (origin = "server")
  /\ data = (IF dir THEN "whole" ELSE "none") /\ by = None
  /\ meta \in (IF dir THEN {NoMeta, Json("server", None)} ELSE {NoMeta})
  /\ complete = dir
  /\ pc = [r \in Reader |-> "exit"] /\ open = [r \in Reader |-> Closed]
  /\ lab = [c \in Labeller |-> Idle] /\ metaopen = {}
  /\ del = [d \in Deleter |-> "off"]
  /\ hurt = FALSE /\ deleted = FALSE /\ acked = None

-----------------------------------------------------------------------------
(* Removing a directory: its entries one by one in any order, then itself. *)

Empty == data = "none" /\ meta.st = "none" /\ ~complete

\* Handles on removed files keep them as they are.
Frozen(h) == IF h = "current" THEN data ELSE h

RemoveEntry ==
  \/ /\ data # "none" /\ data' = "none" /\ by' = None
     /\ open' = [r \in Reader |-> [addr |-> Frozen(open[r].addr), text |-> Frozen(open[r].text)]]
     /\ UNCHANGED <<dir, meta, complete, metaopen>>
  \/ /\ meta.st # "none" /\ meta' = NoMeta /\ metaopen' = {}
     /\ UNCHANGED <<dir, data, by, complete, open>>
  \/ /\ complete /\ complete' = FALSE
     /\ UNCHANGED <<dir, data, by, meta, open, metaopen>>

\* A delete that still walks over the old directory finds nothing in a new one.
RemoveDir ==
  /\ dir /\ Empty /\ dir' = FALSE /\ hurt' = FALSE
  /\ UNCHANGED <<data, by, meta, complete>>

Stray(d) == [x \in Deleter |-> IF x # d /\ del[x] = "removing" THEN "stray" ELSE del[x]]

-----------------------------------------------------------------------------
(* ecd: resolve_dump_or_id, ensure_parsed.                                 *)

Go(r, from, to) == pc[r] = from /\ pc' = [pc EXCEPT ![r] = to]
serverIdle == UNCHANGED <<lab, metaopen, del>>

ByPath(p) ==
  /\ origin = "ecd" /\ Go(p, "exit", "check")
  /\ UNCHANGED <<origin, disk, open, hist>> /\ serverIdle

\* An ID or a prefix of it finds directories with .complete only.
ById(p) ==
  /\ complete /\ Go(p, "exit", "open")
  /\ UNCHANGED <<origin, disk, open, hist>> /\ serverIdle

\* complete.exists()
Hit(p) ==
  /\ complete /\ Go(p, "check", "open")
  /\ UNCHANGED <<origin, disk, open, hist>> /\ serverIdle

\* Mutant: the parse goes over what is there.
MutMiss(p) ==
  /\ ~complete /\ Go(p, "check", "mkdir")
  /\ UNCHANGED <<origin, disk, open, hist>> /\ serverIdle

Miss(p) ==
  /\ ~complete /\ Go(p, "check", "clean")
  /\ UNCHANGED <<origin, disk, open, hist>> /\ serverIdle

Clean(p) ==
  \/ /\ dir /\ Go(p, "clean", "clean") /\ RemoveEntry
     /\ UNCHANGED <<origin, lab, del, hist>>
  \/ /\ Go(p, "clean", "mkdir") /\ RemoveDir /\ del' = Stray(None)
     /\ UNCHANGED <<origin, open, lab, metaopen, deleted, acked>>
  \/ /\ ~dir /\ Go(p, "clean", "mkdir")
     /\ UNCHANGED <<origin, disk, open, hist>> /\ serverIdle

MakeDir(p) ==
  /\ Go(p, "mkdir", "parse") /\ dir' = TRUE /\ deleted' = FALSE
  /\ UNCHANGED <<origin, data, by, meta, complete, open, hurt, acked>> /\ serverIdle

\* The parser makes its directories and creates its files, or truncates them,
\* leaving the meta.bin of an earlier parse.
ParseBegins(p) ==
  /\ Go(p, "parse", "parsing")
  /\ dir' = TRUE /\ deleted' = FALSE /\ by' = p
  /\ data' = IF data \in {"none", "partial"} THEN "partial" ELSE "torn"
  /\ UNCHANGED <<origin, meta, complete, open, hurt, acked>> /\ serverIdle

\* The files created by path at the end need the directory of the others.
ParseEnds(p) ==
  /\ data # "none" /\ Go(p, "parsing", "meta")
  /\ data' = IF by = p THEN "whole" ELSE IF data = "partial" THEN "torn" ELSE data
  /\ UNCHANGED <<origin, dir, by, meta, complete, open, hist>> /\ serverIdle

\* Mutant: the marker comes with the meta data not there.
MutWriteMeta(p) ==
  /\ dir /\ Go(p, "meta", "complete")
  /\ UNCHANGED <<origin, disk, open, hist>> /\ serverIdle

\* write_cache_meta: what the server's MetaFile calls uploaded_at is not in it.
WriteMeta(p) ==
  /\ dir /\ Go(p, "meta", "complete") /\ meta' = Json("ecd", None)
  /\ UNCHANGED <<origin, dir, data, by, complete, open, hist>> /\ serverIdle

WriteComplete(p) ==
  /\ dir /\ Go(p, "complete", "open") /\ complete' = TRUE
  /\ UNCHANGED <<origin, dir, data, by, meta, open, hist>> /\ serverIdle

-----------------------------------------------------------------------------
(* Reading: DumpReader::open by ecd, and by the server for each view.      *)

\* dump_dir, ensure_complete: a directory without .complete is not found.
StartView(v) ==
  /\ complete /\ Go(v, "exit", "open")
  /\ UNCHANGED <<origin, disk, open, hist>> /\ serverIdle

\* Reader::open and TextReader::open read a meta.bin, which a parse writes last.
Openable == data \in {"whole", "torn"}

OpenAddr(r) ==
  /\ Openable /\ Go(r, "open", "open_text") /\ open' = [open EXCEPT ![r].addr = "current"]
  /\ UNCHANGED <<origin, disk, hist>> /\ serverIdle

OpenText(r) ==
  /\ Openable /\ Go(r, "open_text", "read") /\ open' = [open EXCEPT ![r].text = "current"]
  /\ UNCHANGED <<origin, disk, hist>> /\ serverIdle

\* The answer is given, a step fails, or the process is killed.
Stop(r) ==
  /\ pc[r] # "exit" /\ Go(r, pc[r], "exit") /\ open' = [open EXCEPT ![r] = Closed]
  /\ UNCHANGED <<origin, disk, hist>> /\ serverIdle

-----------------------------------------------------------------------------
(* The server: label_update.                                               *)

labUnchanged == UNCHANGED <<origin, dir, data, by, complete, pc, open, del>>

\* dump_dir and the second look for .complete.
CheckDump(c, l) ==
  LET alone == \A x \in Labeller \ {c} : lab[x].pc = "off"
  IN  /\ lab[c].pc = "off" /\ complete
      /\ lab' = [x \in Labeller |->
                   IF x = c THEN [pc |-> "checked", label |-> l, by |-> "none", solo |-> alone]
                   ELSE [lab[x] EXCEPT !.solo = FALSE]]
      /\ labUnchanged /\ UNCHANGED <<meta, metaopen, hist>>

\* Mutant: the meta data made up for a missing file have no uploaded_at.
MutReadMeta(c) ==
  /\ lab[c].pc = "checked" /\ meta.st \in {"none", "json"}
  /\ lab' = [lab EXCEPT ![c].pc = "read", ![c].by = IF meta.st = "none" THEN "ecd" ELSE meta.by]
  /\ labUnchanged /\ UNCHANGED <<meta, metaopen, hist>>

\* A missing meta.json is made up; one that is no JSON is an error.
ReadMeta(c) ==
  /\ lab[c].pc = "checked" /\ meta.st \in {"none", "json"}
  /\ lab' = [lab EXCEPT ![c].pc = "read", ![c].by = IF meta.st = "none" THEN "server" ELSE meta.by]
  /\ labUnchanged /\ UNCHANGED <<meta, metaopen, hist>>

\* Mutant: the directory is created if need be, as write_meta_file does.
MutTruncateMeta(c) ==
  /\ lab[c].pc = "read"
  /\ lab' = [lab EXCEPT ![c].pc = "write"] /\ dir' = TRUE
  /\ meta' = [NoMeta EXCEPT !.st = "empty"] /\ metaopen' = metaopen \cup {c}
  /\ acked' = None
  /\ UNCHANGED <<origin, data, by, complete, pc, open, del, hurt, deleted>>

\* fs::write creates or truncates the file, if its directory is there ...
TruncateMeta(c) ==
  /\ lab[c].pc = "read" /\ dir
  /\ lab' = [lab EXCEPT ![c].pc = "write"]
  /\ meta' = [NoMeta EXCEPT !.st = "empty"] /\ metaopen' = metaopen \cup {c}
  /\ acked' = None
  /\ labUnchanged /\ UNCHANGED <<hurt, deleted>>

\* ... and writes: over another's longer text, the end of that one stays.
Written(c) ==
  IF meta.st = "garbled" \/ (meta.st = "json" /\ meta.label # None /\ meta.label > lab[c].label)
    THEN [NoMeta EXCEPT !.st = "garbled"]
    ELSE Json(lab[c].by, lab[c].label)

PutMeta(c) ==
  /\ lab[c].pc = "write" /\ lab' = [lab EXCEPT ![c] = Idle]
  /\ meta' = (IF c \in metaopen THEN Written(c) ELSE meta) /\ metaopen' = metaopen \ {c}
  /\ acked' = IF lab[c].solo THEN lab[c].label ELSE None
  /\ labUnchanged /\ UNCHANGED <<hurt, deleted>>

\* A step fails, and is answered 500.
LabelFails(c) ==
  /\ lab[c].pc # "off" /\ lab' = [lab EXCEPT ![c] = Idle] /\ metaopen' = metaopen \ {c}
  /\ labUnchanged /\ UNCHANGED <<meta, hist>>

\* read_meta_from_dir: the label of a listing or a page, None for the file's name or
\* the fingerprint.  A meta.json without uploaded_at does not parse.
ShownLabel == IF meta.st = "json" /\ meta.by = "server" THEN meta.label ELSE None

-----------------------------------------------------------------------------
(* The server: delete_dump, and its crash.                                 *)

delUnchanged == UNCHANGED <<origin, pc, lab>>

\* dump_dir, dir.exists()
FindDump(d) ==
  /\ del[d] = "off" /\ complete /\ del' = [del EXCEPT ![d] = "found"]
  /\ delUnchanged /\ UNCHANGED <<disk, open, metaopen, hist>>

\* remove_dir_all opens the directory ...
OpenDir(d) ==
  /\ del[d] = "found" /\ dir /\ del' = [del EXCEPT ![d] = "removing"] /\ hurt' = TRUE
  /\ delUnchanged /\ UNCHANGED <<disk, open, metaopen, deleted, acked>>

DeleteEntry(d) ==
  /\ del[d] = "removing" /\ RemoveEntry
  /\ delUnchanged /\ UNCHANGED <<del, hist>>

\* ... and removes it by its name.
DeleteDir(d) ==
  /\ del[d] \in {"removing", "stray"} /\ RemoveDir
  /\ deleted' = TRUE /\ del' = [Stray(d) EXCEPT ![d] = "off"]
  /\ delUnchanged /\ UNCHANGED <<open, metaopen, acked>>

DeleteFails(d) ==
  /\ del[d] # "off" /\ del' = [del EXCEPT ![d] = "off"]
  /\ delUnchanged /\ UNCHANGED <<disk, open, metaopen, hist>>

\* Its tasks are gone; the directory stays.
Crash ==
  /\ pc' = [r \in Reader |-> IF r \in View THEN "exit" ELSE pc[r]]
  /\ open' = [r \in Reader |-> IF r \in View THEN Closed ELSE open[r]]
  /\ lab' = [c \in Labeller |-> Idle] /\ metaopen' = {}
  /\ del' = [d \in Deleter |-> "off"]
  /\ UNCHANGED <<origin, disk, hist>>

-----------------------------------------------------------------------------
EcdStep(p) ==
  \/ ByPath(p) \/ ById(p) \/ Hit(p) \/ Miss(p) \/ Clean(p) \/ MakeDir(p)
  \/ ParseBegins(p) \/ ParseEnds(p) \/ WriteMeta(p) \/ WriteComplete(p)

LabelStep(c) ==
  \/ \E l \in Label : CheckDump(c, l)
  \/ ReadMeta(c) \/ TruncateMeta(c) \/ PutMeta(c) \/ LabelFails(c)

DeleteStep(d) ==
  FindDump(d) \/ OpenDir(d) \/ DeleteEntry(d) \/ DeleteDir(d) \/ DeleteFails(d)

Next ==
  \/ \E p \in Proc : EcdStep(p)
  \/ \E v \in View : StartView(v)
  \/ \E r \in Reader : OpenAddr(r) \/ OpenText(r) \/ Stop(r)
  \/ \E c \in Labeller : LabelStep(c)
  \/ \E d \in Deleter : DeleteStep(d)
  \/ Crash

Spec == Init /\ [][Next]_vars

-----------------------------------------------------------------------------
TypeOK ==
  /\ origin \in {"ecd", "server"} /\ dir \in BOOLEAN /\ complete \in BOOLEAN
  /\ data \in {"none", "partial", "whole", "torn"} /\ by \in Proc \cup {None}
  /\ meta \in [st : {"none", "empty", "garbled", "json"}, by : {"none", "ecd", "server"},
               label : Label \cup {None}]
  /\ pc \in [Reader -> {"exit", "check", "clean", "mkdir", "parse", "parsing", "meta",
                        "complete", "open", "open_text", "read"}]
  /\ open \in [Reader -> [addr : {"closed", "current", "whole", "torn"},
                         text : {"closed", "current", "whole", "torn"}]]
  /\ lab \in [Labeller -> [pc : {"off", "checked", "read", "write"}, label : Label \cup {None},
                           by : {"none", "ecd", "server"}, solo : BOOLEAN]]
  /\ metaopen \subseteq Labeller
  /\ del \in [Deleter -> {"off", "found", "removing", "stray"}]
  /\ hurt \in BOOLEAN /\ deleted \in BOOLEAN /\ acked \in Label \cup {None}
  /\ ~dir => Empty

\* src/src/bin/ecd.rs:156-158: "Because the directory name is derived from the
\* content fingerprint, a hit means the content is already parsed."  An invocation
\* killed at any step leaves nothing that a later one takes for a hit, and a server
\* crash nothing it serves, unless a delete has begun on the directory.
HitMeansParsed ==
  /\ TypeOK
  /\ complete /\ ~hurt => data = "whole" /\ (origin = "ecd" => meta.st # "none")

\* Whoever has opened both stores reads whole files to the end, whatever is deleted,
\* parsed anew, killed or crashes meanwhile.
ReadsWhole ==
  \A r \in Reader : pc[r] = "read" =>
    Frozen(open[r].addr) = "whole" /\ Frozen(open[r].text) = "whole"

\* A label of an uploaded dump that was acknowledged is shown until the next update,
\* or a delete, over any crash and failure, unless updates overlap.
LabelKept ==
  origin = "server" /\ acked # None /\ complete /\ ~hurt => ShownLabel = acked

\* After a delete that was answered OK nothing brings the directory back but a new
\* parse by ecd: no label update or view that began before it does.
DeletedStaysDeleted == deleted => ~dir

=============================================================================
