----------------------------- MODULE DumpDirInv -----------------------------
(***************************************************************************)
(* What the theorems of DumpDirProofs rest on: two inductive invariants of *)
(* DumpDir, LabelInv for any number of tasks and processes, and StoreInv   *)
(* for any number of the server's tasks beside at most one ecd process.    *)
(***************************************************************************)
EXTENDS DumpDir

\* Only a store that opens can be open, and only a meta.json that is there.
Handles ==
  /\ \A r \in Reader : open[r].addr = "current" \/ open[r].text = "current" => Openable
  /\ metaopen # {} => meta.st # "none"

\* A delete whose directory is still the one it opened.
Deleting == \A d \in Deleter : del[d] = "removing" => hurt

\* Steps of an ecd process that parses.
Preparing == {"clean", "mkdir", "parse", "parsing", "meta", "complete"}

\* No ecd process prepares a dump that the server parsed.
ServerOnly ==
  origin = "server" =>
    /\ \A p \in Proc : pc[p] \notin Preparing \cup {"check"}
    /\ meta.st = "json" => meta.by = "server"
    /\ \A c \in Labeller : lab[c].pc \in {"read", "write"} => lab[c].by = "server"

\* An update that has been alone still is, and the file it has truncated stays
\* empty, unless a delete takes it.
Alone ==
  \A c \in Labeller : lab[c].solo =>
    /\ \A x \in Labeller \ {c} : lab[x].pc = "off"
    /\ origin = "server" /\ lab[c].pc = "write" =>
         IF c \in metaopen THEN meta.st = "empty" ELSE hurt \/ ~complete

\* LabelKept, said of the file.
Acked ==
  origin = "server" /\ acked # None /\ complete /\ ~hurt => meta = Json("server", acked)

LabelInv == TypeOK /\ Handles /\ Deleting /\ ServerOnly /\ Alone /\ Acked

\* At most one ecd process works on this dump at a time.
OneEcd == \A p, q \in Proc : p = q

\* What the position of the ecd process says of the disk.
Parsing ==
  \A p \in Proc :
    /\ pc[p] \in Preparing => ~complete
    /\ pc[p] = "mkdir" => ~dir
    /\ pc[p] = "parse" => data = "none"
    /\ pc[p] = "parsing" => data = "none" \/ (data = "partial" /\ by = p)
    /\ pc[p] = "meta" /\ dir /\ ~hurt => data = "whole"
    /\ pc[p] = "complete" /\ dir /\ ~hurt => data = "whole" /\ meta.st # "none"

\* What an open handle leads to.
Reading ==
  \A r \in Reader :
    /\ open[r].addr # "torn" /\ open[r].text # "torn"
    /\ pc[r] \in {"open_text", "read"} => open[r].addr # "closed"
    /\ pc[r] = "read" => open[r].text # "closed"

\* What a hit and a view find, as HitMeansParsed says it.
Parsed ==
  complete /\ ~hurt => data = "whole" /\ (origin = "ecd" => meta.st # "none")

StoreInv == LabelInv /\ data # "torn" /\ Parsing /\ Reading /\ Parsed
=============================================================================
