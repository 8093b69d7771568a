----------------------------- MODULE ParseScanner -----------------------------
(***************************************************************************)
(* src/src/lib.rs, parse_scanner, fed by the line scanner of scanner.rs:   *)
(* one pass over a dump that sends heap and literal entries and binaries   *)
(* to the address store and streams every other section, line by line, to  *)
(* the text store.                                                         *)
(*                                                                         *)
(* A line is what the parser can make of it.  Its text is its number in    *)
(* the dump, so a line that ends up in the wrong section is recognised.    *)
(* The address store is the abstract one that Extsorter implements.        *)
(***************************************************************************)
EXTENDS Integers, Sequences, FiniteSets, FiniteSetsExt, Functions

CONSTANTS Addr,            \* addresses in entries and =binary headers
          NoAddr,          \* not an address
          PROGRESS,        \* insertions between two progress messages
          MaxLines         \* bound on the lines of a dump

ASSUME ParseAssump == NoAddr \notin Addr /\ PROGRESS \in Nat \ {0} /\ MaxLines \in Nat

VARIABLES
  dump,                    \* history: the lines read
  result,                  \* "none", "ok" or "err"
  cur_kind, pending_binary,
  section_writer,          \* the section being streamed, or none
  text,                    \* the text store: sections in order
  heap_entries, binary_entries, literal_entries, text_sections,
  total_inserted, saw_end,
  incomplete,              \* stats.incomplete, and the marker in the text store
  reports,                 \* total_inserted at each progress message
  records, lost, status, db   \* the address store

stats     == <<heap_entries, binary_entries, literal_entries, total_inserted>>
storeVars == <<records, lost, status, db>>
textVars  == <<section_writer, text, text_sections>>
vars == <<dump, result, cur_kind, pending_binary, textVars, stats, saw_end, incomplete,
          reports, storeVars>>

Store == INSTANCE AddrStore WITH Record <- [addr : Addr, id : 1 .. MaxLines]

\* What follows `=': the kind up to the colon, and the key of a binary read as
\* an address.
Header ==
  [section : {TRUE}, kind : {"proc", "proc_heap", "literals", "end", ""}, addr : {NoAddr}]
    \cup [section : {TRUE}, kind : {"binary"}, addr : Addr \cup {NoAddr}]
\* Any other line: the address before its colon, and whether what is behind
\* the colon (all of it without one) is base64.
Data == [section : {FALSE}, addr : Addr \cup {NoAddr}, base64 : BOOLEAN, blank : {FALSE}]
          \cup [section : {FALSE}, addr : {NoAddr}, base64 : {TRUE}, blank : {TRUE}]

NoSection == [at |-> 0, lines |-> <<>>]

Init ==
  /\ dump = <<>> /\ result = "none"
  /\ cur_kind = "" /\ pending_binary = NoAddr
  /\ section_writer = NoSection /\ text = <<>> /\ text_sections = 0
  /\ heap_entries = 0 /\ binary_entries = 0 /\ literal_entries = 0
  /\ total_inserted = 0 /\ saw_end = FALSE /\ incomplete = FALSE /\ reports = <<>>
  /\ Store!Init

is_addr_section(kind) == kind \in {"proc_heap", "binary", "literals"}

\* Mutant: an address section does not end the text section before it.
MutFinishSection == UNCHANGED <<text, text_sections>>

\* section_writer.take and finish; a section without a line is left out.
FinishSection ==
  IF section_writer = NoSection THEN UNCHANGED <<text, text_sections>>
  ELSE /\ text' = IF section_writer.lines = <<>> THEN text ELSE Append(text, section_writer)
       /\ text_sections' = text_sections + 1

Read(line) ==
  /\ result = "none" /\ Len(dump) < MaxLines
  /\ dump' = Append(dump, line)

\* Mutant: a header other than =binary leaves the pending address alone.
MutPending(h) == IF h.kind = "binary" THEN h.addr ELSE pending_binary

Pending(h) == IF h.kind = "binary" THEN h.addr ELSE NoAddr

\* begin_section for a text section.
WriterFor(h) == IF is_addr_section(h.kind) \/ h.kind \in {"end", ""} THEN NoSection
                ELSE [at |-> Len(dump'), lines |-> <<>>]

NewSection(h) ==
  /\ Read(h)
  /\ FinishSection
  /\ pending_binary' = Pending(h)
  /\ saw_end' = (saw_end \/ h.kind = "end")
  /\ section_writer' = WriterFor(h)
  /\ cur_kind' = h.kind
  /\ UNCHANGED <<result, stats, incomplete, reports, storeVars>>

\* sorter.insert and the counters.
Insert(addr, counted) ==
  /\ Store!Put([addr |-> addr, id |-> Len(dump')])
  /\ total_inserted' = total_inserted + 1
  /\ heap_entries' = heap_entries + (IF counted = "heap" THEN 1 ELSE 0)
  /\ binary_entries' = binary_entries + (IF counted = "binary" THEN 1 ELSE 0)
  /\ literal_entries' = literal_entries + (IF counted = "literal" THEN 1 ELSE 0)

\* The message is sent for every data line read while the total is a multiple.
Progress ==
  reports' = IF total_inserted' > 0 /\ total_inserted' % PROGRESS = 0
               THEN Append(reports, total_inserted') ELSE reports

DataLine(d) == Read(d) /\ UNCHANGED <<result, cur_kind, saw_end, incomplete, text, text_sections>>

BinaryLine(d) ==
  /\ DataLine(d) /\ pending_binary # NoAddr
  /\ pending_binary' = NoAddr
  /\ IF d.base64 THEN Insert(pending_binary, "binary") ELSE UNCHANGED <<stats, storeVars>>
  /\ Progress
  /\ UNCHANGED section_writer

\* A blank line goes straight on to the next; a bad one is skipped.
EntryLine(d) ==
  /\ DataLine(d) /\ pending_binary = NoAddr /\ cur_kind \in {"proc_heap", "literals"}
  /\ IF d.addr # NoAddr THEN Insert(d.addr, IF cur_kind = "proc_heap" THEN "heap" ELSE "literal")
                        ELSE UNCHANGED <<stats, storeVars>>
  /\ IF d.blank THEN UNCHANGED reports ELSE Progress
  /\ UNCHANGED <<pending_binary, section_writer>>

\* Streamed to the text section, if there is one.
OtherLine(d) ==
  /\ DataLine(d) /\ pending_binary = NoAddr /\ cur_kind \notin {"proc_heap", "literals"}
  /\ section_writer' = IF section_writer = NoSection THEN NoSection
                       ELSE [section_writer EXCEPT !.lines = Append(@, Len(dump'))]
  /\ UNCHANGED <<pending_binary, stats, storeVars>>
  /\ Progress

\* Mutant: a section without lines counts as the end of the dump's marker.
MutEof ==
  /\ result = "none"
  /\ FinishSection /\ section_writer' = NoSection
  /\ incomplete' = (text' = text)
  /\ Store!Build /\ result' = "ok"
  /\ UNCHANGED <<dump, cur_kind, pending_binary, stats, saw_end, reports>>

\* The end of the input: the last section, the marker, then the sort.
Eof ==
  /\ result = "none"
  /\ FinishSection /\ section_writer' = NoSection
  /\ incomplete' = ~saw_end
  /\ Store!Build /\ result' = "ok"
  /\ UNCHANGED <<dump, cur_kind, pending_binary, stats, saw_end, reports>>

\* The disk loses records of the address store, which the parser does not notice.
Lose ==
  /\ result = "none" /\ Store!Lose
  /\ UNCHANGED <<dump, result, cur_kind, pending_binary, textVars, stats, saw_end, incomplete,
                 reports>>

\* Reading, a store or the sort fails; the ? operator returns at once.
Error ==
  /\ result = "none" /\ Store!Fail /\ result' = "err"
  /\ UNCHANGED <<dump, cur_kind, pending_binary, textVars, stats, saw_end, incomplete, reports>>

Next ==
  \/ \E h \in Header : NewSection(h)
  \/ \E d \in Data : BinaryLine(d) \/ EntryLine(d) \/ OtherLine(d)
  \/ Lose \/ Eof \/ Error

Spec == Init /\ [][Next]_vars

-----------------------------------------------------------------------------
TypeOK ==
  /\ dump \in Seq(Header \cup Data) /\ Len(dump) <= MaxLines
  /\ result \in {"none", "ok", "err"}
  /\ cur_kind \in {h.kind : h \in Header} /\ pending_binary \in Addr \cup {NoAddr}
  /\ section_writer \in [at : 0 .. MaxLines, lines : Seq(1 .. MaxLines)]
  /\ text \in Seq([at : 1 .. MaxLines, lines : Seq(1 .. MaxLines)])
  /\ total_inserted \in 0 .. MaxLines /\ saw_end \in BOOLEAN /\ incomplete \in BOOLEAN
  /\ reports \in Seq(1 .. MaxLines)
  /\ section_writer # NoSection => cur_kind = "proc"

\* The dump, read as a whole: its headers and the lines under each.
Headers == {i \in DOMAIN dump : dump[i].section}
Under(h) == {i \in DOMAIN dump \ Headers : Max({g \in Headers \cup {0} : g < i}) = h}

\* The numbers of S in ascending order.
Lists(s, S) == Range(s) = S /\ \A k, l \in DOMAIN s : k < l => s[k] < s[l]

\* The text sections that have a line, and what is stored of them, the section
\* being streamed included.
Whole == {h \in Headers : dump[h].kind = "proc" /\ Under(h) # {}}
Stored == IF section_writer.lines = <<>> THEN text ELSE Append(text, section_writer)

\* Each text section of the dump is in the store, in the dump's order, with
\* exactly the lines between its header and the next one; none leaks into a
\* neighbour and none is lost, whatever kinds of section are interleaved.
SectionsFaithful ==
  /\ Lists([k \in DOMAIN Stored |-> Stored[k].at], Whole)
  /\ \A k \in DOMAIN Stored : Lists(Stored[k].lines, Under(Stored[k].at))

\* The lines that are entries, and the headers of binaries with their bytes.
EntryLines == { i \in DOMAIN dump : /\ ~dump[i].section /\ dump[i].addr # NoAddr
                                    /\ \E h \in Headers : /\ dump[h].kind \in {"proc_heap", "literals"}
                                                          /\ i \in Under(h) }
StoredBinaries == { h \in Headers : /\ dump[h].kind = "binary" /\ dump[h].addr # NoAddr
                                    /\ h + 1 \in Under(h) /\ dump[h + 1].base64 }

\* The address store got each entry of a heap or literal section, and for each
\* =binary header with an address the line right behind it, if that is base64;
\* no line of another section is ever taken for an entry.
RecordsFaithful ==
  records = { [addr |-> dump[i].addr, id |-> i] : i \in EntryLines }
              \cup { [addr |-> dump[h].addr, id |-> h + 1] : h \in StoredBinaries }

\* The statistics count what was stored, so the number of duplicates that parse
\* reports (entries counted less addresses written) is right unless the disk lost
\* some of it, and a parse that
\* succeeds marks the dump incomplete exactly if it has no =end.
StatsRight ==
  /\ TypeOK
  /\ heap_entries + binary_entries + literal_entries = Cardinality(records)
  /\ total_inserted = Cardinality(records)
  /\ result = "ok" => (incomplete <=> \A h \in Headers : dump[h].kind # "end")
===============================================================================
