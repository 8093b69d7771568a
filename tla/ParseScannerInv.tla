--------------------------- MODULE ParseScannerInv ---------------------------
(***************************************************************************)
(* The inductive invariant of ParseScanner that the theorems of            *)
(* ParseScannerProofs rest on.                                             *)
(***************************************************************************)
EXTENDS ParseScanner

\* The header of the section the next line belongs to, 0 before the first.
Last == Max(Headers \cup {0})

\* What the parser remembers of the dump so far.
Context ==
  /\ Last \in Headers \cup {0} /\ \A g \in Headers : g <= Last
  /\ cur_kind = IF Last = 0 THEN "" ELSE dump[Last].kind
  /\ pending_binary = IF Last # 0 /\ Last = Len(dump) THEN dump[Last].addr ELSE NoAddr
  /\ saw_end <=> \E h \in Headers : dump[h].kind = "end"
  /\ result = "ok" => incomplete = ~saw_end

\* The section being streamed is that of the last header and has its lines.
Streaming ==
  /\ section_writer.at = IF cur_kind = "proc" /\ result # "ok" THEN Last ELSE 0
  /\ section_writer.at = 0 => section_writer.lines = <<>>
  /\ section_writer.at # 0 => Lists(section_writer.lines, Under(section_writer.at))

\* The sections finished are the others that have a line.
Finished ==
  /\ Lists([k \in DOMAIN text |-> text[k].at], Whole \ {section_writer.at})
  /\ \A k \in DOMAIN text : Lists(text[k].lines, Under(text[k].at))

\* Each insertion is of a line of its own.
Counted ==
  /\ IsFiniteSet(records) /\ \A r \in records : r.id \in 1 .. Len(dump)
  /\ total_inserted = Cardinality(records) /\ total_inserted <= Len(dump)
  /\ heap_entries \in Nat /\ binary_entries \in Nat /\ literal_entries \in Nat
  /\ heap_entries + binary_entries + literal_entries = total_inserted

IInv == TypeOK /\ Context /\ Streaming /\ Finished /\ RecordsFaithful /\ Counted
=============================================================================
