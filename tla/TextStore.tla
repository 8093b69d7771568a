------------------------------ MODULE TextStore ------------------------------
(***************************************************************************)
(* src/src/textstore.rs: the text sections of a dump, packed into frames   *)
(* of TEXT_FRAME_SIZE bytes that are compressed one by one.                *)
(*                                                                         *)
(* The writer streams one section at a time; pass 1 of a write foresees    *)
(* where each line will land and notes every LINE_INDEX_INTERVAL-th        *)
(* non-empty one, pass 2 copies the bytes and flushes full frames.  finish *)
(* sorts the index by key.  The reader finds a section and walks over its  *)
(* frames, either for the whole text or for a page of non-empty lines,     *)
(* where it may start at a noted line.                                     *)
(*                                                                         *)
(* NL is the newline; every other byte written is a number of its own, so  *)
(* a byte read at the wrong place is recognised.  (kind, key) is a number, *)
(* in the order of the index, and its kind what is left without the last   *)
(* decimal digit.                                                          *)
(***************************************************************************)
EXTENDS Integers, Sequences, FiniteSets, FiniteSetsExt, Functions

CONSTANTS Key, TEXT_FRAME_SIZE, LINE_INDEX_INTERVAL,
          PieceLen,             \* lengths of newline-free data given to write
          MaxBytes, MaxSections,\* bounds on one store
          PageLimit, MaxOffset  \* limits and offsets of a page

ASSUME TextAssump ==
  /\ Key \subseteq Nat /\ PieceLen \subseteq Nat \ {0} /\ PageLimit \subseteq Nat
  /\ TEXT_FRAME_SIZE \in Nat \ {0} /\ LINE_INDEX_INTERVAL \in Nat \ {0}
  /\ MaxBytes \in Nat /\ MaxSections \in Nat /\ MaxOffset \in Nat

VARIABLES
  phase,      \* "open", "closed" after finish, "ready" after TextReader::open, "failed"
  frames,     \* the uncompressed content of the frames in sections.zdb
  frame_buf,  \* the frame being filled
  sections,   \* the index, in order of insertion, then sorted
  sw,         \* the SectionWriter, if there is one
  text,       \* history: <<key, content>> of the sections finished and of sw
  rd          \* the reader's call in progress

vars == <<phase, frames, frame_buf, sections, sw, text, rd>>

NL == 0
Lesser(m, n) == IF m < n THEN m ELSE n
NoWriter == [active |-> FALSE]
Idle == [pc |-> "idle"]

Init ==
  /\ phase = "open" /\ frames = <<>> /\ frame_buf = <<>> /\ sections = <<>>
  /\ sw = NoWriter /\ text = <<>> /\ rd = Idle

-----------------------------------------------------------------------------
(* TextWriter and SectionWriter.                                           *)

\* All frames are full while the store is open.
BytesWritten == TEXT_FRAME_SIZE * Len(frames) + Len(frame_buf)

\* begin_section(kind, key); one writer at a time borrows the store.
BeginSection(k) ==
  /\ phase = "open" /\ ~sw.active /\ Len(sections) < MaxSections
  /\ sw' = [active |-> TRUE, key |-> k, start_frame |-> Len(frames),
            start_pos |-> Len(frame_buf), total |-> 0, lines |-> 0, has |-> FALSE,
            sparse |-> <<>>]
  /\ text' = Append(text, [key |-> k, content |-> <<>>])
  /\ UNCHANGED <<phase, frames, frame_buf, sections, rd>>

NoteLine(s, w) == Append(s, [frame |-> w.frame, pos |-> w.pos, byte |-> w.byte])

\* Pass 1 for one byte: the place after it, the non-empty lines, the notes.
SimByte(w, b) ==
  LET over == w.pos + 1 = TEXT_FRAME_SIZE
      at   == [w EXCEPT !.frame = IF over THEN @ + 1 ELSE @,
                        !.pos = IF over THEN 0 ELSE @ + 1, !.byte = @ + 1]
      n    == w.lines + (IF w.has THEN 1 ELSE 0)
  IN  IF b # NL THEN [at EXCEPT !.has = TRUE]
      ELSE [at EXCEPT !.has = FALSE, !.lines = n,
              !.sparse = IF w.has /\ n % LINE_INDEX_INTERVAL = 0 THEN NoteLine(@, at) ELSE @]

\* Pass 2 for one byte: copied, and a full frame flushed.
CopyByte(w, b) ==
  LET buf == Append(w.buf, b)
  IN  IF Len(buf) = TEXT_FRAME_SIZE
        THEN [frames |-> Append(w.frames, buf), buf |-> <<>>]
        ELSE [w EXCEPT !.buf = buf]

\* The passes after each byte of the data.
Pass1(w, data) ==
  LET at[k \in 0 .. Len(data)] == IF k = 0 THEN w ELSE SimByte(at[k - 1], data[k]) IN at
Pass2(w, data) ==
  LET at[k \in 0 .. Len(data)] == IF k = 0 THEN w ELSE CopyByte(at[k - 1], data[k]) IN at

Sim(data) ==
  Pass1([frame |-> Len(frames), pos |-> Len(frame_buf), byte |-> sw.total,
         lines |-> sw.lines, has |-> sw.has, sparse |-> sw.sparse], data)
Copy(data) == Pass2([frames |-> frames, buf |-> frame_buf], data)

Write(data) ==
  LET sim == Sim(data)[Len(data)]
      cp  == Copy(data)[Len(data)]
  IN  /\ phase = "open" /\ sw.active
      /\ BytesWritten + Len(data) <= MaxBytes
      /\ sw' = [sw EXCEPT !.total = @ + Len(data), !.lines = sim.lines, !.has = sim.has,
                          !.sparse = sim.sparse]
      /\ frames' = cp.frames /\ frame_buf' = cp.buf
      /\ text' = [text EXCEPT ![Len(text)].content = @ \o data]
      /\ UNCHANGED <<phase, sections, rd>>

\* A line of a section is written without its newline, which follows.
WriteLine == \E n \in PieceLen : Write([i \in 1 .. n |-> BytesWritten + i])
WriteNewline == Write(<<NL>>)

\* Mutant: a last line without newline is not counted.
MutLineCount == sw.lines

LineCount == sw.lines + (IF sw.has THEN 1 ELSE 0)

\* SectionWriter::finish; a section without a byte leaves no entry.
FinishSection ==
  /\ phase = "open" /\ sw.active
  /\ sw' = NoWriter
  /\ IF sw.total = 0
       THEN text' = SubSeq(text, 1, Len(text) - 1) /\ UNCHANGED sections
       ELSE /\ sections' = Append(sections, [key |-> sw.key, start_frame |-> sw.start_frame,
                 start_pos |-> sw.start_pos, len |-> sw.total, lines |-> LineCount,
                 sparse |-> sw.sparse])
            /\ UNCHANGED text
  /\ UNCHANGED <<phase, frames, frame_buf, rd>>

IsAscending(s) == \A i \in 1 .. Len(s) - 1 : s[i].key <= s[i + 1].key

Orders(n) == {q \in [1 .. n -> 1 .. n] : Range(q) = 1 .. n}

\* sort_unstable_by: equal keys in any order, the line index along with them.
Sorted(s) == {t \in {[i \in DOMAIN s |-> s[q[i]]] : q \in Orders(Len(s))} : IsAscending(t)}

\* TextWriter::finish: the last frame, meta.bin and line_idx.bin.
Finish ==
  /\ phase = "open" /\ ~sw.active
  /\ phase' = "closed"
  /\ frames' = IF frame_buf = <<>> THEN frames ELSE Append(frames, frame_buf)
  /\ frame_buf' = <<>>
  /\ sections' \in Sorted(sections)
  /\ UNCHANGED <<sw, text, rd>>

WriteError ==
  /\ phase = "open" /\ phase' = "failed"
  /\ UNCHANGED <<frames, frame_buf, sections, sw, text, rd>>

-----------------------------------------------------------------------------
(* TextReader.                                                             *)

\* A store without a line index, or with one of another interval, is read
\* without.
Open ==
  /\ phase = "closed" /\ phase' = "ready"
  /\ sections' \in {sections, [i \in DOMAIN sections |-> [sections[i] EXCEPT !.sparse = <<>>]]}
  /\ UNCHANGED <<frames, frame_buf, sw, text, rd>>

\* binary_search_by: any entry with the key, 0 for none; an index that is not
\* sorted may be searched in vain.
Found(k) ==
  LET hits == {i \in DOMAIN sections : sections[i].key = k}
  IN  IF hits = {} THEN {0} ELSE IF IsAscending(sections) THEN hits ELSE hits \cup {0}

Call(k, i, op, off, lim) ==
  [pc |-> "frame", op |-> op, key |-> k, sec |-> i,
   frame |-> sections[i].start_frame, pos |-> sections[i].start_pos,
   remaining |-> sections[i].len, off |-> off, lim |-> lim, seen |-> 0,
   items |-> <<>>, buf |-> <<>>, data |-> <<>>, start |-> 0]

Missing(k, op) == [pc |-> "missing", op |-> op, key |-> k]

\* get and write_content, which differ in where the bytes go.
Get(k) ==
  /\ phase = "ready" /\ rd.pc = "idle"
  /\ \E i \in Found(k) :
       rd' = IF i = 0 THEN Missing(k, "get") ELSE Call(k, i, "get", 0, 0)
  /\ UNCHANGED <<phase, frames, frame_buf, sections, sw, text>>

\* Mutant: the noted line counts from the entry's own number.
MutJump(c, sparse) ==
  LET e == Lesser(c.off \div LINE_INDEX_INTERVAL, Len(sparse))
  IN  IF e = 0 THEN c
      ELSE [c EXCEPT !.frame = sparse[e].frame, !.pos = sparse[e].pos,
                     !.remaining = @ - sparse[e].byte,
                     !.seen = (e - 1) * LINE_INDEX_INTERVAL]

\* The last noted line before the page, if there is one.
Jump(c, sparse) ==
  LET e == Lesser(c.off \div LINE_INDEX_INTERVAL, Len(sparse))
  IN  IF e = 0 \/ (e > 0 /\ sparse[e].byte > c.remaining) THEN c
      ELSE [c EXCEPT !.frame = sparse[e].frame, !.pos = sparse[e].pos,
                     !.remaining = @ - sparse[e].byte, !.seen = e * LINE_INDEX_INTERVAL]

\* get_lines_range(kind, key, offset, limit).
GetLinesRange(k, off, lim) ==
  /\ phase = "ready" /\ rd.pc = "idle"
  /\ \E i \in Found(k) :
       LET c == Call(k, i, "lines", off, lim)
       IN  rd' = IF i = 0 THEN Missing(k, "lines")
                 ELSE IF off >= sections[i].lines THEN [c EXCEPT !.pc = "done"]
                 ELSE Jump(c, sections[i].sparse)
  /\ UNCHANGED <<phase, frames, frame_buf, sections, sw, text>>

\* has_section and list_all look at the index only.
has_section(k) == Found(k) # {0}
list_all == [i \in DOMAIN sections |-> [key |-> sections[i].key, len |-> sections[i].len]]

KindOf(k) == k \div 10

\* Mutant: the first section of the kind is passed over.
MutFirstOfKind(kind) == Cardinality({i \in DOMAIN sections : KindOf(sections[i].key) <= kind})

\* partition_point: where the sections of the kind begin in a sorted index.
FirstOfKind(kind) == Cardinality({i \in DOMAIN sections : KindOf(sections[i].key) < kind}) + 1

\* Section i is the next of the list, if it is of the kind.
ListFrom(kind, i, list) ==
  IF i \in DOMAIN sections /\ KindOf(sections[i].key) = kind
    THEN [Call(kind, i, "list", 0, 0) EXCEPT !.items = list]
    ELSE [pc |-> "listed", key |-> kind, items |-> list]

\* list_kind(kind): read_content of one section after the other.
ListKind(kind) ==
  /\ phase = "ready" /\ rd.pc = "idle"
  /\ rd' = ListFrom(kind, FirstOfKind(kind), <<>>)
  /\ UNCHANGED <<phase, frames, frame_buf, sections, sw, text>>

Slice(frame, pos, n) == SubSeq(frame, pos + 1, pos + n)

NextFrame(c) == [c EXCEPT !.frame = @ + 1, !.pos = 0]

\* decompress_frame; an index out of range is an error.
ReadFrame ==
  LET frame == frames[rd.frame + 1]
      take  == Lesser(rd.remaining, Len(frame) - rd.pos)
      data  == Slice(frame, rd.pos, take)
      c     == [rd EXCEPT !.remaining = @ - take]
  IN  /\ rd.pc = "frame" /\ rd.remaining > 0
      /\ rd' = IF rd.frame >= Len(frames) THEN [rd EXCEPT !.pc = "error"]
               ELSE IF rd.op # "lines" THEN NextFrame([c EXCEPT !.buf = @ \o data])
               ELSE [c EXCEPT !.pc = "scan", !.data = data, !.start = 0]
      /\ UNCHANGED <<phase, frames, frame_buf, sections, sw, text>>

AllRead ==
  /\ rd.pc = "frame" /\ rd.remaining = 0
  /\ rd' = IF rd.op # "list" THEN [rd EXCEPT !.pc = "done"]
            ELSE ListFrom(rd.key, rd.sec + 1,
                   Append(rd.items, [key |-> sections[rd.sec].key, content |-> rd.buf]))
  /\ UNCHANGED <<phase, frames, frame_buf, sections, sw, text>>

Newlines == {j \in rd.start + 1 .. Len(rd.data) : rd.data[j] = NL}

\* The line in c.buf, if it is on the page.
Collect(c) ==
  [c EXCEPT !.items = IF c.seen >= c.off /\ Len(@) < c.lim THEN Append(@, c.buf) ELSE @]

\* A line is complete in c.buf.
EndLine(c) ==
  IF c.buf = <<>> THEN c
  ELSE LET d == Collect(c)
       IN  [d EXCEPT !.seen = @ + 1, !.buf = <<>>,
                     !.pc = IF Len(d.items) >= d.lim THEN "done" ELSE @]

\* The line goes on to the next newline of the frame ...
ScanLine ==
  /\ rd.pc = "scan" /\ Newlines # {}
  /\ LET nl == Min(Newlines)
     IN  rd' = EndLine([rd EXCEPT !.buf = @ \o SubSeq(rd.data, rd.start + 1, nl - 1),
                                  !.start = nl])
  /\ UNCHANGED <<phase, frames, frame_buf, sections, sw, text>>

\* ... or beyond the frame; the last line may have no newline.
EndOfFrame ==
  LET c == [rd EXCEPT !.buf = @ \o SubSeq(rd.data, rd.start + 1, Len(rd.data)), !.pc = "frame"]
  IN  /\ rd.pc = "scan" /\ Newlines = {}
      /\ rd' = NextFrame(IF c.remaining = 0 /\ c.buf # <<>>
                           THEN [Collect(c) EXCEPT !.buf = <<>>] ELSE c)
      /\ UNCHANGED <<phase, frames, frame_buf, sections, sw, text>>

\* The caller takes the result.
Return ==
  /\ rd.pc \in {"missing", "done", "listed", "error"} /\ rd' = Idle
  /\ UNCHANGED <<phase, frames, frame_buf, sections, sw, text>>

-----------------------------------------------------------------------------
ReaderStep == ReadFrame \/ AllRead \/ ScanLine \/ EndOfFrame \/ Return

Next ==
  \/ \E k \in Key : BeginSection(k)
  \/ WriteLine \/ WriteNewline \/ FinishSection \/ Finish \/ WriteError
  \/ Open
  \/ \E k \in Key : Get(k) \/ \E off \in 0 .. MaxOffset, lim \in PageLimit : GetLinesRange(k, off, lim)
  \/ \E k \in Key : ListKind(KindOf(k))
  \/ ReaderStep

Spec == Init /\ [][Next]_vars

-----------------------------------------------------------------------------
Busy == rd.pc \notin {"idle", "missing", "listed"}

TypeOK ==
  /\ phase \in {"open", "closed", "ready", "failed"}
  /\ \A i \in DOMAIN frames : Len(frames[i]) \in 1 .. TEXT_FRAME_SIZE
  /\ \A i \in DOMAIN frames : i < Len(frames) \/ phase = "open" => Len(frames[i]) = TEXT_FRAME_SIZE
  /\ Len(frame_buf) \in 0 .. TEXT_FRAME_SIZE - 1
  /\ \A i \in DOMAIN sections : sections[i].key \in Key /\ sections[i].len \in 1 .. MaxBytes
                                  /\ sections[i].lines \in 0 .. sections[i].len
  /\ sw.active \in BOOLEAN
  /\ rd.pc \in {"idle", "missing", "frame", "scan", "done", "listed", "error"}
  /\ Busy => rd.remaining \in 0 .. sections[rd.sec].len

\* Frame n of the store, the one being filled last, and byte p of the store,
\* counted from 0.
Chunk(fs, buf, n) == IF n < Len(fs) THEN fs[n + 1] ELSE IF n = Len(fs) THEN buf ELSE <<>>
Stored(fs, buf, p, b) ==
  LET c == Chunk(fs, buf, p \div TEXT_FRAME_SIZE)
      q == (p % TEXT_FRAME_SIZE) + 1
  IN  q \in DOMAIN c /\ c[q] = b

Place(frame, pos) == frame * TEXT_FRAME_SIZE + pos
Lies(c, place) == \A i \in DOMAIN c : Stored(frames, frame_buf, place + i - 1, c[i])

\* The lines before each byte of a text, and the one that goes on there; an empty
\* line is none.
CutByte(w, b) ==
  IF b # NL THEN [w EXCEPT !.cur = Append(@, b)]
  ELSE IF w.cur = <<>> THEN w
  ELSE [lines |-> Append(w.lines, w.cur), cur |-> <<>>]
Cuts(c) ==
  LET at[k \in 0 .. Len(c)] ==
        IF k = 0 THEN [lines |-> <<>>, cur |-> <<>>] ELSE CutByte(at[k - 1], c[k])
  IN  at
LinesOf(c) ==
  LET end == Cuts(c)[Len(c)]
  IN  IF end.cur = <<>> THEN end.lines ELSE Append(end.lines, end.cur)

\* Pass 1 foresees what pass 2 does: note e of a section that starts at a place is
\* where the line after e * LINE_INDEX_INTERVAL non-empty lines of it begins.
NotesInSync(sparse, c, place) ==
  \A e \in DOMAIN sparse :
    LET n == sparse[e]
    IN  /\ n.byte \in 1 .. Len(c) /\ Place(n.frame, n.pos) = place + n.byte
        /\ Cuts(c)[n.byte].cur = <<>> /\ Len(Cuts(c)[n.byte].lines) = e * LINE_INDEX_INTERVAL

\* The entry of a section finds exactly the bytes written to it, counts its
\* non-empty lines, and notes their places.
Entry(s, t) ==
  LET place == Place(s.start_frame, s.start_pos)
  IN  /\ s.key = t.key /\ s.len = Len(t.content) /\ Lies(t.content, place)
      /\ s.lines = Len(LinesOf(t.content))
      /\ NotesInSync(s.sparse, t.content, place)

\* Whatever was flushed in between, and however the index was sorted, every text
\* has an entry of its own.
EntriesFindText ==
  /\ TypeOK
  /\ Len(text) = Len(sections) + (IF sw.active THEN 1 ELSE 0)
  /\ \E q \in Orders(Len(sections)) : \A i \in DOMAIN sections : Entry(sections[i], text[q[i]])

\* A list of a kind has every text written under the kind, as often as it was
\* written, and no other, ordered by key; and so has the list of all, by length.
Times(seq, x) == Cardinality({i \in DOMAIN seq : seq[i] = x})
ListsCorrect ==
  /\ rd.pc = "listed" =>
       /\ IsAscending(rd.items)
       /\ \A t \in Range(text) \cup Range(rd.items) :
            Times(rd.items, t) = IF KindOf(t.key) = rd.key THEN Times(text, t) ELSE 0
  /\ phase = "ready" =>
       /\ \A k \in Key : has_section(k) <=> \E t \in Range(text) : t.key = k
       /\ \A e \in Range(list_all) :
            Times(list_all, e) = Cardinality({j \in DOMAIN text :
                                     text[j].key = e.key /\ Len(text[j].content) = e.len})

\* get returns a text written under the key, and none only if there is none,
\* wherever sorting has put the section's entry; and so do the lists.
GetCorrect ==
  /\ rd.pc # "error"
  /\ rd.pc = "missing" => \A j \in DOMAIN text : text[j].key # rd.key
  /\ rd.pc = "done" /\ rd.op = "get" =>
       \E j \in DOMAIN text : text[j].key = rd.key /\ text[j].content = rd.buf
  /\ ListsCorrect

\* A page holds the non-empty lines from `off' on, `lim' of them or as many as
\* there are, whether or not the line index helped.
PageCorrect ==
  rd.pc = "done" /\ rd.op = "lines" =>
    \E j \in DOMAIN text :
      LET all == LinesOf(text[j].content)
      IN  /\ text[j].key = rd.key
          /\ rd.items = SubSeq(all, rd.off + 1, Lesser(rd.off + rd.lim, Len(all)))

=============================================================================
