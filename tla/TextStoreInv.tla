---------------------------- MODULE TextStoreInv ----------------------------
(***************************************************************************)
(* The inductive invariant of TextStore that the theorems of               *)
(* TextStoreProofs rest on.                                                *)
(***************************************************************************)
EXTENDS TextStore

Text == [key : Key, content : Seq(Nat)]
Note == [frame : Nat, pos : 0 .. TEXT_FRAME_SIZE - 1, byte : Nat]
Section == [key : Key, start_frame : Nat, start_pos : 0 .. TEXT_FRAME_SIZE - 1, len : Nat,
            lines : Nat, sparse : Seq(Note)]
Writer == [active : {TRUE}, key : Key, start_frame : Nat,
           start_pos : 0 .. TEXT_FRAME_SIZE - 1, total : Nat, lines : Nat, has : BOOLEAN,
           sparse : Seq(Note)]

\* Nothing is left to write and the index is sorted when a reader comes.
Shape ==
  /\ frames \in Seq(Seq(Nat)) /\ frame_buf \in Seq(Nat)
  /\ sections \in Seq(Section) /\ text \in Seq(Text) /\ sw \in Writer \cup {NoWriter}
  /\ phase = "open" => BytesWritten <= MaxBytes
  /\ phase \in {"closed", "ready"} =>
       /\ ~sw.active /\ frame_buf = <<>>
       /\ \A i, j \in DOMAIN sections : i < j => sections[i].key <= sections[j].key
  /\ phase # "ready" => rd = Idle

\* The section being written ends where the store does; what is noted of its lines
\* is what they were before the last byte, one note for each LINE_INDEX_INTERVAL.
Writing ==
  sw.active =>
    LET c == text[Len(text)].content
        place == Place(sw.start_frame, sw.start_pos)
        cut == Cuts(c)[Len(c)]
    IN  /\ text[Len(text)].key = sw.key /\ sw.total = Len(c) /\ Lies(c, place)
        /\ place + sw.total = BytesWritten
        /\ sw.lines = Len(cut.lines) /\ (sw.has <=> cut.cur # <<>>)
        /\ NotesInSync(sw.sparse, c, place)
        /\ Len(sw.sparse) * LINE_INDEX_INTERVAL <= sw.lines
        /\ sw.lines < Len(sw.sparse) * LINE_INDEX_INTERVAL + LINE_INDEX_INTERVAL

\* What the store has for a section.
ByteAt(p) == Chunk(frames, frame_buf, p \div TEXT_FRAME_SIZE)[(p % TEXT_FRAME_SIZE) + 1]
ContentOf(s) == [i \in 1 .. s.len |-> ByteAt(Place(s.start_frame, s.start_pos) + i - 1)]
TextOf(s) == [key |-> s.key, content |-> ContentOf(s)]

CallType ==
  [pc : {"frame", "scan", "done"}, op : {"get", "lines", "list"}, key : Nat,
   sec : DOMAIN sections, frame : Nat, pos : Nat, remaining : Nat, off : Nat, lim : Nat,
   seen : Nat, items : Seq(Seq(Nat)) \cup Seq(Text), buf : Seq(Nat), data : Seq(Nat),
   start : Nat]

\* The next frame to read goes on where the last one ended.
Located(c, s) ==
  /\ c.remaining <= s.len
  /\ c.remaining > 0 =>
       /\ c.pc = "frame" => /\ c.pos < TEXT_FRAME_SIZE
                            /\ Place(c.frame, c.pos) + c.remaining =
                                 Place(s.start_frame, s.start_pos) + s.len
       /\ c.pc = "scan" => Place(c.frame + 1, 0) + c.remaining =
                             Place(s.start_frame, s.start_pos) + s.len

\* get and the lists have copied what was read.
Copied(c, s) ==
  /\ c.pc # "scan" /\ (c.pc = "done" => c.remaining = 0)
  /\ c.buf = SubSeq(ContentOf(s), 1, s.len - c.remaining)

\* A page has the lines before byte n that are on it, and is at that byte.
PageOf(c, lines) == SubSeq(lines, c.off + 1, Lesser(c.off + c.lim, Len(lines)))
InLine(c, s, n) ==
  LET cut == Cuts(ContentOf(s))[n]
  IN  c.buf = cut.cur /\ c.seen = Len(cut.lines) /\ c.items = PageOf(c, cut.lines)
Paged(c, s) ==
  /\ c.pc = "frame" /\ c.remaining > 0 => InLine(c, s, s.len - c.remaining)
  /\ c.pc = "done" \/ (c.pc = "frame" /\ c.remaining = 0) =>
       c.items = PageOf(c, LinesOf(ContentOf(s)))
  /\ c.pc = "scan" =>
       LET n == s.len - c.remaining
       IN  /\ Len(c.data) <= n /\ c.start <= Len(c.data)
           /\ c.data = SubSeq(ContentOf(s), n - Len(c.data) + 1, n)
           /\ InLine(c, s, n - (Len(c.data) - c.start))

\* A list has the sections from the first of the kind on, up to section m.
Listed(items, kind, m) ==
  LET first == FirstOfKind(kind)
  IN  /\ first <= m /\ Len(items) = m - first
      /\ \A i \in first .. m - 1 : /\ KindOf(sections[i].key) = kind
                                   /\ items[i - first + 1] = TextOf(sections[i])
OfKind(m, kind) == m \in DOMAIN sections /\ KindOf(sections[m].key) = kind

Reads(c) ==
  /\ c.pc # "error"
  /\ c.pc = "missing" => \A i \in DOMAIN sections : sections[i].key # c.key
  /\ c.pc \notin {"idle", "missing", "listed"} =>
       /\ c \in CallType /\ Located(c, sections[c.sec])
       /\ c.op # "list" => sections[c.sec].key = c.key
       /\ c.op # "lines" => Copied(c, sections[c.sec])
       /\ c.op = "lines" => Paged(c, sections[c.sec])
       /\ c.op = "list" => /\ c.pc = "frame" /\ c.items \in Seq(Text)
                           /\ Listed(c.items, c.key, c.sec) /\ OfKind(c.sec, c.key)
  /\ c.pc = "listed" =>
       /\ c.items \in Seq(Text)
       /\ \E m \in 1 .. Len(sections) + 1 : Listed(c.items, c.key, m) /\ ~OfKind(m, c.key)
Reading == Reads(rd)

IInv == EntriesFindText /\ Shape /\ Writing /\ Reading
=============================================================================
