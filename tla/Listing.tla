------------------------------- MODULE Listing -------------------------------
(***************************************************************************)
(* How a process's stack, dictionary and messages are listed:              *)
(* src/src/dump_reader.rs cuts pages of a text section and decodes their   *)
(* lines; `ecd proc' (src/src/bin/ecd.rs) streams a section page by page;  *)
(* ecd-server (src/src/bin/ecd-server.rs) answers one page a request, with *)
(* a pager that leads to the others.                                       *)
(*                                                                         *)
(* A behaviour is about one section, and either one run of `ecd proc' or   *)
(* one browser: the two share nothing but the stores, which do not change. *)
(* A line is its number among the non-empty lines of its section.  That a  *)
(* page of the store is a stretch of them is PageCorrect of TextStore.     *)
(* The JSON of a page has the same entries and no pager; it is left out.   *)
(***************************************************************************)
EXTENDS Integers, Sequences, Functions

CONSTANTS MaxLines,           \* bound on the lines of a section
          PROC_STREAM_PAGE,   \* lines that ecd fetches at a time
          WORD                \* 2^w, for the w bits of usize

\* No section has half as many lines as usize has values.
ASSUME ListingAssump ==
  /\ MaxLines \in Nat /\ PROC_STREAM_PAGE \in Nat \ {0}
  /\ WORD \in Nat /\ 2 * MaxLines < WORD

VARIABLES
  kind,       \* the kind of the section
  decodes,    \* of each line, whether parse_term makes a term of it
  cli,        \* the loop of ecd proc over the section
  view        \* the page that the browser shows, and how it came there

vars == <<kind, decodes, cli, view>>

Lesser(m, n) == IF m < n THEN m ELSE n

-----------------------------------------------------------------------------
(* dump_reader.rs                                                          *)

total == Len(decodes)
Lines == [i \in 1 .. total |-> i]

\* A line of the stack is an entry, decoded or raw; an undecodable line of the
\* dictionary or the messages is left out.
IsEntry(i) == kind = "proc_stack" \/ decodes[i]
Kept(lines) ==
  LET kept[k \in 0 .. Len(lines)] == IF k = 0 THEN <<>>
        ELSE IF IsEntry(lines[k]) THEN Append(kept[k - 1], lines[k]) ELSE kept[k - 1]
  IN  kept
Entries(lines) == Kept(lines)[Len(lines)]

\* process_stack_page, process_dict_page, process_messages_page.
process_page(offset, limit) == Entries(SubSeq(Lines, offset + 1, Lesser(offset + limit, total)))

\* process: decode_stack, decode_term_lines.
process == Entries(Lines)

-----------------------------------------------------------------------------
(* ecd proc: stream_stack_section, stream_term_section.                    *)

\* Mutant: a page that is not full is the last one.
MutIsLast(items, offset) == Len(items) < PROC_STREAM_PAGE \/ offset >= total

\* Mutant: only the offset ends the loop.
MutIsLastNoEmpty(items, offset) == offset >= total

IsLast(items, offset) == items = <<>> \/ offset >= total

\* One round of the loop; the offset advances by the entries printed.
StreamPage ==
  LET items  == process_page(cli.offset, PROC_STREAM_PAGE)
      offset == cli.offset + Len(items)
  IN  /\ cli.pc = "loop"
      /\ cli' = IF total = 0 THEN [cli EXCEPT !.pc = "done"]
                ELSE [pc |-> IF IsLast(items, offset) THEN "done" ELSE "loop",
                      offset |-> offset, out |-> cli.out \o items]
      /\ UNCHANGED <<kind, decodes, view>>

\* The page cannot be read, or the output not written.
StreamFails ==
  /\ cli.pc = "loop" /\ cli' = [cli EXCEPT !.pc = "failed"]
  /\ UNCHANGED <<kind, decodes, view>>

-----------------------------------------------------------------------------
(* ecd-server: proc_stack_section, proc_dict_section,                      *)
(* proc_messages_section, proc_pager.                                      *)

\* Mutant: a last page that is not full is no page.
MutTotalPages(per_page) == total \div per_page

total_pages(per_page) == (total + per_page - 1) \div per_page

\* Mutant: pages count from 0, their number does not.
MutLastPage(v) == total_pages(v.per_page)

last_page(v) == total_pages(v.per_page) - 1

\* An overflow panics in a debug build and wraps in a release build; here each one
\* may do either.
Overflows(n) == n >= WORD
Panic(page, per_page) == [state |-> "panic", page |-> page, per_page |-> per_page]

\* The page is read, then the pager written.  `walk' is a history: the entries
\* of the pages seen since page 0, if no page was passed over.
Page(page, per_page, pager, walk) ==
  LET items == process_page((page * per_page) % WORD, per_page)
  IN  [state |-> "page", page |-> page, per_page |-> per_page, items |-> items,
       pager |-> pager,
       start |-> (page * per_page + 1) % WORD,
       end |-> Lesser(((page + 1) * per_page) % WORD, total),
       walk |-> IF page = 0 THEN [on |-> TRUE, seen |-> items]
                ELSE [walk EXCEPT !.seen = @ \o items]]

NoWalk == [on |-> FALSE, seen |-> <<>>]

\* The answers to a request for the HTML of a page: with no line beyond the first
\* page there is no pager, and with an empty page the division in it panics.
Html(page, per_page, walk) ==
  IF total <= per_page
    THEN {Page(page, per_page, FALSE, walk)} \cup
         (IF Overflows(page * per_page) THEN {Panic(page, per_page)} ELSE {})
  ELSE IF per_page = 0 THEN {Panic(page, per_page)}
  ELSE {Page(page, per_page, TRUE, walk)} \cup
       (IF Overflows((page + 1) * per_page) THEN {Panic(page, per_page)} ELSE {})

\* A request in a fresh browser, with any numbers in its URL.
Open(page, per_page) ==
  /\ cli.pc = "none" /\ view.state = "none"
  /\ view' \in Html(page, per_page, NoWalk)
  /\ UNCHANGED <<kind, decodes, cli>>

Close ==
  /\ view.state # "none" /\ view' = [state |-> "none"]
  /\ UNCHANGED <<kind, decodes, cli>>

HasPager == cli.pc = "none" /\ view.state = "page" /\ view.pager

Follow(page, walk) ==
  /\ view' \in Html(page, view.per_page, walk)
  /\ UNCHANGED <<kind, decodes, cli>>

FirstPage == HasPager /\ view.page > 0 /\ Follow(0, NoWalk)
PrevPage  == HasPager /\ view.page > 0 /\ Follow(view.page - 1, NoWalk)
NextPage  == HasPager /\ view.page < last_page(view) /\ Follow(view.page + 1, view.walk)
LastPage  == HasPager /\ view.page < last_page(view) /\ Follow(last_page(view), NoWalk)
\* The number field, with a value between its min and its max.
GoToPage  == HasPager /\ \E n \in 1 .. total_pages(view.per_page) : Follow(n - 1, NoWalk)

Pager == FirstPage \/ PrevPage \/ NextPage \/ LastPage \/ GoToPage

-----------------------------------------------------------------------------
Init ==
  /\ kind \in {"proc_stack", "proc_dictionary", "proc_messages"}
  /\ decodes \in UNION {[1 .. n -> BOOLEAN] : n \in 0 .. MaxLines}
  /\ cli \in [pc : {"none", "loop"}, offset : {0}, out : {<<>>}]
  /\ view = [state |-> "none"]

Terminated == cli.pc \in {"done", "failed"} /\ UNCHANGED vars

Next ==
  \/ StreamPage \/ StreamFails
  \/ \E page, per_page \in 0 .. WORD - 1 : Open(page, per_page)
  \/ Pager \/ Close
  \/ Terminated

Spec == Init /\ [][Next]_vars /\ WF_vars(StreamPage)

-----------------------------------------------------------------------------
\* `ecd proc' shows a section of which every line gives an entry once and in order.
\* In any section it passes nothing over: it shows the entries of all lines up to
\* the end, or up to a page's worth of lines without an entry, where it stops.
NothingSkipped ==
  cli.pc = "done" =>
    /\ (\A i \in 1 .. total : IsEntry(i)) => cli.out = process
    /\ \E e \in 0 .. total :
         /\ Range(cli.out) = {i \in 1 .. e : IsEntry(i)}
         /\ \/ e = total
            \/ e >= PROC_STREAM_PAGE /\ \A i \in e - PROC_STREAM_PAGE + 1 .. e : ~IsEntry(i)

\* The loop ends though its offset counts entries and its end counts lines.
ListingEnds == cli.pc = "loop" ~> cli.pc \in {"done", "failed"}

\* Whoever opens page 0 and follows "Next" to the end has seen what the whole
\* process, asked for at once, would have shown.
WalkShowsAll ==
  view.state = "page" /\ view.walk.on /\ (view.pager => view.page >= last_page(view))
     => view.walk.seen = process

\* The page is there, and is what its pager says of it.
InRange(v) ==
  /\ v.state = "page" /\ v.page <= last_page(v)
  /\ 1 <= v.start /\ v.start <= v.end /\ v.end <= total
  /\ v.items = Entries([i \in 1 .. v.end - v.start + 1 |-> v.start + i - 1])

\* No button leads to a page that is not there, to a panic or to an overflow, from
\* whatever URL the browser came.  ("Prev" of a page beyond the end may lead
\* beyond the end.)
PagerLeadsToPages ==
  [][/\ FirstPage \/ NextPage \/ LastPage \/ GoToPage => InRange(view')
     /\ PrevPage /\ view.page <= last_page(view) => InRange(view')]_view

\* src/src/bin/ecd.rs:561, "Stream dictionary entries page by page", under the
\* heading of src/src/bin/ecd.rs:634 that counts them: each is shown, once.
TermsOnce == cli.pc = "done" /\ kind # "proc_stack" => cli.out = process

=============================================================================
