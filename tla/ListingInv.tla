------------------------------ MODULE ListingInv ------------------------------
(***************************************************************************)
(* The inductive invariant of Listing that the theorems of ListingProofs   *)
(* rest on.                                                                *)
(***************************************************************************)
EXTENDS Listing

\* The numbers of the lines after line a, up to line b.
Stretch(a, b) == [i \in 1 .. b - a |-> a + i]

TypeOK ==
  /\ decodes \in Seq(BOOLEAN) /\ total <= MaxLines
  /\ cli \in [pc : {"none", "loop", "done", "failed"}, offset : 0 .. MaxLines, out : Seq(1 .. MaxLines)]
  /\ view.state \in {"none", "panic", "page"}

\* What `ecd proc' has shown are the entries up to some line e, the end of the
\* page it read last; the offset is not beyond e and at most a page behind.
Streamed ==
  /\ (\A i \in 1 .. total : IsEntry(i)) => cli.out = Stretch(0, cli.offset)
  /\ \E e \in 0 .. total :
       /\ cli.offset <= e /\ e <= cli.offset + PROC_STREAM_PAGE
       /\ Range(cli.out) = {i \in 1 .. e : IsEntry(i)}
       /\ cli.pc = "done" =>
            \/ e = total /\ ((\A i \in 1 .. total : IsEntry(i)) => cli.offset = total)
            \/ /\ e = cli.offset + PROC_STREAM_PAGE
               /\ \A i \in cli.offset + 1 .. e : ~IsEntry(i)

\* A page shown has a pager exactly if there is a line beyond the first page,
\* and a walk has seen all up to the end of the page.
Viewed(v) ==
  v.state = "page" =>
    /\ v.page \in Nat /\ v.per_page \in Nat /\ v.per_page < WORD
    /\ v.pager \in BOOLEAN /\ (v.pager <=> total > v.per_page)
    /\ v.pager => v.per_page > 0
    /\ v.walk = [on |-> v.walk.on, seen |-> v.walk.seen] /\ v.walk.on \in BOOLEAN
    /\ v.walk.on => v.walk.seen = Entries(Stretch(0, Lesser((v.page + 1) * v.per_page, total)))

IInv == TypeOK /\ Streamed /\ Viewed(view)
=============================================================================
