------------------------------ MODULE AddrStore ------------------------------
(***************************************************************************)
(* What the parser may assume of the address database it fills             *)
(* (src/src/lib.rs:156-186, 229): records are put in any order; building   *)
(* it either fails or yields a map that holds one of the blobs put for     *)
(* every address put, and nothing else, but for what the disk has lost     *)
(* without the program's notice.  No runs, no threads, no order.           *)
(***************************************************************************)
CONSTANT Record          \* records with (at least) a field `addr'

VARIABLES records,       \* what was put
          lost,          \* what of it a failing disk has taken away unseen
          status,        \* "open", then "ready" or "failed"
          db             \* the map, once ready

vars == <<records, lost, status, db>>

EmptyMap == [a \in {} |-> a]

Maps(S) ==
  LET addrs == { r.addr : r \in S }
  IN  { m \in [addrs -> S] : \A a \in addrs : m[a].addr = a }

Init == records = {} /\ lost = {} /\ status = "open" /\ db = EmptyMap

Put(r) ==
  /\ status = "open"
  /\ records' = records \cup {r}
  /\ UNCHANGED <<lost, status, db>>

\* Once the map is there nothing of it is lost any more.
Lose ==
  /\ status # "ready"
  /\ lost' \in SUBSET records /\ lost \subseteq lost'
  /\ UNCHANGED <<records, status, db>>

\* The map is one of a set of records from which only lost ones are missing.
Build ==
  /\ status = "open"
  /\ status' = "ready"
  /\ \E kept \in SUBSET records : records \ lost \subseteq kept /\ db' \in Maps(kept)
  /\ UNCHANGED <<records, lost>>

Fail ==
  /\ status = "open"
  /\ status' = "failed"
  /\ UNCHANGED <<records, lost, db>>

Next == (\E r \in Record : Put(r)) \/ Lose \/ Build \/ Fail

SafeSpec == Init /\ [][Next]_vars

\* Filling the store does not go on for ever.
Spec == SafeSpec /\ WF_vars(Build \/ Fail)
=============================================================================
