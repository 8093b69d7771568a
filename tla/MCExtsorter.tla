---------------------------- MODULE MCExtsorter ----------------------------
(* An instance of Extsorter for TLC. *)
EXTENDS ExtsorterInv

\* The records that the dump may have: one address with blobs of two lengths, the
\* shorter of them as long as that of the higher address.
MCKinds == {<<1, 0>>, <<1, 1>>, <<2, 0>>}

MCSpec ==
  Init /\ [][Next /\ \A r \in inserted' : <<r.addr, r.len>> \in MCKinds]_vars /\ Fairness
=============================================================================
