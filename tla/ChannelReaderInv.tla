-------------------------- MODULE ChannelReaderInv --------------------------
(***************************************************************************)
(* The inductive invariant of ChannelReader that the theorems of           *)
(* ChannelReaderProofs rest on.                                            *)
(***************************************************************************)
EXTENDS ChannelReader

\* The m bytes that follow byte b of the body.
Bytes(b, m) == [i \in 1 .. m |-> b + i]

\* The chunk in hand goes on where the bytes returned end, and is dropped as soon
\* as it is used up.
InHand ==
  /\ got = Bytes(0, Len(got))
  /\ pos <= Len(got) /\ current = Bytes(Len(got) - pos, Len(current))
  /\ current = <<>> \/ pos < Len(current)

\* The chunks in the channel follow the chunk in hand and each other, up to the
\* last byte sent: chunk k comes after byte cut[k].
Follow(cut) ==
  /\ cut[1] = Len(got) - pos + Len(current) /\ cut[Len(chan) + 1] = total
  /\ \A k \in 1 .. Len(chan) :
       /\ chan[k] = Bytes(cut[k], Len(chan[k]))
       /\ cut[k + 1] = cut[k] + Len(chan[k])

InChannel == \E cut \in [1 .. Len(chan) + 1 -> 0 .. MaxBytes] : Follow(cut)

\* read has returned 0 only for a body that has ended.
Ended == eof => ~tx_open /\ chan = <<>> /\ current = <<>>

IInv == TypeOK /\ InHand /\ InChannel /\ Ended
=============================================================================
