-------------------------- MODULE MCChannelReader --------------------------
\* Instances of ChannelReader for TLC.
EXTENDS ChannelReader

\* There are empty chunks, chunks longer than a buffer and bodies longer than a
\* magic number.
ASSUME 0 \in ChunkLen /\ MaxBytes > 6
ASSUME \E n \in ChunkLen, b \in BufLen : n > b
=============================================================================
