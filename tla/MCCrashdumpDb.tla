--------------------------- MODULE MCCrashdumpDb ---------------------------
(* Instances of CrashdumpDb for TLC.                                       *)
EXTENDS CrashdumpDb

\* A bucket and a frame fill up and another begins.
ASSUME MaxRecords > BUCKET_SIZE /\ \E n \in BlobLen : n > DATA_FRAME_SIZE
=============================================================================
