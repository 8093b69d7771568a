---------------------------- MODULE MCTextStore ----------------------------
\* Instances of TextStore for TLC.
EXTENDS TextStore

\* The kinds of the keys in the cfg: 1, of two of them, and 2.
\* A section can span three frames, and its lines several notes.
ASSUME MaxBytes > 2 * TEXT_FRAME_SIZE /\ MaxBytes >= 4 * LINE_INDEX_INTERVAL
=============================================================================
