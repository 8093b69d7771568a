---------------------------- MODULE MCParseScanner ----------------------------
(* Instances of ParseScanner for TLC. *)
EXTENDS ParseScanner

\* A dump is long enough for two sections with a line each and one more.
ASSUME MaxLines >= 5 /\ PROGRESS < MaxLines
=============================================================================
