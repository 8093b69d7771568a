----------------------------- MODULE MCDumpDir -----------------------------
\* Instances of DumpDir for TLC.
EXTENDS DumpDir, FiniteSets, TLC

\* Of two labels one is longer than the other.
ASSUME Labeller # {} => Cardinality(Label) > 1

\* The server's label tasks are alike, and so are its deletes; only safety is checked.
Symmetry == Permutations(Labeller) \cup Permutations(Deleter)
=============================================================================
