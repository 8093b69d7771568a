----------------------------- MODULE MCListing -----------------------------
\* Instances of Listing for TLC.
EXTENDS Listing

\* A section can have two full pages and a third of undecodable lines only.
ASSUME MaxLines >= 3 * PROC_STREAM_PAGE
=============================================================================
