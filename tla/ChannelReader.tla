---------------------------- MODULE ChannelReader ----------------------------
(***************************************************************************)
(* src/src/bin/ecd-server.rs, struct ChannelReader: the body of an upload, *)
(* which arrives in chunks on a bounded channel, as a std::io::Read for    *)
(* the parse thread; and src/src/scanner.rs, Scanner::from_reader, its     *)
(* first caller, which tells the compression by the first bytes.           *)
(*                                                                         *)
(* The bytes of the body are numbered from 1; a chunk is the sequence of   *)
(* the numbers of its bytes.  Only the first six have a value.             *)
(***************************************************************************)
EXTENDS Integers, Sequences

CONSTANTS ChunkLen,    \* lengths of the chunks the client's frames make
          BufLen,      \* lengths of the buffers `read' is called with
          PeekLen,     \* capacity of the first BufReader (65536)
          ChanCap,     \* capacity of the channel (64)
          MaxBytes, MaxChunks \* bounds on one body

ASSUME ReaderAssump ==
  /\ ChunkLen \subseteq Nat /\ BufLen \subseteq Nat \ {0}
  /\ PeekLen \in Nat \ {0} /\ ChanCap \in Nat \ {0}
  /\ MaxBytes \in Nat /\ MaxChunks \in Nat

Format == {"plain", "zstd", "gzip", "xz"}

\* ZSTD_MAGIC, GZIP_MAGIC, XZ_MAGIC; a plain dump starts with "=erl_c".
Magic == [plain |-> <<61, 101, 114, 108, 95, 99>>, zstd |-> <<40, 181, 47, 253>>,
          gzip |-> <<31, 139>>, xz |-> <<253, 55, 122, 88, 90, 0>>]

Lesser(m, n) == IF m < n THEN m ELSE n

VARIABLES
  fmt,                  \* the body's format
  total, nchunks,       \* bytes and chunks sent
  chan, tx_open,        \* the channel
  current, pos,         \* the reader's chunk (<<>> for None) and place in it
  rpc, want,            \* a read in progress and the length of its buffer
  got, eof,             \* bytes returned so far; read has returned 0
  detected              \* what from_reader took the body for

sendVars == <<fmt, total, nchunks, tx_open>>
readVars == <<current, pos, rpc, want, got, eof, detected>>
vars == <<sendVars, chan, readVars>>

Init ==
  /\ fmt \in Format
  /\ total = 0 /\ nchunks = 0 /\ chan = <<>> /\ tx_open = TRUE
  /\ current = <<>> /\ pos = 0
  /\ rpc = "loop" /\ want = PeekLen      \* from_reader calls fill_buf
  /\ got = <<>> /\ eof = FALSE /\ detected = "none"

-----------------------------------------------------------------------------
(* upload_dump: tx.send(chunk), and drop(tx).                              *)

SendChunk(n) ==
  /\ tx_open /\ Len(chan) < ChanCap
  /\ nchunks < MaxChunks /\ total + n <= MaxBytes
  /\ chan' = Append(chan, [i \in 1 .. n |-> total + i])
  /\ total' = total + n /\ nchunks' = nchunks + 1
  /\ UNCHANGED <<fmt, tx_open, readVars>>

DropTx ==
  /\ tx_open /\ tx_open' = FALSE
  /\ UNCHANGED <<fmt, total, nchunks, chan, readVars>>

-----------------------------------------------------------------------------
(* ChannelReader::read, one action per way through its loop.               *)

Read(n) ==
  /\ rpc = "idle" /\ ~eof
  /\ rpc' = "loop" /\ want' = n
  /\ UNCHANGED <<sendVars, chan, current, pos, got, eof, detected>>

\* Mutant: `pos' survives the chunk it belongs to.
MutCopy ==
  LET n == Lesser(Len(current) - pos, want)
  IN  /\ rpc = "loop" /\ pos < Len(current)
      /\ got' = got \o SubSeq(current, pos + 1, pos + n)
      /\ current' = IF pos + n >= Len(current) THEN <<>> ELSE current
      /\ pos' = pos + n
      /\ rpc' = IF detected = "none" THEN "detect" ELSE "idle"
      /\ UNCHANGED <<sendVars, chan, want, eof, detected>>

\* What is left of the chunk, as far as the buffer goes.
Copy ==
  LET n    == Lesser(Len(current) - pos, want)
      used == pos + n >= Len(current)
  IN  /\ rpc = "loop" /\ pos < Len(current)
      /\ got' = got \o SubSeq(current, pos + 1, pos + n)
      /\ current' = IF used THEN <<>> ELSE current
      /\ pos' = IF used THEN 0 ELSE pos + n
      /\ rpc' = IF detected = "none" THEN "detect" ELSE "idle"
      /\ UNCHANGED <<sendVars, chan, want, eof, detected>>

\* blocking_recv; an empty chunk is skipped.
Receive ==
  /\ rpc = "loop" /\ pos >= Len(current) /\ chan # <<>>
  /\ chan' = Tail(chan) /\ current' = Head(chan)
  /\ UNCHANGED <<sendVars, pos, rpc, want, got, eof, detected>>

\* Mutant: the end is not passed on to the caller.
MutReadEofWaits ==
  /\ rpc = "loop" /\ pos >= Len(current) /\ chan = <<>> /\ ~tx_open
  /\ current' = <<>>
  /\ UNCHANGED <<sendVars, chan, pos, rpc, want, got, eof, detected>>

\* The sender is gone and the channel empty: read returns 0.
ReadEof ==
  /\ rpc = "loop" /\ pos >= Len(current) /\ chan = <<>> /\ ~tx_open
  /\ current' = <<>> /\ pos' = 0 /\ eof' = TRUE
  /\ rpc' = IF detected = "none" THEN "detect" ELSE "idle"
  /\ UNCHANGED <<sendVars, chan, want, got, detected>>

-----------------------------------------------------------------------------
(* Scanner::from_reader.                                                   *)

ByteAt(i) == IF i <= Len(Magic[fmt]) THEN Magic[fmt][i] ELSE 255

\* Mutant: every magic number is looked up in six bytes, zstd's and gzip's too.
MutStartsWith(m, f) == m = [i \in 1 .. 6 |-> IF i <= Len(Magic[f]) THEN Magic[f][i] ELSE 0]

StartsWith(m, f) == SubSeq(m, 1, Len(Magic[f])) = Magic[f]

\* The first six bytes of the first read, filled up with zeroes.
Detect ==
  LET m == [i \in 1 .. 6 |-> IF i <= Len(got) THEN ByteAt(i) ELSE 0]
  IN  /\ rpc = "detect" /\ rpc' = "idle"
      /\ detected' = IF StartsWith(m, "zstd") THEN "zstd"
                     ELSE IF StartsWith(m, "gzip") THEN "gzip"
                     ELSE IF StartsWith(m, "xz") THEN "xz" ELSE "plain"
      /\ UNCHANGED <<sendVars, chan, current, pos, want, got, eof>>

\* The parser has read the whole body.
Terminated == eof /\ rpc = "idle" /\ UNCHANGED vars

ReaderStep == Copy \/ Receive \/ ReadEof \/ Detect \/ \E n \in BufLen : Read(n)

Next ==
  \/ \E n \in ChunkLen : SendChunk(n)
  \/ DropTx
  \/ ReaderStep
  \/ Terminated

\* The parse thread reads on until read returns 0.
Spec == Init /\ [][Next]_vars /\ WF_vars(ReaderStep)

-----------------------------------------------------------------------------
TypeOK ==
  /\ fmt \in Format /\ total \in 0 .. MaxBytes /\ nchunks \in 0 .. MaxChunks
  /\ chan \in Seq(Seq(1 .. MaxBytes)) /\ Len(chan) <= ChanCap /\ tx_open \in BOOLEAN
  /\ current \in Seq(1 .. MaxBytes) /\ pos \in 0 .. Len(current)
  /\ rpc \in {"idle", "loop", "detect"} /\ want \in BufLen \cup {PeekLen}
  /\ got \in Seq(1 .. MaxBytes) /\ eof \in BOOLEAN
  /\ detected \in Format \cup {"none"}

\* However the body is cut into chunks and buffers, the parser gets its bytes
\* in order, none twice and none left out, and a read of 0 bytes, which ends the
\* parse, means the end of the body and not an empty chunk or a slow client.
InOrder ==
  /\ TypeOK
  /\ got = [i \in 1 .. Len(got) |-> i]
  /\ eof => ~tx_open /\ Len(got) = total

\* A first read that brings the whole magic number picks the right decoder, and
\* a shorter one never the decoder of another format.  It may pick none: see
\* DetectedByMagic.
DetectsFormat ==
  [][detected' # detected =>
       /\ detected' \in {fmt, "plain"}
       /\ Len(got) >= Len(Magic[fmt]) => detected' = fmt]_vars

\* What scanner.rs:3-4 says of every dump, and what TLC refutes: a compressed one is
\* detected by its magic bytes, when they are there, however the body was cut into chunks.
DetectedByMagic ==
  [][detected' # detected /\ total >= Len(Magic[fmt]) => detected' = fmt]_vars

\* The parser sees the end of a body that has ended.
ReachesEof == ~tx_open ~> eof

=============================================================================
