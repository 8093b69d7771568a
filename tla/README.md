# A verification of erl-crashdump-viewer

erl-crashdump-viewer reads the crash dump of an Erlang virtual machine, splits it
once into two indexed stores on disk, and answers questions about it from those
stores: as a command-line tool (`ecd`) and as an HTTP server (`ecd-server`).
This directory holds TLA+ models of its parts, the TLC configurations that
check them, and proofs about eight of the parts that hold for all sizes.

The repository is in `src/`, beside this directory, so its sorter is
`src/src/extsorter.rs`; section 1 leaves the first `src/` out.

## 1. The system

```
  file / HTTP body                           reads: CLI views, REST pages
        |                                        |                |
   [ChannelReader]  (server only)            [TermDecoder]        |
        |                                        |                |
   line scanner, format detection            [CrashdumpDb       [TextStore
        |                                      Reader::get]      get, pages]
   [ParseScanner] --- entries ---> [Extsorter] --> [CrashdumpDb Writer]
        |                            scan thread + spill worker   |
        +--------- other sections ------------------------> [TextStore Writer]

   around it:  [UploadJob] upload, parse, events, delete, crash of the server
               [DumpDir]   one dump's directory: parsed and read by ecd, read,
                           labelled and deleted by the server
   on top:     [Listing]   a process's sections, streamed by ecd, paged by the server
```

| component | code | state it keeps | operations | what is hard | what makes it correct |
|---|---|---|---|---|---|
| external sorter | `src/extsorter.rs` | run being filled, bounded channel, worker thread, run files, temporary directory, merge heap | `insert`, `spill_current`, worker loop, `finish`, `merge_runs`, `Drop` | two threads, a channel of capacity 1, any I/O step may fail, abandoned parses, duplicates over runs | nothing is lost but by a last write whose failure nobody sees; the database gets strictly ascending addresses with their own blobs; both threads end; bounded memory; no files left after a success |
| address database | `crashdump-db/src/lib.rs` | index bucket, data frame, both files, `meta.bin`, sparse and frame index; two caches in each `Reader` | `insert`, `flush_*`, `finish`; `open`, `get` | boundaries of buckets and frames, empty blobs, caches of one `Reader` under several threads | every lookup returns the blob inserted, or nothing |
| parser, line scanner | `src/lib.rs`, `src/scanner.rs` | kind of section, pending `=binary` address, open section writer, statistics | one handler per line, end of input | headers and lines in any order, cut dumps, errors | each line in its own section, each entry in the address store, statistics that match |
| text store | `src/textstore.rs` | frame being filled, section list, sparse line indexes | `begin_section`, `write` (two passes), `finish_section`, `finish`, `get`, `get_lines_range` | notes taken before the frames exist, lines across frames, equal keys | every section and every page is the text written |
| term decoder | `src/termdecoder.rs` | the line and its position; depth | heap terms, external format, string heuristic | graphs in damaged dumps, a depth limit, lengths of a binary format, base64 that is cut | the term the emulator had, or a visible failure |
| streaming reader | `src/bin/ecd-server.rs:36-85`, `src/scanner.rs:20-59` | current chunk, position | `read`, magic-number peek | chunks cut anywhere, empty chunks, end of the channel | bytes in order; the end only at the end; the right format (when the first chunk is long enough) |
| upload jobs | `src/bin/ecd-server.rs:463-758, 1291-1310` | job status and events, four tasks, the dump's directory | upload, parse thread, relay, background task, SSE, delete | interleavings, a client that stops, failing files, a crash | only whole dumps are served; streams end, told how; nothing hangs |
| CLI cache, and the server on the same directory | `src/bin/ecd.rs:151-266`, `src/bin/ecd-server.rs:741-848, 2433-2492, 2582-2597` | the directory of a dump: the two stores, `meta.json`, `.complete` | `ensure_parsed`; opening for a view; `label_update`; `delete_dump` | no lock; kills and crashes at any step; removal entry by entry; read, change, rewrite of a file | a hit means the content is parsed; a reader gets whole stores; an acknowledged label stays; a deleted dump stays deleted |
| listings of a process | `src/dump_reader.rs:75-255`, `src/bin/ecd.rs:582-646`, `src/bin/ecd-server.rs:1037-1141, 2079-2138` | the offset of the loop; the page in the browser | `stream_*_section`, the section endpoints, the pager | pages are cut by lines and hold decoded terms; any number in a URL | all terms, in order, once; the loop ends; the pager leads to pages that are there |
| other views | `src/dump_reader.rs`, `src/model.rs`, `src/bin/ecd-server.rs` | none beyond the stores | splitting of sections into fields, sorting, filtering | none | out of scope |
| CLI arguments, web pages, REST document | `src/bin/ecd.rs`, HTML constants, `docs/` | none | layout | none | out of scope |

The parts meet as follows. The parser owns an external sorter and a text store
writer and calls them line by line; at the end it finishes both. The sorter owns
a worker thread, reached over a channel, and at the end feeds a database writer.
The server runs the parser on a blocking thread and gives it a reader over a
channel; progress comes back over another channel and ends in a list of events
that any number of stream requests read. After the parse the stores are
immutable, and each request opens a `Reader` of its own on them; the caches belong to one
`Reader`, whose locks let several threads use it. Both programs
keep their dumps in `$XDG_CACHE_HOME/ecd`, so the server also lists, labels and
deletes what `ecd` has parsed, and `ecd` reads uploads by their ID: the directory
of a dump is shared memory of all of them.

## 2. Modules

| module | models | notes |
|---|---|---|
| `AddrStore` | the abstract promise of the address database | put records in any order; build fails or yields one blob for every address put, but for what a failing disk lost unseen (`Lose`, `lost`) |
| `Extsorter` | `extsorter.rs` | refines `AddrStore` |
| `ExtsorterInv` | | the inductive invariant, in layers |
| `ExtsorterProofs` | | theorems and proofs |
| `CrashdumpDb` | the database's writer and `Reader::get` | `get` is one action per file or cache access, so threads interleave |
| `CrashdumpDbInv`, `CrashdumpDbProofs` | | the inductive invariant; theorems and proofs |
| `ParseScanner` | `parse_scanner` | composed with `AddrStore` by `INSTANCE`: an entry is a `Put`, the end is `Build` or `Fail` |
| `ParseScannerInv`, `ParseScannerProofs` | | the inductive invariant; theorems and proofs |
| `TextStore` | the text store | |
| `TextStoreInv`, `TextStoreProofs` | | the inductive invariant; theorems and proofs |
| `EtfDecoder`, `EtfEncoder` | the external term format | the encoder is the emulator's side and is not in the repository |
| `TermDecoder` | heap terms and the string heuristic | uses both |
| `ChannelReader` | the reader of the body and format detection | |
| `ChannelReaderInv`, `ChannelReaderProofs` | | the inductive invariant; theorems and proofs |
| `UploadJob` | one upload from request to end of stream | |
| `UploadJobInv`, `UploadJobProofs` | | the inductive invariant; theorems and proofs |
| `DumpDir` | the directory of a dump under both programs | uses the parse as two steps, whose inside is in `ParseScanner` and `UploadJob` |
| `DumpDirInv` | | two inductive invariants |
| `DumpDirProofs` | | theorems and proofs |
| `Listing` | pages of a process's sections | takes from `TextStore` that a page is a stretch of non-empty lines (`PageCorrect`) |
| `ListingInv`, `ListingProofs` | | the inductive invariant; theorems and proofs |
| `MC*` | | definitions of the constants for TLC where a `.cfg` cannot state them; one per model |

### How states and actions correspond to the code

**Extsorter.** `pc` is where the scan thread is: filling (`scan`), blocked in a
send (`send`, `send_last`), dropping its sender (`close`), in `join`, opening the
runs (`open`), merging (`merge`), and dropping its temporary directory, which a
failed or abandoned sorter does too: first the files go (`drop`), then the
directory (`rmdir`), and the worker may create one in between. `wstate` is where the worker is; a run file exists,
empty, between `CreateRunFile` and `WriteRunFile`. `Insert` swaps a full run out
and starts a send as one step, because nothing else sees the buffer;
a send and a receive are steps of their own. There are two ways a write fails.
`WorkerError` and `MergeError` are the failures that the code reports. `LoseTail` is the
one that it does not: the last flush of a run file happens when the `BufWriter` that
`enc.finish()` returned is dropped, and its error is thrown away. The file then ends early,
inside a blob (`cut`) or not; `lost` is the history of what was not written. The merge
takes the end of such a file for the end of the run, unless it is inside a blob
(`BlobCut`). `Abandon` is the drop of the sorter by a parse that has failed elsewhere. The sort is unstable
(`sort_unstable_by_key`), so `Sortings` is the set of all permitted results, and
the heap orders by (address, length) only, so of equal heads any may come first.
`id` is a ghost field: it makes two records with equal address and length
differ, which is how a blob that ends up under the wrong record is seen.

**CrashdumpDb.** A byte is the pair of its address and its index, so content that is
cut at the wrong place is recognised. The writer's steps are `Insert` with its
two conditional flushes, the flush of the rest, the writing of `meta.bin`, and a
failure. Compression is external: a chunk's size on disk is a function of its
content and differs from its length. A lookup goes sparse index, bucket (from
the cache or the file), binary search, frame (cache or file), slice. `finish` creates
`meta.bin` before it has anything to put into it, so `meta` is `none`, `torn` or `whole`, and
a failure there may leave a torn one; readers open only a whole one. The
two caches belong to one `Reader` that several threads use; the lock is held over the
read of a chunk, so a look into a cache and filling it are one step.

**ParseScanner.** A line is what the parser makes of it: a header of some kind, or a
data line that parses as an entry of an address or does not. The text of a line
is its number, so a line in the wrong section is recognised. What a failing disk takes from
the address store (`Lose`) the parser does not see; it counts as duplicates what is missing.

**TextStore.** Pass 1 of `write` simulates where bytes will land and notes the
starting places of lines; pass 2 copies and flushes. `Pass1` and `Pass2` are what each
has done after each byte of the data, and `Write` takes the last value of both in one
action, because the writer is owned by one thread. The reader's
loop is one action per frame and per line. `list_kind` finds the first section of
its kind by `partition_point` and reads one section after the other.

**TermDecoder.** An initial state and a few steps build a heap of emulator objects
(and may leave entries out, or cut the last line); then one line is decoded.
Text is a sequence of tokens. The characters of base64 data
are tokens of their own, two to a byte, so that a cut can leave data that still
decodes; `Panic` is an outcome, of the slice behind data that is shorter than its length says.
`EtfEncoder` follows the emulator and not the decoder's comments: only a list of bytes
is a `STRING_EXT`, a fun `M:F/A` is an `EXPORT_EXT`, funs have their old and their new form, and
Size of `NEW_FUN_EXT` does not count the tag. `Shows` says how the decoder shows each of
them. The decoder is recursive, as in the code.

**UploadJob.** `hpc`, `ppc`, `rpc`, `bpc`, `sse` and `dpc` are the handler, the parse
thread, the relay, the background task, the streams and the delete. Each step is
one await or one critical section. `disk` survives a crash, the rest does not.
A stream sends into a channel of `SseCap` events
(16 in the code): `got` is what was sent, `taken` what the response has taken out for the
client, and a task whose channel is full is `Blocked` until the client reads on
(`ClientTakes`) or has left (`StreamLost`).
One job is modelled since jobs share nothing but the two maps they are keys of.

**ChannelReader.** `Copy`, `Receive` and `ReadEof` are the three ways through the loop
of `read`. The peek is the first read.

**DumpDir.** `pc` is where an `ecd` process or a view is: looking for `.complete`,
removing the directory, creating it, parsing, writing the two files, opening the
address store, then the text store, then reading. `lab` and `del` are the label
updates and the deletes. Removal takes entries one by one in any order
(`RemoveEntry`), then the directory by its name (`RemoveDir`); a delete that has opened a
directory that somebody else removed is `stray`: it finds nothing in a new one. Stores
are one piece of data with the values none, partial, whole, and torn (truncated,
or partly removed and rewritten, beside an old `meta.bin`); an open handle keeps
the files it was opened on (`Frozen`). `fs::write` on
`meta.json` is a truncation and a write. `hurt`, `deleted` and `acked` are history: a delete has begun on this
directory; the last one was answered OK; the last label acknowledged without another
update beside it. A server crash ends its tasks; `Stop` is the end of any reader,
a kill included.

**Listing.** A section is a sequence of lines of which each may or may not decode.
`StreamPage` is one round of `ecd`'s loop. For the server, `Open` is a request with any
`page` and `per_page`, and `FirstPage` to `GoToPage` are the buttons, with the
`per_page` that `build_extra_qs` carries along. Products are taken modulo `WORD`,
and may panic instead, as a debug build does.

## 3. What the runs check

Run one with `tlc -workers 2 -config <run>.cfg <module>`. Only `DumpDir_all` uses symmetry
(of the label tasks, and of the deletes), and it checks invariants only.

### Passing runs

| run | what it shows | bounds, and why they are enough |
|---|---|---|
| `Extsorter_all` | Filling, spilling and merging, with I/O failures that are reported and last flushes that are lost. `NoRecordLost`: until a failure is reported, each record inserted is in a buffer or a run file, or in `lost`. `MergeAfterWorker`: runs are opened after the worker has gone, and what they do not hold is in `lost`. `WriterInputAscending`, `BlobsKeepTheirAddress`, `AllAddressesWritten`: what the database gets, every address but those of lost records. `CutBlobIsError`: no Ok over a file that ends inside a blob. `RunFilesCleanedUp`: nothing stays after a success. `IInv`, the invariant of the proofs; `ThreadsEnd`; `ImplementsAddrStore`. | Runs of 2 records, 5 records: two full runs and a rest, so the third send can block and the worker can fail under it. The records (`MCKinds`) are one address with two lengths and a higher one with the shorter length: duplicates of equal and different length within a run and across three, and files that are cut at every entry and inside a blob. |
| `CrashdumpDb_all` | `WriterInv`: after every insert each record has an index entry that leads to its whole blob, and chunks lie where the indexes say. `GetCorrect`: every answer in a database that holds a byte is exact, and the caches hold what the files hold; `GetReturns`. Two threads look up with one `Reader`. | Buckets of 2 entries and frames of 2 bytes with up to 3 records of 0, 1 or 3 bytes: buckets and frames that fill exactly, overflow, or stay open; a blob longer than a frame; lookups below, between and above. |
| `UploadJob_all` | `CompleteMeansParsed`, `SettledJob`: disk against status. `ClosedStreamTold`, `StreamInOrder`: streams. `UploadEnds`: handler and parse end. `JobEnds`: a job is settled, whatever the clients of its streams do, and a stream ends unless its client leaves the channel full for good. | 2 chunks through a channel of 1, so the handler can be blocked; 2 progress messages, so a batch can hold several events; one stream, since streams only read, with a channel of 1 event (`SseCap`), less than a batch. |
| `ChannelReader_all` | `InOrder` (and the end is the end), `ReachesEof`; `DetectsFormat`: no other compressed format is ever found, and the format is right if the first read brought a whole magic number. | Chunks of 0, 1, 3, 6 bytes and buffers of 1 and 2 give each relation of chunk to buffer; 8 bytes pass the longest magic number (6). |
| `TextStore_all` | `EntriesFindText`: each text has an entry of its own that leads to the bytes written, and a noted line starts where the frames put it. `GetCorrect`: what `get`, `list_kind`, `list_all` and `has_section` return. `PageCorrect`: a page is the stretch of non-empty lines asked for. | Frames of 3 bytes, notes every 2 lines, 8 bytes, 2 sections with keys of two kinds, equal or different: lines over two frames, sections over three, several notes, pages that start before, at, after a note and past the end; a kind before, after and between others, or absent. |
| `DumpDir_all` | `HitMeansParsed`: `.complete` stands only beside whole stores, until a delete has begun. `ReadsWhole`: whoever has opened both stores reads whole files. `LabelKept`, `DeletedStaysDeleted`. | One `ecd` process that runs again and again, one view, two label updates and two deletes: all pairs of tasks meet, and a task that is interrupted by one that was interrupted; two labels, of which one is longer than the other. |
| `Listing_all` | `NothingSkipped`: `ecd` shows every term, up to the end or to a page of undecodable lines. `ListingEnds`. `WalkShowsAll`: the pages followed from the first are the whole. `PagerLeadsToPages`: no button leads nowhere, or into an overflow. | Up to 6 lines in pages of 2: two pages and a third of undecodable lines, any pattern of them before. 16 stands for 2^64: page numbers and sizes from 0 to 15, with products up to 225, wrap at all places. |
| `ParseScanner_all` | `SectionsFaithful`, `RecordsFaithful`: each line is where it belongs. `StatsRight`: counters, progress, the marker of an incomplete dump. | Every dump of up to 5 lines: two sections with lines and one more header or line, in any order; progress every 2 insertions. |
| `TermDecoder_all` | `DecodesHeap`: a pointer decodes to the emulator's term, with what is missing or too deep marked, or fails if an entry is cut. `DecodesForeign`: every encoding of a set of external terms, on a whole line, with bytes that are missing or wrong, and on a line cut anywhere; not about terms with a `NEW_FUN_EXT` inside (`FunsInsideDecode`). `StringsShown`: a list is shown as a string exactly if it is one of printable characters down to the depth limit; not about lists with an integer from 2^32 on (`OnlyStringsAsStrings`). | 3 addresses and a depth limit of 3: sharing, cycles, a term at the limit and one beyond, a list of three cells. `MCForeign` has terms for every tag of the decoder, alone and nested. `U32` = 512 stands for 2^32, and the integers 65, 7 and 577 = 512 + 65 for a printable one, one that is not, and one that the cast to 32 bits makes printable. |

Deadlock is checked except in `TextStore_all`, `ParseScanner_all` and
`TermDecoder_all`, whose behaviours end: the bounded input is used up, a writer has
failed, or the one line has been decoded. Elsewhere a `Terminated` (or `Stopped`)
step says which states may be final, so a deadlock anywhere else is found.

### Runs that find a violation

| run | what the code does | what is said of it |
|---|---|---|
| `Extsorter_flush` | The last flush of a run file fails unseen (`src/src/extsorter.rs:217`), `read_header` takes every early end for the end of the file (231), and `finish` returns Ok with records missing. `PartialReadIsError` fails. | "Returns `None` at a clean EOF, or an error on a partial read" (`src/src/extsorter.rs:223`) |
| `DumpDir_two` | Two `ecd` processes on one dump share the directory without a lock. One creates `.complete` while the other has removed or truncated the files and is still parsing (`src/src/bin/ecd.rs:167-181`). | "a hit means the content is already parsed" (`src/src/bin/ecd.rs:156-158`) |
| `Listing_terms` | The listing advances by the terms it decoded, and pages are cut by lines (`src/src/bin/ecd.rs:640`). After an undecodable line the next page begins too early and a term is printed twice; a page of undecodable lines ends the listing. | "Stream dictionary entries page by page" (`src/src/bin/ecd.rs:561`), with "the total count of available items" (`src/src/model.rs:51`) |

### Other statements of the documentation that do not hold

Each of these is written down as a definition beside the property that does hold. TLC
refutes it when it is added to the configuration named; no run has it.

| definition | configuration | what the code does | what is said of it |
|---|---|---|---|
| `AtMostTwoRuns` | `Extsorter_all`, `RunSize = 1` | Three full runs are in RAM, with the worker, in the channel and in the blocked send (`src/src/extsorter.rs:77`). That three is the maximum is proved (`MemoryBound`). | "at most two full runs live in RAM at once" (`src/src/extsorter.rs:13-14`; 74-76) |
| `EveryAddressAnswered` | `CrashdumpDb_all` | A database of empty blobs only has no data frame, and `get` of an address that is there is an error (`src/crashdump-db/src/lib.rs:307`). `GetCorrect` is about the others. | "`data` may be empty" (`src/crashdump-db/src/lib.rs:129`), and `None` only "if the address is not in the database" (270) |
| `DetectedByMagic` (a `PROPERTY`) | `ChannelReader_all` | One `fill_buf` is all the format is told from (`src/src/scanner.rs:38-40`). A compressed body whose first chunk is shorter than the magic number is read as plain text. `DetectsFormat` says what is promised. | "Transparently handles plain-text, zstd-, gzip-, and xz-compressed dumps (detected by magic bytes, not file extension)" (`src/src/scanner.rs:3-4`) |
| `FunsInsideDecode` | `TermDecoder_all` | `rest[size - 1..]` leaves the last byte of a fun to what follows it in a tuple, list or map (`src/src/termdecoder.rs:546`), because Size does not count the tag in the external term format. | "ETF blobs stored in the dump are decoded and rendered as readable Erlang terms" (`src/README.md:43`); the comment "Size includes the tag byte" (`src/src/termdecoder.rs:537`) |
| `CutEntriesAnswered` | `TermDecoder_all` | A dump that ends in base64 data may leave data that decodes, and the slice behind it panics (`src/src/termdecoder.rs:383`) for every reference to the entry. | "renders truncated heap references as `(dump_truncated)`" (`src/README.md:27`) |
| `OnlyStringsAsStrings` | `TermDecoder_all` | An integer is cut to 32 bits before the test for a printable character (`src/src/termdecoder.rs:851`): [4294967361], 2^32 + 65, is shown as "A". | a list is a quoted string "if and only if every element / byte is a *printable Latin-1 character*" (`src/src/termdecoder.rs:9-10`) |
| `AllStringsAsStrings` | `TermDecoder_all`, `MAX_DEPTH = 2` | Each cell is a level of depth (`src/src/termdecoder.rs:88`), so a list of more than `MAX_DEPTH` (128) printable characters is shown as a list that breaks off. | the same |

### Fairness

Weak fairness only, of threads and tasks of the program itself:

- `Extsorter`: of the scan thread and of the worker; both are operating system
  threads. That the scan thread gets to the end needs the input to end; the
  bound on records stands for that.
- `CrashdumpDb`: of a lookup in progress. Nobody has to start one.
- `ChannelReader`: of the reader, not of the client: `ReachesEof` says that *once
  the sender is dropped* the reader gets there.
- `Listing`: of the rounds of `ecd`'s loop, a program of one thread. Nobody has to
  open or turn a page.
- `DumpDir`: none; each task may stop anywhere, and only safety is claimed.
- `UploadJob`: of the parse thread, the relay, the background task, each stream's
  task, and of the handler where it needs nothing from the client (passing on a
  chunk it has, cleaning up, dropping the channel after a failed send). Not of the client,
  which need neither send nor read on (`ClientTakes`, `StreamLost`), so a stream's task that
  is `Blocked` may stay so; nor of the delete request or the crash; each liveness property has a crash as a way
  out. `JobEnds` is about uploads that were answered with a job id.

## 4. What is proved

Eight of the nine models have their safety proved for every value of the
constants; `TermDecoder` is left to TLC. Each `...Inv` module
states the inductive invariant `IInv`, which TLC checked on the instances of section 3
before it was proved; each `...Proofs` module proves that `Init` gives it,
that every action keeps it (a lemma per action or per layer) and that it gives the
properties of the runs. The assumptions are those each model states on its
constants: that numbers are numbers, that capacities, page and buffer sizes are
not 0, that a marker like `NoAddr` is none of the values. `Invariance` is
`Spec => []IInv` everywhere.

### External sorter

`ExtsorterProofs` proves eleven theorems for every set of addresses, every set of blob
lengths, every run size and every number of records (assumptions: `ConstAssump` in
`Extsorter`, that these are natural numbers and the run size is not 0).

| theorem | property |
|---|---|
| `Invariance` | `IInv` |
| `TypeCorrect` | `TypeOK` |
| `MemoryBound` | `AtMostThreeRuns` (no run has it) |
| `Conservation` | `NoRecordLost` |
| `FilesComplete` | `MergeAfterWorker` |
| `StrictlyAscending` | `WriterInputAscending` |
| `BlobsFaithful` | `BlobsKeepTheirAddress` |
| `Completeness` | `AllAddressesWritten` |
| `CutsNoticed` | `CutBlobIsError` |
| `CleanedUp` | `RunFilesCleanedUp` |
| `RefinesAddrStore` | `Store!SafeSpec`, the safety part of `ImplementsAddrStore` |

`Conservation`, `FilesComplete`, `Completeness` and the refinement are up to `lost`, the records
that a last flush did not write: a `finish` that returns Ok may miss their addresses
(`Extsorter_flush`), and no others.

The argument. None of the properties is inductive alone; `IInv` (module
`ExtsorterInv`) adds what they rest on, in five layers that the lemmas go through
in this order.

1. `Control`: which positions of the two threads go together. If the scan thread
   opens the runs, its sender is dropped, the channel is empty and the worker has
   exited; a task slot is used exactly in the positions that own a task.
2. `Numbering`: each run number below `run_count` belongs to exactly one of the
   blocked send, the queue, the worker and the finished files, as long as nothing
   has failed. This is why no run file is written twice and why, when the worker
   is gone and the queue empty, each run has its file (`MergeAfterWorker`).
3. `Contents`: buffers, files and `lost` hold inserted records only, and files are sorted.
   `RecordsMove` says that a step moves records between buffers and files, or from a buffer to
   `lost`, and drops none before a failure is reported; it gives `NoRecordLost`.
4. `Merging`: each run has been read up to some place; what was read has its
   address in the output, what was not is announced by the one header the run has
   in the heap, and no header is below `prev_addr`. With the heap's order this
   gives strictly ascending output, and at an empty heap the completeness of it.
5. `Cuts`: a run whose file ends inside a blob keeps a header in the heap, in the end that of
   the cut blob, which no round can pop; so the merge cannot end with Ok (`CutBlobIsError`).

`TypeStep`, `ControlStep`, `NumberingStep`, `ContentsStep`, `MergingStep`, `CutsStep` and one lemma per
property show that each layer survives a step given the ones before; `NextIInv`
collects them. For the refinement, `StoreStep` shows that an insert is a `Put`,
the last round of the merge is a `Build` (by `WrittenMapIsOne` the output is
then one of the maps that the abstract store permits), a lost flush is a
`Lose`, the first reported failure is a `Fail`, and every other step a stutter.

`ParseScanner` is composed with `AddrStore`, not with `Extsorter`: the refinement is
what permits that.

### Dump directory

`DumpDirProofs` proves five theorems for every set of processes, views, label updates,
deletes and labels (assumption: `DumpDirAssump` in `DumpDir`, that labels are
numbers and `None` is none of the others).

| theorem | property | where |
|---|---|---|
| `TypeCorrect` | `TypeOK` | always |
| `DeletedForGood` | `DeletedStaysDeleted` | always |
| `LabelsKept` | `LabelKept` | always |
| `HitsParsed` | `HitMeansParsed` | at most one `ecd` process (`OneEcd`) |
| `ReadersReadWhole` | `ReadsWhole` | at most one `ecd` process (`OneEcd`) |

`OneEcd` is needed: `DumpDir_two` is the counterexample with two. `DeletedStaysDeleted`
is inductive alone. The others rest on two invariants of `DumpDirInv`.

- `LabelInv`: no `ecd` process prepares a dump of the server (`ServerOnly`), and
  an update that has been alone since it looked for the dump is still alone, and
  finds `meta.json` as empty as it made it, unless a delete has taken the file
  (`Alone`); so it is not written over longer text, and what it writes is shown.
- `StoreInv` adds what the position of the `ecd` process says of the disk
  (`Parsing`): no marker until the end, no directory before it is created, stores
  that are empty or its own while it parses, and whole stores when it goes on to
  `meta.json` and `.complete`, unless a delete has begun. So the stores are never
  torn, and a handle, on whatever the disk holds or held, is on a whole one (`Reading`).

`Handles` goes with `TypeOK`: only a store that opens has handles, which is what gives
`Frozen` its type. Each of the layers has a lemma for each kind of task: `ecd`, reader,
label update, delete.

### Address database

`CrashdumpDbProofs`, for every set of addresses and blob lengths, every bucket and frame
size, and any number of threads (`DbAssump`):

| theorem | property |
|---|---|
| `WriterKeeps` | `WriterInv` |
| `GetAnswers` | `GetCorrect` |

`GetCorrect` is about databases that hold at least one byte of data (`HasData`); of the others
see `EveryAddressAnswered` in section 3.

`IndexInv` says that buckets ascend and that the sparse index has the first address of
each, `DataInv` that frames tile the data stream. With `EveryRecordIndexed`, an
entry's frame is the only one its offset can be in. For the readers, `Phases` says that nothing is left in
the writer's buffers when they come, and `Gets` what each thread has established so far: that the bucket
it took is the only one that may have the address (`Chosen`), that the search has
excluded what is outside `lo..hi` (`Narrowed`), that the entry in hand is of the address
(`Found`). None of it is undone by another thread, because files never change again and
the caches hold only what the files hold (`CachesFaithful`).

### Upload job

`UploadJobProofs`, for every number of chunks, progress messages and streams and
every capacity of both channels (`JobAssump`):

| theorem | property |
|---|---|
| `TypeCorrect` | `TypeOK` |
| `MarkerCommits` | `CompleteMeansParsed` |
| `StatusSettled` | `SettledJob` |
| `StreamPrefix` | `StreamInOrder` |
| `EndIsTold` | `ClosedStreamTold` |

`Stages` says where the background task can be, given the handler, the parse and the
status; `Commit`, `Written` and `Settled` what is then on the disk, a crash included.
`Streams` is the reason why no stream closes too early: the terminal event is pushed
before the status is set, so a stream whose copy of the status is final has that
event among those it took from the list.

### Streaming reader

`ChannelReaderProofs`, for every body, every way to cut it into chunks, and every buffer
(`ReaderAssump`):

| theorem | property |
|---|---|
| `BytesInOrder` | `InOrder` |
| `FormatDetected` | `DetectsFormat` |

`DetectsFormat` promises the right format only if the first read brings the whole magic number;
for shorter ones see `DetectedByMagic` in section 3.

`InHand` says that the chunk being read goes on where the bytes returned end and is dropped once
used up; `InChannel` that the chunks waiting follow it and each other, by the list of places
where they were cut. `Ended` follows: 0 is returned only when the sender is gone and the
channel empty.

### Parser

`ParseScannerProofs`, for dumps of any length, with any addresses (`ParseAssump`):

| theorem | property |
|---|---|
| `SectionsKept` | `SectionsFaithful` |
| `RecordsKept` | `RecordsFaithful` |
| `StatisticsRight` | `StatsRight` |

`Context` says that what the parser remembers (kind of section, pending `=binary`, `=end` seen)
is what the last header of the dump says. From it follow `Streaming` and `Finished`: the
section being written has the lines under the last header, the finished ones are
the others that have a line. `Counted` pairs insertions with lines of the dump, so that
the counters add up.

### Text store

`TextStoreProofs`, for all keys, every frame size and interval of the line index, and texts
and pages of any length (`TextAssump`: sizes and intervals are not 0, keys, offsets and
limits are natural numbers):

| theorem | property |
|---|---|
| `TextFound` | `EntriesFindText` |
| `PagesRight` | `PageCorrect` |
| `GetsRight` | `GetCorrect` |

`IInv` (module `TextStoreInv`) adds to `EntriesFindText` what the writer and a reader know.

1. `Writing`: the section in progress ends where the store does, and its notes are
   about the bytes written so far. `Stored` says what is at a place of the store, in a
   frame or in the one being filled, so that a flush changes nothing (`CopyByteStores`); by
   `Pass2Stores` a write adds its data at the end. `SimByteInStep` shows that a byte of pass 1
   moves the foreseen place by one and notes it exactly when a multiple of the interval is
   reached, so after the whole data the notes are where pass 2 has put the
   lines (`Pass1InStep`). That is the claim of the comment at `textstore.rs:261-262`.
2. `Shape`: the index is sorted once the store is closed. Sorting applies a permutation, and
   permutations compose (`Compose`), so that each text keeps an entry of its own.
3. `Reading`: at which byte of its section a call is. `FrameIs` shows that a frame read from
   there holds the next bytes of the section and that the next frame goes on behind them. A get
   or a list has copied the bytes before it (`Copied`). A page has the lines that end before it,
   as far as they are on the page, and the beginning of the line it is in
   (`Paged`): for a jump this is what the note says, for a scan it is `CutsPiece` (bytes
   without a newline) and `PageNext` (one line more). A full page does not change with the
   lines after it (`PageFull`). A list has the sections from the first of the kind up to the
   one being read (`Listed`).

`GetCorrect` follows by counting: in a sorted index the sections of a kind are next to
each other (`KindRange`), and the permutation is one to one, so a text is listed as often
as it was written (`ListDone`, `IndexDone`).

`Cuts`, `Pass1` and `Pass2` are recursive functions on numbers. That they exist is proved
once, for folds (`FoldExists`, `FoldStays`), by induction over the set of numbers for which
it holds (`NatSet`).

### Listings

`ListingProofs`, for sections of any length with any lines undecodable, every page size and
every width of `usize` with room for twice the lines (`ListingAssump`):

| theorem | property |
|---|---|
| `NothingPassedOver` | `NothingSkipped` |
| `WalkComplete` | `WalkShowsAll` |
| `PagerWorks` | `PagerLeadsToPages` |

`Streamed` says that what `ecd` has shown are the terms up to the end of the page it
read last, and that its offset is at most a page behind that end; `Viewed` that
a page has a pager exactly if there is a line beyond the first one, and that a walk has seen all up
to the end of its page. `Entries`, which drops undecodable lines, is a recursive function
on sequences; the lemmas about it go by induction over the set of
lengths for which they hold.

### Only model-checked

- Liveness and fairness, which the prover does not treat here: `ThreadsEnd`,
  `ImplementsAddrStore` beyond its safety part, `GetReturns`, `UploadEnds`, `JobEnds`,
  `ReachesEof`, `ListingEnds`.
- `TermDecoder` (`DecodesHeap`, `DecodesForeign`, `StringsShown`): the decoder and
  the encoder are recursive operators, and their agreement is an induction over data.

## 5. What is not modelled, and what the models leave out

- Formatting, HTML, JSON layout, escapes, command lines, logging: no state.
- Compression and the file format of `meta.bin`: external or a fixed layout.
- Characters. A line that is not UTF-8 ends the whole parse (`scanner.rs:64-66`), and
  a bad entry line with a multi-byte character across byte 60 makes the warning
  itself panic (`lib.rs:184`); in `ParseScanner` a failing read stands for both.
- Power failure. A crash is that of the process. Nothing is flushed to the disk
  before `.complete`, in the CLI or the server, so a power failure may keep
  `.complete` and lose data.
- Blob lengths are stored in 32 bits and `read_at` may read less than asked; neither
  is within reach of small instances.
- The size of the runtime's pool of blocking threads: an upload holds one of them
  while its client sends.
- `TermDecoder` cuts text between tokens; a cut inside a number or a pointer gives
  another number or pointer, which no decoder could notice. The characters of base64 data are
  tokens, so a cut may come between any two of them.
- Opening a torn `meta.bin`: with a short magic number it is an error, with less than its
  indexes the code panics or stops short. A parse that failed has no `.complete`, so neither program
  opens one.
- The views that split process, ETS and memory sections into fields, sort and filter
  them (`dump_reader.rs:190-395`, `ecd-server.rs:851-954, 1143-1289`): functions of
  what `list_kind` and `get` return, with no state. Their opening of the stores is in
  `DumpDir`.
- In `DumpDir`, the stores are one piece of data; the upload that
  writes a server's dump is in `UploadJob`, and `DumpDir` begins when it is finished.
- The number of open files, and file systems on which an open file does not outlive
  its name.

### Behaviour met while modelling that no run decides

- A label put on a dump that `ecd` parsed is acknowledged and never shown: its
  `meta.json` has no `uploaded_at`, so the server's `MetaFile` does not parse
  (`ecd-server.rs:2463-2465`). `LabelKept` is therefore about uploads. `ecd list` in
  turn shows uploads as "(no metadata)" (`ecd.rs:315`).
- Two updates of a label that overlap may end in either, or, when a shorter text is
  written over a longer one, in a `meta.json` that is no JSON: the name of the file is
  lost and every later update is answered 500. A crash between
  truncating and writing leaves an empty file, with the same effect.
- A delete that is interrupted may have removed the stores and left `.complete`: the
  dump is listed, each view of it fails, and for `ecd` it is a hit. Two deletes beside a
  new parse can do the same. `HitMeansParsed` excludes directories on which a delete
  has begun.
- The clean-up after a request without a dump field (`ecd-server.rs:555`) can run before the parse
  thread creates the directory, which then stays.
- The pager divides by `per_page`, so `per_page=0` panics the handler for a section that has
  lines (`ecd-server.rs:2094`). "Prev" from a page beyond the end leads to another
  one beyond the end. The pager's and the CLI's numbers of entries, and `total` in JSON,
  count lines, not the terms shown.
- `docs/REST.md:173-175` says that a label is answered as plain text and empty when unset;
  the code answers HTML, with the file's name when unset.
- The relay can append a progress event after the terminal one, and a stream may
  deliver it (`docs/REST.md:133`).
- If `.complete` cannot be written, this is logged only: the job is done, and
  the dump is answered 404.
- An upload broken off by the client leaves its job running and its directory in
  place. The job's id was never sent to anyone.
- `=binary` followed by an empty line stores an empty blob; the progress message is
  repeated for each further data line while the total is a multiple of 500,000.
- A binary that is missing from the dump is shown as empty; leaves of a hash map that
  are missing or too deep are dropped without a mark; shared terms are decoded
  once per reference, which is exponential in the worst case.

## 6. Plan

Done, in this order: `Extsorter` with `AddrStore` and its proofs; `CrashdumpDb`;
`UploadJob`; `ChannelReader`; `TextStore`; `ParseScanner` over `AddrStore`;
`TermDecoder`; the lists of `TextStore`; `Listing`; `DumpDir`, which has taken in the
earlier model of the CLI's cache, and its proofs.

Nothing with state of its own is left to model.

The safety of all of them but `TermDecoder` is proved. Its decoder is written with
recursive operators, as the code is recursive, and that decoding undoes the emulator's
encoding is an induction over terms; neither is within reach of the prover.
