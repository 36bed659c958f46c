# TLA+ models of libmaus2's parallel radix sort and its neighbours

This directory holds TLA+ specifications of parts of this libmaus2 source tree and
the TLC configurations that check them. `PROJECT.json` lists:

- the components, modelled or not, and why;
- the runs, and the seeded faults ("mutants") that each property must detect;
- the source lines each definition models;
- the findings and the hazards.

Run a check from this directory with `tlc -workers 2 -config <cfg> <module>`.

## 1. Inventory

### 1.1 Parallel run-length radix sort (`sorting/ParallelRunLengthRadixSort.hpp`)

`parallelRadixSort` is an LSD (least-significant digit first) external radix sort
of a run-length encoded symbol sequence held in a list of files, `Vfn`.

- **Planner (lines 67-93).**
  - A budget of `maxfiles` allows `maxfiles/(3+kb)` threads, where `kb` is 1 if key
    files are stored.
  - The thread count is `min(tnumthreads, maxfiles/(3+kb))`. Zero threads throws.
  - A doubling loop picks `tfilebits`, the most key bits one round may take. It is
    the largest value for which `2^tfilebits` output files plus the input (and key)
    file fit into one thread's share.
- **Round coordinator (lines 103-157, 282-391).** Each round:
  - spreads the remaining bits over the fewest possible rounds (`filebits`);
  - cuts the range into `runthreads` packs;
  - creates `runthreads * 2^filebits` output files in bucket-major order, and one
    key file per thread;
  - runs the threads;
  - removes the round's inputs (if `deleteinput`, and always from round two on);
  - freezes a discovered `maxsym`;
  - makes the outputs the next round's input.
- **Partitioner threads (lines 159-280), an OpenMP parallel for.** Each thread:
  - decodes its pack run by run;
  - computes the key before cutting the run at the pack's end;
  - appends the run to its bucket, and to its key file and its histogram `Khist`;
  - at the end, merges its `lmaxsym` and its `Khist` under two spin locks.
- **Unsort levels (lines 299-381, with `unsortinfo`).** Per-interval histograms of
  the key files, column prefix sums and bucket starts record, per round, where each
  interval's symbols of each bucket went. This is the information that inverts the
  sort.

### 1.2 GapArrayByte (`suffixsort/GapArrayByte.hpp`)

`G` is an array of byte counters that threads increment concurrently.

- **The increment (lines 178-185).** It is `__sync_add_and_fetch` only in builds with
  OpenMP and `LIBMAUS2_HAVE_SYNC_OPS`. Otherwise it is a plain `++`.
- **Overflow.** A counter that wraps to 0 reports an overflow. The caller pushes the
  rank into its thread's slice `[Oa[t], Oe[t])` of the buffer `O`
  (`operator()(r,t)`).
- **Full buffers.** A full slice is sorted and appended to a temporary file as one
  block, under a lock (`flush(t)`, `writeBlock`).
- **The final `flush()`.** It gathers the rest of every slice in place, writes a last
  block, and merges all blocks into (rank, count) pairs.
- **Decoding.** The decoder adds 256 times the count to `G[r]`.

### 1.3 Duplicate marking (`libmaus/bambam/ReadEnds.hpp`, `libmaus2/bambam/DupSetCallbackStream.hpp`)

- **`ReadEnds`** is the sort key of a fragment or a pair of alignments, built by
  `fillFrag` and `fillFragPair`.
  - Coordinates are stored as `signedEncode(n) = n + 2^29 - 1`, truncated to 32 bits.
  - `operator<` compares the fields lexicographically. `operator>` and
    `operator==` are written out separately over the same nine fields, line
    numbers included, although the comment on `==` says "up to the line numbers".
  - `isPaired()` is `read2Sequence != 0`.
  - `fillCommon` parses the optical fields from a read name with 2 to 4 `:`.
    A backward scan records the position after each `:` from the end. `y` is
    read after the last, `x` after the one before it, and the tile (plus one)
    after the third-last or, with only two, at the name's start.
  - The constructors can copy the alignments `p` and `q` into the end, and take
    the tag id `rtagId` that `fillFrag`/`fillFragPair` store as the second key.
  - The compact `put` writes the fields with UTF-8 or fixed-width number codecs,
    then a byte `numal` and the copied alignments. `get` reads them back in the
    same order, and `recode()` is put followed by get.
- **`DupSetCallbackStream`** receives every duplicate end. It takes
  `libmaus2::bambam::ReadEnds`, which is not in this tree; the model feeds it the
  `libmaus::bambam::ReadEnds` above as a stand-in. The callback reads only the two
  line numbers, `isPaired()` and the library id.
  - It appends read 1's index, and read 2's index for a paired end, to a file.
  - It counts `numdup` and the library's metrics.
  - `flush(n)` re-reads the file into a bit vector of `n` reads and recounts the
    distinct marks.

### 1.4 LasIntervals (`dazzler/align/LasIntervals.hpp`)

`LasIntervals` indexes a list of LAS files, each sorted by A-read.

- **The constructor:**
  - takes every file's `[mini, maxi]`;
  - throws unless the non-empty intervals are strictly increasing;
  - builds the entries `[mini, maxi+1)`, chains each one to end where the next begins,
    and inserts them into a range set.
- **`getFileRanges(from, to)`:**
  - finds the files whose entries meet `[from, to)`;
  - sorts their ids (`getIds`);
  - returns `index[from]..index[to]` of each file, if that range is not empty.
- **`getInterval()`** is `[front().from, back().to)`, or `(-1, -1)` without
  entries. A caller (outside this tree) walks it in blocks through
  `getFileRanges`.

### 1.5 Arithmetic (`math/gcd.hpp`, `math/ilog.hpp`)

- `gcd` is the Euclidean recursion.
- `lcm(a,b)` is `(a*b)/gcd(a,b)` in 64 bits.
- `ilog(m)` is floor(log2 m), or 0 for 0.

### 1.6 Not modelled

| Source | Why |
|---|---|
| `test/testsimplethreadpool.cpp` | The dispatchers' termination depends on `SimpleThreadPool` (package ids, exception handling, terminate), which is in neither this tree nor spec.md. |
| `bambam/parallel/CramEncodingSupportData.hpp` | A token semaphore under one spin lock, plus containers. The protocol that uses them is in the CRAM encoder, outside this tree. |
| `bambam/parallel/FastQInputDesc.hpp` | Queues and counters whose protocol is in the FastQ reader, outside this tree. |
| `ReadEnds::parseOptical` and its `parseReadNameTile` overload | No caller in this tree, so what a caller holds in `tile`, `x` and `y` before the call is unknown. |
| `SamZPrintableTable.hpp`, `LFSetBit.hpp`, `Tandem.cpp`, `BwtComputeSSA.hpp`, dispatcher and pending structs | Tables, printing and forwarding, with no state machine of their own. |

## 2. Modules

| Module | Models | State | Actions |
|---|---|---|---|
| `RunLengthSort` | what `parallelRadixSort` promises (spec.md 1, 6, 8) | `status`, `data` | `Sort` (one step to `StableSortBy(data, SymKey)`), `Reject` |
| `ParallelRunLengthRadixSort` | lines 42-398 | the variables of 1.1, the files as a function from ids to run sequences, and `levels` (the unsort levels) | `RejectConfig`, `Start`, `RoundDivByZero`, `BeginRound`, `EndRound` (with the unsort level), `Finish`; per thread `DecodeRun(t)` and `FinishThread(t)` |
| `MCParallelRunLengthRadixSort` | the calls the program can receive | `MCCalls` enumerates inputs, ranges, `maxsym` (unknown, exact or the largest), `deleteinput`, thread counts and budgets | |
| `GapArrayByte` | the whole header but the two savers | `G`, `O`, `Oc`, the blocks, the merged pairs, and per-thread phase | `IncAtomic(t)`; `IncLoad(t)` and `IncStore(t)` (the plain `++`, split); `PushOverflow(t)` (with `flush(t)`); `ThreadDone(t)`; `Flush` |
| `DupMarking` | `ReadEnds` construction (read-name parse included), order and compact put/get, composed with `DupSetCallbackStream` | the file, `numdup`, the metrics, `B`, the phase, and ghosts of what was built and reported | `ReportFrag(p,copy,tag)`, `ReportPair(p,q,copy,tag)`, `AddOpticalDuplicates(l,c)`, `Flush` |
| `MCDupMarking` | tag ids {0, 1}; five alignments: two mates (one with a negative unclipped coordinate), an unpaired read without a read group, and a read with an unmapped mate; their names have three, two, one and four `:` | | |
| `LasIntervals` | the constructor, `getIds`, `getFileRanges` and `getInterval` | file contents, status, `IV`, the last query and its result, the last blockwise scan | `Construct`, `Query(from,to)`, `Scan(b)` |
| `LibmausMath` | `gcd`, `lcm`, `ilog` on W-bit words | the last call and its result | `CallGcd`, `CallLcm`, `LcmDivByZero`, `CallIlog` |

Three conventions run through the modules.

- **Locks.** Each spin-locked block of the code is one atomic action. Unlocked shared
  accesses are split where they can race: the plain `++` of `GapArrayByte` is a load
  and a store.
- **Collaborators outside this tree.** They are modelled by what their use requires,
  and marked `spec_modelled` in the map:
  - the run-length decoder, `numbits` and the projector of the sort (from spec.md);
  - the gap-array decoder and the merging read-back;
  - `OverlapIndexer`, `DalignerIndexDecoder::operator[]` and `RangeSet::search`.
- **Callers outside this tree.** `DupMarking` models the markduplicates caller.
  - It reports pair ends of mates, and fragment ends of reads that have no mapped
    mate, any number of times, with or without copied alignments.
  - Each end goes through `put` and `get`, as the container's temporary files
    do, before it reaches the callback.
  - The UTF-8 and number codecs are lossless for the widths written. A field is a
    token `<<codec, value>>`, and reading it with another codec gives garbage.
  - It then calls `flush` once, with the number of alignments.

The sort's abstraction `Abs` maps the model onto `RunLengthSort`:
- done becomes sorted, and a configuration error becomes rejected;
- the data is the range's symbols before the end and the returned files after it.

Every symbol carries a ghost origin, so stability and the permutation are visible.

## 3. Runs

| Run | Cfg | Checks | Result |
|---|---|---|---|
| sort | `MCParallelRunLengthRadixSort.cfg` | `TypeOK`, `LSDRoundInvariant`, `CompleteCopyOnDisk`, `FileBudget`, `HistogramMass`, `RoundTrip` | pass, 52,298 states, about 20 s |
| refines_sort | `MCRefinesSort.cfg` | `RefinesSort` (with liveness) | pass |
| empty_range | `MCEmptyRange.cfg` | `NoDivisionByZero` | violated: code bug |
| budget_boundary | `MCBudgetBoundary.cfg` | `BudgetBoundary` | violated: differs from spec.md |
| zero_round_subrange | `MCZeroRoundSubrange.cfg` | `ReturnsOnlyRange` | violated: code bug |
| round_count | `MCRoundCount.cfg` | `RoundCountIndependentOfMaxSym` | violated: differs from spec.md |
| math | `MCLibmausMath.cfg` | `TypeOK`, `GcdCorrect`, `IlogCorrect` | pass, all 5-bit words |
| lcm | `MCLcmWrap.cfg` | `LcmCorrect` | violated: product wraps |
| gap_atomic | `MCGapArrayByte.cfg` | `TypeOK`, `CountsConserved`, `DecodedCounts`, `OverflowPairsAscending` | pass (sync and serial builds) |
| gap_racy | `MCGapArrayByteRacy.cfg` | `DecodedCounts` | violated: lost increment |
| dup_marking | `MCDupMarking.cfg` | `TypeOK`, `FlushMarksExactly`, `EncodedOrderAgrees`, `OpticalFieldsParsed`, `RecodeIdentity`, `ComparatorsAgree` | pass, 26,730 states |
| las_intervals | `MCLasIntervals.cfg` | `TypeOK`, `RangesExact`, `RangesInAReadOrder`, `ScanReadsAll` | pass, every content of 3 files over 4 A-reads |

### 3.1 What the properties say

Sort:
- **`LSDRoundInvariant`.** At the head of every round, the file list holds the range
  stably sorted by the low `rshift` bits.
- **`CompleteCopyOnDisk`.** The input list always exists, so a crash between rounds
  leaves a complete copy.
- **`FileBudget`.** The open files of a round never exceed `maxfiles`.
- **`HistogramMass`.** This is the assertion of line 297.
- **`RoundTrip`.** Walking the recorded unsort levels back takes every output position
  to its symbol's input position (spec.md 8). Three unsort intervals cross the two
  sort threads' packs.
- **`RefinesSort`.** The protocol implements the one-step sort, and every call ends.

GapArrayByte:
- **`CountsConserved`.** Each counter, plus 2^ByteBits times its overflows (buffered,
  in blocks or merged), equals the increments completed.
- **`DecodedCounts`.** After `flush()`, the decoded value of every rank is its
  number of increments.
- **`OverflowPairsAscending`.** The merged pairs are strictly ascending by rank.

Math:
- **`GcdCorrect`** and **`IlogCorrect`** compare each call with a reference definition
  over every word.
- **`LcmCorrect`** says lcm is right whenever the lcm fits in a word.

Duplicate marking:
- **`FlushMarksExactly`.** After `flush`, `isMarked(i)` holds exactly for the reported
  alignments, and `getNumDups()` is their number, however often each was reported.
- **`EncodedOrderAgrees`.** `operator<` on the encoded coordinates orders every two
  reported ends as the decoded coordinates would.
- **`OpticalFieldsParsed`.** Every end built carries the tile, x and y that its
  name denotes. This is stated from the colon positions, not the scan, and covers
  two, three and four `:`, an empty field and a letter that ends a digit run.
- **`RecodeIdentity`.** `recode()` returns the end unchanged, as its comment says,
  with and without copied alignments.
- **`ComparatorsAgree`.** On every two reported ends exactly one of `<`, `>` and
  `==` holds, and `<` is a strict partial order (Relation's
  `IsStrictlyPartiallyOrderedUnder`). Two fragment ends at one position differ only
  in their line numbers, the last fields each chain compares. If `==` ignored the
  line numbers, as its comment can be read, this would fail.

LasIntervals:
- **`RangesExact`.** The constructor throws exactly when two non-empty files share or
  reverse an A-read. Otherwise every query returns each alignment of the queried
  A-reads once.
- **`RangesInAReadOrder`.** Read in order, the returned ranges give the alignments in
  A-read order, for every order the range set returns.
- **`ScanReadsAll`.** A scan of `getInterval()` in blocks of one or two A-reads reads
  every alignment of every file once, in A-read order. It depends on the interval's
  end, the entries and `index[]` splitting files at block boundaries.

### 3.2 Findings

- **empty_range (code bug).** An empty range divides by zero at line 125.
- **zero_round_subrange (code bug).** With a known `maxsym` of 0 and a sub-range, the
  caller's whole file list is returned (lines 103 and 398).
- **budget_boundary (differs from spec.md).** The code sorts a 3n-1 budget with fewer
  threads, where spec.md says it fails.
- **round_count (differs from spec.md).** A discovered `maxsym` can take more rounds
  than the same `maxsym` supplied, because round one is planned for 64 bits.
- **lcm (code bug).** `lcm` wraps whenever `a*b` exceeds 64 bits, even when the lcm
  fits: lcm(8,2) returns 0 in 4-bit words, as lcm(2^63,2) does in 64-bit words.
  `lcm(0,0)` divides by zero.
- **gap_racy (code bug).** In an OpenMP build without sync ops, the plain `++` loses
  increments on a shared byte, so the decoded gap array is too small.

### 3.3 Mutants

Each property of a passing run has a mutant in `PROJECT.json`. The mutant is a seeded
fault defined just before the definition it replaces, and TLC finds the property
violated under the run's cfg.

| Property | Mutant |
|---|---|
| sort `TypeOK` | the run is not cut, so `todo` underflows |
| `LSDRoundInvariant` | a thread-major output list |
| `CompleteCopyOnDisk` | the removal runs after `Vfn = Vout` |
| `FileBudget` | the doubling loop is off by one |
| `HistogramMass` | `=` instead of `+=` in the merge |
| `RoundTrip` | inclusive column prefix sums |
| `RefinesSort` | the key without `>> rshift` |
| math `TypeOK` | ilog loops while `m != 0` |
| `GcdCorrect` | the base case returns `b` |
| `IlogCorrect` | `l` starts at 1 |
| gap `TypeOK` | the buffer is full one cell late |
| `CountsConserved` | an overflow at 255 instead of 0 |
| `DecodedCounts` | the gathering copies to the end of the buffer |
| `OverflowPairsAscending` | `writeBlock` does not sort |
| dup `TypeOK` | a bit vector of n+1 bits |
| `FlushMarksExactly` | the recount counts every value read |
| `EncodedOrderAgrees` | `signedEncode` without the shift |
| `OpticalFieldsParsed` | `sem[]` records each `:` rather than the position after it |
| `RecodeIdentity` | `get` reads `x` and `y` in swapped order |
| `ComparatorsAgree` | `operator>` stops before the line numbers; `==` ignores them |
| las `TypeOK` | an entry ends at `maxi` |
| `RangesExact` | the order check accepts shared A-reads |
| `RangesInAReadOrder` | `getIds` does not sort |
| `ScanReadsAll` | `getInterval()` ends at `back().to - 1` |

### 3.4 Bounds

- **Sort: two threads.** Their packs meet inside a run, so truncation, the
  interleaving of the locked merges, and the bucket-major order across threads all
  occur.
- **Sort: symbols.** Symbols {0, 2, 5} with 3 bits and run lengths 1 and 2 give:
  - keys that differ only in a high digit;
  - several rounds (budgets 8 and 12 give `tfilebits` 1 and 2 with key files);
  - runs cut at pack boundaries.

  Budget 2 covers the configuration error, and the empty range covers the fault.
- **GapArrayByte.**
  - 2-bit counters, so 4 increments overflow.
  - Seven increments per thread over two ranks.
  - Two-cell buffers, so a thread writes a block and leaves a remainder for
    `flush()`.
- **Math: 5-bit words.** Every pair is checked, including the zero cases. The lcm
  violation shows in 4 bits.
- **DupMarking.** Up to three values are written: a pair and a fragment, or three
  fragments, so the same read is reported twice. Both pair orders occur across runs.
  - Tag ids 0 and 1 are enumerated, so the comparators and put/get meet ends that
    differ only in the tag. Four values with two tags give 243k states and 3.5
    minutes, too close to the time limit.
  - Read group -1 maps to library 1, so a3 shares library 0 with the pair. A pair
    end with a negative coordinate and a3's fragment end then differ in the
    encoded coordinate within three values.
  - The widths are scaled from 32/29 bits to 8/5 bits.
  - The coordinates stay inside the range that `signedEncode` preserves. A
    coordinate below `-(2^29-1)` would wrap, but an unclipped coordinate never
    gets that far below a reference's start, so it is not listed as a hazard.
  - A fifth alignment lies where a2 does, so two ends differ only in their line
    numbers.
  - The four parsed names have up to ten characters. The tile is reduced mod 2^16, but
    `x` and `y` have too few digits to wrap 32 bits.
- **LasIntervals.** Every content of 3 files over 4 A-reads. This covers empty files
  between non-empty ones, gaps, shared boundaries and reversed files. Block sizes 1
  and 2 put block boundaries both at and inside files.

### 3.5 Fairness

- **Sort.** `Spec` assumes weak fairness of `Next`, which is justified:
  - the coordinator is sequential;
  - each OpenMP thread runs its loop to completion, waiting only on two short locked
    sections;
  - no step is ever disabled by another thread.
- **Other modules.** They check safety only and assume no fairness.

## 4. Plan

Done:
- the sorter with its abstract spec, refinement and unsort levels;
- GapArrayByte in three builds;
- gcd, lcm and ilog;
- duplicate marking, with read-name parsing and the compact put/get;
- LasIntervals, with `getInterval` and a blockwise scan;
- the three `ReadEnds` comparators.

Next, in order:
1. **`ReadEnds::get` into a reused object.** It keeps stale `p` and `q` when
   `numal` is smaller (hazard at line 657). A property needs the container that
   reuses objects, which is outside this tree.
2. **`DupMarking` misuse as a violation run.** A caller that reports a fragment end
   whose mate is mapped marks read 0 (hazard at `DupSetCallbackStream.hpp:49`).
   This needs a run slot, since all 12 are in use.
3. **The thread-pool test.** Only if the pool's semantics become available.

## 5. Not modelled, and why

- **Decoder, encoders and file names.**
  - The sort's decoder is modelled from spec.md.
  - Encoders are appends.
  - File names are fresh ids.
- **Block sizes and timing.** They only affect layout and logging.
- **I/O.** The GapArrayByte savers (`saveHufGapArray`, `saveGammaGapArray`) and the
  `.idx` rebuild in `LasIntervals`.
- **Decoder openers.** `GapArrayByte::getDecoder`, `getOffsetSequence` and
  `LasIntervals::openRange` / `getFileRangeParser` only construct readers that are
  outside this tree from state already modelled. `LasIntervals::size()` returns
  `INT64_MIN` for an empty index, a value TLC cannot represent.
- **The components in 1.6.**
