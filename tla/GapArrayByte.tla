---------------------------- MODULE GapArrayByte ----------------------------
(***************************************************************************)
(* libmaus2::suffixsort::GapArrayByte (suffixsort/GapArrayByte.hpp): a    *)
(* gap array of byte counters G.  Threads increment counters concurrently *)
(* (operator()(r)); an increment that wraps the byte to 0 reports an      *)
(* overflow, and the caller pushes the rank into its own overflow buffer  *)
(* (operator()(r,t)), which is sorted and appended to a temporary file as *)
(* one block whenever it is full (flush(t), writeBlock).  After the       *)
(* threads have joined, flush() gathers what is left in the buffers, in   *)
(* place, writes it as a last block, and merges all blocks into (rank,    *)
(* count) pairs that the decoder adds, times 2^ByteBits, to G.            *)
(*                                                                         *)
(* The byte is ByteBits wide (8 in the code).  The overflow buffer array  *)
(* O is modelled cell by cell, with the offsets Oa[t] = t*OSize and Oe[t] *)
(* = Oa[t] + OSize of the constructor and Oc[t] kept as a count.          *)
(***************************************************************************)
EXTENDS Naturals, Sequences, FiniteSets, SequencesExt

CONSTANTS
    Ranks,       \* the ranks incremented (indices into G)
    NT,          \* threads
    OSize,       \* osize: overflow buffer cells per thread
    ByteBits,    \* width of a counter
    MaxIncs,     \* increments one thread makes, at most
    Builds       \* the builds considered: "sync" (OpenMP and sync ops),
                 \* "nosync" (OpenMP without LIBMAUS2_HAVE_SYNC_OPS),
                 \* "serial" (no OpenMP: the caller runs one thread)

VARIABLES
    G,           \* the byte counters
    O, Oc,       \* overflow buffer cells and per-thread fill counts
    blocks,      \* the blocks of the temporary file, in write order
    pairs,       \* the (rank, count) pairs of the merged file after flush()
    phase,       \* per thread: "run", "store", "overflow", "done"
    cur, tmp,    \* per thread: the rank being incremented, the value loaded
    n,           \* per thread: increments made
    incs,        \* ghost: completed increments per rank
    flushed,     \* flush() has run
    build        \* the build, fixed for a run of the program

vars == <<G, O, Oc, blocks, pairs, phase, cur, tmp, n, incs, flushed, build>>

Threads == 0..NT-1
Cells   == 0..NT*OSize-1
Wrap    == 2^ByteBits

Oa(t) == t * OSize

\* __sync_add_and_fetch is used only under _OPENMP and LIBMAUS2_HAVE_SYNC_OPS
Atomic == build = "sync"

\* the threads that call the object in this build
Active == IF build = "serial" THEN {0} ELSE Threads

\* The cells [lo, hi) of o as a sequence.
Cells2Seq(o, lo, hi) == [k \in 1..hi-lo |-> o[lo + k - 1]]

----------------------------------------------------------------------------
(* MergingReadBack and the decoder are not in this repository.            *)

\* MergingReadBack: repeatedly the smallest head of the non-empty blocks,
\* the first such block on a tie.
RECURSIVE MergeBlocks(_)
MergeBlocks(bs) ==
    LET ne == {i \in DOMAIN bs : bs[i] # <<>>}
    IN  IF ne = {} THEN <<>>
        ELSE LET i == CHOOSE i \in ne :
                        \A j \in ne : bs[i][1] < bs[j][1] \/ (bs[i][1] = bs[j][1] /\ i <= j)
             IN  <<bs[i][1]>> \o MergeBlocks([bs EXCEPT ![i] = Tail(@)])

\* GapArrayByteDecoder: the counter plus Wrap for every pair of rank r
Value(r) == G[r] + Wrap * FoldSeq(LAMBDA p, a : a + (IF p.rank = r THEN p.count ELSE 0), 0, pairs)

----------------------------------------------------------------------------
(* The code.                                                               *)

\* Seeded fault (not the code): the block is written unsorted.
WriteBlockUnsorted(s) == s

\* writeBlock(pa,pc): std::sort(pa,pc), then the block is appended to the
\* file under tmpfilelock (the lock makes the append atomic).
WriteBlock(s) == SortSeq(s, LAMBDA x, y : x < y)

\* Seeded fault (not the code): each thread's cells are copied up to Oe[i].
RECURSIVE CompactToEnd(_, _, _, _)
CompactToEnd(o, i, oi, op) ==
    IF i = NT THEN [mem |-> o, len |-> op]
    ELSE IF oi = Oa(i) + OSize THEN CompactToEnd(o, i + 1, Oa(i + 1), op)
    ELSE CompactToEnd([o EXCEPT ![op] = o[oi]], i, oi + 1, op + 1)

\* flush(), lines 108-116: for each thread, copy Oa[i]..Oc[i] to *(Op++),
\* one cell at a time, into the same array.
RECURSIVE Compact(_, _, _, _)
Compact(o, i, oi, op) ==
    IF i = NT THEN [mem |-> o, len |-> op]
    ELSE IF oi = Oa(i) + Oc[i] THEN Compact(o, i + 1, Oa(i + 1), op)
    ELSE Compact([o EXCEPT ![op] = o[oi]], i, oi + 1, op + 1)

\* Lines 130-164: run-length encode the merged stream into (rank, count).
RECURSIVE RunLength(_, _, _)
RunLength(s, prev, prevcnt) ==
    IF s = <<>> THEN IF prevcnt > 0 THEN <<[rank |-> prev, count |-> prevcnt]>> ELSE <<>>
    ELSE IF prevcnt > 0 /\ Head(s) = prev THEN RunLength(Tail(s), prev, prevcnt + 1)
    ELSE (IF prevcnt > 0 THEN <<[rank |-> prev, count |-> prevcnt]>> ELSE <<>>)
         \o RunLength(Tail(s), Head(s), 1)

Init ==
    /\ G = [r \in Ranks |-> 0]
    \* AutoArray(osize*threads, false) leaves O uninitialised; the code
    \* never reads a cell it has not written, so any content will do.
    /\ O = [k \in Cells |-> CHOOSE r \in Ranks : TRUE]
    /\ Oc = [t \in Threads |-> 0]
    /\ blocks = <<>>
    /\ pairs = <<>>
    /\ phase = [t \in Threads |-> "run"]
    /\ cur = [t \in Threads |-> CHOOSE r \in Ranks : TRUE]
    /\ tmp = [t \in Threads |-> 0]
    /\ n = [t \in Threads |-> 0]
    /\ incs = [r \in Ranks |-> 0]
    /\ flushed = FALSE
    /\ build \in Builds

----------------------------------------------------------------------------
(* A caller thread t: if ( G(r) ) G(r,t);  for up to MaxIncs ranks r.    *)

\* Seeded fault (not the code): the overflow test compares with the
\* largest byte value.
OverflowedAtMax(v) == v = Wrap - 1

\* ( ... ) == 0: the incremented byte wrapped
Overflowed(v) == v = 0

\* Seeded fault (not the code): flush(t) only once Oc[t] is past Oe[t].
FullPastEnd(t) == Oc[t] + 1 > OSize

\* Oc[t] == Oe[t] after the push
Full(t) == Oc[t] + 1 = OSize

\* operator()(r) with sync ops: __sync_add_and_fetch(G+r,1) == 0
IncAtomic(t) ==
    /\ Atomic
    /\ t \in Active
    /\ phase[t] = "run"
    /\ n[t] < MaxIncs
    /\ \E r \in Ranks :
        LET v == (G[r] + 1) % Wrap
        IN  /\ G' = [G EXCEPT ![r] = v]
            /\ cur' = [cur EXCEPT ![t] = r]
            /\ phase' = [phase EXCEPT ![t] = IF Overflowed(v) THEN "overflow" ELSE "run"]
            /\ incs' = [incs EXCEPT ![r] = @ + 1]
    /\ n' = [n EXCEPT ![t] = @ + 1]
    /\ UNCHANGED <<O, Oc, blocks, pairs, tmp, flushed, build>>

\* operator()(r) without sync ops: (++G[r]) == 0 is a load ...
IncLoad(t) ==
    /\ ~Atomic
    /\ t \in Active
    /\ phase[t] = "run"
    /\ n[t] < MaxIncs
    /\ \E r \in Ranks :
        /\ cur' = [cur EXCEPT ![t] = r]
        /\ tmp' = [tmp EXCEPT ![t] = G[r]]
    /\ phase' = [phase EXCEPT ![t] = "store"]
    /\ n' = [n EXCEPT ![t] = @ + 1]
    /\ UNCHANGED <<G, O, Oc, blocks, pairs, incs, flushed, build>>

\* ... and a store of the loaded value plus one, compared with 0.
IncStore(t) ==
    /\ phase[t] = "store"
    /\ LET v == (tmp[t] + 1) % Wrap
       IN  /\ G' = [G EXCEPT ![cur[t]] = v]
           /\ phase' = [phase EXCEPT ![t] = IF Overflowed(v) THEN "overflow" ELSE "run"]
    /\ incs' = [incs EXCEPT ![cur[t]] = @ + 1]
    /\ UNCHANGED <<O, Oc, blocks, pairs, cur, tmp, n, flushed, build>>

\* operator()(r,t), lines 190-195: *(Oc[t]++) = r, and flush(t) (lines
\* 63-70) when the buffer is full: writeBlock sorts the cells in place and
\* appends them to the file, Oc[t] = Oa[t].
PushOverflow(t) ==
    /\ phase[t] = "overflow"
    /\ LET o1   == [O EXCEPT ![Oa(t) + Oc[t]] = cur[t]]
           full == Full(t)
           blk  == WriteBlock(Cells2Seq(o1, Oa(t), Oa(t) + OSize))
       IN  /\ O' = IF full
                   THEN [k \in Cells |->
                           IF k \in Oa(t)..Oa(t)+OSize-1 THEN blk[k - Oa(t) + 1] ELSE o1[k]]
                   ELSE o1
           /\ Oc' = [Oc EXCEPT ![t] = IF full THEN 0 ELSE @ + 1]
           /\ blocks' = IF full THEN Append(blocks, blk) ELSE blocks
    /\ phase' = [phase EXCEPT ![t] = "run"]
    /\ UNCHANGED <<G, pairs, cur, tmp, n, incs, flushed, build>>

\* The thread's work ends (the join of the parallel section).
ThreadDone(t) ==
    /\ t \in Active
    /\ phase[t] = "run"
    /\ phase' = [phase EXCEPT ![t] = "done"]
    /\ UNCHANGED <<G, O, Oc, blocks, pairs, cur, tmp, n, incs, flushed, build>>

\* flush(), lines 105-170, once every thread is done: gather the buffers
\* in place, write them as one more block if any, merge all blocks and
\* run-length encode the merged stream; every Oc[i] is reset to Oa[i].
Flush ==
    /\ ~flushed
    /\ \A t \in Active : phase[t] = "done"
    /\ LET c    == Compact(O, 0, Oa(0), 0)
           last == WriteBlock(Cells2Seq(c.mem, 0, c.len))
           bs   == IF c.len > 0 THEN Append(blocks, last) ELSE blocks
       IN  /\ O' = [k \in Cells |-> IF k < c.len THEN last[k + 1] ELSE c.mem[k]]
           /\ blocks' = bs
           /\ pairs' = RunLength(MergeBlocks(bs), CHOOSE r \in Ranks : TRUE, 0)
    /\ Oc' = [t \in Threads |-> 0]
    /\ flushed' = TRUE
    /\ UNCHANGED <<G, phase, cur, tmp, n, incs, build>>

Next ==
    \/ \E t \in Threads :
        IncAtomic(t) \/ IncLoad(t) \/ IncStore(t) \/ PushOverflow(t) \/ ThreadDone(t)
    \/ Flush

Spec == Init /\ [][Next]_vars

----------------------------------------------------------------------------
(* Properties.                                                             *)

TypeOK ==
    /\ G \in [Ranks -> 0..Wrap-1]
    /\ O \in [Cells -> Ranks]
    /\ Oc \in [Threads -> 0..OSize-1]
    /\ phase \in [Threads -> {"run", "store", "overflow", "done"}]
    /\ n \in [Threads -> 0..MaxIncs]

\* The occurrences of r in the sequence s, and every overflow of r not
\* yet in the byte: about to be pushed, in a block or in a buffer.
CountIn(s, r) == Cardinality({k \in DOMAIN s : s[k] = r})
Pending(r) ==
    Cardinality({t \in Threads : phase[t] = "overflow" /\ cur[t] = r})
    + FoldSeq(LAMBDA b, a : a + CountIn(b, r), 0, blocks)
    + FoldSeq(LAMBDA t, a : a + CountIn(Cells2Seq(O, Oa(t), Oa(t) + Oc[t]), r), 0,
              [k \in 1..NT |-> k - 1])

\* No increment is lost between the byte, the overflow buffers and the
\* temporary file, at every moment of the concurrent phase: the byte of
\* rank r plus 2^ByteBits for every overflow of r that is pending, in a
\* buffer or in a block equals the increments of r made so far.
CountsConserved ==
    ~flushed => \A r \in Ranks : G[r] + Wrap * Pending(r) = incs[r]

\* After flush() the decoder's value of every rank, the byte plus
\* 2^ByteBits times its merged overflow count, is exactly the number of
\* increments made: no overflow is lost or counted twice by the in-place
\* gathering of the buffers, the last block or the merge.
DecodedCounts ==
    flushed => \A r \in Ranks : Value(r) = incs[r]

\* After flush() the (rank, count) pairs are strictly ascending in rank,
\* as the decoder reads them: the merge of the blocks written by full
\* buffers and by flush() yields each rank in one run.
OverflowPairsAscending ==
    flushed => \A i \in 1..Len(pairs) - 1 : pairs[i].rank < pairs[i+1].rank

=============================================================================
