--------------------- MODULE ParallelRunLengthRadixSort ---------------------
(***************************************************************************)
(* ParallelRunLengthRadixSort::parallelRadixSort                          *)
(* (src/src/libmaus2/sorting/ParallelRunLengthRadixSort.hpp).             *)
(*                                                                         *)
(* The coordinator plans the thread count and the per-thread file budget, *)
(* then repeats rounds of an LSD radix sort over run-length encoded files: *)
(* each round opens 2^filebits output files per thread (laid out bucket   *)
(* major, thread minor), runs one OpenMP thread per symbol/run sub-range, *)
(* joins, deletes the round's inputs and makes the outputs the next       *)
(* round's input.  Every thread iteration (one decodeRun/encodeRun) is one *)
(* step, so the threads of a round interleave freely.                      *)
(*                                                                         *)
(* With RecordUnsort the call passes an unsortinfo and, when key bits are *)
(* stored, every round pushes an unsort level (lines 299-381).             *)
(* Files are named by members of FileIds; a name is reused only after the *)
(* file was deleted, which is all the temp-file generator guarantees too. *)
(* Every run carries a ghost tag "org": the input position of its first   *)
(* symbol.  The real encoders store only (sym, rlen).                      *)
(***************************************************************************)
EXTENDS Naturals, Sequences, FiniteSets, SequencesExt, FiniteSetsExt

CONSTANTS
    MaxThreadCount, \* bound on the tnumthreads a call may pass
    StoreKeyBits,  \* template flag store_key_bits
    SymBits,       \* bits of uint64_t (64 in the code); symbols < 2^SymBits
    MaxFileId,     \* the temp-file generator hands out names 1..MaxFileId
    RecordUnsort,  \* unsortinfo != 0
    UnsortThreads, \* unsortthreads
    Calls          \* the argument tuples the caller may pass

ASSUME MaxThreadCount \in Nat \ {0}
ASSUME StoreKeyBits \in BOOLEAN
ASSUME SymBits \in Nat \ {0}

VARIABLES
    tnumthreads,   \* the call's thread count
    maxfiles,      \* the call's budget of simultaneously open files
    pc,            \* coordinator: "start","loop","round","done","error","fault"
    Vfn,           \* the current round's input file list
    rli,           \* decoder init type: "v" (variable, symbols) or "k" (runs)
    ilow, ihigh,   \* the range of the current round (symbols in v, runs in k)
    rshift,        \* bits of the key consumed so far
    maxsym, maxsymvalid, totalsymbits,
    deleteinput,
    numinsyms,     \* ihigh - ilow of the call, fixed at entry
    files,         \* file name -> sequence of runs written to it
    live,          \* names of files that exist on disk
    filebits, runthreads, packsize,
    Vout,          \* output files of the round, bucket major
    Vkey,          \* key files of the round, one per thread
    cmaxsym,       \* global max symbol of the round (cmaxsymlock)
    GKhist,        \* global key histogram of the round (GKhistlock)
    tpc,           \* per thread: "idle", "decode", "done"
    pos,           \* per thread: decoder position (symbol or run index)
    todo,          \* per thread: symbols (v) or runs (k) still to read
    lmax,          \* per thread: lmaxsym
    Khist,         \* per thread: local key histogram
    rounds,        \* ghost: number of rounds completed
    insyms,        \* ghost: the tagged symbol sequence of the call's range
    levels         \* unsortinfo->levels

vars == <<tnumthreads, maxfiles, pc, Vfn, rli, ilow, ihigh, rshift, maxsym, maxsymvalid,
          totalsymbits, deleteinput, numinsyms, files, live, filebits,
          runthreads, packsize, Vout, Vkey, cmaxsym, GKhist, tpc, pos, todo,
          lmax, Khist, rounds, insyms, levels>>

Threads == 0..MaxThreadCount-1

FileIds == 1..MaxFileId

----------------------------------------------------------------------------
(* Arithmetic of the planner (lines 67-93) and of one round (105-125).    *)

KB == IF StoreKeyBits THEN 1 ELSE 0

MinOf(a, b) == IF a <= b THEN a ELSE b
MaxOf(a, b) == IF a >= b THEN a ELSE b

\* libmaus2::math::numbits: the number of bits needed to write x.
RECURSIVE NumBits(_)
NumBits(x) == IF x = 0 THEN 0 ELSE 1 + NumBits(x \div 2)

MaxThreads == maxfiles \div (3 + KB)
NumThreads == MinOf(tnumthreads, MaxThreads)
FilesPerThread == maxfiles \div NumThreads
OFilesPerThread == FilesPerThread - 1 - KB

\* Seeded fault (not the code): the doubling loop tests ofilecnt instead
\* of ofilecnt * 2 and overshoots the per-thread budget by one bit.
RECURSIVE GrowFileBitsLoose(_, _)
GrowFileBitsLoose(ofilecnt, tfilebits) ==
    IF ofilecnt <= OFilesPerThread
    THEN GrowFileBitsLoose(ofilecnt * 2, tfilebits + 1)
    ELSE tfilebits

\* while ( ofilecnt * 2 <= ofilesperthread ) { ofilecnt *= 2; tfilebits += 1; }
RECURSIVE GrowFileBits(_, _)
GrowFileBits(ofilecnt, tfilebits) ==
    IF ofilecnt * 2 <= OFilesPerThread
    THEN GrowFileBits(ofilecnt * 2, tfilebits + 1)
    ELSE tfilebits

TFileBits == GrowFileBits(2, 1)

\* filebits of the round that starts with rshift bits consumed
RoundFileBits(tsb, rs) ==
    LET restbits  == tsb - rs
        minrounds == (restbits + TFileBits - 1) \div TFileBits
    IN  (restbits + minrounds - 1) \div minrounds

PackSize(lo, hi) == (hi - lo + NumThreads - 1) \div NumThreads

----------------------------------------------------------------------------
(* The run-length decoder over the concatenation of a file list.  It is   *)
(* not in this repository; modelled from spec.md 4.2 and 6.              *)

Mass(rs) == FoldLeft(LAMBDA a, r : a + r.len, 0, rs)

Flat(fl) == FlattenSeq([k \in 1..Len(fl) |-> files[fl[k]]])

\* v mode, positioned at symbol p: the rest of the run containing p
DecodeV(rs, p) ==
    LET j   == CHOOSE j \in DOMAIN rs :
                   Mass(SubSeq(rs, 1, j-1)) <= p /\ p < Mass(SubSeq(rs, 1, j))
        off == p - Mass(SubSeq(rs, 1, j-1))
    IN  [sym |-> rs[j].sym, len |-> rs[j].len - off, org |-> rs[j].org + off]

\* k mode, positioned at run p: that run
DecodeK(rs, p) == rs[p+1]

\* decoder_type::getKLength: the number of runs in the files
KLength(fl) == Len(Flat(fl))

\* The logical symbol sequence of a run sequence.
Expand(rs) ==
    FlattenSeq([j \in DOMAIN rs |->
        [m \in 1..rs[j].len |-> [sym |-> rs[j].sym, org |-> rs[j].org + m - 1]]])

\* The symbols of the current round's range.
Current ==
    IF rli = "v" THEN SubSeq(Expand(Flat(Vfn)), ilow + 1, ihigh)
                 ELSE Expand(SubSeq(Flat(Vfn), ilow + 1, ihigh))

\* projector_type::project: the key of a run is its symbol.
Project(R) == R.sym

\* Seeded fault (not the code): the key ignores rshift.
KeyNoShift(R) == Project(R) % 2^filebits

\* ( project(R) >> rshift ) & rmask
Key(R) == (Project(R) \div 2^rshift) % 2^filebits

\* Seeded fault (not the code): the output list laid out thread major.
OutFileThreadMajor(t, key) == Vout[t * 2^filebits + key + 1]

\* Aoutfiles[t*outfilesperthread+key] was opened on Vout[key*runthreads+t]
OutFile(t, key) == Vout[key * runthreads + t + 1]

\* Seeded fault (not the code): the run is not cut to the range.
TruncateNone(R, n) == R

\* R.rlen = std::min(todo, R.rlen): a run never leaves the thread's range.
Truncate(R, n) == [R EXCEPT !.len = MinOf(n, R.len)]

\* Seeded fault (not the code): Khist assigned instead of added.
MergeHistOverwrite(g, h) == [i \in DOMAIN g |-> h[i]]

\* for i: GKhist[i] += Khist[i]
MergeHist(g, h) == [i \in DOMAIN g |-> g[i] + h[i]]

\* Seeded fault (not the code): the removal runs after Vfn = Vout.
RetireOutputs(l) == IF deleteinput THEN l \ Range(Vout) ELSE l

\* if ( deleteinput ) remove every file of Vfn
Retire(l) == IF deleteinput THEN l \ Range(Vfn) ELSE l

----------------------------------------------------------------------------
(* The unsort level of a round (lines 299-381).  Fhist is the flat array *)
(* of the code: rows 0..UnsortThreads-1 of 2^bits buckets, one more row  *)
(* and one more cell.  The histogram pass writes disjoint rows, one per  *)
(* unsort thread, so it is computed in one step.                          *)

SymsPerThread == (numinsyms + UnsortThreads - 1) \div UnsortThreads

\* Athreadint[i] = (low, high)
ThreadInt(i) ==
    LET low == MinOf(i * SymsPerThread, numinsyms)
    IN  <<low, MinOf(low + SymsPerThread, numinsyms)>>

\* Lines 307-336: thread i decodes the key files by symbols over [low,
\* high) and adds each symbol to Khist[R.sym], Khist = Fhist + i*ofpt.
ThreadHists(ks, ofpt) ==
    [c \in 0..ofpt * (UnsortThreads + 1) |->
        Quantify(0..numinsyms-1, LAMBDA x :
            \E i \in 0..UnsortThreads-1 :
                /\ ThreadInt(i)[1] <= x /\ x < ThreadInt(i)[2]
                /\ i * ofpt + ks[x+1] = c)]

\* Seeded fault (not the code): the running sum is added before the
\* cell is overwritten, so each row counts its own thread too.
ColumnPrefixInclusive(F, ofpt) ==
    [c \in DOMAIN F |->
        IF c < ofpt * (UnsortThreads + 1)
        THEN SumFunctionOnSet(F, {j * ofpt + (c % ofpt) : j \in 0..c \div ofpt})
        ELSE F[c]]

\* Lines 340-351: down each bucket column, every row becomes the sum of
\* the rows above it; row UnsortThreads gets the bucket's total.
ColumnPrefix(F, ofpt) ==
    [c \in DOMAIN F |->
        IF c < ofpt * (UnsortThreads + 1)
        THEN SumFunctionOnSet(F, {j * ofpt + (c % ofpt) : j \in 0..c \div ofpt - 1})
        ELSE F[c]]

\* PrefixSums::prefixSums (not in this tree) over the last row and the
\* extra cell, lines 356-359: exclusive prefix sums, the last the total.
GlobalPrefix(F, ofpt) ==
    LET b == UnsortThreads * ofpt
    IN  [c \in DOMAIN F |-> IF c >= b THEN SumFunctionOnSet(F, b..c-1) ELSE F[c]]

\* Lines 363-374: each bucket's global start is added to its thread rows.
AddBucketStarts(F, ofpt) ==
    LET b == UnsortThreads * ofpt
    IN  [c \in DOMAIN F |-> IF c < b THEN F[c] + F[b + (c % ofpt)] ELSE F[c]]

\* Lines 301-305 and 378-380: the level pushed onto unsortinfo->levels,
\* with UL.bits = min(filebits, totalsymbits) after maxsym is frozen.
UnsortLevel(tsb) ==
    LET bits == MinOf(filebits, tsb)
        ofpt == 2^bits
        ks   == [x \in 1..numinsyms |-> Expand(Flat(Vkey))[x].sym]
        F    == GlobalPrefix(ColumnPrefix(ThreadHists(ks, ofpt), ofpt), ofpt)
    IN  [keyseqfn   |-> Vkey,
         bits       |-> bits,
         Ghist      |-> [i \in 0..ofpt-1 |-> GKhist[i]],
         Ohist      |-> AddBucketStarts(F, ofpt),
         Vthreadint |-> [i \in 0..UnsortThreads-1 |-> ThreadInt(i)]]

----------------------------------------------------------------------------
(* Initial state: the call's arguments, input files tagged with the       *)
(* position of their first symbol.                                         *)

TagFiles(fs) ==
    [k \in 1..Len(fs) |-> [j \in 1..Len(fs[k]) |->
        [sym |-> fs[k][j].sym, len |-> fs[k][j].len,
         org |-> Mass(FlattenSeq(SubSeq(fs, 1, k-1))) + Mass(SubSeq(fs[k], 1, j-1))]]]

\* The set S of file names in increasing order.
Ascending(S) ==
    SelectSeq([k \in FileIds |-> k], LAMBDA f : f \in S)

\* the caller's input files
InputIds(c) == [k \in 1..Len(c.files) |-> k]

Init ==
    \E c \in Calls :
        LET ids == InputIds(c)
            tf  == TagFiles(c.files)
        IN
        /\ tnumthreads = c.tnumthreads
        /\ maxfiles = c.maxfiles
        /\ pc = "start"
        /\ Vfn = ids
        /\ files = [f \in FileIds |-> IF f \in DOMAIN tf THEN tf[f] ELSE <<>>]
        /\ live = Range(ids)
        /\ ilow = c.ilow
        /\ ihigh = c.ihigh
        /\ maxsym = c.maxsym
        /\ maxsymvalid = c.maxsymvalid
        /\ deleteinput = c.deleteinput
        /\ numinsyms = c.ihigh - c.ilow
        /\ insyms = SubSeq(Expand(FlattenSeq(tf)), c.ilow + 1, c.ihigh)
        /\ rli = "v"
        /\ rshift = 0
        /\ totalsymbits = 0
        /\ filebits = 0 /\ runthreads = 0 /\ packsize = 0
        /\ Vout = <<>> /\ Vkey = <<>>
        /\ cmaxsym = 0 /\ GKhist = <<>>
        /\ tpc = [t \in Threads |-> "idle"]
        /\ pos = [t \in Threads |-> 0]
        /\ todo = [t \in Threads |-> 0]
        /\ lmax = [t \in Threads |-> 0]
        /\ Khist = [t \in Threads |-> <<>>]
        /\ rounds = 0
        /\ levels = <<>>

----------------------------------------------------------------------------
(* Coordinator.                                                            *)

\* Lines 67-78: maxfiles / (3 + key file) threads fit; none is an error.
RejectConfig ==
    /\ pc = "start"
    /\ NumThreads = 0
    /\ pc' = "error"
    /\ UNCHANGED <<tnumthreads, maxfiles, Vfn, rli, ilow, ihigh, rshift, maxsym, maxsymvalid,
                   totalsymbits, deleteinput, numinsyms, files, live, filebits,
                   runthreads, packsize, Vout, Vkey, cmaxsym, GKhist, tpc, pos,
                   todo, lmax, Khist, rounds, insyms, levels>>

\* Lines 61-101: plan, and take 64 bits when maxsym is not known.
Start ==
    /\ pc = "start"
    /\ NumThreads > 0
    /\ totalsymbits' = IF maxsymvalid THEN NumBits(maxsym) ELSE SymBits
    /\ pc' = "loop"
    /\ UNCHANGED <<tnumthreads, maxfiles, Vfn, rli, ilow, ihigh, rshift, maxsym, maxsymvalid,
                   deleteinput, numinsyms, files, live, filebits, runthreads,
                   packsize, Vout, Vkey, cmaxsym, GKhist, tpc, pos, todo, lmax,
                   Khist, rounds, insyms, levels>>

\* Lines 103-125 with isize = 0: packsize is 0 and
\* runthreads = (isize+packsize-1)/packsize divides by zero.
RoundDivByZero ==
    /\ pc = "loop"
    /\ rshift < totalsymbits
    /\ PackSize(ilow, ihigh) = 0
    /\ pc' = "fault"
    /\ UNCHANGED <<tnumthreads, maxfiles, Vfn, rli, ilow, ihigh, rshift, maxsym, maxsymvalid,
                   totalsymbits, deleteinput, numinsyms, files, live, filebits,
                   runthreads, packsize, Vout, Vkey, cmaxsym, GKhist, tpc, pos,
                   todo, lmax, Khist, rounds, insyms, levels>>

\* Lines 103-174: plan the round, create (open) every output and key file,
\* reset the shared accumulators and start one thread per sub-range.
BeginRound ==
    /\ pc = "loop"
    /\ rshift < totalsymbits
    /\ PackSize(ilow, ihigh) > 0
    /\ LET fb    == RoundFileBits(totalsymbits, rshift)
           ps    == PackSize(ilow, ihigh)
           rt    == (ihigh - ilow + ps - 1) \div ps
           nout  == rt * 2^fb
           nkey  == IF StoreKeyBits THEN rt ELSE 0
           free  == Ascending(FileIds \ live)
           outs  == SubSeq(free, 1, nout)
           keys  == SubSeq(free, nout + 1, nout + nkey)
           tlow(t) == ilow + t * ps
       IN
       /\ nout + nkey <= Len(free)
       /\ filebits' = fb
       /\ packsize' = ps
       /\ runthreads' = rt
       /\ Vout' = outs
       /\ Vkey' = keys
       /\ files' = [f \in FileIds |->
                       IF f \in Range(outs) \cup Range(keys) THEN <<>> ELSE files[f]]
       /\ live' = live \cup Range(outs) \cup Range(keys)
       /\ cmaxsym' = 0
       /\ GKhist' = IF StoreKeyBits THEN [i \in 0..2^fb-1 |-> 0] ELSE <<>>
       /\ tpc' = [t \in Threads |-> IF t < rt THEN "decode" ELSE "idle"]
       /\ pos' = [t \in Threads |-> IF t < rt THEN tlow(t) ELSE 0]
       /\ todo' = [t \in Threads |->
                      IF t < rt THEN MinOf(tlow(t) + ps, ihigh) - tlow(t) ELSE 0]
       /\ lmax' = [t \in Threads |-> 0]
       /\ Khist' = [t \in Threads |->
                       IF StoreKeyBits THEN [i \in 0..2^fb-1 |-> 0] ELSE <<>>]
    /\ pc' = "round"
    /\ UNCHANGED <<tnumthreads, maxfiles, Vfn, rli, ilow, ihigh, rshift, maxsym, maxsymvalid,
                   totalsymbits, deleteinput, numinsyms, rounds, insyms, levels>>

\* Lines 282-391, after the implicit join of the parallel for: retire
\* the inputs, freeze a discovered maxsym, push the unsort level, and make
\* the outputs, now read by run count, the next round's input.
EndRound ==
    /\ pc = "round"
    /\ \A t \in 0..runthreads-1 : tpc[t] = "done"
    /\ live' = Retire(live)
    /\ deleteinput' = TRUE
    /\ maxsym' = IF maxsymvalid THEN maxsym ELSE cmaxsym
    /\ maxsymvalid' = TRUE
    /\ totalsymbits' = IF maxsymvalid THEN totalsymbits ELSE NumBits(cmaxsym)
    /\ levels' = IF StoreKeyBits /\ RecordUnsort
                 THEN Append(levels, UnsortLevel(totalsymbits'))
                 ELSE levels
    /\ Vfn' = Vout
    /\ rli' = "k"
    /\ ilow' = 0
    /\ ihigh' = KLength(Vout)
    /\ rshift' = rshift + filebits
    /\ rounds' = rounds + 1
    /\ tpc' = [t \in Threads |-> "idle"]
    /\ pc' = "loop"
    /\ UNCHANGED <<tnumthreads, maxfiles, numinsyms, files, filebits, runthreads, packsize, Vout,
                   Vkey, cmaxsym, GKhist, pos, todo, lmax, Khist, insyms>>

\* Lines 393-398: every key bit consumed, return Vfn.
Finish ==
    /\ pc = "loop"
    /\ rshift >= totalsymbits
    /\ pc' = "done"
    /\ UNCHANGED <<tnumthreads, maxfiles, Vfn, rli, ilow, ihigh, rshift, maxsym, maxsymvalid,
                   totalsymbits, deleteinput, numinsyms, files, live, filebits,
                   runthreads, packsize, Vout, Vkey, cmaxsym, GKhist, tpc, pos,
                   todo, lmax, Khist, rounds, insyms, levels>>

----------------------------------------------------------------------------
(* One partitioning thread t of the parallel for (lines 162-280).          *)

\* One iteration of the decode loop, in the branch the round's rli and
\* maxsymvalid select (lines 182-193, 199-212, 226-237, 245-258): decode,
\* compute the key from the untruncated run, cut the run to what is left
\* of the range (v mode only), encode it to bucket key, record it in the
\* key file and the local histogram, and track the local maximum.
DecodeRun(t) ==
    /\ tpc[t] = "decode"
    /\ todo[t] > 0
    /\ LET rs  == Flat(Vfn)
           R   == IF rli = "v" THEN DecodeV(rs, pos[t]) ELSE DecodeK(rs, pos[t])
           key == Key(R)
           W   == IF rli = "v" THEN Truncate(R, todo[t]) ELSE R
           KR  == [sym |-> key, len |-> W.len, org |-> W.org]
       IN
       /\ files' = IF StoreKeyBits
                   THEN [files EXCEPT ![OutFile(t, key)] = Append(@, W),
                                      ![Vkey[t+1]] = Append(@, KR)]
                   ELSE [files EXCEPT ![OutFile(t, key)] = Append(@, W)]
       /\ Khist' = IF StoreKeyBits
                   THEN [Khist EXCEPT ![t][key] = @ + W.len] ELSE Khist
       /\ todo' = [todo EXCEPT ![t] = @ - (IF rli = "v" THEN W.len ELSE 1)]
       /\ pos' = [pos EXCEPT ![t] = @ + (IF rli = "v" THEN R.len ELSE 1)]
       /\ lmax' = IF maxsymvalid THEN lmax
                  ELSE [lmax EXCEPT ![t] = MaxOf(@, R.sym)]
    /\ UNCHANGED <<tnumthreads, maxfiles, pc, Vfn, rli, ilow, ihigh, rshift, maxsym, maxsymvalid,
                   totalsymbits, deleteinput, numinsyms, live, filebits,
                   runthreads, packsize, Vout, Vkey, cmaxsym, GKhist, tpc,
                   rounds, insyms, levels>>

\* Lines 264-279: merge lmaxsym under cmaxsymlock, close this thread's
\* encoders, merge Khist into GKhist under GKhistlock.
FinishThread(t) ==
    /\ tpc[t] = "decode"
    /\ todo[t] = 0
    /\ cmaxsym' = IF maxsymvalid THEN cmaxsym ELSE MaxOf(cmaxsym, lmax[t])
    /\ GKhist' = MergeHist(GKhist, Khist[t])
    /\ tpc' = [tpc EXCEPT ![t] = "done"]
    /\ UNCHANGED <<tnumthreads, maxfiles, pc, Vfn, rli, ilow, ihigh, rshift, maxsym, maxsymvalid,
                   totalsymbits, deleteinput, numinsyms, files, live, filebits,
                   runthreads, packsize, Vout, Vkey, pos, todo, lmax, Khist,
                   rounds, insyms, levels>>

----------------------------------------------------------------------------

Coordinator == RejectConfig \/ Start \/ RoundDivByZero \/ BeginRound
               \/ EndRound \/ Finish

Thread(t) == DecodeRun(t) \/ FinishThread(t)

Next == Coordinator \/ \E t \in Threads : Thread(t)

\* The coordinator is sequential code and every OpenMP thread of the
\* parallel for runs its loop to the end: the program never stops while
\* a step is possible.  Every step moves the call forward (a thread's todo
\* falls, a round's threads finish, rshift grows), so weak fairness of
\* Next already forces each of them.
Spec == Init /\ [][Next]_vars /\ WF_vars(Next)

----------------------------------------------------------------------------
(* Properties.                                                             *)

Abs == INSTANCE RunLengthSort WITH
    status <- CASE pc = "done"  -> "sorted"
                [] pc = "error" -> "rejected"
                [] OTHER        -> "running",
    data   <- IF pc = "done" THEN Expand(Flat(Vfn)) ELSE insyms

IsRun(r) == r \in [sym : Nat, len : Nat, org : Nat] /\ r.len > 0

TypeOK ==
    /\ pc \in {"start", "loop", "round", "done", "error", "fault"}
    /\ rli \in {"v", "k"}
    /\ live \subseteq FileIds
    /\ \A f \in FileIds : \A j \in DOMAIN files[f] : IsRun(files[f][j])
    /\ Range(Vfn) \subseteq FileIds
    /\ tpc \in [Threads -> {"idle", "decode", "done"}]
    /\ todo \in [Threads -> Nat]
    /\ rshift <= totalsymbits + SymBits
    /\ pc = "round" => /\ Len(Vout) = runthreads * 2^filebits
                       /\ \A t \in Threads : tpc[t] # "idle" <=> t < runthreads

\* The finished sort is what the caller was promised: the files returned
\* hold the range's symbols stably sorted by key, the call is refused only
\* for a too small file budget, and (under the fairness of Spec) every
\* call ends.  The refinement of RunLengthSort!Spec by the whole
\* coordinator/partitioner protocol.
RefinesSort == Abs!Spec

\* The LSD radix invariant behind the bucket-major file layout: whenever
\* the coordinator is at the head of its round loop, the current file list
\* holds the range stably sorted by the low rshift bits of the key.  It
\* must survive truncated runs at thread boundaries, the switch from
\* symbol ranges to run ranges after round one, and a digit schedule that
\* is re-planned when maxsym is discovered.
LSDRoundInvariant ==
    pc = "loop" =>
        Current = Abs!StableSortBy(insyms, LAMBDA x : x.sym % 2^rshift)

\* Delete-after-success (spec.md section 5): at every point of the sort,
\* including between the rounds, the files of the current input list
\* still exist, so a crash leaves a complete copy of the range on disk.
CompleteCopyOnDisk ==
    pc \in {"loop", "round", "done"} => Range(Vfn) \subseteq live

\* Files held open in a round: each running thread's output encoders,
\* its key encoder and its decoder.
OpenFiles ==
    Cardinality({t \in Threads : tpc[t] = "decode"}) * (2^filebits + KB + 1)

\* The file budget maxfiles is never exceeded, in any round of the digit
\* schedule, including the first round planned for 64 key bits before
\* maxsym is discovered.
FileBudget == pc = "round" => OpenFiles <= maxfiles

\* The assertion of line 297: once every thread of a round has merged
\* its local histogram, the global histogram accounts for exactly the
\* ihigh-ilow symbols of the call, in symbol rounds (where runs are cut
\* at thread boundaries) as in run rounds.
HistogramMass ==
    (StoreKeyBits /\ pc = "round" /\ \A t \in 0..runthreads-1 : tpc[t] = "done")
        => SumFunction(GKhist) = numinsyms

\* Where level L sent the symbol at position x of its round's input: the
\* position that thread interval j's Ohist entry gives for x's key, plus
\* the symbols of the interval with that key before x.
Place(L, x) ==
    LET ks   == Expand(Flat(L.keyseqfn))
        ofpt == 2^L.bits
        j    == CHOOSE j \in DOMAIN L.Vthreadint :
                    L.Vthreadint[j][1] <= x /\ x < L.Vthreadint[j][2]
        k    == ks[x+1].sym
    IN  L.Ohist[j * ofpt + k]
        + Quantify(L.Vthreadint[j][1]..x-1, LAMBDA y : ks[y+1].sym = k)

\* Walking the levels in reverse from output position p: the input
\* position of the first round that ends at p, or -1 if a level does not
\* place exactly one symbol at the position reached.
RECURSIVE Unwalk(_, _)
Unwalk(ls, p) ==
    IF ls = <<>> THEN p
    ELSE LET pre == {x \in 0..numinsyms-1 : Place(ls[Len(ls)], x) = p}
         IN  IF p >= 0 /\ Cardinality(pre) = 1
             THEN Unwalk(SubSeq(ls, 1, Len(ls) - 1), CHOOSE x \in pre : TRUE)
             ELSE -1

\* spec.md section 8 "Round-trip inversion": when the sort returns, the
\* unsort levels it recorded, applied in reverse, take every sorted
\* position to the original position of the symbol found there.  It
\* depends on the key files written by the partitioning threads, the
\* per-interval histograms and both prefix-sum passes of every round,
\* and on UL.bits after a discovered maxsym.
RoundTrip ==
    (pc = "done" /\ StoreKeyBits /\ RecordUnsort) =>
        \A p \in 0..numinsyms-1 :
            LET x == Unwalk(levels, p)
            IN  x >= 0 /\ Expand(Flat(Vfn))[p+1] = insyms[x+1]

----------------------------------------------------------------------------
(* Statements of spec.md the code is checked against, expected to fail.  *)

\* No call ends in an arithmetic fault: an empty range [ilow,ilow) is an
\* input like any other.
NoDivisionByZero == pc # "fault"

\* spec.md section 8 "Budget boundary": a budget of numThreads*3 - 1
\* fails with a configuration error.
BudgetBoundary ==
    maxfiles < 3 * tnumthreads => pc \in {"start", "error"}

\* spec.md section 6: the returned files hold the range [ilow,ihigh) and
\* nothing else.
ReturnsOnlyRange == pc = "done" => Len(Expand(Flat(Vfn))) = numinsyms

\* spec.md section 8 "Idempotence under maxSymbol": a discovered maxsym
\* gives the same round count as the same maxsym supplied up front, which
\* is the ceil(bits / tfilebits) rounds the planner schedules for it.
RoundCountIndependentOfMaxSym ==
    pc = "done" => rounds = (NumBits(maxsym) + TFileBits - 1) \div TFileBits

=============================================================================
