---------------------------- MODULE LasIntervals ----------------------------
(***************************************************************************)
(* libmaus2::dazzler::align::LasIntervals (dazzler/align/LasIntervals.hpp)*)
(* : an index over a list of LAS files, each sorted by A-read, that finds *)
(* the files and byte ranges holding the alignments of a range of A-reads.*)
(*                                                                         *)
(* Construct is the constructor: the A-read interval of every file, the   *)
(* order check over the non-empty ones, the entries [mini, maxi+1) chained *)
(* so each ends where the next begins, and their insertion into the range *)
(* set.  Query is getFileRanges(from, to) with getIds.  Scan is a caller *)
(* (not in this tree) that walks getInterval() in blocks of b A-reads,  *)
(* calling getFileRanges on each block and concatenating the ranges.    *)
(*                                                                         *)
(* Three collaborators are not in this tree and are modelled by what their *)
(* use here requires: OverlapIndexer's minimum and maximum A-read (-1 for *)
(* an empty file), DalignerIndexDecoder's index[a] (the offset of the     *)
(* first alignment with A-read >= a; offsets count alignments, not bytes),*)
(* and RangeSet::search (the entries whose [from, to) meets the query's,  *)
(* in an order the model leaves open).                                     *)
(***************************************************************************)
EXTENDS Integers, Sequences, FiniteSets, SequencesExt

CONSTANTS
    NumFiles,    \* the number of LAS files in Vin
    NumReads     \* nreads; A-reads are 0..NumReads-1

Files == 0..NumFiles - 1
AReads == 0..NumReads - 1

VARIABLES
    las,         \* file id -> the set of A-reads with an alignment (one each)
    status,      \* "init", "ready", or "error" when the constructor threw
    IV,          \* the index entries [from, to, index]
    query,       \* the last query <<from, to>>, or <<>>
    result,      \* what getFileRanges returned: a sequence of [id, start, end]
    scan,        \* the ranges a blockwise scan of getInterval() read, in order
    scanned      \* whether a scan was made

vars == <<las, status, IV, query, result, scan, scanned>>

----------------------------------------------------------------------------
(* Collaborators not in this tree                                          *)

\* OverlapIndexer::getMinimumARead / getMaximumARead
MinimumARead(f) == IF las[f] = {} THEN -1 ELSE Min(las[f])
MaximumARead(f) == IF las[f] = {} THEN -1 ELSE Max(las[f])

\* DalignerIndexDecoder index[a]
IndexOffset(f, a) == Cardinality({b \in las[f] : b < a})

\* RangeSet::search: the entries meeting [from, to)
Search(entries, from, to) == {e \in entries : e.from < to /\ from < e.to}

----------------------------------------------------------------------------
(* The code                                                                *)

\* Seeded fault (not the code): files sharing an A-read are accepted.
InAReadOrderLoose(VIE) == \A k \in 2..Len(VIE) : VIE[k-1].to <= VIE[k].from

\* the loop of lines 195-202 throws unless every non-empty interval ends
\* strictly before the next one begins
InAReadOrder(VIE) == \A k \in 2..Len(VIE) : VIE[k-1].to < VIE[k].from

\* Seeded fault (not the code): an entry ends at maxi, not maxi+1.
EntryToMaxi(i, vi) == [from |-> vi.from, to |-> vi.to, index |-> i]

\* LasIntervalsIndexEntry(VI[i].from, VI[i].to+1, i)
Entry(i, vi) == [from |-> vi.from, to |-> vi.to + 1, index |-> i]

\* IV[i-1].to = IV[i].from for i >= 1
Chain(iv) ==
    [k \in DOMAIN iv |-> IF k < Len(iv) THEN [iv[k] EXCEPT !.to = iv[k+1].from] ELSE iv[k]]

\* Seeded fault (not the code): the ids stay in the range set's order.
GetIdsUnsorted(V) == V

\* getIds: the indices of the entries found, sorted
GetIds(V) == SortSeq(V, LAMBDA x, y : x < y)

\* getFileRanges: per id, index[from] and index[to], kept if non-empty
FileRanges(ids, from, to) ==
    SelectSeq([k \in DOMAIN ids |-> [id |-> ids[k],
                                     start |-> IndexOffset(ids[k], from),
                                     end |-> IndexOffset(ids[k], to)]],
              LAMBDA r : r.end > r.start)

\* Seeded fault (not the code): the interval ends at back().to - 1.
GetIntervalToMaxi ==
    IF IV = <<>> THEN <<-1, -1>> ELSE <<IV[1].from, IV[Len(IV)].to - 1>>

\* getInterval(): [front().from, back().to), or (-1, -1) with no entries
GetInterval ==
    IF IV = <<>> THEN <<-1, -1>> ELSE <<IV[1].from, IV[Len(IV)].to>>

Init ==
    /\ las \in [Files -> SUBSET AReads]
    /\ status = "init"
    /\ IV = <<>>
    /\ query = <<>>
    /\ result = <<>>
    /\ scan = <<>>
    /\ scanned = FALSE

\* LasIntervals(Vin, nreads): read the intervals, check their order, build,
\* chain and insert the entries (or throw)
Construct ==
    /\ status = "init"
    /\ LET nonempty == SelectSeq([k \in 1..NumFiles |-> k - 1], LAMBDA f : las[f] # {})
           VI(f)    == [from |-> MinimumARead(f), to |-> MaximumARead(f)]
           VIE      == [k \in DOMAIN nonempty |-> VI(nonempty[k])]
       IN  IF InAReadOrder(VIE)
           THEN /\ IV' = Chain([k \in DOMAIN nonempty |-> Entry(nonempty[k], VIE[k])])
                /\ status' = "ready"
           ELSE /\ status' = "error"
                /\ UNCHANGED IV
    /\ UNCHANGED <<las, query, result, scan, scanned>>

\* getFileRanges(from, to)
Query(from, to) ==
    /\ status = "ready"
    /\ LET found == {e.index : e \in Search(Range(IV), from, to)}
       IN  \E V \in SetToSeqs(found) :
               result' = FileRanges(GetIds(V), from, to)
    /\ query' = <<from, to>>
    /\ UNCHANGED <<las, status, IV, scan, scanned>>

\* for (lo = I.first; lo < I.second; lo += b) getFileRanges(lo, min(lo+b, I.second)),
\* the range set returning each block's entries in descending index order
Scan(b) ==
    /\ status = "ready"
    /\ LET I  == GetInterval
           nb == IF I[2] > I[1] THEN (I[2] - I[1] + b - 1) \div b ELSE 0
           Block(k) ==
               LET lo == I[1] + (k - 1) * b
                   hi == IF lo + b < I[2] THEN lo + b ELSE I[2]
                   found == {e.index : e \in Search(Range(IV), lo, hi)}
               IN  FileRanges(GetIds(SetToSortSeq(found, LAMBDA x, y : x > y)), lo, hi)
       IN  scan' = FoldLeft(LAMBDA acc, k : acc \o Block(k), <<>>, [k \in 1..nb |-> k])
    /\ scanned' = TRUE
    /\ UNCHANGED <<las, status, IV, query, result>>

Next ==
    \/ Construct
    \/ \E from, to \in 0..NumReads : from <= to /\ Query(from, to)
    \/ \E b \in 1..2 : Scan(b)

Spec == Init /\ [][Next]_vars

----------------------------------------------------------------------------
(* Properties                                                              *)

LasFileRange == [id : Files, start : 0..NumReads, end : 0..NumReads]

TypeOK ==
    /\ las \in [Files -> SUBSET AReads]
    /\ status \in {"init", "ready", "error"}
    /\ \A k \in DOMAIN IV : /\ IV[k].index \in Files /\ IV[k].from \in AReads
                          /\ IV[k].to \in IV[k].from + 1..NumReads
    /\ result \in Seq(LasFileRange)
    /\ scan \in Seq(LasFileRange)
    /\ scanned \in BOOLEAN

\* the alignments a range of file f covers, as <<file, A-read>> pairs
Covered(r) ==
    LET sorted == SetToSortSeq(las[r.id], LAMBDA x, y : x < y)
    IN  {<<r.id, sorted[o + 1]>> : o \in r.start..r.end - 1}

\* The constructor throws exactly when the files are not in A-read order
\* (two non-empty files, in Vin's order, share or reverse an A-read), and
\* otherwise every query returns ranges that hold exactly the alignments
\* of all files with an A-read in [from, to), none twice: the chained
\* entries, the strict order check and index[] must agree for this.
RangesExact ==
    /\ status # "init" =>
           (status = "error" <=>
               \E f, g \in Files : f < g /\ las[f] # {} /\ las[g] # {}
                                   /\ MaximumARead(f) >= MinimumARead(g))
    /\ (status = "ready" /\ query # <<>>) =>
           /\ UNION {Covered(result[k]) : k \in DOMAIN result}
                  = {<<f, a>> \in Files \X AReads : a \in las[f] /\ query[1] <= a /\ a < query[2]}
           /\ \A j, k \in DOMAIN result : j < k => result[j].id # result[k].id

\* Reading the returned ranges in order, as AlignmentFileCat does, yields
\* the alignments in A-read order, whatever order the range set found
\* the files in.
RangesInAReadOrder ==
    \A j, k \in DOMAIN result : j < k =>
        \A x \in Covered(result[j]), y \in Covered(result[k]) : x[2] < y[2]


\* the alignments of range r, in file order
CoveredSeq(r) ==
    LET sorted == SetToSortSeq(las[r.id], LAMBDA x, y : x < y)
    IN  [o \in 1..r.end - r.start |-> <<r.id, sorted[r.start + o]>>]

\* A caller that walks getInterval() in blocks and reads each block's
\* ranges in order reads every alignment of every file exactly once and
\* in A-read order: the interval must reach past the last A-read, the
\* chained entries must leave no block between them, and index[] must
\* split each file at the block boundaries.
ScanReadsAll ==
    scanned =>
        FoldLeft(LAMBDA acc, r : acc \o CoveredSeq(r), <<>>, scan)
            = SetToSortSeq(UNION {{<<f, a>> : a \in las[f]} : f \in Files},
                           LAMBDA x, y : x[2] < y[2])

=============================================================================
