----------------------------- MODULE DupMarking -----------------------------
(***************************************************************************)
(* Duplicate marking, from two pieces of this tree:                       *)
(*                                                                         *)
(* DupSetCallbackStream takes libmaus2::bambam::ReadEnds, which is not in  *)
(* this tree; the libmaus::bambam::ReadEnds that is stands in for it.     *)
(* Only the fields the callback reads (the two line numbers, isPaired and *)
(* the library id) pass between them.                                     *)
(*                                                                         *)
(*  - ReadEnds (libmaus/bambam/ReadEnds.hpp): the key of a fragment or a  *)
(*    pair of alignments built by fillFrag / fillFragPair, its 32-bit     *)
(*    coordinate encoding signedEncode / signedDecode and operator<,      *)
(*    the order in which ends are sorted to find duplicate groups, the    *)
(*    optical fields tile, x and y parsed from the read name, and the     *)
(*    compact put / get by which ends are spilled to and read back from   *)
(*    temporary files;                                                    *)
(*  - DupSetCallbackStream (libmaus2/bambam/DupSetCallbackStream.hpp):    *)
(*    the callback that receives every duplicate end, appends its read    *)
(*    indices to a file and counts metrics, and whose flush(n) turns the  *)
(*    file into a bit vector of n reads and recounts the distinct marks.  *)
(*                                                                         *)
(* The caller (markduplicates, not in this tree) is modelled as reporting *)
(* any pair end of two mates, and any fragment end whose read has no     *)
(* mapped mate, with or without copied alignments, any number of times,  *)
(* each end passing through put and get (the container's temporary file) *)
(* before it reaches the callback; then calling flush once with the      *)
(* number of alignments.  The ghost "dupranks" holds the ranks of the     *)
(* alignments the caller declared duplicates, "built" the pairs <<p, end>>*)
(* of the first alignment and the end as constructed, "reported" the ends *)
(* passed to the callback.                                                *)
(*                                                                         *)
(* A read name is a sequence of character codes (no terminating NUL); a  *)
(* copied alignment is abstracted to its rank, -1 standing for the null   *)
(* pointer.  UTF8 and NumberSerialisation (not in this tree) are lossless *)
(* for the widths written; a token <<codec, value>> stands for the bytes  *)
(* of one field, and a read with the wrong codec yields garbage (-1).     *)
(*                                                                         *)
(* Widths are scaled: IntBits stands for the 32 bits of the coordinate    *)
(* fields and ShiftBits for the 29 of signshift = -(1<<29)+1.             *)
(***************************************************************************)
EXTENDS Integers, Sequences, FiniteSets, SequencesExt, FiniteSetsExt, Relation

CONSTANTS
    Alns,        \* the alignments: [rank, ref, coord, rev, paired, mateUnmap, nextRef, score, rg, name]
    Mates,       \* the ordered pairs <<p, q>> of Alns given to fillFragPair
    LibOf,       \* header.getLibraryId: read group id (-1 for none) -> library id
    Libs,        \* the library ids
    Tags,        \* the rtagId values the constructors are given
    NumReads,    \* the n passed to flush: the number of alignments
    MaxReports,  \* bound on the values written to the file
    MaxOptical,  \* bound on the optical duplicates added per library
    IntBits,     \* width of the coordinate fields (32 in the code)
    ShiftBits    \* signshift = -(2^ShiftBits) + 1 (29 in the code)

VARIABLES
    file,        \* the uint64 values written through SGO, in order
    numdup,
    metrics,     \* library id -> [readpairduplicates, unpairedreadduplicates, opticalduplicates]
    B,           \* the bit vector after flush, a function on 0..n-1
    phase,       \* "collecting" while SGO is open, "flushed" after flush
    dupranks,    \* ghost: ranks of the alignments reported as duplicates
    built,       \* ghost: <<p, end>> for every ReadEnds constructed
    reported     \* ghost: the ReadEnds passed to operator()

vars == <<file, numdup, metrics, B, phase, dupranks, built, reported>>

----------------------------------------------------------------------------
(* ReadEndsBase                                                            *)

\* the low IntBits bits of v read as a two's complement int
ToSigned(v) ==
    LET m == v % 2^IntBits IN IF m >= 2^(IntBits - 1) THEN m - 2^IntBits ELSE m

SignShift == -(2^ShiftBits) + 1

\* Seeded fault (not the code): the shift is left out.
SignedEncodeNoShift(n) == n % 2^IntBits

\* static_cast<uint32_t>(int64_t(n) - signshift)
SignedEncode(n) == (n - SignShift) % 2^IntBits

\* static_cast<int32_t>(int64_t(n) + signshift)
SignedDecode(u) == ToSigned(u + SignShift)

\* orientation enum
F == 0
R == 1
FF == 2
FR == 3
RF == 4
RR == 5

\* memset(this, 0, sizeof(*this))
Reset ==
    [libraryId |-> 0, tagId |-> 0, read1Sequence |-> 0, read1Coordinate |-> 0,
     orientation |-> F, read2Sequence |-> 0, read2Coordinate |-> 0,
     read1IndexInFile |-> 0, read2IndexInFile |-> 0, score |-> 0, readGroup |-> 0,
     tile |-> 0, x |-> 0, y |-> 0, p |-> -1, q |-> -1]

IsPaired(re) == re.read2Sequence # 0

Colon == 58            \* ':'
IsDigit(c) == c \in 48..57     \* D[c]: '0'..'9'

\* parseReadNameValid: between 2 and 4 ':' in the name
ParseReadNameValid(name) ==
    Cardinality({i \in DOMAIN name : name[i] = Colon}) \in 2..4

\* Seeded fault (not the code): sem[] points at each ':', not after it.
RECURSIVE ScanColonsAtColon(_, _)
ScanColonsAtColon(name, c) ==
    IF c = 0 THEN <<>>
    ELSE IF name[c] = Colon THEN <<c>> \o ScanColonsAtColon(name, c - 1)
    ELSE ScanColonsAtColon(name, c - 1)

\* the backward scan: *(psem++) = c+1 for every ':' from the end
RECURSIVE ScanColons(_, _)
ScanColons(name, c) ==
    IF c = 0 THEN <<>>
    ELSE IF name[c] = Colon THEN <<c + 1>> \o ScanColons(name, c - 1)
    ELSE ScanColons(name, c - 1)

\* sem[0..2]; sem[2] keeps the name's start unless a third ':' was found
Sem(name) ==
    LET s == ScanColons(name, Len(name))
    IN  [i \in 0..2 |-> IF i = 2 /\ Len(s) < 3 THEN 1 ELSE s[i + 1]]

\* while (D[*t]) v = v*10 + (*t++ - '0'), from v = 0; the NUL after the
\* name stops the loop.  Reduction modulo the field's width commutes with
\* the loop, so the width is applied to the result.
RECURSIVE ParseNumber(_, _, _)
ParseNumber(name, t, v) ==
    IF t <= Len(name) /\ IsDigit(name[t])
    THEN ParseNumber(name, t + 1, v * 10 + name[t] - 48)
    ELSE v

\* parseReadNameTile(readname, readnamee, RE): tile (uint16) from sem[2]
\* plus one, x from sem[1], y from sem[0], each first set to 0.  x and y
\* are uint32, which the names of the model are too short to wrap.
ParseReadNameTile(name, re) ==
    LET sem == Sem(name)
    IN  [re EXCEPT !.tile = (ParseNumber(name, sem[2], 0) + 1) % 2^16,
                   !.x = ParseNumber(name, sem[1], 0),
                   !.y = ParseNumber(name, sem[0], 0)]

\* fillCommon
FillCommon(p, re) ==
    LET re2 == [re EXCEPT !.read1Sequence = p.ref + 1,
                          !.read1Coordinate = SignedEncode(p.coord + 1),
                          !.read1IndexInFile = p.rank]
    IN  IF ParseReadNameValid(p.name) THEN ParseReadNameTile(p.name, re2) ELSE re2

\* the tail both fills share: the mate's sequence, read group and library
FillMateAndGroup(p, re, tag) ==
    LET re2 == IF p.paired /\ ~p.mateUnmap
               THEN [re EXCEPT !.read2Sequence = p.nextRef + 1] ELSE re
    IN  [re2 EXCEPT !.readGroup = (p.rg + 1) % 2^16,
                    !.libraryId = LibOf[p.rg],
                    !.tagId = tag]

\* ReadEnds(p, header): reset, then fillFrag with rtagid
FillFrag(p, tag) ==
    LET re == [FillCommon(p, Reset) EXCEPT
                  !.orientation = IF p.rev THEN R ELSE F,
                  !.score = p.score]
    IN  FillMateAndGroup(p, re, tag)

\* ReadEnds(p, q, header): reset, then fillFragPair with rtagId
FillFragPair(p, q, tag) ==
    LET re == [FillCommon(p, Reset) EXCEPT
                  !.read2Sequence = q.ref + 1,
                  !.read2Coordinate = SignedEncode(q.coord + 1),
                  !.read2IndexInFile = q.rank,
                  !.orientation = IF ~p.rev THEN (IF ~q.rev THEN FF ELSE FR)
                                  ELSE (IF ~q.rev THEN RF ELSE RR),
                  !.score = p.score + q.score]
    IN  FillMateAndGroup(p, re, tag)

\* lexicographic < on equally long tuples of integers
RECURSIVE LexLess(_, _)
LexLess(s, t) ==
    /\ s # <<>>
    /\ \/ Head(s) < Head(t)
       \/ Head(s) = Head(t) /\ LexLess(Tail(s), Tail(t))

\* the fields operator< compares, in its order
CompareFields(re) ==
    <<re.libraryId, re.tagId, re.read1Sequence, re.read1Coordinate, re.orientation,
      re.read2Sequence, re.read2Coordinate, re.read1IndexInFile, re.read2IndexInFile>>

\* operator<: the first differing field decides
Less(a, b) == LexLess(CompareFields(a), CompareFields(b))

\* Seeded fault (not the code): operator> stops before the line numbers.
GreaterNoIndices(a, b) ==
    LexLess(SubSeq(CompareFields(b), 1, 7), SubSeq(CompareFields(a), 1, 7))

\* operator>: the same fields in the same order, compared with >
Greater(a, b) == LexLess(CompareFields(b), CompareFields(a))

\* Seeded fault (not the code): == ignores the line numbers, as its
\* comment ("up to the line numbers") can be read.
EqualUpToLineNumbers(a, b) ==
    SubSeq(CompareFields(a), 1, 7) = SubSeq(CompareFields(b), 1, 7)

\* operator==: false at the first differing field, of the same nine
Equal(a, b) == CompareFields(a) = CompareFields(b)

\* getRead1Coordinate / getRead2Coordinate
GetRead1Coordinate(re) == SignedDecode(re.read1Coordinate)
GetRead2Coordinate(re) == SignedDecode(re.read2Coordinate)

\* ReadEnds(p, header, copyAlignment, rtagId): reset, fillFrag, copy p if asked
ReadEndsFrag(p, copy, tag) ==
    IF copy THEN [FillFrag(p, tag) EXCEPT !.p = p.rank] ELSE FillFrag(p, tag)

\* ReadEnds(p, q, header, copyAlignment, rtagId): reset, fillFragPair, copy both
ReadEndsPair(p, q, copy, tag) ==
    IF copy THEN [FillFragPair(p, q, tag) EXCEPT !.p = p.rank, !.q = q.rank]
    ELSE FillFragPair(p, q, tag)

----------------------------------------------------------------------------
(* Compact put / get                                                       *)

\* ReadEndsBase::put: the fields in the order written, with their codecs
PutBase(re) ==
    << <<"utf8", re.libraryId>>, <<"num8", re.tagId>>,
       <<"utf8", re.read1Sequence>>, <<"utf8", re.read1Coordinate>>,
       <<"byte", re.orientation>>,
       <<"utf8", re.read2Sequence>>, <<"utf8", re.read2Coordinate>>,
       <<"num8", re.read1IndexInFile>>, <<"num8", re.read2IndexInFile>>,
       <<"utf8", re.score>>, <<"utf8", re.readGroup>>, <<"utf8", re.tile>>,
       <<"num4", re.x>>, <<"num4", re.y>> >>

\* ReadEnds::put: the base, the byte numal = havep + haveq, then p and q
Put(re) ==
    LET als == SelectSeq(<<re.p, re.q>>, LAMBDA a : a # -1)
    IN  PutBase(re) \o << <<"byte", Len(als)>> >>
                    \o [k \in DOMAIN als |-> <<"aln", als[k]>>]

\* the k-th token read as codec c
Field(ts, k, c) == IF k <= Len(ts) /\ ts[k][1] = c THEN ts[k][2] ELSE -1

\* Seeded fault (not the code): x and y read in swapped order.
GetBaseSwapXY(ts) ==
    [libraryId |-> Field(ts, 1, "utf8"), tagId |-> Field(ts, 2, "num8"),
     read1Sequence |-> Field(ts, 3, "utf8"), read1Coordinate |-> Field(ts, 4, "utf8"),
     orientation |-> Field(ts, 5, "byte"),
     read2Sequence |-> Field(ts, 6, "utf8"), read2Coordinate |-> Field(ts, 7, "utf8"),
     read1IndexInFile |-> Field(ts, 8, "num8"), read2IndexInFile |-> Field(ts, 9, "num8"),
     score |-> Field(ts, 10, "utf8"), readGroup |-> Field(ts, 11, "utf8"),
     tile |-> Field(ts, 12, "utf8"), x |-> Field(ts, 14, "num4"), y |-> Field(ts, 13, "num4")]

\* ReadEndsBase::get: the fields in the order read
GetBase(ts) ==
    [libraryId |-> Field(ts, 1, "utf8"), tagId |-> Field(ts, 2, "num8"),
     read1Sequence |-> Field(ts, 3, "utf8"), read1Coordinate |-> Field(ts, 4, "utf8"),
     orientation |-> Field(ts, 5, "byte"),
     read2Sequence |-> Field(ts, 6, "utf8"), read2Coordinate |-> Field(ts, 7, "utf8"),
     read1IndexInFile |-> Field(ts, 8, "num8"), read2IndexInFile |-> Field(ts, 9, "num8"),
     score |-> Field(ts, 10, "utf8"), readGroup |-> Field(ts, 11, "utf8"),
     tile |-> Field(ts, 12, "utf8"), x |-> Field(ts, 13, "num4"), y |-> Field(ts, 14, "num4")]

\* ReadEnds::get into a default ReadEnds: the base, numal, then p if
\* numal > 0 and q if numal > 1
Get(ts) ==
    LET base == GetBase(ts)
        numal == Field(ts, 15, "byte")
    IN  [f \in DOMAIN base \cup {"p", "q"} |->
            CASE f = "p" -> IF numal > 0 THEN Field(ts, 16, "aln") ELSE -1
              [] f = "q" -> IF numal > 1 THEN Field(ts, 17, "aln") ELSE -1
              [] OTHER   -> base[f]]

\* recode(): put into a string stream and get back
Recode(re) == Get(Put(re))

----------------------------------------------------------------------------
(* DupSetCallbackStream                                                    *)

NoMetrics == [readpairduplicates |-> 0, unpairedreadduplicates |-> 0, opticalduplicates |-> 0]

\* Seeded fault (not the code): every value read counts, marked or not.
FlushStepCountAll(acc, v) ==
    [bits |-> [acc.bits EXCEPT ![v] = TRUE], count |-> acc.count + 1]

\* one iteration of flush's read loop: count v if unmarked, then mark it
FlushStep(acc, v) ==
    [bits  |-> [acc.bits EXCEPT ![v] = TRUE],
     count |-> IF ~acc.bits[v] THEN acc.count + 1 ELSE acc.count]

\* Seeded fault (not the code): the bit vector has n+1 bits.
FlushFileOneMore(n, f) ==
    FoldLeft(FlushStep, [bits |-> [i \in 0..n |-> FALSE], count |-> 0], f)

\* the bit vector of n cleared bits, then the loop over the file
FlushFile(n, f) ==
    FoldLeft(FlushStep, [bits |-> [i \in 0..n-1 |-> FALSE], count |-> 0], f)

\* isMarked(i)
IsMarked(i) == B[i]

Init ==
    /\ file = <<>>
    /\ numdup = 0
    /\ metrics = [l \in Libs |-> NoMetrics]
    /\ B = <<>>
    /\ phase = "collecting"
    /\ dupranks = {}
    /\ built = {}
    /\ reported = {}

\* operator()(A): append read1's index, and read2's if A is paired
Report(A) ==
    /\ phase = "collecting"
    /\ LET vals == IF IsPaired(A) THEN <<A.read1IndexInFile, A.read2IndexInFile>>
                   ELSE <<A.read1IndexInFile>>
       IN  /\ Len(file) + Len(vals) <= MaxReports
           /\ file' = file \o vals
           /\ numdup' = numdup + Len(vals)
           /\ metrics' =
                IF IsPaired(A)
                THEN [metrics EXCEPT ![A.libraryId].readpairduplicates = @ + 1]
                ELSE [metrics EXCEPT ![A.libraryId].unpairedreadduplicates = @ + 1]
    /\ reported' = reported \cup {A}
    /\ UNCHANGED <<B, phase>>

\* the caller reports a fragment end of a read without a mapped mate
ReportFrag(p, copy, tag) ==
    /\ ~(p.paired /\ ~p.mateUnmap)
    /\ LET re == ReadEndsFrag(p, copy, tag)
       IN  /\ Report(Recode(re))
           /\ built' = built \cup {<<p, re>>}
    /\ dupranks' = dupranks \cup {p.rank}

\* the caller reports the pair end of two mates
ReportPair(p, q, copy, tag) ==
    /\ LET re == ReadEndsPair(p, q, copy, tag)
       IN  /\ Report(Recode(re))
           /\ built' = built \cup {<<p, re>>}
    /\ dupranks' = dupranks \cup {p.rank, q.rank}

\* addOpticalDuplicates(libid, count)
AddOpticalDuplicates(l, c) ==
    /\ metrics[l].opticalduplicates + c <= MaxOptical
    /\ metrics' = [metrics EXCEPT ![l].opticalduplicates = @ + c]
    /\ UNCHANGED <<file, numdup, B, phase, dupranks, built, reported>>

\* flush(n): close the file, clear n bits, re-read and recount
Flush ==
    /\ phase = "collecting"
    /\ LET r == FlushFile(NumReads, file)
       IN  /\ B' = r.bits
           /\ numdup' = r.count
    /\ phase' = "flushed"
    /\ UNCHANGED <<file, metrics, dupranks, built, reported>>

Next ==
    \/ \E p \in Alns, copy \in BOOLEAN, tag \in Tags : ReportFrag(p, copy, tag)
    \/ \E m \in Mates, copy \in BOOLEAN, tag \in Tags :
           ReportPair(m[1], m[2], copy, tag)
    \/ \E l \in Libs, c \in 1..MaxOptical : AddOpticalDuplicates(l, c)
    \/ Flush

Spec == Init /\ [][Next]_vars

----------------------------------------------------------------------------
(* Properties                                                              *)

TypeOK ==
    /\ file \in Seq(0..NumReads - 1) /\ Len(file) <= MaxReports
    /\ numdup \in 0..MaxReports
    /\ \A l \in Libs : metrics[l] \in [readpairduplicates : Nat,
                                       unpairedreadduplicates : Nat,
                                       opticalduplicates : 0..MaxOptical]
    /\ phase \in {"collecting", "flushed"}
    /\ phase = "flushed" => B \in [0..NumReads - 1 -> BOOLEAN]

\* After flush, isMarked(i) holds exactly for the alignments the caller
\* reported as duplicates (in a fragment end or in either end of a pair),
\* and getNumDups() is their number, however often each was reported:
\* fillFrag, fillFragPair, isPaired, operator() and flush's recount must
\* all agree for this to hold.
FlushMarksExactly ==
    phase = "flushed" =>
        /\ \A i \in 0..NumReads - 1 : IsMarked(i) <=> i \in dupranks
        /\ numdup = Cardinality(dupranks)

\* operator< compares the encoded coordinates as unsigned words; on every
\* pair of ends reported it orders them as the decoded coordinates would,
\* so duplicate groups sorted by operator< are groups of equal positions.
EncodedOrderAgrees ==
    \A a, b \in reported :
        LET Decoded(re) ==
                [CompareFields(re) EXCEPT ![4] = GetRead1Coordinate(re),
                                          ![7] = GetRead2Coordinate(re)]
        IN  Less(a, b) <=> LexLess(Decoded(a), Decoded(b))


\* The value of the decimal digits that start at position s of name and
\* run up to its first non-digit.
LeadingNumber(name, s) ==
    LET e == Min({k \in s..Len(name) + 1 : k > Len(name) \/ ~IsDigit(name[k])})
    IN  FoldLeft(LAMBDA v, d : 10 * v + d - 48, 0, SubSeq(name, s, e - 1))

\* The optical fields a name of the form ...[T:]X:Y denotes: y after the
\* last ':', x after the one before it, and the tile after the third-last
\* ':' or, with only two, at the name's start; the tile is stored plus one.
\* Names with fewer than two or more than four ':' keep tile, x, y = 0.
OpticalFields(name) ==
    LET C == {i \in DOMAIN name : name[i] = Colon}
        c1 == Max(C)
        c2 == Max(C \ {c1})
        rest == C \ {c1, c2}
    IN  IF Cardinality(C) \notin 2..4 THEN <<0, 0, 0>>
        ELSE << (LeadingNumber(name, IF rest = {} THEN 1 ELSE Max(rest) + 1) + 1) % 2^16,
                LeadingNumber(name, c2 + 1), LeadingNumber(name, c1 + 1) >>

\* Every end constructed carries the tile, x and y its first alignment's
\* name denotes, whatever the number of ':' and wherever the digit runs
\* stop: fillCommon's validity check, the backward ':' scan into sem[]
\* (sem[2] left at the name's start when only two are found) and the
\* three digit loops must agree for this to hold.
OpticalFieldsParsed ==
    \A b \in built : <<b[2].tile, b[2].x, b[2].y>> = OpticalFields(b[1].name)

\* recode() gives an object identical to the original (the comment at
\* ReadEnds::recode): every end constructed, with or without copied
\* alignments, comes back from put and get unchanged, so the ends read
\* back from the container's temporary files are the ends built.
RecodeIdentity ==
    \A b \in built : Recode(b[2]) = b[2]


\* The three comparators of ReadEndsBase, written out separately, agree:
\* on every two ends reported exactly one of operator<, operator> and
\* operator== holds, and operator< is a strict partial order, so sorting
\* by operator< (ReadEndsBasePointerComparator) and grouping by == see
\* the same classes.  Two duplicates at one position differ only in
\* their line numbers, the last fields each comparator must look at.
ComparatorsAgree ==
    /\ \A a, b \in reported :
           (IF Less(a, b) THEN 1 ELSE 0) + (IF Greater(a, b) THEN 1 ELSE 0)
             + (IF Equal(a, b) THEN 1 ELSE 0) = 1
    /\ IsStrictlyPartiallyOrderedUnder(Less, reported)

=============================================================================
