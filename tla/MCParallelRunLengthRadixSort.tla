-------------------- MODULE MCParallelRunLengthRadixSort --------------------
(***************************************************************************)
(* Model-checking instance of ParallelRunLengthRadixSort: small inputs of *)
(* one or two runs in one or two files, ranges over them the caller may   *)
(* pass, maxsym unknown or supplied, with and without deleteinput, for    *)
(* the thread counts and file budgets the .cfg lists.                      *)
(***************************************************************************)
EXTENDS ParallelRunLengthRadixSort

CONSTANTS
    MCSyms,        \* symbols the input runs use
    MCLens,        \* run lengths the input runs use
    MCThreads,     \* values of tnumthreads
    MCMaxFiles,    \* values of maxfiles
    MCEmptyRange,  \* whether the empty range [0,0) is passed too
    MCCutZeroMax   \* whether maxsym = 0 is supplied with a cut range

MCRuns == [sym : MCSyms, len : MCLens]

\* one file of one or two runs, or two files of one run each
MCInputs ==
    { <<<<r>>>> : r \in MCRuns }
    \cup { <<<<r1, r2>>>> : r1, r2 \in MCRuns }
    \cup { <<<<r1>>, <<r2>>>> : r1, r2 \in MCRuns }

MCMass(fs) == Mass(FlattenSeq(fs))

\* the whole input, a range cut at either end, and maybe the empty range
MCRanges(fs) ==
    { r \in {<<0, MCMass(fs)>>, <<1, MCMass(fs)>>, <<0, MCMass(fs) - 1>>} :
        r[1] < r[2] }
    \cup (IF MCEmptyRange THEN {<<0, 0>>} ELSE {})

MCRangeMax(fs, r) ==
    LET s == SubSeq(Expand(FlattenSeq(TagFiles(fs))), r[1] + 1, r[2])
    IN  IF r[1] = r[2] THEN 0 ELSE Max({s[i].sym : i \in DOMAIN s})

\* maxsym not known, or supplied as the true maximum of the range or as
\* the largest symbol.
MCMaxSyms(fs, r) ==
    { mm \in {<<0, FALSE>>, <<MCRangeMax(fs, r), TRUE>>, <<2^SymBits - 1, TRUE>>} :
        (mm = <<0, TRUE>> /\ ~MCCutZeroMax) => r = <<0, MCMass(fs)>> }

MCCalls ==
    UNION { UNION { { [files |-> fs, ilow |-> r[1], ihigh |-> r[2],
                       maxsym |-> m[1], maxsymvalid |-> m[2], deleteinput |-> d,
                       tnumthreads |-> n, maxfiles |-> f] :
                      m \in MCMaxSyms(fs, r), d \in BOOLEAN,
                      n \in MCThreads, f \in MCMaxFiles } :
                    r \in MCRanges(fs) } :
            fs \in MCInputs }

=============================================================================
