---------------------------- MODULE MCDupMarking ----------------------------
(***************************************************************************)
(* Five alignments: two mates a0/a1 on reference 0 (a0 with a negative    *)
(* unclipped coordinate, as a soft-clipped read at the start gets), an    *)
(* unpaired a2 without read group, and a3 whose mate is unmapped.  a0 and *)
(* a1 are reported only as a pair, in either order; a2 and a3 as          *)
(* fragments.  Two libraries: read group -1 is library 1, 0 and 1 are 0.  *)
(* Their names cover the parser's cases: three ':' with a letter ending  *)
(* the x digits (a0), two ':' so the tile starts the name (a1), one ':'   *)
(* so the name is not parsed (a2), and four ':' with an empty y (a3).    *)
(* a4 lies where a2 does, so their fragment ends differ only in the line  *)
(* number: a true duplicate.                                              *)
(***************************************************************************)
EXTENDS DupMarking

\* the ASCII code of a one-character string
Code(c) ==
    CASE c = ":" -> 58 [] c = "a" -> 97 [] c = "b" -> 98 [] c = "q" -> 113
      [] OTHER -> 48 + CHOOSE d \in 0..9 : <<"0","1","2","3","4","5","6","7","8","9">>[d + 1] = c

\* a read name given as a tuple of one-character strings
Name(cs) == [k \in DOMAIN cs |-> Code(cs[k])]

Aln(rank, ref, coord, rev, paired, mateUnmap, nextRef, score, rg, name) ==
    [rank |-> rank, ref |-> ref, coord |-> coord, rev |-> rev, paired |-> paired,
     mateUnmap |-> mateUnmap, nextRef |-> nextRef, score |-> score, rg |-> rg,
     name |-> Name(name)]

A0 == Aln(0, 0, -3, FALSE, TRUE, FALSE, 0, 2, 0, <<"a",":","1","2",":","3","b",":","4","5">>)
A1 == Aln(1, 0, 4, TRUE, TRUE, FALSE, 0, 1, 0, <<"7",":","3","0",":","2">>)
A2 == Aln(2, 1, 0, FALSE, FALSE, FALSE, -1, 1, -1, <<"a",":","5">>)
A3 == Aln(3, 0, -1, TRUE, TRUE, TRUE, -1, 3, 1, <<"q",":","1",":","2",":","3",":">>)
A4 == Aln(4, 1, 0, FALSE, FALSE, FALSE, -1, 2, -1, <<"b",":","2",":","8">>)

MCAlns == {A0, A1, A2, A3, A4}
MCMates == {<<A0, A1>>, <<A1, A0>>}
MCLibOf == [g \in {-1, 0, 1} |-> IF g = -1 THEN 1 ELSE 0]

=============================================================================
