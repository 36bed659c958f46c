--------------------------- MODULE RunLengthSort ---------------------------
(***************************************************************************)
(* What parallelRadixSort promises its caller (spec.md sections 1, 6, 8): *)
(* the logical symbol sequence of the range it was given comes back as a  *)
(* list of files whose concatenation is that sequence sorted ascending by *)
(* the projected key, stably, or the call is refused with a configuration *)
(* error before any work is done.  Nothing in between is visible.          *)
(*                                                                         *)
(* Symbols carry a ghost origin tag "org" (their position in the input),  *)
(* the position marker of spec.md section 8 "Round-trip inversion", so    *)
(* that stability and the permutation are observable.                      *)
(***************************************************************************)
EXTENDS Naturals, Sequences, FiniteSets

VARIABLES status, data

absvars == <<status, data>>

\* The stable sort by a key: the element at index i goes to the position
\* given by the elements with a smaller key plus the earlier ones with the
\* same key.  This is the reference definition the radix rounds are
\* checked against; it says nothing about digits or files.
StableRank(s, i, Key(_)) ==
    Cardinality({j \in DOMAIN s : Key(s[j]) < Key(s[i])})
  + Cardinality({j \in 1..i-1 : Key(s[j]) = Key(s[i])}) + 1

StableSortBy(s, Key(_)) ==
    [k \in 1..Len(s) |-> s[CHOOSE i \in DOMAIN s : StableRank(s, i, Key) = k]]

SymKey(x) == x.sym

Init ==
    /\ status = "running"
    /\ DOMAIN data = 1..Len(data)
    /\ \A i \in DOMAIN data : data[i].sym \in Nat /\ data[i].org \in Nat

\* The whole sort, seen from outside: one step.
Sort ==
    /\ status = "running"
    /\ status' = "sorted"
    /\ data' = StableSortBy(data, SymKey)

\* The call is refused before any work is done.  What decides it (maxfiles
\* against the thread count, in the detailed module's RejectConfig) is not
\* visible to the caller, so the abstract step is guarded only by having
\* done nothing yet: the data is untouched and no sort step came first.
Reject ==
    /\ status = "running"
    /\ status' = "rejected"
    /\ UNCHANGED data

Next == Sort \/ Reject

Spec == Init /\ [][Next]_absvars /\ WF_absvars(Next)

=============================================================================
