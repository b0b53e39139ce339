------------------------------ MODULE JsArray ------------------------------
(***************************************************************************)
(* Array.prototype.filter and Array.prototype.sort, as the lists of the    *)
(* web client use them.  The sort is stable: elements of which neither     *)
(* comes before the other stay in the order they were in, which SortSeq    *)
(* of the standard modules leaves open.                                    *)
(***************************************************************************)
EXTENDS Naturals, FiniteSets, Sequences, SequencesExt

\* The elements of s at the positions in kept.
Filter(s, kept) ==
    [r \in 1..Cardinality(kept) |->
        s[CHOOSE i \in kept : Cardinality({j \in kept : j < i}) = r - 1]]

\* The same, sorted.
FilterSort(s, kept, Before(_, _)) ==
    LET Earlier(i) == {j \in kept : Before(s[j], s[i]) \/ (~Before(s[i], s[j]) /\ j < i)}
    IN  [r \in 1..Cardinality(kept) |->
            s[CHOOSE i \in kept : Cardinality(Earlier(i)) = r - 1]]

\* The elements of a set, which a map or an object holds in some order, sorted.
SortedSeq(S, Before(_, _)) == LET s == SetToSeq(S) IN FilterSort(s, DOMAIN s, Before)
=============================================================================
