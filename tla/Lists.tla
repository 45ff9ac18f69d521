-------------------------------- MODULE Lists --------------------------------
(* Filtering a list.  SelectSeq of the standard modules does the same, but the  *)
(* prover has no definition of it; Only is first order.                         *)
EXTENDS Integers, FiniteSets

(* The entries of s that are in S, in the order they have in s: the k-th is the *)
(* one that k of the places to be kept reach up to.                             *)
Only(s, S) ==
    LET places  == {i \in DOMAIN s : s[i] \in S}
        Rank(i) == Cardinality({j \in places : j <= i})
    IN  [k \in 1..Cardinality(places) |-> s[CHOOSE i \in places : Rank(i) = k]]

==============================================================================
