------------------------------ MODULE Thinning ------------------------------
(***************************************************************************)
(* A list of which some elements are kept, in their order: what a list     *)
(* comprehension with a condition, or a rewrite of a file without some of  *)
(* its lines, leaves.                                                      *)
(***************************************************************************)
EXTENDS Naturals, FiniteSets

(* The places of a set that are lower than one of them.                    *)
Lower(places, i) == {j \in places : j < i}

(* The n-th of them, from below.                                           *)
Place(places, n) == CHOOSE i \in places : Cardinality(Lower(places, i)) = n - 1

(* The elements of s at these places.                                      *)
Thinned(s, places) == [n \in 1..Cardinality(places) |-> s[Place(places, n)]]

=============================================================================
