-------------------------------- MODULE Sifting --------------------------------
(***************************************************************************)
(* The erase-remove idiom of the C++ library: what is left of a sequence   *)
(* when everything that is not to be kept is removed, in its order.        *)
(***************************************************************************)
EXTENDS Naturals, Sequences, FiniteSets

\* The place of the k-th element of a set of places.
Place(places, k) ==
  CHOOSE i \in places : Cardinality({j \in places : j <= i}) = k

\* std::remove_if and erase
Sifted(q, keep) ==
  LET places == {i \in DOMAIN q : q[i] \in keep}
  IN [k \in 1..Cardinality(places) |-> q[Place(places, k)]]
===============================================================================
