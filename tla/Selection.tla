----------------------------- MODULE Selection -----------------------------
(***************************************************************************)
(* The elements of a sequence that a filter lets through, in their order.  *)
(* It is SelectSeq, by the set of the positions and not by a test, which   *)
(* leaves it open to proof: the k-th position that is selected is the one  *)
(* with k selected positions up to it.                                     *)
(***************************************************************************)
EXTENDS Naturals, FiniteSets

Nth(positions, k) ==
    CHOOSE i \in positions : Cardinality({j \in positions : j <= i}) = k

Select(seq, positions) == [k \in 1 .. Cardinality(positions) |-> seq[Nth(positions, k)]]
=============================================================================
