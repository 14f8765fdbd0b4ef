------------------------- MODULE MCDestinationCalls -------------------------
(* A small instance of DestinationCalls for TLC. *)
EXTENDS DestinationCalls, TLC

Symmetry == Permutations(Deleters)

DumpAndObject == {<<1, 1>>, <<2, 1>>}

AnyLeft == SUBSET DumpAndObject
=============================================================================
