---------------------------- MODULE MCPageAlloc ----------------------------
(* An area of a few small buddies, at an address that is not aligned. *)
EXTENDS Pages, TLC

MCPow == [i \in 0..Level |-> 2^i]

\* Which struct is which does not matter.
Sym == Permutations(Structs)
=============================================================================
