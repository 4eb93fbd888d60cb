------------------------------ MODULE MCBuddy ------------------------------
(* One buddy of 2^Level pages. *)
EXTENDS Buddy, Pow2

MCPow == [i \in 0..Level |-> 2^i]
=============================================================================
