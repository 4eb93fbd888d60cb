-------------------------------- MODULE Pow2 --------------------------------
(***************************************************************************)
(* is_pow_of_2 and next_pow_of_2 of kern/mm/pmm/page_alloc.c, bit by bit,  *)
(* against what Buddy and PageAlloc take them for.                         *)
(***************************************************************************)
EXTENDS Integers, Bitwise

\* !(x & (x-1)); for 0 the subtraction wraps around and the conjunction is 0.
is_pow_of_2(x) == x = 0 \/ (x & (x - 1)) = 0

\* x |= x >> n
Smear(x, n) == x | shiftR(x, n)

next_pow_of_2(x) ==
  IF is_pow_of_2(x) THEN x
  ELSE Smear(Smear(Smear(Smear(Smear(x, 1), 2), 4), 8), 16) + 1

\* The smallest power of two that is not below x.
Least(x) == LET P == {2^i : i \in 0..20}
            IN CHOOSE p \in P : p >= x /\ \A q \in P : q >= x => p <= q

\* Requests up to a little more than a buddy, and both sides of larger powers;
\* all far below 2^32, so that nothing wraps around.
Inputs == 1..1100 \cup UNION {{2^i - 1, 2^i, 2^i + 1} : i \in 11..19}

\* next_pow_of_2 is the least power of two from x on; 0 stays 0, which is why
\* buddy_alloc treats it separately.
ASSUME NextPow ==
  /\ \A x \in Inputs : next_pow_of_2(x) = Least(x)
  /\ next_pow_of_2(0) = 0
=============================================================================
