------------------------------ MODULE MCUvm ------------------------------
(* Two address spaces of three pages in two page tables, and too few frames   *)
(* for both to be full.                                                      *)
EXTENDS Uvm, TLC

CONSTANTS m1, m2

MCFlags == {{PTE_P, PTE_W, PTE_U}, {PTE_W, PTE_U}}
MCData == {<<1, 1, 0>>}
MCSymmetry == Permutations(MM)
=============================================================================
