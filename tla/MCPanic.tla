------------------------------ MODULE MCPanic ------------------------------
(* A few CPUs, and stacks deep enough for a panic above an interrupt handler  *)
(* above an interrupted kputs.                                                *)
EXTENDS Panic

CONSTANTS c1, c2
=============================================================================
