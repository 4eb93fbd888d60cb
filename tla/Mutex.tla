------------------------------- MODULE Mutex -------------------------------
(***************************************************************************)
(* What a spin lock promises to its callers: at most one execution context *)
(* owns the lock, ownership passes only through a release, and a context   *)
(* that asks for a lock it already owns halts the kernel instead of being  *)
(* given the lock a second time.                                           *)
(***************************************************************************)
CONSTANTS Ctx,     \* execution contexts that may call the lock
          NoOwner  \* not a context

VARIABLES owner,   \* the context that owns the lock, or NoOwner
          halted   \* contexts that have panicked

vars == <<owner, halted>>

Init ==
  /\ owner = NoOwner
  /\ halted = {}

Acquire(c) ==
  /\ c \notin halted
  /\ owner = NoOwner
  /\ owner' = c
  /\ UNCHANGED halted

Release(c) ==
  /\ c \notin halted
  /\ owner = c
  /\ owner' = NoOwner
  /\ UNCHANGED halted

\* Asking again for a lock one owns: panic("already acquired!").
Halt(c) ==
  /\ c \notin halted
  /\ owner = c
  /\ halted' = halted \cup {c}
  /\ UNCHANGED owner

Next == \E c \in Ctx : Acquire(c) \/ Release(c) \/ Halt(c)

Spec == Init /\ [][Next]_vars
=============================================================================
