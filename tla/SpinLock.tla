------------------------------ MODULE SpinLock ------------------------------
(***************************************************************************)
(* The i386 spin lock (include/arch/i386/arch-sync.h): spin_lock and       *)
(* spin_unlock, one action per access to the shared words lock->locked and *)
(* lock->percpu.  A context is whatever can be in the middle of a call of  *)
(* its own: a CPU, or one of the nested interrupt levels of a CPU.         *)
(*                                                                         *)
(* gs[c] is what get_gs_cpu() returns in context c: the address of the     *)
(* CPU's struct percpu once seginit() has run there, and an arbitrary word *)
(* on the boot CPU, which never runs seginit().                            *)
(***************************************************************************)
EXTENDS Naturals

CONSTANTS Ctx,  \* execution contexts
          NULL, \* the null pointer
          gs    \* gs[c]: the value of %gs:0 in context c

ASSUME CtxAssumption == NULL \notin Ctx

VARIABLES locked, \* lock->locked
          percpu, \* lock->percpu
          pc,     \* where each context is inside spin_lock / spin_unlock
          holds   \* history: holds[c] from c's winning xchg to c's release

vars == <<locked, percpu, pc, holds>>

Tags == {gs[c] : c \in Ctx} \cup {NULL}

PCs == {"run",      \* outside the lock routines
        "owner",    \* spin_lock: saw locked, about to compare lock->percpu
        "xchg",     \* spin_lock: about to execute xchg
        "record",   \* spin_lock: won the xchg, about to set lock->percpu
        "clear",    \* spin_unlock: about to reset lock->percpu
        "release",  \* spin_unlock: about to reset lock->locked
        "already",  \* panic("already acquired!")
        "notheld"}  \* panic("release non-holding lock")

\* spinlock_init
Init ==
  /\ locked = 0
  /\ percpu = NULL
  /\ pc = [c \in Ctx |-> "run"]
  /\ holds = [c \in Ctx |-> FALSE]

Goto(c, from, to) ==
  /\ pc[c] = from
  /\ pc' = [pc EXCEPT ![c] = to]

-----------------------------------------------------------------------------
(* spin_lock *)

\* if (spin_is_locked(lock) && ...): the first operand.
LockTest(c) ==
  /\ Goto(c, "run", IF locked = 1 THEN "owner" ELSE "xchg")
  /\ UNCHANGED <<locked, percpu, holds>>

\* Mutant: any locked lock is taken for one's own.
LockOwnerUntested(c) ==
  /\ Goto(c, "owner", "already")
  /\ UNCHANGED <<locked, percpu, holds>>

\* ... && lock->percpu == get_gs_cpu()) panic("already acquired!");
LockOwner(c) ==
  /\ Goto(c, "owner", IF percpu = gs[c] THEN "already" ELSE "xchg")
  /\ UNCHANGED <<locked, percpu, holds>>

\* Mutant: the old value returned by xchg is not tested.
LockXchgUntested(c) ==
  /\ Goto(c, "xchg", "record")
  /\ locked' = 1
  /\ holds' = [holds EXCEPT ![c] = TRUE]
  /\ UNCHANGED percpu

\* while (xchg(&lock->locked, 1) != 0) ;   A failing exchange stores the 1 that
\* is already there and loops: it changes nothing and is a stuttering step.
LockXchg(c) ==
  /\ locked = 0
  /\ Goto(c, "xchg", "record")
  /\ locked' = 1
  /\ holds' = [holds EXCEPT ![c] = TRUE]
  /\ UNCHANGED percpu

\* lock->percpu = get_gs_cpu();
LockRecord(c) ==
  /\ Goto(c, "record", "run")
  /\ percpu' = gs[c]
  /\ UNCHANGED <<locked, holds>>

-----------------------------------------------------------------------------
(* spin_unlock; every caller in the kernel releases a lock it has taken    *)

\* if (!spin_is_locked(lock)) panic("release non-holding lock");
UnlockTest(c) ==
  /\ holds[c]
  /\ Goto(c, "run", IF locked = 1 THEN "clear" ELSE "notheld")
  /\ UNCHANGED <<locked, percpu, holds>>

\* lock->percpu = NULL;
UnlockClear(c) ==
  /\ Goto(c, "clear", "release")
  /\ percpu' = NULL
  /\ UNCHANGED <<locked, holds>>

\* Mutant: the releasing store is missing.
UnlockReleaseNoStore(c) ==
  /\ Goto(c, "release", "run")
  /\ holds' = [holds EXCEPT ![c] = FALSE]
  /\ UNCHANGED <<locked, percpu>>

\* movl $0, lock->locked
UnlockRelease(c) ==
  /\ Goto(c, "release", "run")
  /\ locked' = 0
  /\ holds' = [holds EXCEPT ![c] = FALSE]
  /\ UNCHANGED percpu

-----------------------------------------------------------------------------
Step(c) ==
  \/ LockTest(c) \/ LockOwner(c) \/ LockXchg(c) \/ LockRecord(c)
  \/ UnlockTest(c) \/ UnlockClear(c) \/ UnlockRelease(c)

Next == \E c \in Ctx : Step(c)

Spec == Init /\ [][Next]_vars

\* A CPU keeps executing: it finishes the routine it is in, and a critical
\* section (a few stores, or the characters of one kputs) ends with its
\* spin_unlock.  Nothing makes a CPU call spin_lock, and nothing in xchg is
\* fair to any one CPU.
Progress(c) ==
  \/ LockOwner(c) \/ LockXchg(c) \/ LockRecord(c)
  \/ UnlockTest(c) \/ UnlockClear(c) \/ UnlockRelease(c)

FairSpec == Spec /\ \A c \in Ctx : WF_vars(Progress(c))

-----------------------------------------------------------------------------
(* Properties *)

\* Every CPU's %gs:0 is its own: what seginit() establishes on each CPU it
\* runs on.
GsDistinct ==
  /\ \A c \in Ctx : gs[c] # NULL
  /\ \A c, d \in Ctx : gs[c] = gs[d] => c = d

\* Types of the lock words, the program counters and the history variable.
TypeOK ==
  /\ locked \in {0, 1}
  /\ percpu \in Tags
  /\ pc \in [Ctx -> PCs]
  /\ holds \in [Ctx -> BOOLEAN]

\* spin_lock lets at most one context past its xchg until that context's
\* spin_unlock has stored 0.
MutualExclusion ==
  \A c, d \in Ctx : holds[c] /\ holds[d] => c = d

\* lock->percpu is "The cpu holding the lock": it names the holder from the end
\* of spin_lock to the beginning of spin_unlock, and nobody while the lock is
\* free or is changing hands.
PercpuNamesHolder ==
  \A c \in Ctx :
    holds[c] => percpu = IF pc[c] \in {"record", "release"} THEN NULL ELSE gs[c]

\* panic("already acquired!") is reached only by a context that really holds the
\* lock, although locked and percpu are read in two separate steps while other
\* CPUs take and release it; and the release panic is never reached.
PanicOnlyOnRelock ==
  \A c \in Ctx : /\ pc[c] = "already" => holds[c]
                 /\ pc[c] # "notheld"

\* A context that calls spin_lock on a lock it holds is stopped by the check: it
\* never goes on to the xchg loop, where it would spin for itself for ever.
RelockDetected ==
  \A c \in Ctx : holds[c] => pc[c] # "xchg"

\* The lock words tell the truth at every step of every interleaving: one holder,
\* named by percpu, and a panic for exactly the holder that asks again.
LockExact ==
  TypeOK /\ MutualExclusion /\ PercpuNamesHolder /\ PanicOnlyOnRelock /\ RelockDetected

\* Deadlock freedom of the xchg loop: while some context waits, some context
\* eventually wins the lock, unless a context has halted the kernel.
WaiterServed ==
  (\E c \in Ctx : pc[c] = "xchg")
    ~> (\E c \in Ctx : pc[c] \in {"record", "already"})

\* The lock implements Mutex: the owner is the context between its winning xchg
\* and its releasing store.
Owner == IF \E c \in Ctx : holds[c] THEN CHOOSE c \in Ctx : holds[c] ELSE NULL
Halted == {c \in Ctx : pc[c] \in {"already", "notheld"}}

M == INSTANCE Mutex WITH NoOwner <- NULL, owner <- Owner, halted <- Halted

\* Every step of the lock routines is a step of Mutex or leaves it unchanged.
ImplementsMutex == M!Spec

=============================================================================
