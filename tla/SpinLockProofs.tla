--------------------------- MODULE SpinLockProofs ---------------------------
(***************************************************************************)
(* Proofs about the spin lock, for any set of contexts.  Everything but    *)
(* the two theorems that assume GsDistinct holds whatever %gs:0 contains,  *)
(* the boot CPU's arbitrary word and contexts that share a CPU included.   *)
(***************************************************************************)
EXTENDS SpinLock, TLAPS

\* The locked word says whether some context is between its xchg and its release.
LockedIffHeld == locked = 1 <=> \E c \in Ctx : holds[c]

\* A context inside the critical part of a routine holds the lock.
HolderPc ==
  \A c \in Ctx : /\ pc[c] \in {"record", "clear", "release"} => holds[c]
                 /\ pc[c] # "notheld"

\* A free lock records nobody.
FreeRecordsNobody == locked = 0 => percpu = NULL

\* The inductive invariant.  Mutual exclusion alone is not inductive: a second
\* winner is excluded because locked tells who holds, a stray release because
\* the releasing context is the holder.
Inv ==
  /\ TypeOK
  /\ LockedIffHeld
  /\ MutualExclusion
  /\ HolderPc
  /\ FreeRecordsNobody
  /\ PercpuNamesHolder
  /\ RelockDetected

\* spinlock_init establishes the invariant.
LEMMA InitInv == Init => Inv
BY DEF Init, Inv, TypeOK, LockedIffHeld, MutualExclusion, HolderPc,
       FreeRecordsNobody, PercpuNamesHolder, RelockDetected, Tags, PCs

\* Each access of spin_lock and spin_unlock to the lock preserves the invariant.
LEMMA NextInv == Inv /\ [Next]_vars => Inv'
<1> SUFFICES ASSUME Inv, [Next]_vars PROVE Inv'
  OBVIOUS
<1> USE DEF Inv, TypeOK, LockedIffHeld, MutualExclusion, HolderPc,
            FreeRecordsNobody, PercpuNamesHolder, RelockDetected, Goto
<1>1. ASSUME NEW c \in Ctx, LockTest(c) PROVE Inv'
  BY <1>1 DEF LockTest, PCs
<1>2. ASSUME NEW c \in Ctx, LockOwner(c) PROVE Inv'
  BY <1>2 DEF LockOwner, PCs
<1>3. ASSUME NEW c \in Ctx, LockXchg(c) PROVE Inv'
  BY <1>3 DEF LockXchg, PCs
<1>4. ASSUME NEW c \in Ctx, LockRecord(c) PROVE Inv'
  BY <1>4 DEF LockRecord, PCs, Tags
<1>5. ASSUME NEW c \in Ctx, UnlockTest(c) PROVE Inv'
  BY <1>5 DEF UnlockTest, PCs
<1>6. ASSUME NEW c \in Ctx, UnlockClear(c) PROVE Inv'
  BY <1>6 DEF UnlockClear, PCs, Tags
<1>7. ASSUME NEW c \in Ctx, UnlockRelease(c) PROVE Inv'
  BY <1>7 DEF UnlockRelease, PCs
<1>8. CASE UNCHANGED vars
  BY <1>8 DEF vars, PCs
<1> QED
  BY <1>1, <1>2, <1>3, <1>4, <1>5, <1>6, <1>7, <1>8 DEF Next, Step

\* The invariant holds in every reachable state.
THEOREM Invariance == Spec => []Inv
BY InitInv, NextInv, PTL DEF Spec

\* The lock words and the program counters keep their types.
THEOREM TypeCorrect == Spec => []TypeOK
<1>1. Inv => TypeOK
  BY DEF Inv
<1> QED
  BY <1>1, Invariance, PTL

\* At most one context is past spin_lock's xchg and before spin_unlock's store,
\* for any number of contexts and any contents of %gs:0.
THEOREM MutualExclusionHolds == Spec => []MutualExclusion
<1>1. Inv => MutualExclusion
  BY DEF Inv
<1> QED
  BY <1>1, Invariance, PTL

\* lock->percpu is the holder's %gs:0 outside the two hand-over windows.
THEOREM PercpuNamesHolderHolds == Spec => []PercpuNamesHolder
<1>1. Inv => PercpuNamesHolder
  BY DEF Inv
<1> QED
  BY <1>1, Invariance, PTL

\* spin_lock's check stops every context that asks for a lock it holds.
THEOREM RelockDetectedHolds == Spec => []RelockDetected
<1>1. Inv => RelockDetected
  BY DEF Inv
<1> QED
  BY <1>1, Invariance, PTL

-----------------------------------------------------------------------------
(* With a %gs:0 of its own on every CPU *)

\* When every context has its own %gs:0, each step keeps the panic of spin_lock
\* to contexts that hold the lock.
LEMMA NextPanic ==
  ASSUME GsDistinct, Inv, PanicOnlyOnRelock, [Next]_vars
  PROVE  PanicOnlyOnRelock'
<1> USE DEF Inv, TypeOK, PanicOnlyOnRelock, Goto
<1>1. ASSUME NEW c \in Ctx, LockOwner(c) PROVE PanicOnlyOnRelock'
  <2>1. percpu = gs[c] => holds[c]
    BY DEF GsDistinct, LockedIffHeld, FreeRecordsNobody, PercpuNamesHolder
  <2> QED
    BY <1>1, <2>1 DEF LockOwner, PCs
<1>2. ASSUME NEW c \in Ctx, LockTest(c) \/ LockXchg(c) \/ LockRecord(c)
      PROVE PanicOnlyOnRelock'
  BY <1>2 DEF LockTest, LockXchg, LockRecord, PCs
<1>3. ASSUME NEW c \in Ctx, UnlockTest(c) \/ UnlockClear(c) \/ UnlockRelease(c)
      PROVE PanicOnlyOnRelock'
  BY <1>3 DEF UnlockTest, UnlockClear, UnlockRelease, LockedIffHeld, PCs
<1>4. CASE UNCHANGED vars
  BY <1>4 DEF vars
<1> QED
  BY <1>1, <1>2, <1>3, <1>4 DEF Next, Step

\* spin_lock panics with "already acquired!" only in a context that holds the
\* lock, and spin_unlock never panics, if every context has its own %gs:0.
THEOREM PanicOnlyOnRelockHolds ==
  ASSUME GsDistinct PROVE Spec => []PanicOnlyOnRelock
<1>1. Init => PanicOnlyOnRelock
  BY DEF Init, PanicOnlyOnRelock
<1>2. Inv /\ PanicOnlyOnRelock /\ [Next]_vars => PanicOnlyOnRelock'
  BY NextPanic
<1> QED
  BY <1>1, <1>2, Invariance, PTL DEF Spec

\* All that spin_lock and spin_unlock promise of their words, if every context
\* has its own %gs:0.
THEOREM LockExactHolds ==
  ASSUME GsDistinct PROVE Spec => []LockExact
<1>1. Inv /\ PanicOnlyOnRelock => LockExact
  BY DEF Inv, LockExact
<1> QED
  BY <1>1, Invariance, PanicOnlyOnRelockHolds, PTL

\* The owner that the refinement mapping chooses is the one context that holds.
LEMMA OwnerIsHolder ==
  ASSUME MutualExclusion
  PROVE  /\ \A c \in Ctx : holds[c] => Owner = c
         /\ (\A c \in Ctx : ~holds[c]) => Owner = NULL
BY DEF MutualExclusion, Owner

\* Every step of the lock routines maps to a step of Mutex or to a stutter:
\* the winning xchg acquires, the store of 0 releases, the panic halts.
LEMMA NextRefines ==
  ASSUME GsDistinct, Inv, Inv', PanicOnlyOnRelock, PanicOnlyOnRelock', [Next]_vars
  PROVE  [M!Next]_(M!vars)
<1> USE CtxAssumption DEF Inv, Goto
<1>o. /\ \A c \in Ctx : holds[c] => Owner = c
      /\ (\A c \in Ctx : ~holds[c]) => Owner = NULL
  BY OwnerIsHolder
<1>p. /\ \A c \in Ctx : holds'[c] => Owner' = c
      /\ (\A c \in Ctx : ~holds'[c]) => Owner' = NULL
  <2>1. MutualExclusion'
    OBVIOUS
  <2> QED
    BY <2>1 DEF MutualExclusion, Owner
<1>1. ASSUME NEW c \in Ctx, LockXchg(c) PROVE M!Acquire(c)
  <2>1. Owner = NULL
    BY <1>1, <1>o DEF LockXchg, LockedIffHeld
  <2>2. Owner' = c
    BY <1>1, <1>p DEF LockXchg, TypeOK
  <2>3. Halted' = Halted /\ c \notin Halted
    BY <1>1 DEF LockXchg, Halted, TypeOK
  <2> QED
    BY <2>1, <2>2, <2>3 DEF M!Acquire
<1>2. ASSUME NEW c \in Ctx, UnlockRelease(c) PROVE M!Release(c)
  <2>1. holds[c]
    BY <1>2 DEF UnlockRelease, HolderPc
  <2>2. \A d \in Ctx : ~holds'[d]
    BY <1>2, <2>1 DEF UnlockRelease, MutualExclusion, TypeOK
  <2>3. Halted' = Halted /\ c \notin Halted
    BY <1>2 DEF UnlockRelease, Halted, TypeOK
  <2> QED
    BY <2>1, <2>2, <2>3, <1>o, <1>p DEF M!Release
<1>3. ASSUME NEW c \in Ctx, LockOwner(c) PROVE M!Halt(c) \/ UNCHANGED <<Owner, Halted>>
  <2>1. Owner' = Owner
    BY <1>3 DEF LockOwner, Owner
  <2>2. CASE percpu = gs[c]
    <3>1. pc'[c] = "already" /\ pc[c] = "owner"
      BY <1>3, <2>2 DEF LockOwner, TypeOK
    <3>2. holds[c]
      BY <1>3, <3>1 DEF LockOwner, PanicOnlyOnRelock
    <3>3. Halted' = Halted \cup {c} /\ c \notin Halted
      BY <1>3, <2>2 DEF LockOwner, Halted, TypeOK
    <3> QED
      BY <2>1, <3>2, <3>3, <1>o DEF M!Halt
  <2>3. CASE percpu # gs[c]
    <3>1. Halted' = Halted
      BY <1>3, <2>3 DEF LockOwner, Halted, TypeOK
    <3> QED
      BY <2>1, <3>1
  <2> QED
    BY <2>2, <2>3
<1>4. ASSUME NEW c \in Ctx,
             LockTest(c) \/ LockRecord(c) \/ UnlockTest(c) \/ UnlockClear(c)
      PROVE UNCHANGED <<Owner, Halted>>
  <2>1. Owner' = Owner
    BY <1>4 DEF LockTest, LockRecord, UnlockTest, UnlockClear, Owner
  <2>2. Halted' = Halted
    BY <1>4 DEF LockTest, LockRecord, UnlockTest, UnlockClear, Halted, TypeOK,
                LockedIffHeld
  <2> QED
    BY <2>1, <2>2
<1>5. CASE UNCHANGED vars
  BY <1>5 DEF vars, Owner, Halted, M!vars
<1> QED
  BY <1>1, <1>2, <1>3, <1>4, <1>5 DEF Next, Step, M!Next, M!vars

\* spin_lock and spin_unlock implement the abstract lock, if every context has
\* its own %gs:0.
THEOREM Refinement ==
  ASSUME GsDistinct PROVE Spec => ImplementsMutex
<1>1. Init => M!Init
  BY DEF Init, M!Init, Owner, Halted
<1>2. Inv /\ Inv' /\ PanicOnlyOnRelock /\ PanicOnlyOnRelock' /\ [Next]_vars
        => [M!Next]_(M!vars)
  BY NextRefines
<1> QED
  BY <1>1, <1>2, Invariance, PanicOnlyOnRelockHolds, PTL
  DEF Spec, ImplementsMutex, M!Spec
=============================================================================
