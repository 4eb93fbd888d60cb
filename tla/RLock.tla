------------------------------- MODULE RLock -------------------------------
(***************************************************************************)
(* Recursive spin locks (include/aim/sync.h).  recursive_lock compares     *)
(* lock->holder with cpuid() before it has the inner spin lock, and both   *)
(* routines change lock->depth with a load and a store, so every access to *)
(* a shared word is an action of its own.  The inner spin lock is used     *)
(* through what Mutex promises: one owner, and a panic on a second request *)
(* by the owner.  Callers keep interrupts off around the lock, as          *)
(* local_irq_save() in the _irq_save variants does not do it for them; one *)
(* CPU is therefore one context.                                           *)
(***************************************************************************)
EXTENDS Naturals

CONSTANTS CPU,      \* CPU numbers, what cpuid() returns
          NoCpu,    \* -1: no CPU
          MaxDepth  \* bound on the nesting of one caller

ASSUME RLockAssumption == NoCpu \notin CPU /\ MaxDepth \in Nat \ {0}

VARIABLES inner,  \* owner of lock->lock
          holder, \* lock->holder
          depth,  \* lock->depth
          reg,    \* reg[c]: the value c loaded from lock->depth
          rpc,    \* where each CPU is
          nest    \* history: lock calls of c that returned and are not undone

rvars == <<inner, holder, depth, reg, rpc, nest>>

RPCs == {"run",     \* outside the routines
         "spin",    \* recursive_lock: in spin_lock(&lock->lock)
         "own",     \* recursive_lock: about to set lock->holder
         "load",    \* recursive_lock: about to load lock->depth
         "store",   \* recursive_lock: about to store lock->depth
         "uload",   \* recursive_unlock: about to load lock->depth
         "ustore",  \* recursive_unlock: about to store lock->depth
         "disown",  \* recursive_unlock: about to reset lock->holder
         "drop",    \* recursive_unlock: about to release the inner lock
         "relock",  \* panic("already acquired!") in the inner spin lock
         "assert"}  \* an assertion of recursive_unlock failed

\* EMPTY_RLOCK
RInit ==
  /\ inner = NoCpu
  /\ holder = NoCpu
  /\ depth = 0
  /\ reg = [c \in CPU |-> 0]
  /\ rpc = [c \in CPU |-> "run"]
  /\ nest = [c \in CPU |-> 0]

RGoto(c, from, to) ==
  /\ rpc[c] = from
  /\ rpc' = [rpc EXCEPT ![c] = to]

\* Mutant: a lock that somebody holds is taken for one's own.
HolderTestAny(c) ==
  /\ nest[c] < MaxDepth
  /\ RGoto(c, "run", IF holder = NoCpu THEN "spin" ELSE "load")
  /\ UNCHANGED <<inner, holder, depth, reg, nest>>

\* recursive_lock: if (lock->holder != cpuid()), read without the lock.
HolderTest(c) ==
  /\ nest[c] < MaxDepth
  /\ RGoto(c, "run", IF holder # c THEN "spin" ELSE "load")
  /\ UNCHANGED <<inner, holder, depth, reg, nest>>

\* spin_lock(&lock->lock): it panics when its caller owns it already.
Spin(c) ==
  /\ inner \in {NoCpu, c}
  /\ RGoto(c, "spin", IF inner = c THEN "relock" ELSE "own")
  /\ inner' = c
  /\ UNCHANGED <<holder, depth, reg, nest>>

Own(c) ==
  /\ RGoto(c, "own", "load")
  /\ holder' = c
  /\ UNCHANGED <<inner, depth, reg, nest>>

Load(c) ==
  /\ \/ RGoto(c, "load", "store")
     \/ RGoto(c, "uload", "ustore")
  /\ reg' = [reg EXCEPT ![c] = depth]
  /\ UNCHANGED <<inner, holder, depth, nest>>

\* ++lock->depth
Store(c) ==
  /\ RGoto(c, "store", "run")
  /\ depth' = reg[c] + 1
  /\ nest' = [nest EXCEPT ![c] = @ + 1]
  /\ UNCHANGED <<inner, holder, reg>>

\* recursive_unlock: the two assertions.  A caller that does not hold the
\* lock gets here too.
UnlockAssert(c) ==
  /\ RGoto(c, "run", IF holder = c /\ depth > 0 THEN "uload" ELSE "assert")
  /\ UNCHANGED <<inner, holder, depth, reg, nest>>

\* --lock->depth; if (lock->depth == 0)
UnlockStore(c) ==
  /\ RGoto(c, "ustore", IF reg[c] = 1 THEN "disown" ELSE "run")
  /\ depth' = reg[c] - 1
  /\ nest' = [nest EXCEPT ![c] = @ - 1]
  /\ UNCHANGED <<inner, holder, reg>>

Disown(c) ==
  /\ RGoto(c, "disown", "drop")
  /\ holder' = NoCpu
  /\ UNCHANGED <<inner, depth, reg, nest>>

\* spin_unlock(&lock->lock)
Drop(c) ==
  /\ RGoto(c, "drop", "run")
  /\ inner' = NoCpu
  /\ UNCHANGED <<holder, depth, reg, nest>>

\* Steps inside a call, which a CPU takes without waiting for anybody.
RStep(c) ==
  Own(c) \/ Load(c) \/ Store(c) \/ UnlockStore(c) \/ Disown(c) \/ Drop(c)

RNext == \E c \in CPU :
  \/ HolderTest(c) \/ Spin(c) \/ UnlockAssert(c)
  \/ RStep(c)

RSpec == RInit /\ [][RNext]_rvars

-----------------------------------------------------------------------------
(* Properties *)

RTypeOK ==
  /\ inner \in CPU \cup {NoCpu}
  /\ holder \in CPU \cup {NoCpu}
  /\ depth \in Nat
  /\ reg \in [CPU -> Nat]
  /\ rpc \in [CPU -> RPCs]
  /\ nest \in [CPU -> Nat]

\* Mutual exclusion of recursive_lock: although the owner is tested without
\* the lock, two CPUs are never both inside it.
RExclusive == \A c, d \in CPU : nest[c] > 0 /\ nest[d] > 0 => c = d

\* lock->depth counts the nesting of the CPU that holds the lock: no update is
\* lost although ++ and -- are not atomic.
DepthCounts == \A c \in CPU : nest[c] > 0 => depth = nest[c]

\* The inner lock never reports a relock, and an assertion of recursive_unlock
\* fails only for a caller that holds nothing.
AssertExact == \A c \in CPU :
  /\ rpc[c] # "relock"
  /\ rpc[c] = "assert" => nest[c] = 0

\* If somebody waits in recursive_lock, somebody gets in, provided that every
\* CPU that has the lock gives all its nested acquisitions back again and again.
\* (It need not be the one who waited: the exchange is not fair.)
RSomeoneEnters ==
  (\A d \in CPU : []<>(nest[d] = 0)) =>
    ((\E c \in CPU : rpc[c] = "spin") ~> (\E c \in CPU : rpc[c] = "own"))

\* The recursive lock admits one CPU, knows how deep it is nested, and complains
\* only of callers that hold nothing.
RLockExact == RExclusive /\ DepthCounts /\ AssertExact
=============================================================================
