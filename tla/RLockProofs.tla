---------------------------- MODULE RLockProofs ----------------------------
(***************************************************************************)
(* Recursive locks exclude, count and assert correctly for every set of    *)
(* CPUs and every nesting.                                                 *)
(*                                                                         *)
(* Mutual exclusion is not inductive: it says nothing of a CPU between its *)
(* test of lock->holder and its store to lock->depth.  RInd adds who owns  *)
(* the inner lock at each point of the two routines, and what lock->holder,*)
(* lock->depth and the loaded value then are.                              *)
(***************************************************************************)
EXTENDS RLock, TLAPS

Working == {"own", "load", "store", "uload", "ustore", "disown", "drop"}

\* c owns the inner lock.
Inside(c) == rpc[c] \in Working \/ nest[c] > 0

RInd ==
  /\ RTypeOK
  /\ \A c \in CPU : inner = c <=> Inside(c)
  /\ \A c \in CPU : holder = c <=> (Inside(c) /\ rpc[c] \notin {"own", "drop"})
  /\ \A c \in CPU : rpc[c] \in {"spin", "own", "disown", "drop", "assert"}
                      => nest[c] = 0
  /\ \A c \in CPU : rpc[c] \in {"uload", "ustore"} => nest[c] > 0
  /\ \A c \in CPU : rpc[c] # "relock"
  /\ \A c \in CPU : holder = c => depth = nest[c]
  /\ holder = NoCpu => depth = 0
  /\ \A c \in CPU : rpc[c] \in {"store", "ustore"} => reg[c] = depth

\* The strengthened invariant holds when EMPTY_RLOCK has made the lock.
LEMMA RIndInit == RInit => RInd
BY RLockAssumption DEF RInit, RInd, RTypeOK, RPCs, Inside, Working

\* Every access of recursive_lock and recursive_unlock to the lock keeps the
\* strengthened invariant.
LEMMA RIndStep == RInd /\ [RNext]_rvars => RInd'
<1> SUFFICES ASSUME RInd, [RNext]_rvars PROVE RInd'
  OBVIOUS
<1> USE RLockAssumption DEF RInd, RTypeOK, RPCs, Inside, Working, RGoto
<1>1. ASSUME NEW c \in CPU, HolderTest(c) PROVE RInd'
  <2>1. CASE holder = c
    BY <1>1, <2>1 DEF HolderTest
  <2>2. CASE holder # c
    BY <1>1, <2>2 DEF HolderTest
  <2> QED
    BY <2>1, <2>2
<1>2. ASSUME NEW c \in CPU, Spin(c) PROVE RInd'
  BY <1>2 DEF Spin
<1>3. ASSUME NEW c \in CPU, UnlockAssert(c) PROVE RInd'
  BY <1>3 DEF UnlockAssert
<1>4. ASSUME NEW c \in CPU, Own(c) PROVE RInd'
  BY <1>4 DEF Own
<1>5. ASSUME NEW c \in CPU, Load(c) PROVE RInd'
  BY <1>5 DEF Load
<1>6. ASSUME NEW c \in CPU, Store(c) PROVE RInd'
  BY <1>6 DEF Store
<1>7. ASSUME NEW c \in CPU, UnlockStore(c) PROVE RInd'
  BY <1>7 DEF UnlockStore
<1>8. ASSUME NEW c \in CPU, Disown(c) PROVE RInd'
  BY <1>8 DEF Disown
<1>9. ASSUME NEW c \in CPU, Drop(c) PROVE RInd'
  BY <1>9 DEF Drop
<1>10. CASE UNCHANGED rvars
  BY <1>10 DEF rvars
<1> QED
  BY <1>1, <1>2, <1>3, <1>4, <1>5, <1>6, <1>7, <1>8, <1>9, <1>10
  DEF RNext, RStep

\* The strengthened invariant holds throughout.
THEOREM RIndAlways == RSpec => []RInd
<1>1. RInit => RInd
  BY RIndInit
<1>2. RInd /\ [RNext]_rvars => RInd'
  BY RIndStep
<1> QED
  BY <1>1, <1>2, PTL DEF RSpec

\* Two CPUs are never both inside a recursive lock, however recursive_lock's
\* unlocked test of lock->holder interleaves.
THEOREM RLockExclusive == RSpec => []RExclusive
<1>1. RInd => RExclusive
  BY DEF RInd, RExclusive, Inside
<1> QED
  BY <1>1, RIndAlways, PTL

\* lock->depth is the nesting of the CPU inside: no ++ or -- is lost.
THEOREM RLockDepth == RSpec => []DepthCounts
<1>1. RInd => DepthCounts
  BY DEF RInd, DepthCounts, Inside, RTypeOK, Working
<1> QED
  BY <1>1, RIndAlways, PTL

\* The inner lock is never requested by its owner, and the assertions of
\* recursive_unlock stop only callers that hold nothing.
THEOREM RLockAsserts == RSpec => []AssertExact
<1>1. RInd => AssertExact
  BY DEF RInd, AssertExact
<1> QED
  BY <1>1, RIndAlways, PTL

\* The three facts together: recursive_lock and recursive_unlock are exact for
\* any number of CPUs and any nesting.
THEOREM RLockExactHolds == RSpec => []RLockExact
BY RLockExclusive, RLockDepth, RLockAsserts, PTL DEF RLockExact
=============================================================================
