-------------------------- MODULE SemaphoreProofs --------------------------
(***************************************************************************)
(* The semaphore conserves its units, for any finite set of contexts and   *)
(* any initial value.  The inductive invariant adds to UnitsConserved      *)
(* which places in the code a context with, and without, a unit can be at. *)
(***************************************************************************)
EXTENDS Semaphore, FiniteSetTheorems, TLAPS

STypeOK ==
  /\ val \in Nat /\ raised \in Nat
  /\ spc \in [User -> SPCs]
  /\ token \subseteq User

\* Where a context that has taken a unit is, and where one that has not.
TokenPlaces ==
  \A u \in User :
    /\ u \in token => spc[u] \in {"taken", "in", "give", "inc"}
    /\ spc[u] \in {"taken", "in"} => u \in token

SInd == STypeOK /\ TokenPlaces /\ UnitsConserved

\* What the two sets of the invariant are: finite, with a size.
LEMMA SetsFinite ==
  ASSUME STypeOK
  PROVE  /\ IsFiniteSet(token) /\ IsFiniteSet(Signalling)
         /\ Cardinality(token) \in Nat /\ Cardinality(Signalling) \in Nat
<1>1. token \subseteq User /\ Signalling \subseteq User
  BY DEF STypeOK, Signalling
<1>2. IsFiniteSet(token) /\ IsFiniteSet(Signalling)
  BY <1>1, SemAssumption, FS_Subset
<1> QED
  BY <1>2, FS_CardinalityType

\* Adding a new element, and taking one out, changes the size by one.
LEMMA SizeSteps ==
  ASSUME NEW S, IsFiniteSet(S), NEW x
  PROVE  /\ x \notin S => Cardinality(S \cup {x}) = Cardinality(S) + 1
         /\ x \in S => Cardinality(S \ {x}) = Cardinality(S) - 1
BY FS_AddElement, FS_RemoveElement

LEMMA SIndInit == SInit => SInd
<1> SUFFICES ASSUME SInit PROVE SInd
  OBVIOUS
<1>1. STypeOK /\ TokenPlaces
  BY SemAssumption DEF SInit, STypeOK, TokenPlaces, SPCs
<1>2. token = {} /\ Signalling = {}
  BY DEF SInit, Signalling
<1>3. UnitsConserved
  BY <1>2, FS_EmptySet, SemAssumption DEF UnitsConserved, SInit
<1> QED
  BY <1>1, <1>3 DEF SInd

\* Every step of the semaphore's code preserves the invariant.
LEMMA SIndStep == SInd /\ [SNext]_svars => SInd'
<1> SUFFICES ASSUME SInd, [SNext]_svars PROVE SInd'
  OBVIOUS
<1> USE DEF SInd, SGoto
<1>0. /\ IsFiniteSet(token) /\ IsFiniteSet(Signalling)
      /\ Cardinality(token) \in Nat /\ Cardinality(Signalling) \in Nat
  BY SetsFinite
<1>1. CASE UNCHANGED svars
  <2>1. STypeOK' /\ TokenPlaces' /\ Signalling' = Signalling
    BY <1>1 DEF svars, STypeOK, TokenPlaces, Signalling
  <2> QED
    BY <1>1, <2>1 DEF svars, UnitsConserved
<1>2. ASSUME NEW u \in User, Want(u) \/ SLock(u) \/ DecBusy(u) \/ SUnlock(u) \/ Leave(u)
      PROVE  SInd'
  <2>1. STypeOK'
    BY <1>2 DEF Want, SLock, DecBusy, SUnlock, Leave, STypeOK, SPCs
  <2>2. TokenPlaces'
    BY <1>2 DEF Want, SLock, DecBusy, SUnlock, Leave, STypeOK, TokenPlaces
  <2>3. Signalling' = Signalling
    BY <1>2 DEF Want, SLock, DecBusy, SUnlock, Leave, STypeOK, TokenPlaces, Signalling
  <2>4. UNCHANGED <<val, token, raised>>
    BY <1>2 DEF Want, SLock, DecBusy, SUnlock, Leave
  <2> QED
    BY <2>1, <2>2, <2>3, <2>4 DEF UnitsConserved
<1>3. ASSUME NEW u \in User, Signal(u) PROVE SInd'
  <2>1. STypeOK' /\ TokenPlaces'
    BY <1>3 DEF Signal, STypeOK, TokenPlaces, SPCs
  <2>2. u \notin Signalling /\ Signalling' = Signalling \cup {u}
    BY <1>3 DEF Signal, STypeOK, TokenPlaces, Signalling
  <2>3. Cardinality(Signalling') = Cardinality(Signalling) + 1
    BY <1>0, <2>2, SizeSteps
  <2> QED
    BY <1>0, <1>3, <2>1, <2>3, SemAssumption DEF UnitsConserved, Signal, STypeOK
<1>4. ASSUME NEW u \in User, DecTake(u) PROVE SInd'
  <2>1. STypeOK' /\ TokenPlaces'
    BY <1>4 DEF DecTake, STypeOK, TokenPlaces, SPCs
  <2>2. u \notin token /\ token' = token \cup {u}
    BY <1>4 DEF DecTake, TokenPlaces
  <2>3. Signalling' = Signalling
    BY <1>4 DEF DecTake, STypeOK, Signalling
  <2>4. Cardinality(token') = Cardinality(token) + 1
    BY <1>0, <2>2, SizeSteps
  <2> QED
    BY <1>0, <1>4, <2>1, <2>3, <2>4, SemAssumption DEF UnitsConserved, DecTake, STypeOK
<1>5. ASSUME NEW u \in User, IncGive(u) PROVE SInd'
  <2>1. STypeOK' /\ TokenPlaces'
    BY <1>5 DEF IncGive, STypeOK, TokenPlaces, SPCs
  <2>2. CASE u \in token
    <3>1. Signalling' = Signalling
      BY <1>5, <2>2 DEF IncGive, STypeOK, Signalling
    <3>2. Cardinality(token') = Cardinality(token) - 1
      BY <1>0, <1>5, <2>2, SizeSteps DEF IncGive
    <3> QED
      BY <1>0, <1>5, <2>1, <3>1, <3>2, SemAssumption DEF UnitsConserved, IncGive, STypeOK
  <2>3. CASE u \notin token
    <3>1. u \in Signalling /\ Signalling' = Signalling \ {u} /\ token' = token
      BY <1>5, <2>3 DEF IncGive, STypeOK, Signalling
    <3>2. Cardinality(Signalling') = Cardinality(Signalling) - 1
      BY <1>0, <3>1, SizeSteps
    <3>3. Cardinality(token') = Cardinality(token)
      BY <3>1
    <3>4. val \in Nat /\ val' = val + 1 /\ raised' = raised /\ raised \in Nat
      BY <1>5 DEF IncGive, STypeOK
    <3>5. UnitsConserved'
      BY <1>0, <3>2, <3>3, <3>4, SemAssumption DEF UnitsConserved
    <3> QED
      BY <2>1, <3>5
  <2> QED
    BY <2>2, <2>3
<1> QED
  BY <1>1, <1>2, <1>3, <1>4, <1>5 DEF SNext, SStep

\* The strengthened invariant holds in every reachable state.
THEOREM SIndAlways == SSpec => []SInd
<1> QED
  BY SIndInit, SIndStep, PTL DEF SSpec

\* Units are conserved: semaphore_dec and semaphore_inc neither lose nor invent
\* one, for any number of contexts.
THEOREM SemaphoreConserves == SSpec => []UnitsConserved
<1>1. SInd => UnitsConserved
  BY DEF SInd
<1> QED
  BY <1>1, SIndAlways, PTL

\* semaphore_dec lets no more contexts in than there are units.
THEOREM SemaphoreBounds == SSpec => []SemBounded
<1>1. SInd => SemBounded
  <2> SUFFICES ASSUME SInd PROVE SemBounded
    OBVIOUS
  <2>1. Cardinality(token) \in Nat /\ Cardinality(Signalling) \in Nat
    BY SetsFinite DEF SInd
  <2> QED
    BY <2>1, SemAssumption DEF SInd, SemBounded, UnitsConserved, STypeOK
<1> QED
  BY <1>1, SIndAlways, PTL
=============================================================================
