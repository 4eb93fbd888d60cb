----------------------------- MODULE Semaphore -----------------------------
(***************************************************************************)
(* The busy-waiting semaphore of include/arch/i386/arch-sync.h.            *)
(* semaphore_dec takes sem->lock, and when sem->val is 0 it releases the   *)
(* lock and starts again; semaphore_inc raises the value under the lock.   *)
(* A user decrements and later increments (semaphore_pass does one after   *)
(* the other); a signaller only increments.                                *)
(***************************************************************************)
EXTENDS Naturals, FiniteSets

CONSTANTS User,      \* execution contexts that use the semaphore
          NoUser,    \* not a context
          Val,       \* the value semaphore_init gives
          MaxRaise   \* bound on increments without a decrement

ASSUME SemAssumption ==
  /\ IsFiniteSet(User) /\ NoUser \notin User
  /\ Val \in Nat /\ MaxRaise \in Nat

VARIABLES slock,  \* owner of sem->lock
          val,    \* sem->val
          spc,    \* where each context is
          token,  \* history: contexts between their decrement and increment
          raised  \* history: increments without a decrement

svars == <<slock, val, spc, token, raised>>

SPCs == {"out",    \* outside, holding nothing
         "want",   \* semaphore_dec: at spin_lock
         "dec",    \* semaphore_dec: has the lock
         "taken",  \* semaphore_dec: decremented, about to unlock and return
         "busy",   \* semaphore_dec: the value was 0, about to unlock and retry
         "in",     \* between semaphore_dec and semaphore_inc
         "give",   \* semaphore_inc: at spin_lock
         "inc",    \* semaphore_inc: has the lock
         "given"}  \* semaphore_inc: incremented, about to unlock

\* semaphore_init
SInit ==
  /\ slock = NoUser
  /\ val = Val
  /\ spc = [u \in User |-> "out"]
  /\ token = {}
  /\ raised = 0

SGoto(u, from, to) ==
  /\ spc[u] = from
  /\ spc' = [spc EXCEPT ![u] = to]

Want(u) ==
  /\ SGoto(u, "out", "want")
  /\ UNCHANGED <<slock, val, token, raised>>

\* A context that never decremented calls semaphore_inc.
Signal(u) ==
  /\ raised < MaxRaise
  /\ SGoto(u, "out", "give")
  /\ raised' = raised + 1
  /\ UNCHANGED <<slock, val, token>>

SLock(u) ==
  /\ \/ SGoto(u, "want", "dec")
     \/ SGoto(u, "give", "inc")
  /\ slock = NoUser
  /\ slock' = u
  /\ UNCHANGED <<val, token, raised>>

\* Mutant: the value is taken without being tested.
DecAlways(u) ==
  /\ SGoto(u, "dec", "taken")
  /\ val' = IF val > 0 THEN val - 1 ELSE 0
  /\ token' = token \cup {u}
  /\ UNCHANGED <<slock, raised>>

\* if (sem->val > 0) sem->val--
DecTake(u) ==
  /\ SGoto(u, "dec", "taken")
  /\ val > 0
  /\ val' = val - 1
  /\ token' = token \cup {u}
  /\ UNCHANGED <<slock, raised>>

DecBusy(u) ==
  /\ SGoto(u, "dec", "busy")
  /\ val = 0
  /\ UNCHANGED <<slock, val, token, raised>>

Leave(u) ==
  /\ SGoto(u, "in", "give")
  /\ UNCHANGED <<slock, val, token, raised>>

\* sem->val++
IncGive(u) ==
  /\ SGoto(u, "inc", "given")
  /\ val' = val + 1
  /\ token' = token \ {u}
  /\ UNCHANGED <<slock, raised>>

\* Mutant: semaphore_inc forgets to unlock.
SUnlockForgets(u) ==
  /\ \/ SGoto(u, "taken", "in") /\ slock' = NoUser
     \/ SGoto(u, "busy", "want") /\ slock' = NoUser
     \/ SGoto(u, "given", "out") /\ UNCHANGED slock
  /\ UNCHANGED <<val, token, raised>>

SUnlock(u) ==
  /\ \/ SGoto(u, "taken", "in")
     \/ SGoto(u, "busy", "want")
     \/ SGoto(u, "given", "out")
  /\ slock' = NoUser
  /\ UNCHANGED <<val, token, raised>>

\* What a context in the middle of a call, or inside, goes on to do.
SStep(u) ==
  SLock(u) \/ DecTake(u) \/ DecBusy(u) \/ IncGive(u) \/ SUnlock(u) \/ Leave(u)

SNext == \E u \in User : Want(u) \/ Signal(u) \/ SStep(u)

SSpec == SInit /\ [][SNext]_svars /\ \A u \in User : WF_svars(SStep(u))

-----------------------------------------------------------------------------
(* Properties *)

\* Contexts on their way to raise the value without having lowered it.
Signalling == {u \in User : spc[u] \in {"give", "inc"} /\ u \notin token}

\* Units are conserved: what is left, what users hold and what is about to be
\* signalled is the initial value plus the signals, at every step of every
\* interleaving.
UnitsConserved ==
  val + Cardinality(token) + Cardinality(Signalling) = Val + raised

\* Never more contexts between semaphore_dec and semaphore_inc than the initial
\* value and the signals allow.
SemBounded == Cardinality(token) <= Val + raised

\* When somebody waits in semaphore_dec and nobody is inside, somebody gets in:
\* the retry loop releases the lock it tests under.  (It need not be the one
\* who waited longest: the loop is not fair.)
SomeoneEnters ==
  (\E u \in User : spc[u] = "want") /\ token = {} ~> token # {}
=============================================================================
