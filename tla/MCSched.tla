------------------------------ MODULE MCSched ------------------------------
(***************************************************************************)
(* Spin locks, recursive locks, semaphores, processes and the scheduler.   *)
(* They share no state, and a behaviour runs one of them.  The scheduler   *)
(* runs in two settings: "queue", where CPUs call schedule(), proc_add()   *)
(* and proc_remove(), and "sleep", where CPUs call schedule(), the         *)
(* sleeping routines and wakeup() with an empty queue, which those do not  *)
(* use.                                                                    *)
(***************************************************************************)
EXTENDS SpinLock, RLock, Semaphore, Proc, Sched, TLC

CONSTANTS Modes, c1, c2, c3, p1, p2, p3

VARIABLE mode

MCCtx == {c1, c2, c3}
MCCPU == {c1, c2}
MCUser == {c1, c2, p1}
MCProcs == {p1, p2}
MCProcMem == {p1, p2, p3}
MCStack == 1..3

\* Each CPU has its own %gs:0; and: the boot CPU c1 has not run seginit(), its
\* %gs:0 is a null pointer.
MCgs == [c \in MCCtx |-> c]
MCgsBoot == [c \in MCCtx |-> IF c = c1 THEN NULL ELSE c]

mcvars == <<mode, vars, rvars, svars, pvars, qvars>>

MCInit ==
  /\ mode \in Modes
  /\ Init /\ RInit /\ SInit /\ PInit /\ QInit

\* A step of one of the machines.
InL(A) == mode = "spin" /\ A /\ UNCHANGED <<mode, rvars, svars, pvars, qvars>>
InR(A) == mode = "rlock" /\ A /\ UNCHANGED <<mode, vars, svars, pvars, qvars>>
InS(A) == mode = "sem" /\ A /\ UNCHANGED <<mode, vars, rvars, pvars, qvars>>
InP(A) == mode = "proc" /\ A /\ UNCHANGED <<mode, vars, rvars, svars, qvars>>
InQ(A) == mode \in {"queue", "sleep"} /\ A /\ UNCHANGED <<mode, vars, rvars, svars, pvars>>

MCNext ==
  \/ InL(Next)
  \/ InR(RNext)
  \/ InS(SNext)
  \/ InP(PNext)
  \/ InQ(mode = "queue" /\ ListOps)
  \/ InQ(ScheduleSteps)
  \/ InQ(mode = "sleep" /\ SleepSteps)

\* A CPU inside a routine keeps executing, and its exchange on a lock that
\* stays free succeeds at last.  Nothing is assumed of a lock that is free
\* again and again: the exchange is not fair between CPUs.
Fairness ==
  /\ \A c \in Ctx : WF_vars(InL(Progress(c)))
  /\ \A c \in CPU : WF_rvars(InR(RStep(c))) /\ WF_rvars(InR(Spin(c)))
  /\ \A u \in User : WF_svars(InS(SStep(u)))
  /\ \A c \in Cpus :
       /\ WF_qvars(InQ(QStep(c) \/ ListStore(c) \/ WakeScan(c)))
       /\ WF_qvars(InQ(TakeSchedLock(c)))

MCSpec == MCInit /\ [][MCNext]_mcvars /\ Fairness

\* Nobody waits in vain: if CPUs wait for a recursive lock that is given back,
\* users for a semaphore with units left, or CPUs for the scheduler's lock,
\* one of them gets it.
SomeoneServed == RSomeoneEnters /\ SomeoneEnters /\ SchedLockMoves
=============================================================================
