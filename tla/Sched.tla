------------------------------- MODULE Sched -------------------------------
(***************************************************************************)
(* The scheduler (kern/proc/sched/sched.c) with switch_context()           *)
(* (kern/arch/i386/proc.c, switch.S) and the list operations it uses       *)
(* (include/list.h), as a few CPUs call it.                                *)
(*                                                                         *)
(* pick() returns the p member of the list head, which is NULL, and        *)
(* deletes the head instead of the first entry; so schedule() always       *)
(* selects the idle process, and a CPU that has run idle_init() only ever  *)
(* switches from its idle process to itself.  switch_regs() does not       *)
(* change the stack: a switch returns to its caller at once, and so does   *)
(* sleep().                                                                *)
(*                                                                         *)
(* sched_lock is used through what Mutex promises.  spin_lock_irq_save     *)
(* saves the interrupt flag before it takes the lock, and does not clear   *)
(* it.  proc_add() and proc_remove() take no lock: each store to the list  *)
(* is a step, and the calls of several CPUs interleave.                    *)
(***************************************************************************)
EXTENDS Naturals, Sequences, SequencesExt

CONSTANTS Cpus,   \* CPUs
          Procs,  \* processes that may be queued
          Free,   \* no CPU: the owner of a free lock
          HEAD    \* the node scheduler->list

VARIABLES current,    \* current[c]: idle_init() has set cpus[c].proc
          idle,       \* idle[c]: state and bed of idleproc[c]
          qnext,      \* the next pointers of the ring
          qprev,      \* the prev pointers of the ring
          stores,     \* stores[c]: stores of a list operation still to be done
          schedlock,  \* owner of sched_lock
          mutex,      \* owner of a lock that is handed to sleep_with_lock
          intrflags,  \* __sched_intrflags, shared by all CPUs
          flags,      \* flags[c]: the local variable of sleep and wakeup
          ifl,        \* ifl[c]: the interrupt flag of CPU c
          cpc,        \* where each CPU is
          withlock,   \* withlock[c]: c sleeps with the lock, not with NULL
          runs,       \* runs[c]: what schedule() chose: "idle" or a process
          atcall,     \* history: the interrupt flag when c called (TRUE if it did not)
          mixed,      \* history: since c called schedule(), another CPU did so
                      \* with another interrupt flag
          queued,     \* history: the processes added and not removed, in order
          met,        \* history: met[c]: the list was not empty at c's pick()
          picked,     \* history: pick() has run on a non-empty list
          raced       \* history: two list operations overlapped

lists == <<qnext, qprev, stores, queued, met, picked, raced>>
locks == <<schedlock, mutex>>
irqs == <<intrflags, flags, ifl, atcall, mixed>>
qvars == <<current, idle, lists, locks, irqs, cpc, withlock, runs>>

\* cpc[c] is "out", l_... in proc_add() and proc_remove(), s_... in schedule(),
\* z_... in sleep(), w_... in wakeup(), or "lost" after a wild pointer.

QInit ==
  /\ current = [c \in Cpus |-> FALSE]
  /\ idle = [c \in Cpus |-> [state |-> 0, bed |-> FALSE]]
  /\ qnext = [n \in Procs \cup {HEAD} |-> n]
  /\ qprev = [n \in Procs \cup {HEAD} |-> n]
  /\ stores = [c \in Cpus |-> <<>>]
  /\ schedlock = Free /\ mutex = Free
  /\ intrflags = FALSE
  /\ flags = [c \in Cpus |-> FALSE]
  /\ ifl = [c \in Cpus |-> TRUE]
  /\ cpc = [c \in Cpus |-> "out"]
  /\ withlock = [c \in Cpus |-> FALSE]
  /\ runs = [c \in Cpus |-> "idle"]
  /\ atcall = ifl
  /\ mixed = [c \in Cpus |-> FALSE]
  /\ queued = <<>>
  /\ met = [c \in Cpus |-> FALSE]
  /\ picked = FALSE /\ raced = FALSE

QGoto(c, from, to) ==
  /\ cpc[c] = from
  /\ cpc' = [cpc EXCEPT ![c] = to]

-----------------------------------------------------------------------------
(* The list of processes *)

\* __list_add(new, prev, next) and __list_del(prev, next): their stores.
__list_add(new, prev, next) ==
  <<<<"prev", next, new>>, <<"next", new, next>>,
    <<"prev", new, prev>>, <<"next", prev, new>>>>
__list_del(prev, next) == <<<<"prev", next, prev>>, <<"next", prev, next>>>>

\* CPU c starts a list operation.
ListOp(c, todo) ==
  /\ stores' = [stores EXCEPT ![c] = todo]
  /\ raced' = (raced \/ \E d \in Cpus \ {c} : stores[d] # <<>>)

\* Of a ring that two overlapping operations or pick() have damaged nothing is
\* claimed: no call of the list's users starts on it.
Damaged == raced \/ picked

\* proc_add(p): list_add_tail.  A process is added once.
proc_add(c, p) ==
  /\ QGoto(c, "out", "l_add") /\ ~Damaged
  /\ ~Contains(queued, p) /\ \A d \in Cpus : \A i \in DOMAIN stores[d] : stores[d][i][3] # p
  /\ ListOp(c, __list_add(p, qprev[HEAD], HEAD))
  /\ queued' = Append(queued, p)
  /\ UNCHANGED <<current, idle, qnext, qprev, locks, irqs, withlock, runs, met, picked>>

\* proc_remove(p): list_del.
proc_remove(c, p) ==
  /\ QGoto(c, "out", "l_remove") /\ ~Damaged
  /\ Contains(queued, p) /\ \A d \in Cpus : \A i \in DOMAIN stores[d] : stores[d][i][3] # p
  /\ ListOp(c, __list_del(qprev[p], qnext[p]))
  /\ queued' = SelectSeq(queued, LAMBDA q : q # p)
  /\ UNCHANGED <<current, idle, qnext, qprev, locks, irqs, withlock, runs, met, picked>>

\* Mutant: list_del does not store through next->prev.
StoreNextOnly(c) ==
  LET s == Head(stores[c])
  IN /\ stores[c] # <<>>
     /\ qnext' = IF s[1] = "next" THEN [qnext EXCEPT ![s[2]] = s[3]] ELSE qnext
     /\ qprev' = IF s[1] = "prev" /\ Len(stores[c]) # 2
                 THEN [qprev EXCEPT ![s[2]] = s[3]] ELSE qprev
     /\ stores' = [stores EXCEPT ![c] = Tail(@)]
     /\ UNCHANGED <<current, idle, queued, met, picked, raced, locks, irqs, cpc, withlock, runs>>

\* The next store of a list operation.
ListStore(c) ==
  LET s == Head(stores[c])
  IN /\ stores[c] # <<>>
     /\ qnext' = IF s[1] = "next" THEN [qnext EXCEPT ![s[2]] = s[3]] ELSE qnext
     /\ qprev' = IF s[1] = "prev" THEN [qprev EXCEPT ![s[2]] = s[3]] ELSE qprev
     /\ stores' = [stores EXCEPT ![c] = Tail(@)]
     /\ UNCHANGED <<current, idle, queued, met, picked, raced, locks, irqs, cpc, withlock, runs>>

\* proc_add() and proc_remove() return.
ListReturns(c) ==
  /\ stores[c] = <<>>
  /\ QGoto(c, "l_add", "out") \/ QGoto(c, "l_remove", "out")
  /\ UNCHANGED <<current, idle, lists, locks, irqs, withlock, runs>>

\* for_each(pos, &scheduler->list) in find(): the nodes it visits, at most n.
ForEach[n \in 0..10, pos \in Procs \cup {HEAD}] ==
  IF n = 0 \/ pos = HEAD THEN <<>> ELSE <<pos>> \o ForEach[n - 1, qnext[pos]]

-----------------------------------------------------------------------------
(* schedule *)

idle_init(c) ==
  /\ cpc[c] = "out" /\ ~current[c]
  /\ current' = [current EXCEPT ![c] = TRUE]
  /\ idle' = [idle EXCEPT ![c].state = 2]
  /\ UNCHANGED <<lists, locks, irqs, cpc, withlock, runs>>

\* cli() and sti() outside the scheduler.
Toggle(c) ==
  /\ cpc[c] = "out"
  /\ ifl' = [ifl EXCEPT ![c] = ~@]
  /\ UNCHANGED <<current, idle, lists, locks, intrflags, flags, atcall, mixed, cpc,
                 withlock, runs>>

\* schedule(): sched_enter_critical does local_irq_save into the variable that
\* all CPUs share, before it has the lock.
SchedSave(c) ==
  /\ current[c] /\ mutex # c /\ ~Damaged
  /\ QGoto(c, "out", "s_lock")
  /\ intrflags' = ifl[c]
  /\ atcall' = [atcall EXCEPT ![c] = ifl[c]]
  /\ mixed' = [d \in Cpus |-> /\ d # c /\ cpc[d] \in {"s_lock", "s_body", "s_exit"}
                              /\ (mixed[d] \/ ifl[c] # atcall[d])]
  /\ UNCHANGED <<current, idle, lists, locks, flags, ifl, withlock, runs>>

\* spin_lock(&sched_lock) in schedule(), sleep_with_lock() and wakeup().
TakeSchedLock(c) ==
  /\ \/ QGoto(c, "s_lock", "s_body")
     \/ QGoto(c, "z_lock", "z_unlock")
     \/ QGoto(c, "w_lock", "w_scan")
  /\ schedlock = Free
  /\ schedlock' = c
  /\ UNCHANGED <<current, idle, lists, mutex, irqs, withlock, runs>>

\* pick(): list_del(&scheduler->list), when the list is not empty.  Either way
\* the result is NULL.
pick(c) ==
  IF qnext[HEAD] = HEAD
  THEN met' = [met EXCEPT ![c] = FALSE] /\ UNCHANGED <<stores, picked, raced>>
  ELSE /\ ListOp(c, __list_del(qprev[HEAD], qnext[HEAD]))
       /\ met' = [met EXCEPT ![c] = TRUE]
       /\ picked' = TRUE

\* schedule() in the critical section: the idle process goes from ONPROC to
\* RUNNABLE, is chosen again, and is switched to.
SchedBody(c) ==
  /\ QGoto(c, "s_body", "s_exit")
  /\ pick(c)
  /\ idle' = [idle EXCEPT ![c].state = 5]
  /\ runs' = [runs EXCEPT ![c] = "idle"]
  /\ UNCHANGED <<current, qnext, qprev, queued, locks, irqs, withlock>>

\* The history of a call ends with it.
Forget(c) == atcall' = [atcall EXCEPT ![c] = TRUE] /\ mixed' = [mixed EXCEPT ![c] = FALSE]

\* sched_exit_critical: spin_unlock, then the flags of whoever saved last.
SchedExit(c) ==
  /\ QGoto(c, "s_exit", "out") /\ stores[c] = <<>>
  /\ schedlock' = Free
  /\ ifl' = [ifl EXCEPT ![c] = intrflags]
  /\ Forget(c) /\ met' = [met EXCEPT ![c] = FALSE]
  /\ UNCHANGED <<current, idle, qnext, qprev, stores, queued, picked, raced, mutex,
                 intrflags, flags, withlock, runs>>

-----------------------------------------------------------------------------
(* sleep_with_lock and wakeup *)

\* sleep_with_lock(), with a lock the caller holds or with NULL, and wakeup():
\* local_irq_save into a local variable.
Save(c) ==
  /\ current[c]
  /\ \/ /\ QGoto(c, "out", "z_lock")
        /\ withlock' = [withlock EXCEPT ![c] = mutex = c]
     \/ QGoto(c, "out", "w_lock") /\ UNCHANGED withlock
  /\ flags' = [flags EXCEPT ![c] = ifl[c]]
  /\ atcall' = [atcall EXCEPT ![c] = ifl[c]]
  /\ UNCHANGED <<current, idle, lists, locks, intrflags, ifl, mixed, runs>>

\* if (lock != NULL) spin_unlock(lock);
SleepUnlock(c) ==
  /\ QGoto(c, "z_unlock", "z_mark")
  /\ mutex' = IF withlock[c] THEN Free ELSE mutex
  /\ UNCHANGED <<current, idle, lists, schedlock, irqs, withlock, runs>>

\* The process is marked asleep, and switched away from: to itself.
SleepMark(c) ==
  /\ QGoto(c, "z_mark", "z_exit")
  /\ idle' = [idle EXCEPT ![c] = [state |-> 3, bed |-> TRUE]]
  /\ UNCHANGED <<current, lists, locks, irqs, withlock, runs>>

\* current_proc->bed = NULL (in sleep_with_lock), and
\* spin_unlock_irq_restore(&sched_lock, flags).  The local variable dies.
Exit(c) ==
  /\ \/ QGoto(c, "z_exit", IF withlock[c] THEN "z_relock" ELSE "out")
     \/ QGoto(c, "w_exit", "out")
  /\ idle' = [idle EXCEPT ![c].bed = FALSE]
  /\ schedlock' = Free
  /\ ifl' = [ifl EXCEPT ![c] = flags[c]]
  /\ flags' = [flags EXCEPT ![c] = FALSE]
  /\ Forget(c)
  /\ UNCHANGED <<current, lists, mutex, intrflags, withlock, runs>>

\* if (lock != NULL) spin_lock(lock);
SleepRelock(c) ==
  /\ QGoto(c, "z_relock", "out")
  /\ mutex = Free
  /\ mutex' = c
  /\ withlock' = [withlock EXCEPT ![c] = FALSE]
  /\ UNCHANGED <<current, idle, lists, schedlock, irqs, runs>>

\* wakeup's loop starts with proc_next(NULL), which reads sched_node.next of a
\* process at address 0 and follows it.  What is there is not a node: either
\* its p word is 0 and the loop ends, or the CPU is lost.  No process is asleep
\* on a bed then: a sleeper has left its bed when it releases sched_lock.
WakeScan(c) ==
  /\ \/ QGoto(c, "w_scan", "w_exit")
     \/ QGoto(c, "w_scan", "lost")
  /\ UNCHANGED <<current, idle, lists, locks, irqs, withlock, runs>>

\* The caller's lock, outside the scheduler.
TakeMutex(c) ==
  /\ cpc[c] = "out" /\ mutex = Free /\ mutex' = c
  /\ UNCHANGED <<current, idle, lists, schedlock, irqs, cpc, withlock, runs>>

DropMutex(c) ==
  /\ cpc[c] = "out" /\ mutex = c /\ mutex' = Free
  /\ UNCHANGED <<current, idle, lists, schedlock, irqs, cpc, withlock, runs>>

QStep(c) ==
  SchedBody(c) \/ SchedExit(c) \/ SleepUnlock(c) \/ SleepMark(c) \/ Exit(c)

ListOps == \E c \in Cpus :
  ListStore(c) \/ ListReturns(c) \/ \E p \in Procs : proc_add(c, p) \/ proc_remove(c, p)

ScheduleSteps == \E c \in Cpus :
  idle_init(c) \/ SchedSave(c) \/ TakeSchedLock(c) \/ SchedBody(c) \/ SchedExit(c)

SleepSteps == \E c \in Cpus :
  \/ Toggle(c) \/ Save(c) \/ WakeScan(c) \/ TakeMutex(c) \/ DropMutex(c)
  \/ TakeSchedLock(c) \/ SleepRelock(c) \/ QStep(c)

-----------------------------------------------------------------------------
(* Properties *)

\* Interrupts are on after sleep(), wakeup() and schedule() as they were before
\* the call.  schedule() keeps the flag in a variable that all CPUs share and
\* write before they have the lock, so for it this holds only if no other CPU
\* called schedule() meanwhile with another flag.
FlagsKept == \A c \in Cpus :
  /\ cpc[c] \in {"s_exit", "z_exit", "w_exit"} /\ cpc'[c] # cpc[c]
  /\ cpc[c] = "s_exit" => ~mixed[c]
  => ifl'[c] = atcall[c]

\* Whenever no list operation is under way, the run queue is the processes in
\* the order in which they were added, without those removed, and its back
\* pointers mirror its forward ones - as long as the callers of proc_add() and
\* proc_remove(), which take no lock, never overlapped, and pick() met no
\* process, which takes the head out of the ring.
RingExact ==
  ~Damaged /\ (\A c \in Cpus : stores[c] = <<>>) =>
    /\ ForEach[10, qnext[HEAD]] = queued
    /\ \A n \in Procs \cup {HEAD} : qprev[qnext[n]] = n \/ (n # HEAD /\ ~Contains(queued, n))

\* If somebody waits for sched_lock, somebody gets it: schedule(), sleep() and
\* wakeup() give it back on every path, and wait for no other lock while they
\* have it, if no CPU is lost in wakeup().
SchedLockMoves ==
  [](\A c \in Cpus : cpc[c] # "lost") =>
    ((\E c \in Cpus : cpc[c] \in {"s_lock", "z_lock", "w_lock"})
       ~> (\E c \in Cpus : cpc[c] \in {"s_body", "z_unlock", "w_scan"}))

\* schedule() runs a queued process if there is one: pick() is to "Return a proc
\* to be scheduled onto processor, or NULL to indicate that the processor should
\* be idle" (include/aim/sched.h:42).
PickServes == \A c \in Cpus : cpc[c] = "s_exit" /\ met[c] => runs[c] \in Procs

\* sleep() returns only after a wakeup() ("When woken up, the process reacquires
\* the lock", sched.c:77): nobody leaves its bed by itself.  An action property.
SleepsUntilWoken ==
  [][\A c \in Cpus : idle[c].bed /\ ~idle'[c].bed => \E d \in Cpus : cpc[d] = "w_exit"]_qvars

\* What callers rely on in every step: their interrupt flag comes back
\* (FlagsKept), and the ring is whole (RingExact).  An action property.
SchedSafe == [][FlagsKept /\ RingExact']_qvars
=============================================================================
