-------------------------------- MODULE Proc --------------------------------
(***************************************************************************)
(* Process descriptors (kern/proc/proc.c, proctree.c, namespace.c,         *)
(* initproc.c and kern/arch/i386/proc.c): creation with its failures,      *)
(* destruction, the process tree, and the numbers processes get.           *)
(* proc_new() goes allocation by allocation; kmalloc() and pgalloc() may   *)
(* fail at any call, and page_free() makes no page available again.  The   *)
(* trap frame and the context of a process are left out: the routines that *)
(* should fill them are empty on i386.                                     *)
(***************************************************************************)
EXTENDS Integers, FiniteSets

CONSTANTS ProcMem,        \* memory blocks for struct proc
          Stack,          \* pages for kernel stacks
          Null,           \* the null pointer
          MAX_PROCESSES   \* bits of freekpid.bitmap

VARIABLES procs,      \* live descriptors
          heap,       \* blocks that kmalloc() has handed out
          P,          \* P[p]: the fields of descriptor p
          freestack,  \* pages that the page allocator can still hand out
          given,      \* pages given back to it, which it keeps
          making,     \* the proc_new() under way: its caller, step and block
          kpids,      \* bits set in freekpid.bitmap
          initproc,   \* the static variable of initproc.c
          crashed,    \* a null pointer was written through
          linked      \* history: the pairs <<child, parent>> ever linked

pvars == <<procs, heap, P, freestack, given, making, kpids, initproc, crashed, linked>>

NotMaking == [at |-> "none"]

PS_EMBRYO == 1
PS_RUNNABLE == 2
CPU_NONE == -1

\* struct proc, as proc_new() leaves it.
Fresh(stack, kpid) ==
  [kstack |-> stack, kpid |-> kpid, pid |-> kpid, state |-> PS_EMBRYO,
   oncpu |-> CPU_NONE, leader |-> Null, mm |-> Null, parent |-> Null,
   first_child |-> Null, next_sibling |-> Null, prev_sibling |-> Null]

PInit ==
  /\ procs = {} /\ heap = {} /\ linked = {}
  /\ P = [p \in ProcMem |-> Fresh(Null, 0)]
  /\ freestack = Stack /\ given = {}
  /\ making = NotMaking
  /\ kpids = {}
  /\ initproc = Null
  /\ crashed = FALSE

\* bitmap_find_first_zero_bit: bits are numbered from 1, and 0 means none.
FirstZero(bits) ==
  IF 1..MAX_PROCESSES \subseteq bits THEN 0
  ELSE CHOOSE i \in 1..MAX_PROCESSES : i \notin bits /\ 1..(i-1) \subseteq bits

\* atomic_set_bit and atomic_clear_bit: their bodies are empty on i386.
atomic_set_bit(i, bits) == bits
atomic_clear_bit(i, bits) == bits

kpid_new == FirstZero(kpids)
kpid_recycle(i) == kpids' = atomic_clear_bit(i, kpids)

\* A page for a stack, and its return: page_free() frees nothing.
alloc_kstack(s) == s \in freestack /\ freestack' = freestack \ {s}
free_kstack(s) == given' = given \cup {s} /\ UNCHANGED freestack

Idle == ~crashed /\ making.at = "none"

-----------------------------------------------------------------------------
(* proc_new, called by spawn_initproc() (who = "init") or by others *)

\* kmalloc() succeeds.
NewBlock(who, p) ==
  /\ Idle /\ (who = "init" => initproc = Null)
  /\ p \notin heap
  /\ heap' = heap \cup {p}
  /\ making' = [at |-> "stack", who |-> who, p |-> p]
  /\ UNCHANGED <<procs, P, freestack, given, kpids, initproc, crashed, linked>>

\* proc_new() returns NULL.  spawn_initproc() does not test that: proc_ksetup()
\* writes through it.
ReturnsNull(who) == crashed' = (who = "init")

\* kmalloc() fails.
NewNoBlock(who) ==
  /\ Idle /\ (who = "init" => initproc = Null)
  /\ ReturnsNull(who)
  /\ UNCHANGED <<procs, heap, P, freestack, given, making, kpids, initproc, linked>>

\* proc->kstack = alloc_kstack()
NewStack(s) ==
  /\ making.at = "stack"
  /\ alloc_kstack(s)
  /\ P' = [P EXCEPT ![making.p].kstack = s]
  /\ making' = [making EXCEPT !.at = "fields"]
  /\ UNCHANGED <<procs, heap, given, kpids, initproc, crashed, linked>>

NewNoStack ==
  /\ making.at = "stack"
  /\ P' = [P EXCEPT ![making.p].kstack = Null]
  /\ making' = [making EXCEPT !.at = "rollback"]
  /\ UNCHANGED <<procs, heap, freestack, given, kpids, initproc, crashed, linked>>

\* The remaining fields; spawn_initproc() goes on with proc_ksetup() and the
\* leaders.
NewFields ==
  LET p == making.p
      new == Fresh(P[p].kstack, kpid_new)
  IN /\ making.at = "fields"
     /\ P' = [P EXCEPT ![p] =
                IF making.who = "init"
                THEN [new EXCEPT !.state = PS_RUNNABLE, !.leader = p, !.mm = "kernel_mm"]
                ELSE new]
     /\ initproc' = IF making.who = "init" THEN p ELSE initproc
     /\ kpids' = atomic_set_bit(kpid_new, kpids)
     /\ procs' = procs \cup {p}
     /\ making' = NotMaking
     /\ UNCHANGED <<heap, freestack, given, crashed, linked>>

\* Mutant: the block is not given back.
RollbackLeaks ==
  /\ making.at = "rollback"
  /\ making' = NotMaking
  /\ ReturnsNull(making.who)
  /\ UNCHANGED <<procs, heap, P, freestack, given, kpids, initproc, linked>>

\* rollback_proc: kfree(proc)
NewRollback ==
  /\ making.at = "rollback"
  /\ heap' = heap \ {making.p}
  /\ making' = NotMaking
  /\ ReturnsNull(making.who)
  /\ UNCHANGED <<procs, P, freestack, given, kpids, initproc, linked>>

-----------------------------------------------------------------------------
\* proc_destroy(proc), of a process that is in no list.  (There is no routine
\* that takes a process out of the tree.)
proc_destroy(p) ==
  /\ Idle /\ p \in procs /\ p # initproc
  /\ \A l \in linked : p # l[1] /\ p # l[2]
  /\ kpid_recycle(P[p].kpid)
  /\ free_kstack(P[p].kstack)
  /\ heap' = heap \ {p}
  /\ procs' = procs \ {p}
  /\ UNCHANGED <<P, making, initproc, crashed, linked>>

\* proctree_add_child(child, parent), of a new child.
proctree_add_child(child, parent) ==
  LET eldest == P[parent].first_child
      Q == [P EXCEPT ![child].parent = parent, ![child].next_sibling = eldest,
                     ![parent].first_child = child]
  IN /\ Idle /\ {child, parent} \subseteq procs
     /\ P[child].parent = Null /\ child # parent
     /\ P[parent].parent # child /\ P[child].first_child = Null
     /\ P' = IF eldest = Null THEN Q
             ELSE [Q EXCEPT ![eldest].prev_sibling = child]
     /\ linked' = linked \cup {<<child, parent>>}
     /\ UNCHANGED <<procs, heap, freestack, given, making, kpids, initproc, crashed>>

PNext ==
  \/ \E who \in {"init", "other"} : NewNoBlock(who) \/ \E p \in ProcMem : NewBlock(who, p)
  \/ (\E s \in Stack : NewStack(s)) \/ NewNoStack \/ NewFields \/ NewRollback
  \/ \E p \in ProcMem : proc_destroy(p)
  \/ \E p, q \in ProcMem : proctree_add_child(p, q)

PSpec == PInit /\ [][PNext]_pvars

-----------------------------------------------------------------------------
(* Properties *)

\* Whenever no proc_new() is under way, and however many of them failed at
\* either allocation: every block that kmalloc() handed out is a live process,
\* every process has a stack of its own, and every page is one of these stacks,
\* still free, or given back, so that free_kstack() is called once for every
\* stack, never for one in use.
StacksConserved ==
  making.at = "none" =>
    LET inuse == {P[p].kstack : p \in procs}
    IN  /\ heap = procs
        /\ inuse \cup freestack \cup given = Stack
        /\ inuse \cap (freestack \cup given) = {} /\ freestack \cap given = {}
        /\ \A p, q \in procs : P[p].kstack = P[q].kstack => p = q

\* The children of p, eldest last, by following next_sibling; n bounds the walk.
Siblings[n \in 0..Cardinality(ProcMem), p \in ProcMem \cup {Null}] ==
  IF n = 0 \/ p = Null THEN {}
  ELSE {p} \cup Siblings[n - 1, P[p].next_sibling]

\* The process tree: the list that starts at first_child holds exactly the
\* processes whose parent pointer names p, and prev_sibling is the inverse of
\* next_sibling.
TreeExact ==
  /\ \A p \in procs :
       Siblings[Cardinality(ProcMem), P[p].first_child]
         = {q \in procs : P[q].parent = p}
  /\ \A p, q \in procs : P[p].next_sibling = q <=> P[q].prev_sibling = p

\* Two live processes never have the same kernel PID: "Find and remove the
\* first available KPID from the free KPID set" (kern/proc/proc.c:74).
KpidsUnique == \A p, q \in procs : P[p].kpid = P[q].kpid => p = q

\* Process descriptors, their stacks and the tree they form agree.
ProcsExact == StacksConserved /\ TreeExact
=============================================================================
