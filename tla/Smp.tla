-------------------------------- MODULE Smp ---------------------------------
(***************************************************************************)
(* From high_address_entry() to a machine with all its processors running: *)
(* mpinit() reads the MP configuration table, startothers() starts the     *)
(* application processors (APs) one after the other through the parameter  *)
(* block below 0x7000 and three inter-processor interrupts, each AP runs   *)
(* entryother.S, mpenter() and mpmain() (kern/arch/i386/mp.c, lapic.c,     *)
(* kern/init/early_init.c), and trap_init() of each processor writes the   *)
(* one interrupt descriptor table (kern/arch/i386/arch_trap.c).            *)
(*                                                                         *)
(* Processors are named by their APIC ids.  IPIs are external: they reach  *)
(* a processor in order, any time after they were sent; INIT puts it in    *)
(* the wait-for-STARTUP state, the only one in which STARTUP is accepted.  *)
(* cpus[i] is cpus[i - 1] of the code.                                     *)
(***************************************************************************)
EXTENDS Naturals, Sequences, FiniteSets

CONSTANTS NCPU,    \* NR_CPUS
          BSP,     \* the boot processor's APIC id
          APs,     \* the APIC ids of the usable other processors
          Tables   \* MP configurations: sequences of entries, or NoTable

VARIABLES table,   \* the configuration table, <<>> if there is none
          p,       \* mpinit: the entry it looks at
          ncpu, cpus, ismp, lapic, ioapicid,
          boot,    \* where the boot processor is
          c,       \* startothers: the loop variable
          params,  \* 0x7000-4, the stack (with -8, -12, which never change)
          stacks,  \* stacks handed out by kmalloc so far
          ipis,    \* IPIs on their way to each AP
          ap,      \* what each AP executes, its stack and its %gs
          idt,     \* vector 32 of the IDT: "none", "irq_empty" or "irq0"
          ticking, \* processors with interrupts on
          unhandled \* history: a timer interrupt reached irq_empty

mvars == <<table, p, ncpu, cpus, ismp, lapic, ioapicid, boot, c, params, stacks,
           ipis, ap, idt, ticking, unhandled>>
tablevars == <<table, p, ncpu, ismp, lapic, ioapicid>>
startvars == <<c, params, stacks>>

MPPROC == 0
MPBUS == 1
MPIOAPIC == 2

None == 0       \* no stack, no %gs yet
NullStack == 99 \* NULL + 2048

MInit ==
  /\ table \in Tables
  /\ p = 1 /\ ncpu = 0 /\ ismp = FALSE /\ lapic = FALSE /\ ioapicid = 0
  /\ cpus = [i \in 1..NCPU |-> [apicid |-> 0, started |-> FALSE]]
  /\ boot = "mpconfig" /\ c = 1 /\ params = None /\ stacks = 0
  /\ ipis = [a \in APs |-> <<>>]
  /\ ap = [a \in APs |-> [at |-> "reset", esp |-> None, gs |-> None]]
  /\ idt = "none" /\ ticking = {} /\ unhandled = FALSE

\* The index of processor id in cpus, the first if it is not listed.
cpunum(id) ==
  IF lapic /\ \E i \in 1..ncpu : cpus[i].apicid = id
  THEN CHOOSE i \in 1..ncpu :
         cpus[i].apicid = id /\ \A j \in 1..(i - 1) : cpus[j].apicid # id
  ELSE 1

-----------------------------------------------------------------------------
(* mpinit *)

\* mpconfig() returns 0 unless it finds a table with a good signature,
\* version and checksum.
mpconfig ==
  /\ boot = "mpconfig"
  /\ IF table = <<>>
     THEN boot' = "trap_init" /\ UNCHANGED <<ismp, lapic>>
     ELSE boot' = "mpinit" /\ ismp' = TRUE /\ lapic' = TRUE
  /\ UNCHANGED <<table, p, ncpu, cpus, ioapicid, startvars, ipis, ap, idt, ticking, unhandled>>

\* One turn of the loop.  The break of the default case leaves the switch, not
\* the loop: p stays.
MpEntry ==
  /\ boot = "mpinit" /\ p <= Len(table)
  /\ LET e == table[p]
         known == e.type \in {MPPROC, MPBUS, MPIOAPIC}
         add == e.type = MPPROC /\ ncpu < NCPU
     IN /\ p' = IF known THEN p + 1 ELSE p
        /\ ismp' = (ismp /\ known)
        /\ ncpu' = IF add THEN ncpu + 1 ELSE ncpu
        /\ cpus' = IF add THEN [cpus EXCEPT ![ncpu + 1].apicid = e.id] ELSE cpus
        /\ ioapicid' = IF e.type = MPIOAPIC THEN e.id ELSE ioapicid
  /\ UNCHANGED <<table, lapic, boot, startvars, ipis, ap, idt, ticking, unhandled>>

\* The end of the table, which an unknown entry never lets the loop reach: the
\* fallback for ~ismp is dead code.  lapicinit(), picinit() and ioapicinit()
\* follow.
MpDone ==
  /\ boot = "mpinit" /\ p > Len(table)
  /\ boot' = "trap_init"
  /\ UNCHANGED <<tablevars, cpus, startvars, ipis, ap, idt, ticking, unhandled>>

-----------------------------------------------------------------------------
(* trap_init, sti and startothers on the boot processor *)

\* idt_init() first points every vector to irq_empty...
BootFill ==
  /\ boot = "trap_init"
  /\ idt' = "irq_empty" /\ boot' = "idt_init"
  /\ UNCHANGED <<tablevars, cpus, startvars, ipis, ap, ticking, unhandled>>

\* ... then each used one to its stub.
BootSet ==
  /\ boot = "idt_init"
  /\ idt' = "irq0" /\ boot' = "sti"
  /\ UNCHANGED <<tablevars, cpus, startvars, ipis, ap, ticking, unhandled>>

\* sti(), do_initcalls(), and smp_startup() as far as the copy of the code.
Sti ==
  /\ boot = "sti"
  /\ ticking' = IF lapic THEN ticking \cup {BSP} ELSE ticking
  /\ boot' = "startothers"
  /\ UNCHANGED <<tablevars, cpus, startvars, ipis, ap, idt, unhandled>>

\* The boot processor's own turn of the loop.
SkipSelf ==
  /\ boot = "startothers" /\ c <= ncpu /\ c = cpunum(BSP)
  /\ c' = c + 1
  /\ UNCHANGED <<tablevars, cpus, boot, params, stacks, ipis, ap, idt, ticking, unhandled>>

\* lapicstartap(): INIT, and STARTUP twice; nobody answers under another id.
lapicstartap(id) ==
  IF id \in APs THEN [ipis EXCEPT ![id] = @ \o <<"INIT", "STARTUP", "STARTUP">>]
  ELSE ipis

\* kmalloc(2048) may fail, and its result is not tested; then the parameters
\* and lapicstartap().
StartAp(null) ==
  LET id == cpus[c].apicid
  IN /\ boot = "startothers" /\ c <= ncpu /\ c # cpunum(BSP)
     /\ stacks' = IF null THEN stacks ELSE stacks + 1
     /\ params' = IF null THEN NullStack ELSE stacks'
     /\ ipis' = lapicstartap(id)
     /\ boot' = "wait"
     /\ UNCHANGED <<tablevars, cpus, c, ap, idt, ticking, unhandled>>

\* Mutant: the next processor is started at once.
NoWait ==
  /\ boot = "wait"
  /\ c' = c + 1 /\ boot' = "startothers"
  /\ UNCHANGED <<tablevars, cpus, params, stacks, ipis, ap, idt, ticking, unhandled>>

\* while (c->started == 0);
Wait ==
  /\ boot = "wait" /\ cpus[c].started
  /\ c' = c + 1 /\ boot' = "startothers"
  /\ UNCHANGED <<tablevars, cpus, params, stacks, ipis, ap, idt, ticking, unhandled>>

\* timerinit() without MP, sched_init(), and the panic that ends the code.
Finish ==
  /\ boot = "startothers" /\ c > ncpu
  /\ boot' = "finished"
  /\ UNCHANGED <<tablevars, cpus, startvars, ipis, ap, idt, ticking, unhandled>>

-----------------------------------------------------------------------------
(* The application processors *)

\* External: an IPI reaches processor a.
Deliver(a) ==
  /\ ipis[a] # <<>>
  /\ ipis' = [ipis EXCEPT ![a] = Tail(@)]
  /\ ap' = CASE Head(ipis[a]) = "INIT" ->
                  [ap EXCEPT ![a] = [at |-> "reset", esp |-> None, gs |-> None]]
             [] Head(ipis[a]) = "STARTUP" /\ ap[a].at = "reset" ->
                  [ap EXCEPT ![a].at = "start_other"]
             [] OTHER -> ap
  /\ ticking' = IF Head(ipis[a]) = "INIT" THEN ticking \ {a} ELSE ticking
  /\ UNCHANGED <<tablevars, cpus, boot, startvars, idt, unhandled>>

\* entryother.S: protected mode, the page directory and the stack that the
\* parameter block names, and the call of mpenter().
LoadParams(a) ==
  /\ ap[a].at = "start_other"
  /\ ap' = [ap EXCEPT ![a].at = "seginit", ![a].esp = params]
  /\ UNCHANGED <<tablevars, cpus, boot, startvars, ipis, idt, ticking, unhandled>>

\* seginit(): the GDT and %gs of the processor's own struct percpu; lapicinit().
seginit(a) ==
  /\ ap[a].at = "seginit"
  /\ ap' = [ap EXCEPT ![a].at = "trap_init", ![a].gs = cpunum(a)]
  /\ UNCHANGED <<tablevars, cpus, boot, startvars, ipis, idt, ticking, unhandled>>

\* mpmain(): trap_init() writes the shared table anew.
ApFill(a) ==
  /\ ap[a].at = "trap_init"
  /\ idt' = "irq_empty"
  /\ ap' = [ap EXCEPT ![a].at = "idt_init"]
  /\ UNCHANGED <<tablevars, cpus, boot, startvars, ipis, ticking, unhandled>>

ApSet(a) ==
  /\ ap[a].at = "idt_init"
  /\ idt' = "irq0"
  /\ ap' = [ap EXCEPT ![a].at = "mpmain"]
  /\ UNCHANGED <<tablevars, cpus, boot, startvars, ipis, ticking, unhandled>>

\* Mutant: the processor reports to the boot processor's structure.
StartedFirst(a) ==
  /\ ap[a].at = "mpmain"
  /\ cpus' = [cpus EXCEPT ![1].started = TRUE]
  /\ ap' = [ap EXCEPT ![a].at = "started"]
  /\ UNCHANGED <<tablevars, boot, startvars, ipis, idt, ticking, unhandled>>

\* xchg(&get_gs_cpu()->started, 1)
Started(a) ==
  /\ ap[a].at = "mpmain"
  /\ cpus' = [cpus EXCEPT ![ap[a].gs].started = TRUE]
  /\ ap' = [ap EXCEPT ![a].at = "started"]
  /\ UNCHANGED <<tablevars, boot, startvars, ipis, idt, ticking, unhandled>>

\* sti() and the hlt loop.
ApSti(a) ==
  /\ ap[a].at = "started"
  /\ ticking' = ticking \cup {a}
  /\ ap' = [ap EXCEPT ![a].at = "hlt"]
  /\ UNCHANGED <<tablevars, cpus, boot, startvars, ipis, idt, unhandled>>

\* The timer interrupt of processor a finds irq_empty in the table, and
\* irq_handle() panics.
TickUnhandled(a) ==
  /\ a \in ticking /\ idt = "irq_empty"
  /\ unhandled' = TRUE
  /\ UNCHANGED <<tablevars, cpus, boot, startvars, ipis, ap, idt, ticking>>

BootStep ==
  /\ ~unhandled
  /\ \/ mpconfig \/ MpEntry \/ MpDone \/ BootFill \/ BootSet \/ Sti
     \/ SkipSelf \/ (\E null \in BOOLEAN : StartAp(null)) \/ Wait \/ Finish

ApStep(a) ==
  /\ ~unhandled
  /\ \/ Deliver(a) \/ LoadParams(a) \/ seginit(a) \/ ApFill(a) \/ ApSet(a)
     \/ Started(a) \/ ApSti(a)

Tick == ~unhandled /\ \E a \in APs \cup {BSP} : TickUnhandled(a)

MNext == BootStep \/ Tick \/ \E a \in APs : ApStep(a)

-----------------------------------------------------------------------------
(* Properties *)

\* Two processors never run on one stack: what an AP reads from the parameter
\* block at 0x7000 is what was written for it, although the block is shared
\* and its STARTUP comes twice.  Stacks that startothers() did not get from
\* kmalloc(), which it does not test, are excepted: those are all NULL.
StacksOwn == \A a, b \in APs :
  a # b /\ ap[a].esp \notin {None, NullStack} => ap[a].esp # ap[b].esp

\* A listed processor's %gs leads to its own struct percpu.
GsOwn == \A a \in APs : ap[a].gs # None => cpus[ap[a].gs].apicid = a

\* Timer interrupts are on only while the table has their stub, but for the
\* time an AP writes it.
OnlyApsUnhook == unhandled => \E a \in APs : ap[a].at = "idt_init"

\* No timer interrupt of a running processor is lost to irq_empty.
TimerHandled == ~unhandled

\* Tables the kernel can start from: known entries, and every listed processor
\* answers under an id of its own.
Startable ==
  LET procs == {i \in 1..Len(table) : table[i].type = MPPROC}
  IN /\ \A i \in 1..Len(table) : table[i].type \in {MPPROC, MPBUS, MPIOAPIC}
     /\ \A i \in procs : table[i].id \in APs \cup {BSP}
     /\ \A i, j \in procs : i # j => table[i].id # table[j].id

\* Processors do not get into each other's way while they start: a stack and a
\* percpu each, no more of them than cpus has room for, and the timer's vector
\* in place but while an AP writes the table.
ProcessorsApart == StacksOwn /\ GsOwn /\ OnlyApsUnhook /\ ncpu <= NCPU
=============================================================================
