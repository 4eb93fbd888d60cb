------------------------------- MODULE MCBoot -------------------------------
(***************************************************************************)
(* The parts of the boot sequence, each explored in a mode of its own.     *)
(***************************************************************************)
EXTENDS BootLoader, EarlyMap, Smp, Trap, IntrCtl, MemMap, TLC

CONSTANT Modes

VARIABLE mode

vars == <<mode, bvars, evars, mvars, tvars, ivars, avars>>

\* Two segments of up to three file bytes and a zeroed byte or two.
Headers ==
  {h \in [p_paddr : {2, 3, 5, 6}, p_offset : 0..2, p_filesz : {0, 1, 3}, p_memsz : 0..5] :
     h.p_memsz - h.p_filesz \in {0, 1, 4} /\ h.p_memsz >= h.p_filesz}
MCImages == {img \in Headers \X Headers : Loadable(img)}

OneImage == <<[p_paddr |-> 2, p_offset |-> 0, p_filesz |-> 1, p_memsz |-> 1],
              [p_paddr |-> 6, p_offset |-> 0, p_filesz |-> 1, p_memsz |-> 1]>>

Proc(i) == [type |-> MPPROC, id |-> i]
MCTables == {
  <<>>,
  <<Proc(0), Proc(1), Proc(2), [type |-> MPIOAPIC, id |-> 2]>>,
  <<[type |-> MPBUS, id |-> 0], Proc(2), Proc(0), Proc(1), Proc(3)>>,
  <<Proc(1), Proc(2)>>,
  <<Proc(0), Proc(9)>>,
  <<Proc(0), Proc(1), Proc(1)>>,
  <<Proc(0), [type |-> 7, id |-> 0]>>}

\* Blocks that end before, around and behind the image, reserved ones that are
\* longer, one of a whole 32-bit space, and a usable one that comes last.
Block(b, l, t) == [base |-> b, len |-> l, type |-> t]
OneMap == <<Block(0, 8, 1)>>
MCMaps ==
  {OneMap} \cup
  {<<a, b, l>> : a \in {Block(0, 8, 1), Block(0, 6, 2), Block(4, 4, 1)},
                 b \in {Block(8, 16, 1), Block(12, 17, 1), Block(8, 24, 2), Block(64, 64, 1)},
                 l \in {Block(32, 28, 1), Block(40, 8, 2)}}
MCLeftover == Block(16, 20, 1)

Init ==
  /\ mode \in Modes
  /\ image \in IF mode = "loader" THEN Images ELSE {OneImage}
  /\ _end \in IF mode = "mmu" THEN Ends ELSE {1}
  /\ table \in IF mode = "smp" THEN Tables ELSE {<<>>}
  /\ mp \in IF mode = "intr" THEN BOOLEAN ELSE {TRUE}
  /\ map \in IF mode = "memory" THEN Maps ELSE {OneMap}
  /\ stale \in IF mode = "memory" THEN Stale ELSE {0}
  /\ end \in IF mode = "memory" THEN ImageEnds ELSE {9}
  /\ kbc \in IF mode = "memory" THEN [buffer : {Nothing, 1}, awaits : {FALSE}]
             ELSE {[buffer |-> Nothing, awaits |-> FALSE]}
  /\ BInit /\ EInit /\ MInit /\ TInit /\ IInit /\ AInit

InLoader(A) ==
  mode = "loader" /\ A /\ UNCHANGED <<mode, evars, mvars, tvars, ivars, avars>>
InMap(m, A) ==
  mode = m /\ A /\ UNCHANGED <<mode, bvars, mvars, tvars, ivars, avars>>
InSmp(A) ==
  mode = "smp" /\ A /\ UNCHANGED <<mode, bvars, evars, tvars, ivars, avars>>
InTrap(A) ==
  mode = "trap" /\ A /\ UNCHANGED <<mode, bvars, evars, mvars, ivars, avars>>
InIntr(A) ==
  mode = "intr" /\ A /\ UNCHANGED <<mode, bvars, evars, mvars, tvars, avars>>
InMemory(A) ==
  mode = "memory" /\ A /\ UNCHANGED <<mode, bvars, evars, mvars, tvars, ivars>>

Next ==
  \/ InLoader(BNext)
  \/ InMap("queue", QueueOps)
  \/ InMap("mmu", MmuOps)
  \/ InSmp(MNext)
  \/ InTrap(TNext)
  \/ InIntr(INext)
  \/ InMemory(ANext)

\* The loader and the boot processor run on by themselves, the drive answers,
\* and so do the processors that were sent their IPIs.
Spec ==
  /\ Init /\ [][Next]_vars
  /\ WF_bvars(InLoader(BNext))
  /\ WF_mvars(InSmp(BootStep))
  /\ \A a \in APs : WF_mvars(InSmp(ApStep(a)))
  /\ WF_avars(InMemory(ACpuStep)) /\ WF_avars(InMemory(KbcTakes))

\* The loader reaches the kernel, and the kernel its first C code: the loop
\* over sectors ends, as the drive answers.
KernelEntered == mode = "loader" => <>(bpc = "init")

\* Booting comes to its end: with a table it can start from, startothers()
\* never waits for a processor forever, if no timer interrupt is lost
\* meanwhile.
BootFinishes == mode = "smp" /\ Startable => <>(boot = "finished" \/ unhandled)

\* The kernel's page allocator is set up, and address line A20 open.
MemoryFound == mode = "memory" => <>(apc = "allocator" /\ a20)

\* mpinit() ends whatever entries the table has.
MpinitReturns == (boot = "mpinit") ~> (boot # "mpinit")

\* Every part of booting comes to its end.
BootingEnds == KernelEntered /\ MemoryFound /\ BootFinishes
=============================================================================
