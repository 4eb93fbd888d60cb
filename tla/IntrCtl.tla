------------------------------ MODULE IntrCtl -------------------------------
(***************************************************************************)
(* Programming the interrupt controllers: picinit(), picsetmask() and      *)
(* picenable() (kern/arch/i386/picirq.c), timerinit() (arch_timer.c),      *)
(* ioapicinit() and ioapicenable() (ioapic.c), lapicinit() (lapic.c).  A   *)
(* call is a list of register writes, done one at a time.                  *)
(* The chips are external: an 8259A                                        *)
(* takes ICW2 to ICW4 through its data port after ICW1 (which clears its   *)
(* mask), and a mask otherwise; the 8253 takes the low, then the high byte *)
(* of a count; the I/O APIC has an index and a data register; a local APIC *)
(* that is not enabled keeps its local vectors masked.                     *)
(* Register values are sets of bit numbers.                                *)
(***************************************************************************)
EXTENDS Naturals, Sequences, FiniteSets, FiniteSetsExt, SequencesExt

CONSTANTS Irqs,      \* lines that are enabled at run time
          Cpus,      \* APIC ids that the I/O APIC may route them to
          MaxIntr    \* last entry of the redirection table

VARIABLES mp,        \* ismp
          irqmask,   \* the lines that are masked
          todo,      \* writes that the running call still has to do
          pic,       \* the two 8259A
          pit,       \* the 8253's counter 0
          ioapic,    \* the I/O APIC: index register and registers
          lreg,      \* the local APIC's registers
          sending,   \* DELIVS: its interprocessor interrupt is on its way
          asked      \* history: what was called, and the CPU of each line

ivars == <<mp, irqmask, todo, pic, pit, ioapic, lreg, sending, asked>>
local == <<lreg, sending>>

IO_PIC1 == 1
IO_PIC2 == 2
IO_TIMER1 == 3
IOAPIC == 4
LAPIC == 5

LVT == {"TIMER", "PCINT", "LINT0", "LINT1", "ERROR"}
LRegs == LVT \cup {"SVR", "TDCR", "TICR", "ESR", "EOI", "ICRHI", "ICRLO", "TPR"}
ENABLE == {8}
MASKED == {16}
PERIODIC == {17}
INITBCAST == {8, 10, 15, 19}   \* BCAST | INIT | LEVEL
IRQ_ERROR == 19
IRQ_SPURIOUS == 31
TICKS == {7, 9, 10, 12, 15, 19, 20, 23}   \* 10000000
IRQ_SLAVE == 2
IRQ_TIMER == 0
T_IRQ == 32
INT_DISABLED == {16}
TIMER_DIV == (1193182 + 50) \div 100
Byte == 0..7
NoCpu == 99

Bits(n) == {b \in Byte : (n \div 2^b) % 2 = 1}
Value(bits) == MapThenSumSet(LAMBDA b : 2^b, bits)

Cmd(chip, bits) == [chip |-> chip, data |-> FALSE, value |-> bits]
Data(chip, bits) == [chip |-> chip, data |-> TRUE, value |-> bits]

IInit ==
  /\ mp \in BOOLEAN
  /\ irqmask = (0..15) \ {IRQ_SLAVE}
  /\ todo = <<>>
  /\ pic = [i \in {IO_PIC1, IO_PIC2} |->
             [icw |-> 0, base |-> {}, slave |-> {}, mode |-> {}, mask |-> {}]]
  /\ pit = [low |-> TRUE, count |-> 0]
  /\ ioapic = [reg |-> 0, file |-> [r \in 0..(2 * MaxIntr + 1) |-> {}]]
  /\ lreg = [r \in LRegs |-> IF r \in LVT THEN MASKED ELSE {}]
  /\ sending = FALSE
  /\ asked = [state |-> "reset", cpu |-> [i \in Irqs |-> NoCpu]]

-----------------------------------------------------------------------------
(* What each call writes *)

picsetmask(mask) ==
  <<Data(IO_PIC1, mask \cap Byte), Data(IO_PIC2, {i - 8 : i \in mask \ Byte})>>

\* All masked; ICW1 to ICW4 of the master (vectors from T_IRQ0, the slave on
\* line 2) and of the slave (from T_IRQ0 + 8, identity 2); the OCW3s; and the
\* mask, as irqmask is not 0xFFFF.
picinit ==
  <<Data(IO_PIC1, Byte), Data(IO_PIC2, Byte),
    Cmd(IO_PIC1, Bits(17)), Data(IO_PIC1, Bits(T_IRQ)),
    Data(IO_PIC1, {IRQ_SLAVE}), Data(IO_PIC1, Bits(3)),
    Cmd(IO_PIC2, Bits(17)), Data(IO_PIC2, Bits(T_IRQ + 8)),
    Data(IO_PIC2, Bits(IRQ_SLAVE)), Data(IO_PIC2, Bits(3)),
    Cmd(IO_PIC1, Bits(104)), Cmd(IO_PIC1, Bits(10)),
    Cmd(IO_PIC2, Bits(104)), Cmd(IO_PIC2, Bits(10))>>
  \o picsetmask(irqmask)

ioapicwrite(reg, value) == <<Cmd(IOAPIC, Bits(reg)), Data(IOAPIC, value)>>

\* Each entry disabled, with its vector, and routed nowhere.
ioapicinit ==
  FlattenSeq([n \in 1..(MaxIntr + 1) |->
    ioapicwrite(2 * (n - 1), INT_DISABLED \cup Bits(T_IRQ + n - 1))
    \o ioapicwrite(2 * (n - 1) + 1, {})])

\* The entry enabled, then routed.
ioapicenable(irq, cpu) ==
  ioapicwrite(2 * irq, Bits(T_IRQ + irq))
  \o ioapicwrite(2 * irq + 1, {b + 24 : b \in Bits(cpu)})

lapicw(reg, bits) == <<[chip |-> LAPIC, data |-> reg, value |-> bits]>>

\* Mutant: the unit is enabled after its vectors were set.
EnabledLast(pcint) ==
  lapicw("TDCR", Bits(11))
  \o lapicw("TIMER", PERIODIC \cup Bits(T_IRQ + IRQ_TIMER)) \o lapicw("TICR", TICKS)
  \o lapicw("LINT0", MASKED) \o lapicw("LINT1", MASKED)
  \o (IF pcint THEN lapicw("PCINT", MASKED) ELSE <<>>)
  \o lapicw("ERROR", Bits(T_IRQ + IRQ_ERROR))
  \o lapicw("ESR", {}) \o lapicw("ESR", {}) \o lapicw("EOI", {})
  \o lapicw("ICRHI", {}) \o lapicw("ICRLO", INITBCAST)
  \o lapicw("SVR", ENABLE \cup Bits(T_IRQ + IRQ_SPURIOUS)) \o lapicw("TPR", {})

\* pcint: VER says that there is a performance counter entry.
lapicinit(pcint) ==
  lapicw("SVR", ENABLE \cup Bits(T_IRQ + IRQ_SPURIOUS))
  \o lapicw("TDCR", Bits(11))
  \o lapicw("TIMER", PERIODIC \cup Bits(T_IRQ + IRQ_TIMER)) \o lapicw("TICR", TICKS)
  \o lapicw("LINT0", MASKED) \o lapicw("LINT1", MASKED)
  \o (IF pcint THEN lapicw("PCINT", MASKED) ELSE <<>>)
  \o lapicw("ERROR", Bits(T_IRQ + IRQ_ERROR))
  \o lapicw("ESR", {}) \o lapicw("ESR", {}) \o lapicw("EOI", {})
  \o lapicw("ICRHI", {}) \o lapicw("ICRLO", INITBCAST) \o lapicw("TPR", {})

-----------------------------------------------------------------------------
(* The calls *)

\* high_address_entry(): lapicinit() (nothing without a local APIC), picinit(),
\* and ioapicinit() (nothing on a uniprocessor).
InitCall ==
  /\ asked.state = "reset"
  /\ \E pcint \in BOOLEAN :
       todo' = (IF mp THEN lapicinit(pcint) ELSE <<>>) \o picinit
               \o (IF mp THEN ioapicinit ELSE <<>>)
  /\ asked' = [asked EXCEPT !.state = "init"]
  /\ UNCHANGED <<mp, irqmask, pic, pit, ioapic, local>>

\* timerinit(), on a uniprocessor: the count, and picenable(IRQ_TIMER).
timerinit ==
  /\ asked.state = "init" /\ todo = <<>> /\ ~mp
  /\ irqmask' = irqmask \ {IRQ_TIMER}
  /\ todo' = <<Cmd(IO_TIMER1, Bits(52)), Data(IO_TIMER1, Bits(TIMER_DIV % 256)),
               Data(IO_TIMER1, Bits(TIMER_DIV \div 256))>>
             \o picsetmask(irqmask')
  /\ asked' = [asked EXCEPT !.state = "timer"]
  /\ UNCHANGED <<mp, pic, pit, ioapic, local>>

\* A driver enables its line on both controllers.
EnableCall(irq, cpu) ==
  /\ asked.state # "reset" /\ todo = <<>>
  /\ irqmask' = irqmask \ {irq}
  /\ todo' = picsetmask(irqmask') \o (IF mp THEN ioapicenable(irq, cpu) ELSE <<>>)
  /\ asked' = [asked EXCEPT !.cpu[irq] = cpu]
  /\ UNCHANGED <<mp, pic, pit, ioapic, local>>

\* External: an 8259A takes a write.
PicTakes(chip, w) ==
  CASE ~w.data /\ 4 \in w.value -> [chip EXCEPT !.icw = 2, !.mask = {}]
    [] ~w.data -> chip
    [] w.data /\ chip.icw = 2 -> [chip EXCEPT !.icw = 3, !.base = w.value]
    [] w.data /\ chip.icw = 3 -> [chip EXCEPT !.icw = 4, !.slave = w.value]
    [] w.data /\ chip.icw = 4 -> [chip EXCEPT !.icw = 0, !.mode = w.value]
    [] OTHER -> [chip EXCEPT !.mask = w.value]

\* External: the 8253 takes a write.
PitTakes(w) ==
  CASE ~w.data -> [low |-> TRUE, count |-> 0]
    [] w.data /\ pit.low -> [low |-> FALSE, count |-> Value(w.value)]
    [] OTHER -> [low |-> TRUE, count |-> pit.count + 256 * Value(w.value)]

\* External: the I/O APIC takes a write.
IoapicTakes(w) ==
  IF w.data THEN [ioapic EXCEPT !.file[ioapic.reg] = w.value]
  ELSE [ioapic EXCEPT !.reg = Value(w.value)]

\* External: the local APIC takes a write; disabled, it keeps the masks.
LapicTakes(w) ==
  [lreg EXCEPT ![w.data] =
     IF w.data \in LVT /\ ENABLE \cap lreg["SVR"] = {} THEN w.value \cup MASKED
     ELSE w.value]

\* External: the interprocessor interrupt is delivered.
Delivered == sending /\ sending' = FALSE /\ UNCHANGED <<mp, irqmask, todo, pic, pit, ioapic, lreg, asked>>

\* outb() or a store to an APIC: the next write.  lapicinit() waits for DELIVS
\* to clear after ICRLO.
Out ==
  /\ todo # <<>> /\ ~sending
  /\ LET w == Head(todo)
     IN /\ pic' = IF w.chip \in {IO_PIC1, IO_PIC2}
                  THEN [pic EXCEPT ![w.chip] = PicTakes(@, w)] ELSE pic
        /\ pit' = IF w.chip = IO_TIMER1 THEN PitTakes(w) ELSE pit
        /\ ioapic' = IF w.chip = IOAPIC THEN IoapicTakes(w) ELSE ioapic
        /\ lreg' = IF w.chip = LAPIC THEN LapicTakes(w) ELSE lreg
        /\ sending' = (w.chip = LAPIC /\ w.data = "ICRLO")
  /\ todo' = Tail(todo)
  /\ UNCHANGED <<mp, irqmask, asked>>

INext ==
  \/ InitCall \/ timerinit \/ Out \/ Delivered
  \/ \E irq \in Irqs, cpu \in Cpus : EnableCall(irq, cpu)

-----------------------------------------------------------------------------
(* Properties *)

\* External: the vector that line irq of the 8259A pair raises, and whether it
\* can; lines of the slave come through line 2 of the master.
PicVector(irq) ==
  IF irq \in Byte THEN Value(pic[IO_PIC1].base) + irq
  ELSE Value(pic[IO_PIC2].base) + irq - 8
PicOpen(irq) ==
  IF irq \in Byte THEN irq \notin pic[IO_PIC1].mask
  ELSE /\ irq - 8 \notin pic[IO_PIC2].mask
       /\ IRQ_SLAVE \notin pic[IO_PIC1].mask
       /\ pic[IO_PIC1].slave = {IRQ_SLAVE} /\ Value(pic[IO_PIC2].slave) = IRQ_SLAVE

\* Between calls the 8259A pair raises vector T_IRQ0 + irq for exactly the
\* lines that were enabled (and line 2), a slave's line included.
PicExact ==
  asked.state # "reset" /\ todo = <<>> =>
    /\ \A irq \in 0..15 : PicVector(irq) = T_IRQ + irq
    /\ \A irq \in 0..15 : PicOpen(irq) <=>
         \/ irq = IRQ_SLAVE
         \/ irq = IRQ_TIMER /\ asked.state = "timer"
         \/ irq \in Irqs /\ asked.cpu[irq] # NoCpu
    /\ asked.state = "timer" => pit.count = TIMER_DIV

\* Once lapicinit() is done the local APIC is on and lets through its timer and
\* its errors and no other interrupt of its own, at the vector that the trap
\* code expects of the timer.
LapicExact ==
  asked.state # "reset" /\ todo = <<>> /\ mp =>
    /\ ENABLE \subseteq lreg["SVR"] /\ lreg["TPR"] = {}
    /\ \A r \in LVT : (MASKED \cap lreg[r] = {}) <=> r \in {"TIMER", "ERROR"}
    /\ lreg["TIMER"] = PERIODIC \cup Bits(T_IRQ + IRQ_TIMER)
    /\ lreg["TICR"] # {}

\* Between calls the I/O APIC sends each enabled line, and no other, to the
\* CPU it was enabled for last, under the vector T_IRQ0 + irq.
IoapicExact ==
  asked.state # "reset" /\ todo = <<>> /\ mp =>
    \A i \in 0..MaxIntr :
      LET low == ioapic.file[2 * i]
          enabled == i \in Irqs /\ asked.cpu[i] # NoCpu
      IN /\ Value(low \cap Byte) = T_IRQ + i
         /\ (INT_DISABLED \cap low = {}) <=> enabled
         /\ enabled =>
              Value({b - 24 : b \in ioapic.file[2 * i + 1]}) = asked.cpu[i]

\* All three controllers deliver what was asked for and nothing else.
ControllersExact == PicExact /\ LapicExact /\ IoapicExact
=============================================================================
