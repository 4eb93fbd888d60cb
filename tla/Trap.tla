-------------------------------- MODULE Trap --------------------------------
(***************************************************************************)
(* Interrupts, exceptions and system calls on one processor: the gate, the *)
(* stub and asm_do_irq of kern/arch/i386/do_irq.S, irq_handle() of         *)
(* arch_trap.c, handle_syscall() and handle_interrupt() of                 *)
(* kern/trap/trap.c, and the way back through trap_return.                 *)
(*                                                                         *)
(* The stack is a sequence of tagged words, the top first.  The processor  *)
(* and the local APIC are external: the processor pushes eflags, cs, eip,  *)
(* and for some exceptions an error code; the APIC keeps a delivered       *)
(* interrupt in service until an EOI, which takes the latest one.          *)
(***************************************************************************)
EXTENDS Naturals, Integers, Sequences, FiniteSets

CONSTANTS Vectors,  \* the vectors that are raised
          MaxNest   \* how deep traps nest

VARIABLES tpc,      \* what the processor executes (its eip)
          vec,      \* the vector whose stub is about to run
          ifl,      \* eflags.IF
          segs,     \* ds, es, fs and gs
          regs,     \* the general registers
          stack,    \* the kernel stack
          isr,      \* local APIC: vectors in service, the latest first
          frames,   \* history: for each trap, its vector and what it interrupted
          early     \* history: an exception came while an interrupt was in service

tvars == <<tpc, vec, ifl, segs, regs, stack, isr, frames, early>>

T_IRQ0 == 32
T_PANIC == T_IRQ0 + 38
T_SYSCALL == 128

\* External: exceptions for which the processor pushes an error code, and
\* vectors that come from the local APIC.
PushesError == {8, 10, 11, 12, 13, 14, 17}
FromApic == {v \in Vectors : v >= T_IRQ0 /\ v # T_SYSCALL}

\* Vectors that idt_init() gives a stub of their own, and those with an
\* interrupt gate; the others have irq_empty and a trap gate.
Hooked == (0..14) \cup {T_IRQ0, T_IRQ0 + 1, T_IRQ0 + 14, T_PANIC, T_SYSCALL}
InterruptGate == {T_IRQ0, T_IRQ0 + 1, T_IRQ0 + 14, T_PANIC}

\* Mutant: the stub of vector 13 pushes an error code of its own.
StubZeroToo == Hooked \ {8, 10, 11, 12, 14}

\* Stubs that push 0 where the processor pushes no error code.
StubPushesZero == Hooked \ {8, 10, 11, 12, 13, 14}

TInit ==
  /\ tpc = "run" /\ vec = 0 /\ ifl = TRUE
  /\ segs = "caller" /\ regs = "caller"
  /\ stack = <<>> /\ isr = <<>> /\ frames = <<>> /\ early = FALSE

\* External: the processor goes through the gate of vector v.
Raise(v) ==
  /\ tpc \in {"run", "asm_do_irq", "irq_handle", "trap_return"}
  /\ Len(frames) < MaxNest
  /\ v \in FromApic => ifl /\ \A i \in DOMAIN isr : isr[i] \div 16 < v \div 16
  /\ v = T_SYSCALL => tpc = "run"
  /\ stack' = (IF v \in PushesError THEN <<<<"err", v>>>> ELSE <<>>)
               \o <<<<"eip", tpc>>, <<"cs", tpc>>, <<"eflags", ifl>>>> \o stack
  /\ ifl' = IF v \in InterruptGate THEN FALSE ELSE ifl
  /\ isr' = IF v \in FromApic THEN <<v>> \o isr ELSE isr
  /\ frames' = <<[vec |-> v, tpc |-> tpc, ifl |-> ifl, segs |-> segs, regs |-> regs]>>
               \o frames
  /\ early' = (early \/ (v < T_IRQ0 /\ isr # <<>>))
  /\ vec' = v /\ tpc' = "stub"
  /\ UNCHANGED <<segs, regs>>

\* The stub of the vector: an error code if there is none yet, and its number.
Stub ==
  /\ tpc = "stub"
  /\ stack' = (IF vec \in Hooked
               THEN <<<<"trapno", vec>>>>
                    \o (IF vec \in StubPushesZero THEN <<<<"err", 0>>>> ELSE <<>>)
               ELSE <<<<"trapno", -1>>, <<"err", 0>>>>)
              \o stack
  /\ tpc' = "asm_do_irq"
  /\ UNCHANGED <<vec, ifl, segs, regs, isr, frames, early>>

\* asm_do_irq: the segment registers, pushal, and the kernel's data segments.
asm_do_irq ==
  /\ tpc = "asm_do_irq"
  /\ stack' = <<<<"regs", regs>>, <<"segs", segs>>>> \o stack
  /\ segs' = "kernel" /\ regs' = "kernel"
  /\ tpc' = "irq_handle"
  /\ UNCHANGED <<vec, ifl, isr, frames, early>>

\* tf->trapno: the third word of the frame that begins at %esp.
trapno == stack[3][2]

\* lapiceoi()
Eoi(served) == IF served = <<>> THEN served ELSE Tail(served)

\* handle_syscall(), whose result goes to the frame's eax.
handle_syscall ==
  /\ trapno = T_SYSCALL
  /\ stack' = [stack EXCEPT ![1] = <<"regs", "result">>]
  /\ UNCHANGED isr

\* handle_interrupt(): any other known trap is acknowledged and ignored.
handle_interrupt ==
  /\ trapno >= 0 /\ trapno \notin {T_SYSCALL, T_PANIC}
  /\ isr' = Eoi(isr)
  /\ UNCHANGED stack

irq_handle ==
  /\ tpc = "irq_handle"
  /\ handle_syscall \/ handle_interrupt
  /\ tpc' = "trap_return"
  /\ UNCHANGED <<vec, ifl, segs, regs, frames, early>>

\* irq_handle() does not return: panic() for irq_empty, __local_panic() for
\* the panic interrupt.  The processor stops.
Stops ==
  /\ tpc = "irq_handle"
  /\ trapno < 0 \/ trapno = T_PANIC
  /\ tpc' = "stopped"
  /\ UNCHANGED <<vec, ifl, segs, regs, stack, isr, frames, early>>

\* trap_return: popal, the segment registers, and past trapno and errcode.
trap_return ==
  /\ tpc = "trap_return"
  /\ regs' = stack[1][2] /\ segs' = stack[2][2]
  /\ stack' = SubSeq(stack, 5, Len(stack))
  /\ tpc' = "iret"
  /\ UNCHANGED <<vec, ifl, isr, frames, early>>

\* External: iret takes eip, cs and eflags from the stack.
Iret ==
  /\ tpc = "iret"
  /\ tpc' = stack[1][2] /\ ifl' = stack[3][2]
  /\ stack' = SubSeq(stack, 4, Len(stack))
  /\ regs' = IF tpc' = "run" THEN "caller" ELSE regs
  /\ frames' = Tail(frames)
  /\ early' = (early /\ Len(frames) > 1)
  /\ UNCHANGED <<vec, segs, isr>>

TNext ==
  \/ \E v \in Vectors : Raise(v)
  \/ Stub \/ asm_do_irq \/ irq_handle \/ Stops \/ trap_return \/ Iret

-----------------------------------------------------------------------------
(* Properties *)

\* At iret the stack is where the processor left it, whatever the vector and
\* however traps nested: a return address and flags are on top, the ones of
\* the trap that is left.
FrameBalanced ==
  tpc = "iret" =>
    SubSeq(stack, 1, 3) = <<<<"eip", frames[1].tpc>>, <<"cs", frames[1].tpc>>,
                            <<"eflags", frames[1].ifl>>>>

\* What was interrupted goes on with its registers; only a system call
\* changes them, by its result.
ContextRestored ==
  tpc = "iret" =>
    /\ segs = frames[1].segs
    /\ regs = IF frames[1].vec = T_SYSCALL THEN "result" ELSE frames[1].regs

\* The interrupts that are still handled when the latest trap returns, the
\* latest first: those of the outer traps that were interrupted before they got
\* to the acknowledgement at the end of handle_interrupt().
StillHandled ==
  LET outer == SelectSeq([i \in 1..(Len(frames) - 1) |-> <<frames[i + 1].vec, frames[i].tpc>>],
                         LAMBDA o : o[1] \in FromApic /\ o[2] # "trap_return")
  IN  [i \in DOMAIN outer |-> outer[i][1]]

\* Every interrupt is acknowledged once, by its own handler: at iret the
\* vectors in service are exactly those of the traps that are still handled.
\* handle_interrupt() acknowledges an exception as well, though, which has
\* nothing in service: an exception inside an interrupt handler acknowledges
\* that interrupt early.  What still holds then is that nothing is in service
\* but what is still handled, so that no interrupt is blocked for ever.
Acknowledged ==
  tpc = "iret" =>
    /\ ~early => isr = StillHandled
    /\ \A i \in DOMAIN isr : \E j \in DOMAIN StillHandled : StillHandled[j] = isr[i]

\* A trap leaves no trace: at iret the stack and the registers are as the trap
\* found them, and so is the local APIC if no exception came inside an
\* interrupt handler.
TrapUndone == FrameBalanced /\ ContextRestored /\ Acknowledged
=============================================================================
