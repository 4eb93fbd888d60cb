------------------------------- MODULE Panic -------------------------------
(***************************************************************************)
(* Printing and panicking on several CPUs: kputs (kern/dev/console.c) under *)
(* the console lock, panic and __local_panic (kern/panic/panic.c), the     *)
(* broadcast IPI (kern/arch/i386/lapic.c) and the interrupt handlers       *)
(* (kern/trap/trap.c) that run on top of whatever a CPU is doing.          *)
(*                                                                         *)
(* stack[c] is the control stack of CPU c: each element says where that    *)
(* function is, and only the last one runs.  spin_lock and spin_unlock are *)
(* those of SpinLock with the test and the winning xchg in one step; the   *)
(* windows in which percpu is not the holder's are kept.                   *)
(***************************************************************************)
EXTENDS Naturals, Sequences, FiniteSets

CONSTANTS Cpu,
          NONE,    \* not a CPU
          MaxStack \* bound: frames on the stack of a CPU

ASSUME CpuAssumption == NONE \notin Cpu /\ MaxStack \in Nat

VARIABLES locked,  \* __lock.locked
          percpu,  \* __lock.percpu: the CPU, or NONE
          stack,   \* the control stack of each CPU
          IF_,     \* the interrupt flag of each CPU
          pending, \* pending[c]: the panic IPI waits at c's local APIC
          line,    \* history: the CPU in the middle of printing, or NONE
          mixed    \* history: characters of two lines have been mixed

lock == <<locked, percpu>>
console == <<line, mixed>>
vars == <<lock, stack, IF_, pending, console>>

Main == "run"                      \* everything that is not modelled
Holding == {"record", "print", "printing", "clear", "release"}
Kputs == {"lock"} \cup Holding
Throwing == {"cli", "ipi", "banner", "truncated", "message"}
Resting == {"rest", "halt"}
Timer == {"timer", "iret"}
Frame == {Main} \cup Kputs \cup Throwing \cup Resting \cup Timer

Top(c) == stack[c][Len(stack[c])]

Init ==
  /\ locked = FALSE /\ percpu = NONE
  /\ stack = [c \in Cpu |-> <<Main>>]
  /\ IF_ = [c \in Cpu |-> TRUE]
  /\ pending = [c \in Cpu |-> FALSE]
  /\ line = NONE /\ mixed = FALSE

\* The function on top goes from one place to another, calls, or returns.
Becomes(s, to) == [s EXCEPT ![Len(s)] = to]
Goto(c, from, to) == /\ Top(c) = from
                     /\ stack' = [stack EXCEPT ![c] = Becomes(@, to)]
CallThen(c, from, to, callee) ==
  /\ Top(c) = from /\ Len(stack[c]) < MaxStack
  /\ stack' = [stack EXCEPT ![c] = Append(Becomes(@, to), callee)]
Return(c, from) == /\ Top(c) = from
                   /\ stack' = [stack EXCEPT ![c] = SubSeq(@, 1, Len(@) - 1)]

-----------------------------------------------------------------------------
(* kputs: local_irq_save only reads the flags, so IF_ does not change *)

\* Ordinary kernel code prints a line.
CallKputs(c) ==
  /\ CallThen(c, Main, Main, "lock")
  /\ UNCHANGED <<lock, IF_, pending, console>>

\* Mutant: the lock is taken whether or not it is free.
LockUntested(c) ==
  /\ Goto(c, "lock", "record")
  /\ locked' = TRUE
  /\ UNCHANGED <<percpu, IF_, pending, console>>

\* spin_lock: the lock is free and this CPU wins it.
Lock(c) ==
  /\ ~locked
  /\ Goto(c, "lock", "record")
  /\ locked' = TRUE
  /\ UNCHANGED <<percpu, IF_, pending, console>>

\* spin_lock: panic("already acquired!").
Relock(c) ==
  /\ locked /\ percpu = c
  /\ CallThen(c, "lock", "lock", "cli")
  /\ UNCHANGED <<lock, IF_, pending, console>>

Record(c) ==
  /\ Goto(c, "record", "print")
  /\ percpu' = c
  /\ UNCHANGED <<locked, IF_, pending, console>>

\* __puts: the first character of the line, and the last.
PrintFirst(c) ==
  /\ Goto(c, "print", "printing")
  /\ line' = c
  /\ mixed' = (mixed \/ line # NONE)
  /\ UNCHANGED <<lock, IF_, pending>>

PrintLast(c) ==
  /\ Goto(c, "printing", "clear")
  /\ line' = NONE
  /\ mixed' = (mixed \/ line # c)
  /\ UNCHANGED <<lock, IF_, pending>>

\* spin_unlock.
Clear(c) ==
  /\ Goto(c, "clear", "release")
  /\ percpu' = NONE
  /\ UNCHANGED <<locked, IF_, pending, console>>

Release(c) ==
  /\ Return(c, "release")
  /\ locked' = FALSE
  /\ UNCHANGED <<percpu, IF_, pending, console>>

-----------------------------------------------------------------------------
(* panic and __local_panic *)

\* Ordinary kernel code finds something wrong.
CallPanic(c) ==
  /\ CallThen(c, Main, Main, "cli")
  /\ UNCHANGED <<lock, IF_, pending, console>>

\* local_irq_disable();
Cli(c) ==
  /\ Goto(c, "cli", "ipi")
  /\ IF_' = [IF_ EXCEPT ![c] = FALSE]
  /\ UNCHANGED <<lock, pending, console>>

\* Mutant: the other CPUs are not interrupted.
IpiNone(c) ==
  /\ Goto(c, "ipi", "banner")
  /\ UNCHANGED <<lock, IF_, pending, console>>

\* panic_other_cpus();
Ipi(c) ==
  /\ Goto(c, "ipi", "banner")
  /\ pending' = [d \in Cpu |-> pending[d] \/ d # c]
  /\ UNCHANGED <<lock, IF_, console>>

\* kputs of the banner, of the note that the message is truncated if it is, and
\* of the message; then __local_panic() prints and rests in the hlt loop.
Banner(c) ==
  /\ CallThen(c, "banner", "truncated", "lock") \/ CallThen(c, "banner", "message", "lock")
  /\ UNCHANGED <<lock, IF_, pending, console>>

Truncated(c) ==
  /\ CallThen(c, "truncated", "message", "lock")
  /\ UNCHANGED <<lock, IF_, pending, console>>

Message(c) ==
  /\ CallThen(c, "message", "rest", "lock")
  /\ UNCHANGED <<lock, IF_, pending, console>>

\* Mutant: __local_panic halts without printing.
RestSilent(c) ==
  /\ Goto(c, "rest", "halt")
  /\ UNCHANGED <<lock, IF_, pending, console>>

Rest(c) ==
  /\ CallThen(c, "rest", "halt", "lock")
  /\ UNCHANGED <<lock, IF_, pending, console>>

-----------------------------------------------------------------------------
(* Interrupts; both gates are interrupt gates and clear the flag *)

\* handle_interrupt(T_IRQ0 + PANIC_INTERRUPT_NUM).
TakeIpi(c) ==
  /\ pending[c] /\ IF_[c] /\ Len(stack[c]) < MaxStack
  /\ pending' = [pending EXCEPT ![c] = FALSE]
  /\ IF_' = [IF_ EXCEPT ![c] = FALSE]
  /\ stack' = [stack EXCEPT ![c] = Append(@, "rest")]
  /\ UNCHANGED <<lock, console>>

\* handle_interrupt(T_IRQ0 + IRQ_TIMER) in a DEBUG build: it prints.
TakeTimer(c) ==
  /\ IF_[c] /\ Len(stack[c]) < MaxStack
  /\ IF_' = [IF_ EXCEPT ![c] = FALSE]
  /\ stack' = [stack EXCEPT ![c] = Append(@, "timer")]
  /\ UNCHANGED <<lock, pending, console>>

TimerPrint(c) ==
  /\ CallThen(c, "timer", "iret", "lock")
  /\ UNCHANGED <<lock, IF_, pending, console>>

\* lapiceoi(); iret restores the flags of the interrupted code.
Iret(c) ==
  /\ Return(c, "iret")
  /\ IF_' = [IF_ EXCEPT ![c] = TRUE]
  /\ UNCHANGED <<lock, pending, console>>

-----------------------------------------------------------------------------
Goes(c) ==
  \/ Lock(c) \/ Relock(c) \/ Record(c) \/ PrintFirst(c) \/ PrintLast(c)
  \/ Clear(c) \/ Release(c)
  \/ Cli(c) \/ Ipi(c) \/ Banner(c) \/ Truncated(c) \/ Message(c) \/ Rest(c)
  \/ TimerPrint(c) \/ Iret(c)

Next == \E c \in Cpu : \/ CallKputs(c) \/ CallPanic(c)
                       \/ TakeIpi(c) \/ TakeTimer(c) \/ Goes(c)

Spec == Init /\ [][Next]_vars

\* A CPU goes on with what it is doing, and a local APIC delivers a pending
\* interrupt if the CPU is interruptible again and again.
FairSpec == Spec /\ \A c \in Cpu : WF_vars(Goes(c)) /\ SF_vars(TakeIpi(c))

-----------------------------------------------------------------------------
(* Properties *)

Frames(c, F) == {i \in DOMAIN stack[c] : stack[c][i] \in F}

\* Types of the lock, the stacks and the interrupt state.
TypeOK ==
  /\ locked \in BOOLEAN /\ percpu \in Cpu \cup {NONE}
  /\ \A c \in Cpu : /\ Len(stack[c]) \in 1..MaxStack
                    /\ \A i \in DOMAIN stack[c] : stack[c][i] \in Frame
  /\ IF_ \in [Cpu -> BOOLEAN] /\ pending \in [Cpu -> BOOLEAN]
  /\ line \in Cpu \cup {NONE} /\ mixed \in BOOLEAN

\* "Atomic": no character of one kputs appears inside the line of another, of
\* another CPU or of an interrupt handler on the same one.
LinesNotMixed == ~mixed

\* Over all CPUs and all functions on their stacks, interrupted ones included, at
\* most one is inside the console lock, and one is exactly when it is locked.
OneHolder ==
  LET inside == UNION {{c} \X Frames(c, Holding) : c \in Cpu}
  IN Cardinality(inside) = IF locked THEN 1 ELSE 0

\* The panic of spin_lock is raised only above a kputs of the same CPU that was
\* interrupted while it had the console lock.
RelockJustified ==
  \A c \in Cpu : \A i \in Frames(c, {"lock"}) :
    i + 1 \in Frames(c, Throwing) => \E j \in Frames(c, {"print", "printing", "clear"}) : j < i

\* A CPU that has come to rest in __local_panic does not keep the console lock
\* from the CPUs that have still to print.
RestsWithoutLock ==
  \A c \in Cpu : Top(c) = "halt" => Frames(c, Holding) = {}

\* Once a panic has been broadcast, every CPU eventually leaves ordinary code and
\* never returns to it, whatever it was doing when the interrupt arrived.
PanicStopsAll ==
  \A c, d \in Cpu : Top(c) = "banner" ~> [](Top(d) # Main)

\* "panic() is executed only on the processor throwing the panic": no panic()
\* starts on a CPU above its __local_panic().
PanicOnlyWhereThrown ==
  \A c \in Cpu : \A i \in Frames(c, Resting) :
    Frames(c, Throwing) \cap (i + 1 .. Len(stack[c])) = {}

\* The console lock is accounted for across CPUs, interrupts and panics: one
\* holder, a relock panic only above that holder, and none at rest.
LockAccounted == TypeOK /\ OneHolder /\ RelockJustified /\ RestsWithoutLock
=============================================================================
