-------------------------------- MODULE Uart --------------------------------
(***************************************************************************)
(* The console: kputs() and its lock (kern/dev/console.c) over the polled  *)
(* NS16550 driver (drivers/serial/uart-ns16550.c).                         *)
(*                                                                         *)
(* The UART is external: registers 0 and 1 are the divisor latch while     *)
(* DLAB is set, else the transmit and receive buffers and the interrupt    *)
(* enables; a character written while the holding register is full         *)
(* replaces the one in it.  In a debug build the timer interrupt handler   *)
(* prints too (kpdebug), on a processor whose interrupts are on: they are  *)
(* switched on before the initcalls, and local_irq_save() reads the flags, *)
(* but leaves interrupts on.                                               *)
(***************************************************************************)
EXTENDS Naturals, Sequences, SequencesExt, FiniteSets

CONSTANTS Cpus,     \* processors; BootCpu sets the UART up
          BootCpu,
          Text,     \* the string of each processor; "nl" is '\n'
          Input,    \* characters that arrive
          Builds    \* a subset of BOOLEAN: debug builds and others

VARIABLES upc,      \* where each processor is
          chars,    \* __kputs: what is still to be written, "cr" included
          clock,    \* __lock: the processor that holds it, or Free
          dlab, divisor, mcr, ier,   \* UART registers
          thr,      \* transmitter holding register: a character, or Empty
          sent,     \* history: characters on the line
          rbr,      \* receive buffer, or Empty
          arrived,  \* characters that arrived
          got,      \* history: what __uart_ns16550_getchar returned
          debug,    \* whether this is a debug build
          ticks,    \* processors that were interrupted (once, as a bound)
          interrupted  \* processors whose timer handler is inside kputs()

uvars == <<upc, chars, clock, dlab, divisor, mcr, ier, thr, sent, rbr, arrived,
           got, debug, ticks, interrupted>>
uartregs == <<dlab, divisor, mcr, ier>>

Free == "free"
Empty == "empty"
DIVISOR == <<"lsb", "msb">>    \* UART_FREQ / UART_BAUDRATE

UInit ==
  /\ upc = [c \in Cpus |-> IF c = BootCpu THEN "init" ELSE "off"]
  /\ chars = [c \in Cpus |-> <<>>]
  /\ clock = Free
  /\ dlab = FALSE /\ divisor = <<"firmware", "firmware">> /\ mcr = FALSE /\ ier = FALSE
  /\ thr = Empty /\ sent = <<>> /\ rbr = Empty /\ arrived = 0 /\ got = <<>>
  /\ debug \in Builds /\ ticks = {} /\ interrupted = {}

\* External: a write to register 0 goes to the holding register, or to the
\* divisor latch.
WriteReg0(x) ==
  IF dlab THEN divisor' = [divisor EXCEPT ![1] = x] /\ UNCHANGED thr
  ELSE thr' = x /\ UNCHANGED divisor

timer == <<debug, ticks, interrupted>>

-----------------------------------------------------------------------------
(* __driver_init and the parts of __uart_ns16550_init *)

\* The FIFO control register, and UART_LCR_DLAB.
InitLatch ==
  /\ upc[BootCpu] = "init" /\ BootCpu \notin interrupted
  /\ dlab' = TRUE
  /\ upc' = [upc EXCEPT ![BootCpu] = "lsb"]
  /\ UNCHANGED <<chars, clock, divisor, mcr, ier, thr, sent, rbr, arrived, got, timer>>

InitLsb ==
  /\ upc[BootCpu] = "lsb" /\ BootCpu \notin interrupted
  /\ WriteReg0(DIVISOR[1])
  /\ upc' = [upc EXCEPT ![BootCpu] = "msb"]
  /\ UNCHANGED <<chars, clock, dlab, mcr, ier, sent, rbr, arrived, got, timer>>

InitMsb ==
  /\ upc[BootCpu] = "msb" /\ BootCpu \notin interrupted
  /\ IF dlab THEN divisor' = [divisor EXCEPT ![2] = DIVISOR[2]] /\ UNCHANGED ier
     ELSE ier' = TRUE /\ UNCHANGED divisor
  /\ upc' = [upc EXCEPT ![BootCpu] = "lcr"]
  /\ UNCHANGED <<chars, clock, dlab, mcr, thr, sent, rbr, arrived, got, timer>>

\* 8n1, which clears DLAB; __uart_ns16550_enable(); set_console() initialises
\* the lock.  All this is done twice: for the early console with interrupts
\* off, and by an initcall, before the other processors are started.
InitLcr ==
  /\ upc[BootCpu] = "lcr" /\ BootCpu \notin interrupted
  /\ dlab' = FALSE /\ mcr' = TRUE
  /\ clock' = Free
  /\ upc' = IF mcr THEN [c \in Cpus |-> "idle"] ELSE [upc EXCEPT ![BootCpu] = "init"]
  /\ UNCHANGED <<chars, divisor, ier, thr, sent, rbr, arrived, got, timer>>

-----------------------------------------------------------------------------
(* kputs *)

\* __kputs: '\r' before each '\n'.
Expand(s) == FlattenSeq([i \in DOMAIN s |-> IF s[i] = "nl" THEN <<"cr", "nl">> ELSE <<s[i]>>])

\* Mutant: the string is written without the lock.
KputsUnlocked(c) ==
  /\ upc[c] = "idle" /\ c \notin interrupted
  /\ chars' = [chars EXCEPT ![c] = Expand(Text[c])]
  /\ upc' = [upc EXCEPT ![c] = "poll"]
  /\ UNCHANGED <<clock, uartregs, thr, sent, rbr, arrived, got, timer>>

\* kputs: spin_lock_irq_save(&__lock, flags).
Kputs(c) ==
  /\ upc[c] = "idle" /\ c \notin interrupted
  /\ clock = Free
  /\ clock' = c
  /\ chars' = [chars EXCEPT ![c] = Expand(Text[c])]
  /\ upc' = [upc EXCEPT ![c] = "poll"]
  /\ UNCHANGED <<uartregs, thr, sent, rbr, arrived, got, timer>>

\* __uart_ns16550_putchar: wait for UART_LSR_THRE...
Poll(c) ==
  /\ upc[c] = "poll" /\ c \notin interrupted /\ chars[c] # <<>>
  /\ thr = Empty
  /\ upc' = [upc EXCEPT ![c] = "write"]
  /\ UNCHANGED <<chars, clock, uartregs, thr, sent, rbr, arrived, got, timer>>

\* ... and write to UART_TRANS_HOLD.
WriteChar(c) ==
  /\ upc[c] = "write" /\ c \notin interrupted
  /\ WriteReg0(Head(chars[c]))
  /\ chars' = [chars EXCEPT ![c] = Tail(@)]
  /\ upc' = [upc EXCEPT ![c] = "poll"]
  /\ UNCHANGED <<clock, dlab, mcr, ier, sent, rbr, arrived, got, timer>>

\* Mutant: the lock is not released.
UnlockNot(c) ==
  /\ upc[c] = "poll" /\ c \notin interrupted /\ chars[c] = <<>>
  /\ upc' = [upc EXCEPT ![c] = "printed"]
  /\ UNCHANGED <<chars, clock, uartregs, thr, sent, rbr, arrived, got, timer>>

\* spin_unlock_irq_restore(&__lock, flags).
Unlock(c) ==
  /\ upc[c] = "poll" /\ c \notin interrupted /\ chars[c] = <<>>
  /\ clock' = Free
  /\ upc' = [upc EXCEPT ![c] = "printed"]
  /\ UNCHANGED <<chars, uartregs, thr, sent, rbr, arrived, got, timer>>

\* The timer interrupts processor c, and kpdebug() of the handler calls
\* kputs().
TimerPrints(c) ==
  /\ debug /\ mcr /\ c \notin ticks /\ upc[c] # "off"
  /\ ticks' = ticks \cup {c} /\ interrupted' = interrupted \cup {c}
  /\ UNCHANGED <<upc, chars, clock, uartregs, thr, sent, rbr, arrived, got, debug>>

\* The handler gets the lock and the transmitter, prints (one character, "t")
\* and returns.
TimerReturns(c) ==
  /\ c \in interrupted /\ clock = Free /\ thr = Empty
  /\ WriteReg0("t")
  /\ interrupted' = interrupted \ {c}
  /\ UNCHANGED <<upc, chars, clock, dlab, mcr, ier, sent, rbr, arrived, got, debug, ticks>>

-----------------------------------------------------------------------------
(* Input, and the chip *)

\* __driver_getchar on the boot processor: wait for UART_LSR_DATA_READY, then
\* read UART_RCV_BUFFER.
Getchar ==
  /\ upc[BootCpu] = "printed" /\ rbr # Empty /\ ~dlab
  /\ got' = Append(got, rbr) /\ rbr' = Empty
  /\ UNCHANGED <<upc, chars, clock, uartregs, thr, sent, arrived, timer>>

\* External: a character arrives, and overruns one that was not read.
Arrive ==
  /\ arrived < Len(Input) /\ upc[BootCpu] = "printed"
  /\ arrived' = arrived + 1 /\ rbr' = Input[arrived + 1]
  /\ UNCHANGED <<upc, chars, clock, uartregs, thr, sent, got, timer>>

\* External: the holding register goes out on the line.
Shift ==
  /\ thr # Empty
  /\ sent' = Append(sent, thr) /\ thr' = Empty
  /\ UNCHANGED <<upc, chars, clock, uartregs, rbr, arrived, got, timer>>

UCpuStep(c) == Kputs(c) \/ Poll(c) \/ WriteChar(c) \/ Unlock(c)

UNext ==
  \/ InitLatch \/ InitLsb \/ InitMsb \/ InitLcr
  \/ Getchar \/ Arrive \/ Shift
  \/ \E c \in Cpus : UCpuStep(c)
  \/ \E c \in Cpus : TimerPrints(c) \/ TimerReturns(c)

-----------------------------------------------------------------------------
(* Properties *)

\* The lines of several processors come out whole, one after the other, with
\* no character lost or repeated, and '\r' before each '\n', whatever interrupt
\* handlers print in between: what is on the line and in the chip is a sequence
\* of whole strings, the last one perhaps unfinished.  A handler's character that
\* goes to the divisor latch during the set-up counts as not printed.
LinesWhole ==
  LET out == sent \o (IF thr = Empty THEN <<>> ELSE <<thr>>)
      line(x) == IF x \in Cpus
                 THEN FlattenSeq([k \in DOMAIN Text[x] |->
                        IF Text[x][k] = "nl" THEN <<"cr", "nl">> ELSE <<Text[x][k]>>])
                 ELSE <<"t">>
  IN \E order \in SetToSeqs(Cpus \cup {<<c>> : c \in ticks}) :
       IsPrefix(out, FlattenSeq([i \in DOMAIN order |-> line(order[i])]))

\* Once the UART is set up its speed is right, it takes characters, and its
\* interrupts are off, unless an interrupt handler prints while the divisor
\* latch shadows the transmitter.
LineSetUp ==
  ~debug /\ upc[BootCpu] \notin {"init", "lsb", "msb", "lcr"} =>
    divisor = DIVISOR /\ ~dlab /\ mcr /\ ~ier

\* What is printed arrives: at the right speed, in whole lines.
OutputWhole == LinesWhole /\ LineSetUp
=============================================================================
