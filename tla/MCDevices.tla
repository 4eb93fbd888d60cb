----------------------------- MODULE MCDevices ------------------------------
(* The device framework, the console and the libraries, each in its own mode. *)
EXTENDS Devices, Uart, Bitmap, Libc

CONSTANT Modes
VARIABLE mode

MCText == [c \in Cpus |-> IF c = BootCpu THEN <<"a", "nl">> ELSE <<"b", "b", "nl">>]
MCInput == <<"x", "y">>
DtEntry(n, m, p, r, a) == [name |-> n, model |-> m, parent |-> p, nregs |-> r, reg |-> a]
MCDevtrees == {
  <<DtEntry("io-mem", "io-mem", "", 0, 0), DtEntry("io-port", "io-port", "", 0, 0)>>,
  <<DtEntry("d2", "io-port", "d1", 1, 0), DtEntry("d1", "io-port", "portio", 1, 0)>>,
  <<DtEntry("d1", "io-port", "portio", 1, 0), DtEntry("d2", "io-port", "portio", 1, 1)>>,
  <<DtEntry("d1", "io-port", "portio", 1, 1), DtEntry("d2", "io-port", "portio", 1, 1)>>,
  <<DtEntry("d1", "disk", "memory", 1, 0), DtEntry("d3", "io-port", "memory", 1, 1)>> }
MCPool == {"d1", "d2", "d3"}
OneTree == <<DtEntry("io-mem", "io-mem", "", 0, 0), DtEntry("io-port", "io-port", "", 0, 0)>>

Directive(c, v, b, w) == [conv |-> c, arg |-> v, base |-> b, width |-> w, str |-> <<1, 2>>]
MCFormats ==
  [dirs : {<<Directive("num", v, b, w), Directive(c, 7, 10, x)>> :
             v \in {-17, -1, 0, 1, 9, 10, 255}, b \in {8, 10, 16}, w \in 0..4,
             c \in {"char", "str"}, x \in {0, 3}},
   size : 0..9]
MCBuses == [kind : {"mem", "port"}, root : BOOLEAN, base : {0, 3, 14}]
MCRoots == {b \in MCBuses : b.kind = "mem" \/ b.root}
MCBusChains == {<<r>> : r \in MCRoots} \cup (MCBuses \X MCRoots) \cup (MCBuses \X MCBuses \X MCRoots)
MCAccesses == [chain : BusChains, base : {0, 8}, offset : {0, 7}]

Init ==
  /\ mode \in Modes
  /\ devtree \in IF mode = "devices" THEN MCDevtrees ELSE {OneTree}
  /\ pastnull \in IF mode = "devices" THEN BOOLEAN ELSE {TRUE}
  /\ debug \in IF mode = "console" THEN Builds ELSE {FALSE}
  /\ bin \in IF mode = "bits" THEN BitInputs ELSE {NoBits}
  /\ min \in IF mode = "memory" THEN MemInputs ELSE {[mem |-> [a \in Mem |-> 0], dst |-> 0, src |-> 0, n |-> 0]}
  /\ pin \in IF mode = "print" THEN Formats ELSE {[dirs |-> <<>>, size |-> 1]}
  /\ ain \in IF mode = "bus" THEN MCAccesses
             ELSE {[chain |-> <<[kind |-> "port", root |-> TRUE, base |-> 0]>>, base |-> 0, offset |-> 0]}
  /\ DInit /\ UInit
  /\ mode # "devices" => calls[2] = "memory"

lvars == <<bin, min, pin, ain>>
InDevices(A) == mode = "devices" /\ A /\ UNCHANGED <<mode, uvars, lvars>>
InConsole(A) == mode = "console" /\ A /\ UNCHANGED <<mode, dvars, lvars>>

Next == InDevices(DNext) \/ InConsole(UNext)

vars == <<mode, dvars, uvars, lvars>>

Spec ==
  /\ Init /\ [][Next]_vars
  /\ WF_vars(InDevices(ProbeStep))
  /\ WF_vars(InConsole(InitLatch \/ InitLsb \/ InitMsb \/ InitLcr))
  /\ WF_vars(InConsole(Shift))
  /\ \A c \in Cpus : WF_vars(InConsole(UCpuStep(c)))

\* kputs() returns on every processor when no
\* interrupt handler prints.
KputsReturns ==
  mode = "console" /\ ~debug => <>(\A c \in Cpus : upc[c] = "printed" /\ clock = Free)
=============================================================================
