------------------------------ MODULE Devices -------------------------------
(***************************************************************************)
(* The device framework: initcalls and the device index                    *)
(* (kern/dev/index/index.c, devlist.c), drivers and device discovery       *)
(* (drivers/common/core.c), and the initcalls of the two buses and of the  *)
(* UART (drivers/io/io-port.c, io-mem.c, drivers/serial/uart-ns16550.c).   *)
(*                                                                         *)
(* A struct device is named by the object that it is; NULL is none.        *)
(* kmalloc() may always fail; where its result is not tested the model     *)
(* stops (fault) as the code writes through NULL.  The end of the list is  *)
(* not recognised by devlist's __next: it returns the word that lies in    *)
(* memory before the list's head, which ends a loop over all devices when  *)
(* it happens to be NULL (pastnull) and leads it astray ("lost") if not.   *)
(***************************************************************************)
EXTENDS Naturals, Sequences, SequencesExt, FiniteSets

CONSTANTS Pool,      \* objects for further devices
          Clients,   \* those of them that drivers add by themselves
          ClientNos, \* device numbers that drivers choose
          Devtrees   \* device trees: sequences of [name, model, parent, nregs, reg]

VARIABLES calls,     \* initcalls still to be made, in the linker's order
          index,     \* __index: "dummy" or "devlist"
          list,      \* the devices of devlist's list, in its order
          dev,       \* struct device: name, devno, bus, nregs, base
          ndrivers,  \* drivers registered
          my_device, console,         \* of the UART driver
          devtree, pi, found,         \* __probe_devices: entry looked at (0: not running)
          undriven, offered,          \* __undriven_devs: seen, and not yet seen by this pass
          fault,     \* "none", "null" (pointer), "panic" or "lost"
          pastnull,  \* what lies before the list's head is NULL
          failed,    \* some kmalloc() failed
          order,     \* history: the devices listed, oldest first
          made,      \* history: the entry a device was created for, or NoEntry
          misnamed   \* history: a device got the name of one at other registers

probing == <<devtree, pi, found, undriven, offered>>
dvars == <<calls, index, list, dev, ndrivers, my_device, console, probing, fault,
           pastnull, failed, order, made, misnamed>>

NODEV == 9
NULL == "NULL"
NoEntry == [name |-> NULL]
Static == {"memory", "portio", "uart"}
Device(n, no, b, r, a) == [name |-> n, devno |-> no, bus |-> b, nregs |-> r, base |-> a]

\* Stages order the initcalls: devlist's is a core call, the buses' are
\* subsystem calls in any order, and the UART's is a device call.
DInit ==
  /\ calls \in {<<"devlist", "memory", "portio", "uart">>,
                <<"devlist", "portio", "memory", "uart">>}
  /\ index = "dummy" /\ list = <<>> /\ order = <<>>
  /\ dev = [d \in Static \cup Pool |-> Device("", 0, NULL, 0, 0)]
  /\ ndrivers = 0 /\ my_device = NULL /\ console = "early"
  /\ devtree \in Devtrees /\ pi = 0 /\ found = FALSE /\ undriven = <<>> /\ offered = <<>>
  /\ fault = "none" /\ pastnull \in BOOLEAN /\ failed = FALSE
  /\ made = [d \in Pool |-> NoEntry] /\ misnamed = FALSE

\* __from_name: the first listed device of that name.
Named(l, info, name) ==
  IF \E i \in DOMAIN l : info[l[i]].name = name
  THEN l[CHOOSE i \in DOMAIN l : info[l[i]].name = name
                 /\ \A j \in 1..(i - 1) : info[l[j]].name # name]
  ELSE NULL

dev_from_name(name) == Named(list, dev, name)

\* devlist's __add: before the first device with a greater number.
Inserted(l, info, d) ==
  LET n == Cardinality({i \in DOMAIN l : info[l[i]].devno <= info[d].devno})
  IN SubSeq(l, 1, n) \o <<d>> \o SubSeq(l, n + 1, Len(l))

\* dev_add(): EOF from the dummy index, or when no entry can be allocated.
\* Nothing is remembered of a device that is not listed.
DevAdd(d, info, nomem) ==
  /\ IF index = "devlist" /\ ~nomem
     THEN dev' = info /\ list' = Inserted(list, info, d) /\ order' = Append(order, d)
     ELSE UNCHANGED <<dev, list, order>>
  /\ failed' = (failed \/ nomem)

-----------------------------------------------------------------------------
(* do_initcalls *)

Calling(f) == fault = "none" /\ calls # <<>> /\ Head(calls) = f

\* Mutant: the index is not installed.
InitNoIndex ==
  /\ Calling("devlist")
  /\ calls' = Tail(calls)
  /\ UNCHANGED <<index, list, dev, ndrivers, my_device, console, probing, fault, pastnull, failed, order, made, misnamed>>

\* devlist's __init: set_device_index().
DevlistInit ==
  /\ Calling("devlist")
  /\ calls' = Tail(calls) /\ index' = "devlist"
  /\ UNCHANGED <<list, dev, ndrivers, my_device, console, probing, fault, pastnull, failed, order, made, misnamed>>

\* __driver_init of a bus: register_driver(), kmalloc(), initdev(), dev_add().
BusInit(b, nomem) ==
  /\ Calling(b)
  /\ calls' = Tail(calls) /\ ndrivers' = ndrivers + 1
  /\ DevAdd(b, [dev EXCEPT ![b] = Device(b, NODEV, NULL, 0, 0)], nomem)
  /\ UNCHANGED <<index, my_device, console, probing, fault, pastnull, made, misnamed>>

\* __driver_init of the UART: the bus by its name, initdev(), dev_add(), and
\* my_device by its name; __uart_ns16550_init() calls through the bus, and
\* set_console() makes the UART the console.
UartInit(nomem) ==
  LET uart == Device("uart-ns16550", NODEV, dev_from_name("portio"), 0, 0)
      info == [dev EXCEPT !["uart"] = uart]
  IN /\ Calling("uart")
     /\ calls' = Tail(calls) /\ ndrivers' = ndrivers + 1
     /\ DevAdd("uart", info, nomem)
     /\ my_device' = Named(list', info, "uart-ns16550")
     /\ IF uart.bus = NULL
        THEN fault' = "null" /\ UNCHANGED console
        ELSE console' = "uart" /\ UNCHANGED fault
     /\ UNCHANGED <<index, probing, pastnull, made, misnamed>>

\* kmalloc() of the struct device itself fails: the driver writes through NULL.
AllocFails ==
  /\ fault = "none" /\ calls # <<>> /\ Head(calls) # "devlist"
  /\ failed' = TRUE /\ fault' = "null"
  /\ UNCHANGED <<calls, index, list, dev, ndrivers, my_device, console, probing, pastnull, order, made, misnamed>>

\* console_putchar: assert(my_device != NULL).
ConsolePutchar ==
  /\ fault = "none" /\ console = "uart" /\ my_device = NULL
  /\ fault' = "panic"
  /\ UNCHANGED <<calls, index, list, dev, ndrivers, my_device, console, probing, pastnull, failed, order, made, misnamed>>

-----------------------------------------------------------------------------
(* Devices that come and go *)

Running == fault = "none" /\ calls = <<>> /\ pi = 0

\* A driver adds a device it found by itself, on a listed bus.
ClientAdd(d, no, bus, nomem) ==
  /\ Running
  /\ d \notin Range(list) /\ bus \in Range(list) \cup {NULL} /\ bus # d
  /\ dev_from_name(d) = NULL
  /\ DevAdd(d, [dev EXCEPT ![d] = Device(d, no, bus, 1, 1)], nomem)
  /\ UNCHANGED <<calls, index, ndrivers, my_device, console, probing, fault, pastnull, made,
                 misnamed>>

\* devlist's __remove: refused for a bus that has devices.
dev_remove(d) ==
  /\ Running
  /\ d \in Range(list)
  /\ \A i \in DOMAIN list : dev[list[i]].bus # d
  /\ list' = SelectSeq(list, LAMBDA e : e # d)
  /\ order' = SelectSeq(order, LAMBDA e : e # d)
  /\ dev' = [dev EXCEPT ![d] = Device("", 0, NULL, 0, 0)]
  /\ made' = [o \in Pool |-> IF o = d THEN NoEntry ELSE made[o]]
  /\ UNCHANGED <<calls, index, ndrivers, my_device, console, probing, fault, pastnull, failed,
                 misnamed>>

-----------------------------------------------------------------------------
(* probe_devices *)

\* __dev_match: the number of register spaces and the bus.
Matches(d, e) == dev[d].nregs = e.nregs /\ dev[d].bus = dev_from_name(e.parent)

\* __check_dup_device: the first match, or what lies past the end of the list.
Dup(e) ==
  IF \E i \in DOMAIN list : Matches(list[i], e)
  THEN list[CHOOSE i \in DOMAIN list : Matches(list[i], e)
                    /\ \A j \in 1..(i - 1) : ~Matches(list[j], e)]
  ELSE IF pastnull THEN NULL ELSE "lost"

ProbeStart ==
  /\ Running
  /\ pi' = 1 /\ found' = FALSE
  /\ UNCHANGED <<calls, index, list, dev, ndrivers, my_device, console, devtree,
                 undriven, offered, fault, pastnull, failed, order, made, misnamed>>

AtEntry == fault = "none" /\ pi \in DOMAIN devtree
Entry == devtree[pi]

\* The entry's device exists: it must match.
EntryKnown ==
  /\ AtEntry /\ dev_from_name(Entry.name) # NULL
  /\ fault' = IF Matches(dev_from_name(Entry.name), Entry) THEN "none" ELSE "panic"
  /\ pi' = pi + 1
  /\ UNCHANGED <<calls, index, list, dev, ndrivers, my_device, console, devtree, found,
                 undriven, offered, pastnull, failed, order, made, misnamed>>

\* Its bus does not exist, or not yet.
EntryNoBus ==
  /\ AtEntry /\ dev_from_name(Entry.name) = NULL /\ dev_from_name(Entry.parent) = NULL
  /\ pi' = pi + 1
  /\ UNCHANGED <<calls, index, list, dev, ndrivers, my_device, console, devtree, found,
                 undriven, offered, fault, pastnull, failed, order, made, misnamed>>

\* strlcpy(dev->name, entry->name): the registers are not compared.
Renamed(d) ==
  IF Entry.parent = "memory" THEN UNCHANGED <<dev, misnamed>>
  ELSE /\ dev' = [dev EXCEPT ![d].name = Entry.name]
       /\ misnamed' = (misnamed \/ dev[d].base # Entry.reg)

\* Mutant: whether the name is taken is not looked at.
RenamesAnyway ==
  /\ AtEntry /\ dev_from_name(Entry.parent) # NULL
  /\ Dup(Entry) \notin {NULL, "lost"}
  /\ Renamed(Dup(Entry))
  /\ pi' = pi + 1
  /\ UNCHANGED <<calls, index, list, ndrivers, my_device, console, devtree, found,
                 undriven, offered, fault, pastnull, failed, order, made>>

\* A device on that bus with as many register spaces takes the entry's name,
\* except on the memory bus, where discover_device() then drops the entry.
EntryRenames ==
  /\ AtEntry /\ dev_from_name(Entry.name) = NULL /\ dev_from_name(Entry.parent) # NULL
  /\ Dup(Entry) \notin {NULL, "lost"}
  /\ Renamed(Dup(Entry))
  /\ pi' = pi + 1
  /\ UNCHANGED <<calls, index, list, ndrivers, my_device, console, devtree, found,
                 undriven, offered, fault, pastnull, failed, order, made>>

\* discover_device(): an entry not yet on the undriven list (__entry_match)
\* goes there; kmalloc() is not tested.
EntryDiscovered(nomem) ==
  LET listed == \E i \in DOMAIN undriven :
        /\ undriven[i].nregs = Entry.nregs /\ undriven[i].parent = Entry.parent
        /\ undriven[i].reg = Entry.reg
  IN /\ AtEntry /\ dev_from_name(Entry.name) = NULL /\ dev_from_name(Entry.parent) # NULL
     /\ Dup(Entry) = NULL
     /\ fault' = IF ~listed /\ nomem THEN "null" ELSE fault
     /\ undriven' = IF listed THEN undriven ELSE Append(undriven, Entry)
     /\ failed' = (failed \/ (~listed /\ nomem))
     /\ pi' = pi + 1
     /\ UNCHANGED <<calls, index, list, dev, ndrivers, my_device, console, devtree, found,
                    offered, pastnull, order, made, misnamed>>

\* A loop over all devices that runs past the end: __check_dup_device(), and
\* the scan for buses that can probe.
Lost ==
  /\ \/ AtEntry /\ dev_from_name(Entry.name) = NULL /\ dev_from_name(Entry.parent) # NULL
        /\ Dup(Entry) = "lost"
     \/ fault = "none" /\ pi = Len(devtree) + 1 /\ ~pastnull
  /\ fault' = "lost"
  /\ UNCHANGED <<calls, index, list, dev, ndrivers, my_device, console, probing,
                 pastnull, failed, order, made, misnamed>>

\* The scan for buses that can probe: none of the buses can.
ProbeBuses ==
  /\ fault = "none" /\ pi = Len(devtree) + 1 /\ pastnull
  /\ pi' = pi + 1 /\ offered' = undriven /\ undriven' = <<>>
  /\ UNCHANGED <<calls, index, list, dev, ndrivers, my_device, console, devtree, found,
                 fault, pastnull, failed, order, made, misnamed>>

\* An undriven entry is offered to the drivers.  Only io-port's new() takes
\* one, of its model, and returns 0 even when dev_add() fails.
PickUp(nomem) ==
  LET d == CHOOSE o \in Pool : o \notin Range(list)
      e == Head(offered)
      new == Device(e.name, NODEV, dev_from_name(e.parent), e.nregs, e.reg)
  IN /\ fault = "none" /\ pi = Len(devtree) + 2 /\ offered # <<>>
     /\ e.model = "io-port" /\ Pool \ Range(list) # {}
     /\ DevAdd(d, [dev EXCEPT ![d] = new], nomem)
     /\ offered' = Tail(offered) /\ found' = TRUE
     /\ made' = IF nomem THEN made ELSE [made EXCEPT ![d] = e]
     /\ UNCHANGED <<calls, index, ndrivers, my_device, console, devtree, pi, undriven,
                    fault, pastnull, misnamed>>

\* No driver takes the entry, or new() gets no memory: it stays.
PickUpNot ==
  LET e == Head(offered)
  IN /\ fault = "none" /\ pi = Len(devtree) + 2 /\ offered # <<>>
     /\ failed' = (failed \/ e.model = "io-port")
     /\ offered' = Tail(offered) /\ undriven' = Append(undriven, e)
     /\ UNCHANGED <<calls, index, list, dev, ndrivers, my_device, console, devtree, pi,
                    found, fault, pastnull, order, made, misnamed>>

\* Mutant: the undriven list decides about another pass.
PassEndsUndriven ==
  /\ fault = "none" /\ pi = Len(devtree) + 2 /\ offered = <<>>
  /\ pi' = IF undriven # <<>> THEN 1 ELSE 0
  /\ found' = FALSE
  /\ UNCHANGED <<calls, index, list, dev, ndrivers, my_device, console, devtree,
                 undriven, offered, fault, pastnull, failed, order, made, misnamed>>

\* The end of a pass; another one if a device was created.
PassEnds ==
  /\ fault = "none" /\ pi = Len(devtree) + 2 /\ offered = <<>>
  /\ pi' = IF found THEN 1 ELSE 0
  /\ found' = FALSE
  /\ UNCHANGED <<calls, index, list, dev, ndrivers, my_device, console, devtree,
                 undriven, offered, fault, pastnull, failed, order, made, misnamed>>

ProbeStep ==
  \/ EntryKnown \/ EntryNoBus \/ EntryRenames \/ Lost \/ ProbeBuses \/ PickUpNot \/ PassEnds
  \/ \E nomem \in BOOLEAN : EntryDiscovered(nomem) \/ PickUp(nomem)

DNext ==
  \/ DevlistInit \/ AllocFails \/ ConsolePutchar
  \/ \E nomem \in BOOLEAN :
       \/ \E b \in {"memory", "portio"} : BusInit(b, nomem)
       \/ UartInit(nomem)
       \/ \E d \in Clients, no \in ClientNos, bus \in {NULL, "portio"} \cup Clients :
            ClientAdd(d, no, bus, nomem)
  \/ \E d \in {"memory", "portio"} \cup Pool : dev_remove(d)
  \/ ProbeStart \/ ProbeStep

-----------------------------------------------------------------------------
(* Properties *)

\* The list is sorted by device number, and among equal numbers by age, so
\* that dev_from_id() finds the device that was registered first.
ListStable == \A i, j \in DOMAIN list :
  i < j => \/ dev[list[i]].devno < dev[list[j]].devno
           \/ /\ dev[list[i]].devno = dev[list[j]].devno
              /\ \E k, l \in DOMAIN order :
                   k < l /\ order[k] = list[i] /\ order[l] = list[j]

\* A bus is not removed under the devices on it: whatever is added and removed
\* in between, the bus of every listed device is listed.
BusesKept == \A i \in DOMAIN list :
  dev[list[i]].bus # NULL => dev[list[i]].bus \in Range(list)

\* If memory suffices names stay unique, though probing renames devices and
\* creates new ones: dev_from_name() has one device to find.
NamesUnique == ~failed => \A i, j \in DOMAIN list :
  i # j => dev[list[i]].name # dev[list[j]].name

\* If memory suffices, probing creates one device for a place on a bus, however
\* many entries of the tree and passes lead there, and has it where its entry
\* says.
CreatedOnce == ~failed =>
  LET created == {d \in Range(list) \cap Pool : made[d] # NoEntry}
      place(d) == <<dev[d].bus, dev[d].nregs, dev[d].base>>
  IN \A d \in created :
       /\ dev[d].base = made[d].reg /\ dev[d].nregs = made[d].nregs
       /\ \A e \in created \ {d} : place(d) # place(e)

\* Where the tree's entry is what a device has its name from, dev_from_name()
\* finds a device with the entry's registers, if none was ever renamed that has
\* others.
FoundWhereTreeSays == ~failed /\ ~misnamed =>
  \A d \in Range(list) \cap Pool, i \in DOMAIN devtree :
    made[d] # NoEntry /\ dev[d].name = devtree[i].name => dev[d].base = devtree[i].reg

\* A device is renamed only to the entry of "exactly the same bus and register
\* spaces" (core.c:170).  Not so: __dev_match() compares only their number.
RenamesSame == ~misnamed

\* If memory suffices, the initcalls leave a working console behind: whatever
\* order the linker puts them in, the UART finds its bus, and itself.
ConsoleReady ==
  ~failed =>
    /\ fault # "null"
    /\ calls = <<>> => console = "uart" /\ my_device = "uart" /\ dev["uart"].bus = "portio"

\* probe_devices() comes to an end: a pass is repeated only because a device was
\* created, and the device tree has only so many.  (Once an allocation has failed
\* nothing is claimed.)
ProbeEnds == pi > 0 ~> (pi = 0 \/ fault # "none" \/ failed)

\* What the index finds is right: devices are listed once, in order, under names
\* of their own, with their bus, and where the device tree has them.
IndexExact ==
  /\ IsInjective(list) /\ Range(list) = Range(order)
  /\ ListStable /\ BusesKept /\ NamesUnique /\ CreatedOnce /\ FoundWhereTreeSays
=============================================================================
