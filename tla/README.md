# Verification of the AIM kernel

TLA+ models of the AIM teaching kernel (i386 port), the TLC runs that check them
on small instances, and TLAPS proofs of the results that hold for every size.
Definitions are translated from the C source; `PROJECT.json` maps each of them to
its lines. Mutated forms of definitions (comment "Mutant") are used only to show
that a property would notice a plausible bug.

Run a model with `tlc -workers 2 -config X.cfg M`, a proof with `tlapm M.tla`.

## 1. Inventory

### Memory

| Component | State | Operations | Correct means |
|---|---|---|---|
| Buddy (`kern/mm/pmm/page_alloc.c`) | a tag per node of a binary tree | `buddy_alloc`, `buddy_free`, `buddy_size` | blocks in use never overlap; a request is refused only if no aligned block is free |
| Page allocator (same file) | `area`: `page_num`, `buddy_num`, `buddylist` | `page_alloc`, `page_free`, `page_get_free` | no page is handed out twice; stays inside `buddylist` |
| Its interface (`pmm.c`, `pmm.h`) | the registered allocator | `alloc_pages`, `alloc_aligned_pages`, `free_pages`, `pgalloc`, `pgfree` | alignment; errors are reported |
| Heap (`vmm/simple_alloc.c`, `vmm.c`) | a list of pages per block size, a chain of free blocks per page | bootstrap, `kmalloc`, `kfree` | every block is held or on exactly one chain; pages go back only when unused |
| User memory (`uvm.c`) | per process: ordered mappings, reference-counted page blocks | create, destroy, clone, permissions, copy, fill | mappings disjoint and ordered; reference counts exact, on error paths too |
| Page tables (`arch_mmu.c`) | two-level tables | walk, map, unmap, permissions | map and unmap are inverse |
| Early mappings (`early_kmmap.c`) | a bounded queue of mappings | add, clear, iterate | mappings apart; bound respected |

### Concurrency

| Component | State | Operations | Correct means |
|---|---|---|---|
| Spin lock (`arch-sync.h`) | `locked`, `percpu` | init, lock, unlock | mutual exclusion; relocking is detected, and only relocking |
| Recursive lock, semaphore (`sync.h`, `arch-sync.h`) | lock, holder, depth / value, limit | lock, unlock / inc, dec | exclusion with nesting; units neither lost nor invented, waiters get in |
| Interrupt flag (`arch-irq.h`) | IF | save, restore, enable, disable | a saved section is not interrupted |
| Console (`console.c`) | the lock, the output functions | `kputs`, `kprintf` | lines are not mixed; printing never deadlocks |
| Panic (`panic.c`, `trap.c`, `lapic.c`) | CPUs running or halted | `panic`, IPI, `__local_panic` | every CPU halts; the message is printed |
| SMP bring-up (`mp.c`) | CPU table, started flags | `mpinit`, `startothers`, `seginit` | each CPU starts once, with its own stack and percpu |
| Scheduler (`sched.c`) | process list, current process, lock | `schedule`, `sleep`, `wakeup` | a queued process is run; a sleeper waits for its wakeup; interrupt flags come back; the queue stays whole |
| Processes (`proc.c`) | process number counter, process structs | `proc_new`, `proc_destroy`, `kpid_new` | numbers unique among the living |

### Devices and libraries

The driver core and the device index (registration, lookup, probing order), the
bus and serial drivers (register accesses), bitmaps and bit operations, lists,
and a subset of libc.

### Booting and interrupts

The boot loader (memory map, A20, loading the image), the first page directory and
the jump to high addresses, the programming of the interrupt controllers and the
timer, the interrupt table, the entry to and return from traps.

### How the parts interact

`kmalloc` gets pages from the page allocator, which gets its bookkeeping memory
from `kmalloc`: `allocator_init` breaks the circle with a page on its own stack.
The page allocator asks its buddies in turn. Every printing path takes the console
lock; interrupts and the panic IPI arrive in the middle of it. The spin lock's
relock check relies on `%gs`, set up by `seginit` on each processor except the
boot processor.

### What is hard to get right

Interleavings at single memory accesses (spin lock, console, panic); re-entry from
interrupts, which `local_irq_save` does not disable; long sequences of legal calls
(buddy tree, heap lists); error paths in the middle of multi-step operations (user
memory, bring-up); counters at their limits (`page_num`, process numbers, queues).
`PROJECT.json` lists each hazard at its line with the properties that cover it.

## 2. Shape of the project

A component has a module with its variables, actions and properties. An `MC` module
gives a component, or several that share no state, small constants for TLC; where it
holds several, a variable `mode` selects the one a behaviour runs. Modules that
interact are composed: `Pages` over `PageAlloc` over `BuddyAbs`, `RLock`, `Semaphore` and `Sched`
over what `Mutex` promises, `Panic` from console, interrupts and panic, `Smp` from
table scan, start-up protocol and interrupt table, `Uart` from console and chip.
A property of a run is often the conjunction of a few named ones that make up one
idea (for example `TrapUndone`); each of them is stated and explained on its own in
its module.

| Run | Modules | Result |
|---|---|---|
| `buddy` | BuddyAbs, Buddy, Pow2 | pass |
| `page_alloc` | PageAlloc, Pages | pass |
| `kmalloc` | KMalloc | pass |
| `panic` | Panic | pass |
| `uvm` | Uvm | pass |
| `sched` | Mutex, SpinLock, RLock, Semaphore, Proc, Sched | pass |
| `boot` | BootLoader, MemMap, EarlyMap, Smp, Trap, IntrCtl | pass |
| `devices` | Devices, Uart, Bitmap, Libc | pass |
| `kmalloc_nested`, `boot_idt`, `uvm_unaligned`, `sched_pick` | KMalloc, Smp, Uvm, Sched | violation |

The violations are disagreements between the code and what it says of itself;
`PROJECT.json` quotes the lines. Section 4 lists more of them.

## 3. Modules

### Mutex, SpinLock, SpinLockProofs

`Mutex` is the abstract lock: one owner, passed on only by a release, and a halt for
an owner that asks again. `SpinLock` is `arch-sync.h`: `locked` and `percpu` are the
two words, `pc[c]` is where context `c` is, and each action is one access to a
shared word. `holds` is a history variable, true from the winning `xchg` to the
releasing store. `gs[c]` is what `get_gs_cpu()` returns.

* `sched`, in mode `spin` (three contexts, distinct `gs`): `LockExact`, that is mutual exclusion,
  the exact meaning of `percpu` and both directions of the relock check; refinement
  of `Mutex`. Three contexts are enough for a holder, a waiter and a third party that overtakes.
  Also, while somebody waits, somebody eventually acquires. Fairness:
  each context finishes the routine and the critical section it is in, which is
  what a running CPU does; nothing is assumed about who wins the `xchg`, so no
  individual waiter is promised the lock.

Proved for any set of contexts: type correctness, mutual exclusion, the meaning of
`percpu` and relock detection for any `gs`; that only a relock panics, and the
refinement of `Mutex`, if every context has its own `gs` (`GsDistinct`). The
inductive invariant adds to these where the program counters may be while the
lock is free or held: mutual exclusion alone says nothing of a context that is
about to store to `percpu`.

### BuddyAbs, Buddy, BuddyProofs

`BuddyAbs` is a set of disjoint aligned intervals with first-fit allocation.
`Buddy` has the tree of tags and the local variables of the three routines; one
action per loop iteration. `owned` (the blocks of callers) and `live` are history
variables. `Pow` is a table of powers of two, because the provers know nothing of
`^`. `length`, `level` and `index` are kept separately, as in the code.

* `buddy` (level 3, eight pages): all sequences of calls; overlap-freedom,
  true tags (`TagsTrue`), refinement of `BuddyAbs`. Termination is checked as safety
  (`CallsEnd`): `LoopsAdvance` gives every loop a measure that each iteration moves one way (for the two-way walk of `buddy_alloc`,
  the place on a depth-first tour of the tree), and `NeverStuck` says that some case
  of the loop always applies. Level 3 has inner nodes with inner parents and inner children.
  Its module extends `Pow2`, so TLC also evaluates the assumption `NextPow`: the bit
  smearing of `next_pow_of_2` yields the least power of two, for all requests up
  to a buddy and around larger powers.

Proved for every level: type correctness (all indices are nodes), the walk in
step, blocks in use disjoint and inside the area, freshness of every block
returned, and the advance of every loop (with `Rightmost`: a climb never leaves a
left child, so no right half is passed over). The inductive invariant relates each block in use to the unique node
that is tagged USED and says that no ancestor of such a node can be taken
(`LiveFrame` and the lemmas before it are the geometry of a complete binary tree:
children halve their parent's interval, nodes of one level are disjoint).

### PageAlloc, Pages

`PageAlloc` is `page_alloc` and `page_free` over buddies that behave as `BuddyAbs`.
`slot` is `area.buddylist`, whose words nobody initialises: they start with any mix of
addresses of memory, equal or not, and of words that lead nowhere. When a new buddy is
made the tree its slot points to is cleared. `Pages` is `pmm.c` on top: the dummy
allocator until `set_page_allocator`, the over-allocation of `alloc_aligned_pages` and
the freeing of its padding one `free_pages` at a time, zeroing, and filling with junk.
`handed` and `twice` record which pages were given out, and that one was given out again.

* `page_alloc` (three buddies of four pages and a page left over, all contents of the
  slots, an area that starts at an odd page, two blocks held at a time, five calls):
  `HandedOnceUnlessShared`, a page is given out a second time only if two slots lead to
  one struct; `PagesKept`, blocks lie in the area, apart and aligned, a block keeps
  what its owner wrote and is erased when it is freed. One thing does overwrite the
  pages of others, and `ContentsKept` names exactly it: an allocation with `GFP_ZERO`
  that fails still zeroes the pages at the address in the caller's struct. Five calls
  are enough to open a second buddy with a block of the first in use, to free and to
  ask again. Structs are interchangeable, hence the symmetry.

Two things follow from the code that a reader may not expect. `page_free` never tells
the buddy, so freed pages do not come back. And `buddy_num >= page_num / 1024` compares
the buddies made with the pages still left, so requests are refused when about half of
the area is in use. A slot that leads nowhere, or lies behind the array, ends the
behaviour (`AllocWild`).

Bounds: `Word` stands for 2^32 and is large enough never to wrap on the instances,
`PageBytes` for 4096 is larger than a buddy.

### KMalloc

The heap with its bootstrap, one action per access to shared memory, contexts
nested as interrupts nest. `live` is what callers hold; `said` the complaints
printed; `fault` why the kernel stopped. `pgalloc` may fail at any time and may
return a page that was given back: more than `PageAlloc` does, so nothing here
depends on its leak. Physical and virtual addresses of a page are not told apart.

* `kmalloc` (the sizes of the table with 2 and with 1 block in a page, and the one with
  4, which holds only the bootstrap's page; three pages, one context): between calls every page list and every chain is exact
  and no complaint is printed (`HeapExact`); pages are given back only when unused
  and unlinked.
  Three pages of one order make the walk in `simple_free` pass over a page.
  Requests avoid the order of the bootstrap's page (see section 4), so chains of more
  than two free blocks do not occur. `simple_free` refuses what `Kmalloced` does not
  accept; its bound on the order lets two values too many pass, which no page has.
  Every call ends: a routine that has started goes on, since nothing in it waits.
* `kmalloc_nested` (violation): an interrupt handler re-enters the allocator between
  the test of a block and its removal, and a block is handed out twice.
  Another weakness needs no run: `GrowFails` is the step where
  `pgalloc`'s error value -1, which `if (!page)` does not catch, is used as a page.

### Panic

The console, `panic`, the interrupt flag and the interrupt handlers, composed on
several CPUs. `stack[c]` is the control stack of a CPU, one word per function
saying where it is; interrupts push on top. The lock is `SpinLock` with the test
and the winning `xchg` in one step (what can happen between them is `SpinLock`'s
subject); the windows in which `percpu` is not set are kept, because an interrupt
handler on the same CPU that meets one spins for ever instead of panicking.

* `panic` (two CPUs, stacks of eight frames): lines of `kputs` are never mixed,
  neither between CPUs nor with handlers; the lock is accounted for
  (`LockAccounted`: one holder over all stacks, the relock panic only above an
  interrupted `kputs` of the same CPU, no holder at rest; a CPU that is stopped inside
  `kputs` keeps the lock, so nothing is claimed about the message coming out); and a broadcast panic takes every CPU out of ordinary
  code for good. Eight frames hold an interrupted `kputs`, the handler's `kputs`
  and two nested panics; a deeper recursion repeats the last two frames. Fairness:
  a CPU goes on with what it is doing (weak), and a pending IPI is taken by a CPU
  that is interruptible again and again (strong: a local APIC delivers it at the
  next instruction boundary with the flag set). The timer handler prints, as in a
  DEBUG build.

### Uvm

A `struct mm` with its list of areas, the two-level page index and the pages behind
it; contents of pages are bytes, so that copies and clones can be compared.
A turn of the loops of `create_uvm` and `mm_clone` takes one step per allocation (struct
vma, struct upages, page, page table), any of which may fail, and one per label of the
error path, which falls through as in the code. `kmalloc` and `kfree` are counted per
struct; pages given back are not handed out again, as `page_free` has it. Calls on one
mm do not overlap: its locks are commented out in the code. `kernel_mm` is NULL, since
nothing calls `mm_init`.

* `uvm` (two mms of up to three pages in two page tables, eight frames, pages of two
  bytes, three calls): the rules of `struct vma` (`VmaRules`: areas in order and
  disjoint, one to one with pages that the page table leads to, in the middle of a
  creation and of a clone too; no remapping), `Conserved` (when a call has returned,
  whatever failed, every page and every struct is free, given back or part of an mm),
  `CopiesExact` and `CloneExact`. The exception in `VmaRules` is `set_uvm_perm` without
  `VMA_EXEC`: that bit is `PTE_P`, so the pages become unreachable (`denied`). Eight
  frames are too few for both mms to be full, so the allocator really runs dry; three
  calls are enough to leave a hole and fill it again. The mms are interchangeable,
  hence the symmetry.
* `uvm_unaligned` (violation): a copy to the middle of a page goes to its start.

Where the code cannot go on the behaviour ends in `halted`: `unmap_pages` is
`panic("implement me!")`, so every undoing of a mapped page stops there, and a failed
`pgalloc` for a page table or directory is written through. Error paths that come
back to the caller are therefore those of a call whose first turn fails.

### RLock, Semaphore, Proc, Sched

`RLock` has one action per access to `holder` and `depth`, since the owner is tested
outside the inner lock and `++` and `--` are a load and a store. `Semaphore` is the
busy-waiting retry loop. `Proc` is `proc_new` allocation by allocation with its
rollback, `proc_destroy`, the first process and the process tree. `Sched` has the ring
of runnable processes, each store of a list operation a step, and the lock, flags and
states of `schedule`, `sleep`, `sleep_with_lock` and `wakeup`, as several CPUs run
them. Nothing in the kernel calls the scheduler yet; any CPU that has run `idle_init`
may.

* `sched` (modes: three contexts on a spin lock; two CPUs, nesting 2, on a recursive
  lock; three users, one unit and one signal; three descriptors and stacks; two CPUs
  and two processes on the ring): besides the spin lock's properties `RLockExact`,
  `UnitsConserved`, `ProcsExact` (whenever no `proc_new` is under way every block and
  every stack is in use once, free or given back, and the tree's pointers agree),
  `SchedSafe` and `SomeoneServed`. Two CPUs are enough for the races, which are between
  a holder and one other; three users let one be overtaken. Fairness is weak only, on
  every step inside a routine and on the exchange of a CPU that spins. Nothing is
  assumed of a lock that is free again and again, so what is promised is that somebody
  gets the lock or the unit, never a given waiter.
* `SchedSafe` says two things of every step. A CPU leaves `schedule`, `sleep` and
  `wakeup` with the interrupt flag it came with, except that `schedule` may restore the
  flag of another CPU that called it meanwhile: `__sched_intrflags` is one variable,
  written before the lock is taken. And between list operations the ring is the queued
  processes in order, its back pointers the mirror of its forward ones, as long as no
  two operations overlapped (`proc_add` and `proc_remove` take no lock, though sched.h:35
  calls them atomic) and `pick` met no process.
* `sched_pick` (violation): with a process queued `pick` returns NULL, and takes the
  head out of the ring.

`wakeup` starts from `proc_next(NULL)`, a read at address 0: in `WakeScan` the loop ends
at once or the CPU is lost. It wakes nobody either way, and nobody is asleep: `sleep`
returns without a wakeup, because `switch_regs` does not change the stack.

### BootLoader, MemMap, EarlyMap, Smp, Trap, IntrCtl

`MemMap` is the first boot stage (BIOS memory map, A20 through the keyboard
controller) and `get_mem_init`, which picks the allocator's area. `BootLoader` reads
the segments of the kernel sector by sector. `EarlyMap` has the queue of early
mappings, the handler queues and the first page directory. `Smp` is `mpinit`,
`startothers` and what each application processor runs, with the parameter block,
the IPIs and the interrupt table that they share. `Trap` follows the stack word by
word from the gate to `iret`. `IntrCtl` is the list of register writes of each
initialisation, against models of the 8259A, the 8253, the I/O APIC and the local
APIC.

* `boot` checks, each in its mode: the image is complete when the kernel starts
  (`ImageLoaded`, for every pair of small segments that a linker could produce,
  `Loadable`); `MappingsApart`; paging pulls nothing from under the running code
  (`ImageStaysMapped`); `ProcessorsApart`; `TrapUndone`, for vectors with and without
  an error code and nesting up to three; `ControllersExact` between calls; `AreaRight`;
  and `BootingEnds`: loader, memory set-up and the start of all
  processors come to their end. Bounds: sectors of two bytes, pieces of two pages,
  an address space of 32 pages, three application processors that answer in any
  order, tables with them in any order, absent, doubled and unknown entries. Each is the smallest with a middle case between the
  two ends. Fairness: the boot processor, the processors that got their STARTUP, the
  drive and the keyboard controller go on by themselves; `BootFinishes` is claimed
  for tables all of whose processors exist (`Startable`), as `startothers` waits for
  each without a limit.
  What these do not say: `ProcessorsApart` excepts stacks that `kmalloc` did not
  deliver, which mp.c:239 does not test; `ControllersExact` does not speak of the
  moment between ioapic.c:83 and 84, when an entry is open and its destination not yet
  written; `TrapUndone` has the interrupts acknowledged exactly by their own handlers
  unless an exception comes inside one, since `handle_interrupt` acknowledges for
  exceptions too; `AreaRight` states that the last BIOS entry is never counted, and that
  an area that starts behind the image runs past the end of its block.
* `boot_idt` (violation): an entering processor unhooks the timer of the others.

### Devices, Uart, Bitmap, Libc

`Devices` is the index (dummy, then list), the initcalls in every order the linker
may choose, driver registration and the passes of `probe_devices`, with failing
allocations. `Uart` is `kputs` on two CPUs down to the transmit register, with a
printing timer handler in a debug build. `Bitmap` and `Libc` are pure algorithms;
their inputs are the initial states, and each is compared with a definition on sets
of bit numbers, on functions from addresses, or on sequences.

* `devices`: `IndexExact` (devices listed once, in order, under names of their own, with
  their bus; one device per place of the tree, with the registers of its entry
  as long as no device was renamed by an entry with others), `ConsoleReady`, `ProbeEnds`, `OutputWhole` and `KputsReturns`,
  `BitmapsExact`, `LibcExact`, `AccessExact`. Words have four bits and bitmaps up to
  seven, so that a word boundary and a partial last word occur; memory has twelve
  bytes and words of four, for a head, a word and a tail at every alignment. The
  arithmetic of `hweight32` is checked on words of 31 bits as well. Output buffers are
  bytes: `BufferKept` says what `vsnprintf` leaves in one of any size, and that size 0
  overruns it by the whole text. `ProbeEnds` claims nothing once an allocation has
  failed, `KputsReturns` only runs without printing handlers, and a character that a
  handler writes while the divisor latch shadows the transmitter counts as not printed.
  Fairness: a CPU inside `kputs` or the set-up goes on and the chip shifts out what
  it holds.

## 4. Where the code disagrees with what it says

Besides the four violation runs, each line below is shown by running TLC with the
named configuration, which ends in a counterexample.

| Configuration | Property | What happens |
|---|---|---|
| `MCSchedBoot.cfg` | PanicOnlyOnRelock | the boot CPU has no percpu and takes a half-acquired lock for its own |
| `MCBuddyArray.cfg` | NodesFitArray | `tree[1 << 10]` is about half the tree of 1024 pages |
| `MCPageAllocNull.cfg` | NeverHandedTwice | slots that are all NULL, or otherwise equal: at -O2 the NULL test after the store is removed, and buddies share one tree |
| `MCPageAllocSlots.cfg` | SlotsSuffice | `page_free` adds bytes to a number of pages |
| `MCKMallocBoot.cfg` | BootstrapPageHidden | the bootstrap's stack page is handed out later |
| `MCPanicOnce.cfg` | PanicOnlyWhereThrown | an IPI inside `kputs` makes its target panic as well |
| `MCBootMp.cfg` | MpinitReturns | an unknown table entry is never passed; the fallback of mp.c:133 is not reached |
| `MCSchedGaps.cfg` (with `-continue`) | KpidsUnique | process numbers are never recorded, as `atomic_set_bit` is empty |
| the same | SleepsUntilWoken | `sleep` returns without a wakeup (sched.c:77) |
| `MCDevicesRename.cfg` | RenamesSame | a device takes the name of an entry with other registers: `__dev_match` compares only their number, core.c:170 says "exactly the same bus and register spaces" |

The models contain these further ones, as the code has them:

* Scheduler: see section 3 for `schedule`'s shared flags, the unlocked list operations
  and `wakeup`.
* User memory: `uva2kva` drops the offset; `set_uvm_perm` records the flags in the
  first area only; every unmapping of a present page panics; a range below the
  lowest area is refused.
* Start-up: the counter at 0x9000 is not initialised; `page_index_early_map` leaves out a piece that starts at the last
  page; the overlap check accepts equal starts; `startothers` does not test `kmalloc`.
* Devices: the end of the device list is not recognised; `kmalloc` is not tested.
* Libraries: `fls64`, `ffz64` and `flz64` are wrong in the cases that `WordsExact`
  leaves out; `ffs64(0)` is 32 where bitops.h:33 promises 0, and `find_last_bit` of an
  empty map returns the size; shifts want zero bits past the size; `strlcpy` does not terminate what
  it cuts; a width in a number format pads with zeros and truncates.

## 5. What is proved

| Module | For every | Theorem |
|---|---|---|
| SpinLockProofs | set of contexts | types, mutual exclusion, meaning of `percpu`, relock detection for any `gs`; `LockExact` and the refinement of `Mutex` if `GsDistinct` |
| BuddyProofs | level | types, the walk in step, blocks disjoint, fresh blocks, all loops advance |
| RLockProofs | set of CPUs, nesting | `RLockExact` |
| SemaphoreProofs | set of contexts, value | `UnitsConserved`, `SemBounded` |
| EarlyMapProofs | layout, queue length | `MappingsApart` |

The arguments for the first two are in section 3. `RLock`: exclusion is not
inductive, because `holder` is read without the inner lock. The invariant `RInd` adds that
whoever is past the test or inside owns the inner lock, that `holder` names the owner
but for the windows right after acquiring and before releasing, and what a CPU
between a load and a store of `depth` has in its register. `Semaphore`:
the value, the units held and those about to be signalled add up to the initial value plus
the signals; the invariant `SInd` adds at which points of the routines a context has a
unit. The sets counted are finite (`SemAssumption`). `EarlyMap`:
apart from separation itself the invariant `EInd` says
that automatically placed mappings lie below the top of their area, which is what
makes the next one apart from all of them, and that a later entry of the queue passed
the overlap check against each earlier one. `LayoutAssumption` orders the three bases
and excludes mappings of size 0.

Assumptions: `CtxAssumption`, `LevelAssumption`, `PowAssumption`, `RLockAssumption`,
`SemAssumption`, `LayoutAssumption`; TLC evaluates each in a run.

Only model-checked: liveness and `NeverStuck` (fairness and ENABLED are out of the
prover's reach), the refinement `Buddy` => `BuddyAbs`, true tags, and the modules
without a proof module. What a recursive definition computes for every input needs
induction over data, which the prover cannot do; such claims stay with TLC.

## 6. Not modelled

* The caching allocator of `vmm.c` is a set of dummies that nothing replaces; `ksize`.
* `fill_uvm`, which repeats the walk of the copies; `mm_init`, which is `mm_new` and
  `switch_pgindex` and which nothing calls; trap frames and contexts of new processes, whose
  routines are empty; segment descriptors and stack switches at start-up.
* The search for the MP table and its checksum; `mpinit` starts from the entries.
* The text of messages, and the one static buffer two panicking CPUs share.
* Single-bit macros, of which the atomic ones are empty; locked instructions, which
  are atomic steps where they are used.
* The ports to MIPS and ARM, which stop at early initialisation; headers of the
  loader and ELF formats, device tree data and configuration.
