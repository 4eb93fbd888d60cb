------------------------------ MODULE EarlyMap ------------------------------
(***************************************************************************)
(* Memory mappings before the page allocator: the queue of early mappings  *)
(* (kern/mm/kmmap/early_kmmap.c), the queue of handlers to run after the   *)
(* MMU is on (kern/mm/mmu.c, jump.c), and the page directory of 4 MB       *)
(* pieces that early_mm_init() fills before mmu_init() and the jump to     *)
(* high addresses (kern/arch/i386/arch_mmu.c, arch_early_init.c).          *)
(* Addresses and sizes are counted in pages.                               *)
(***************************************************************************)
EXTENDS Naturals, Sequences

CONSTANTS KERN_BASE, KMMAP_BASE, RESERVED_BASE,  \* the layout of memlayout.h
          DEVSPACE,      \* where device memory starts
          DEVSIZE,       \* its size (0x01000000)
          KERN_START,    \* where the image starts in physical memory
          Top,           \* last page of the address space
          PIECE,         \* pages of a 4 MB piece (1024)
          EXTRA,         \* pages early_mm_init adds to the image (0x10000000)
          QUEUE_LENGTH,  \* EARLY_MAPPING_QUEUE_LENGTH
          Ends,          \* sizes of the kernel image
          Sizes          \* sizes of mappings

ASSUME LayoutAssumption ==
  /\ KERN_BASE \in Nat /\ KMMAP_BASE \in Nat /\ RESERVED_BASE \in Nat
  /\ KERN_BASE <= KMMAP_BASE /\ KMMAP_BASE <= RESERVED_BASE
  /\ Sizes \subseteq Nat \ {0}

VARIABLES queue,      \* queue[0..queue_size-1]
          mem_top, kmmap_top,
          handlers,   \* lengths of the handler queues of mmu.c and jump.c
          _end,       \* end of the kernel image
          pgdir,      \* entrypgdir (initialised in mp.c): piece -> page, or Absent
          estep       \* how far arch_early_init() is

evars == <<queue, mem_top, kmmap_top, handlers, _end, pgdir, estep>>

Absent == Top + 1
Handlers == {"mmu", "jump"}

MEMORY == 0
KMMAP == 1
EARLY_OTHER == 3

EInit ==
  /\ queue = <<>> /\ mem_top = KERN_BASE /\ kmmap_top = KMMAP_BASE
  /\ handlers = [q \in Handlers |-> 0]
  /\ _end \in Ends
  /\ pgdir = [p \in 0..(Top \div PIECE) |->
               IF p \in {0, KERN_BASE \div PIECE} THEN 0 ELSE Absent]
  /\ estep = "lgdt"

-----------------------------------------------------------------------------
(* The queue of early mappings *)

\* Mutant: only a start inside the older range is looked for.
OVERLAPHalf(st1, len1, st2, len2) == st1 > st2 /\ st1 < st2 + len2

OVERLAP(st1, len1, st2, len2) ==
  \/ st1 > st2 /\ st1 < st2 + len2
  \/ st2 > st1 /\ st2 < st1 + len1

Mapping(v, s, t) == [vaddr |-> v, size |-> s, type |-> t]

\* early_mapping_add returns 0.  (Every entry is valid on i386.)
Addable(e) ==
  /\ Len(queue) < QUEUE_LENGTH
  /\ \A i \in DOMAIN queue : ~OVERLAP(e.vaddr, e.size, queue[i].vaddr, queue[i].size)

early_mapping_clear ==
  /\ queue # <<>>
  /\ queue' = <<>> /\ mem_top' = KERN_BASE /\ kmmap_top' = KMMAP_BASE
  /\ UNCHANGED <<handlers, _end, pgdir, estep>>

early_mapping_add(v, s) ==
  /\ Addable(Mapping(v, s, EARLY_OTHER))
  /\ queue' = Append(queue, Mapping(v, s, EARLY_OTHER))
  /\ UNCHANGED <<mem_top, kmmap_top, handlers, _end, pgdir, estep>>

\* early_mapping_add_memory: as much of s as fits.
early_mapping_add_memory(s) ==
  LET size == IF s > KMMAP_BASE - mem_top THEN KMMAP_BASE - mem_top ELSE s
  IN /\ mem_top < KMMAP_BASE
     /\ Addable(Mapping(mem_top, size, MEMORY))
     /\ queue' = Append(queue, Mapping(mem_top, size, MEMORY))
     /\ mem_top' = mem_top + size
     /\ UNCHANGED <<kmmap_top, handlers, _end, pgdir, estep>>

\* early_mapping_add_kmmap: all of s or nothing.
early_mapping_add_kmmap(s) ==
  /\ kmmap_top < RESERVED_BASE /\ s <= RESERVED_BASE - kmmap_top
  /\ Addable(Mapping(kmmap_top, s, KMMAP))
  /\ queue' = Append(queue, Mapping(kmmap_top, s, KMMAP))
  /\ kmmap_top' = kmmap_top + s
  /\ UNCHANGED <<mem_top, handlers, _end, pgdir, estep>>

-----------------------------------------------------------------------------
(* Handlers, the page directory and the jump *)

\* An entry for one of the two queues: refused when the queue is full.
handlers_add(q) ==
  /\ handlers[q] < QUEUE_LENGTH
  /\ handlers' = [handlers EXCEPT ![q] = @ + 1]
  /\ UNCHANGED <<queue, mem_top, kmmap_top, _end, pgdir, estep>>

handlers_clear(q) ==
  /\ handlers[q] > 0
  /\ handlers' = [handlers EXCEPT ![q] = 0]
  /\ UNCHANGED <<queue, mem_top, kmmap_top, _end, pgdir, estep>>

mmu_handlers_add == handlers_add("mmu")
mmu_handlers_clear == handlers_clear("mmu")
jump_handlers_add == handlers_add("jump")
jump_handlers_clear == handlers_clear("jump")

\* page_index_early_map(dir, paddr, vaddr, size): while (a < last), so the
\* piece that starts at the last page is left out.
EarlyMapped(dir, paddr, vaddr, size) ==
  [p \in DOMAIN dir |->
    IF p * PIECE >= vaddr /\ p * PIECE < vaddr + size - 1
    THEN paddr + (p * PIECE - vaddr) ELSE dir[p]]

\* Mutant: only the image is mapped, nothing beyond.
MapTight ==
  /\ estep = "lgdt" /\ estep' = "mapped"
  /\ pgdir' = EarlyMapped(
                EarlyMapped(EarlyMapped(pgdir, 0, 0, _end), 0, KERN_BASE, _end),
                DEVSPACE, DEVSPACE, DEVSIZE)
  /\ UNCHANGED <<queue, mem_top, kmmap_top, handlers, _end>>

\* The image and EXTRA pages at 0 and at KERN_BASE, and the devices.
early_mm_init ==
  /\ estep = "lgdt" /\ estep' = "mapped"
  /\ pgdir' = EarlyMapped(
                EarlyMapped(EarlyMapped(pgdir, 0, 0, _end + EXTRA),
                            0, KERN_BASE, _end + KERN_START + EXTRA),
                DEVSPACE, DEVSPACE, DEVSIZE)
  /\ UNCHANGED <<queue, mem_top, kmmap_top, handlers, _end>>

mmu_init ==
  /\ estep = "mapped" /\ estep' = "paging"
  /\ UNCHANGED <<queue, mem_top, kmmap_top, handlers, _end, pgdir>>

\* arch_early_init: the new stack, and abs_jump(high_address_entry).
abs_jump ==
  /\ estep = "paging" /\ estep' = "high"
  /\ UNCHANGED <<queue, mem_top, kmmap_top, handlers, _end, pgdir>>

QueueOps ==
  \/ early_mapping_clear
  \/ \E v \in KERN_BASE..RESERVED_BASE, s \in Sizes : early_mapping_add(v, s)
  \/ \E s \in Sizes : early_mapping_add_memory(s) \/ early_mapping_add_kmmap(s)

MmuOps ==
  \/ mmu_handlers_add \/ mmu_handlers_clear
  \/ jump_handlers_add \/ jump_handlers_clear
  \/ early_mm_init \/ mmu_init \/ abs_jump

ESpec == EInit /\ [][QueueOps \/ MmuOps]_evars

-----------------------------------------------------------------------------
(* Properties *)

Pages(e) == e.vaddr..(e.vaddr + e.size - 1)

\* Ranges given out by early_mapping_add_memory and early_mapping_add_kmmap
\* share no page with each other and stay in their areas, whatever explicit
\* mappings come between.
AreasDisjoint ==
  /\ mem_top <= KMMAP_BASE /\ kmmap_top <= RESERVED_BASE
  /\ \A i, j \in DOMAIN queue :
       i # j /\ EARLY_OTHER \notin {queue[i].type, queue[j].type}
         => Pages(queue[i]) \cap Pages(queue[j]) = {}

\* The overlap check lets two mappings share a page only if they start at the
\* same address.
OverlapOnlyAtStart == \A i, j \in DOMAIN queue :
  i < j /\ Pages(queue[i]) \cap Pages(queue[j]) # {}
    => queue[i].vaddr = queue[j].vaddr

\* Physical page of virtual page v, as the MMU finds it once paging is on.
Translate(v) ==
  IF pgdir[v \div PIECE] = Absent THEN Absent ELSE pgdir[v \div PIECE] + (v % PIECE)

\* Turning paging on pulls nothing from under the running code: each page of
\* the kernel image is then visible at its physical address and at its high
\* address, and both name the page it was loaded to.
ImageStaysMapped ==
  estep \in {"paging", "high"} => \A v \in 0..(_end - 1) : Translate(v) = v /\ Translate(KERN_BASE + v) = v

\* Mappings in the queue are apart: automatically placed ones always, others
\* unless they start at one address.
MappingsApart == AreasDisjoint /\ OverlapOnlyAtStart
=============================================================================
