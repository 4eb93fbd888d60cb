-------------------------------- MODULE Uvm --------------------------------
(***************************************************************************)
(* User memory (kern/mm/uvm.c) on the i386 page tables                     *)
(* (kern/arch/i386/arch_mmu.c): the life of a struct mm, its list of       *)
(* virtual memory areas, the two-level page index, the page blocks behind  *)
(* them, and the copies in and out of user space.                          *)
(*                                                                         *)
(* Addresses count bytes; a page has PAGE_SIZE of them and a page table    *)
(* NPTENTRIES pages.  A turn of the loops of create_uvm and mm_clone takes  *)
(* one step per allocation, any of which may fail, and one per label of    *)
(* their error paths; the other calls take one step.  The mm locks are     *)
(* commented out in the code and calls on one mm are assumed not to        *)
(* overlap, as its "assumes that mm lock is held".                         *)
(***************************************************************************)
EXTENDS Integers, Sequences, FiniteSets, SequencesExt, FiniteSetsExt

CONSTANTS MM,         \* the struct mm objects that may exist
          Frames,     \* physical pages
          NULL,       \* the null pointer
          PAGE_SIZE, NPTENTRIES, NPDENTRIES,
          Flags,      \* the flag sets that callers pass
          Val,        \* values of a byte
          Data,       \* what callers copy into user space
          Addr, Lens, \* addresses and lengths that callers pass
          MaxCalls    \* bound: calls on mms that exist

\* The bits of a page table entry.  VMA_EXEC, VMA_WRITE and VMA_READ are the
\* same bits (1, 2 and 4), so a caller's flags are a set of these as well.
PTE_P == "VMA_EXEC"
PTE_W == "VMA_WRITE"
PTE_U == "VMA_READ"
Bits == {PTE_P, PTE_W, PTE_U}

ASSUME UvmAssumption ==
  /\ NULL \notin MM \cup Frames
  /\ {PAGE_SIZE, NPTENTRIES, NPDENTRIES} \subseteq Nat \ {0}
  /\ Flags \subseteq SUBSET Bits /\ Data \subseteq Seq(Val)
  /\ Addr \cup Lens \cup {MaxCalls} \subseteq Nat

VARIABLES live,   \* the mms that exist
          vmas,   \* vmas[m]: the list of areas, each of one page
          pgdir,  \* pgdir[m]: the frame of the page directory
          pde,    \* pde[m][d]: the frame of page table d, or NULL
          pte,    \* pte[m][a]: the entry for the page at address a
          denied, \* <<m, a>>: set_uvm_perm took PTE_P from the page at a (history)
          free,   \* the frames the page allocator has left
          given,  \* the frames given back, which page_free keeps for nobody
          mem,    \* mem[f]: the bytes of frame f
          heap,   \* heap[s]: structs of type s obtained from kmalloc, not freed
          current,\* current_proc->mm
          op,     \* the call in progress
          calls,  \* calls so far, for the bound
          halted  \* "no", or how the kernel stopped

tables == <<pgdir, pde, pte, denied>>
store == <<free, given, mem, heap>>
vars == <<live, vmas, tables, store, current, op, calls, halted>>

PageAddrs == {d * PAGE_SIZE : d \in 0..(NPTENTRIES * NPDENTRIES - 1)}
PGROUNDDOWN(a) == (a \div PAGE_SIZE) * PAGE_SIZE
PGROUNDUP(a) == PGROUNDDOWN(a + PAGE_SIZE - 1)
IsAligned(a) == a % PAGE_SIZE = 0
PDX(a) == a \div (PAGE_SIZE * NPTENTRIES)
Bytes == 0..(PAGE_SIZE - 1)

Vma == [start : PageAddrs, flags : SUBSET Bits, pages : Frames]
Pte == [frame : Frames \cup {NULL}, bits : SUBSET Bits]
ZeroPte == [frame |-> NULL, bits |-> {}]
Structs == {"mm", "vma", "upages"}
Idle == [call |-> "none"]
Junk == CHOOSE v \in Val : TRUE \* what free_pages leaves in a page

Init ==
  /\ live = {} /\ free = Frames /\ given = {} /\ denied = {}
  /\ heap = [s \in Structs |-> 0]
  /\ vmas = [m \in MM |-> <<>>]
  /\ pgdir = [m \in MM |-> NULL]
  /\ pde = [m \in MM |-> [d \in 0..(NPDENTRIES - 1) |-> NULL]]
  /\ pte = [m \in MM |-> [a \in PageAddrs |-> ZeroPte]]
  /\ mem = [f \in Frames |-> [i \in Bytes |-> Junk]]
  /\ current \in MM \cup {NULL}
  /\ op = Idle /\ calls = 0 /\ halted = "no"

\* The page the allocator hands out of a set of free pages.  Free pages are
\* alike (free_pages fills them), so it does not matter which one it is.
Taken(pages) == CHOOSE f \in pages : TRUE

Ready == op = Idle /\ halted = "no"
Begin == Ready /\ calls < MaxCalls /\ calls' = calls + 1
Return == op' = Idle /\ halted' = halted
\* The kernel stops in the middle of call c.
Halt(how, c) == halted' = how /\ op' = c
kmalloc(s) == heap' = [heap EXCEPT ![s] = @ + 1]
kfree(s) == heap' = [heap EXCEPT ![s] = @ - 1]
\* A call that returns an error code before it has changed anything.
Refused == UNCHANGED vars

-----------------------------------------------------------------------------
(* struct mm *)

\* mm_new: the struct and a zeroed page directory.
mm_new(m) ==
  /\ Ready /\ m \notin live
  /\ free # {}
  /\ LET f == Taken(free)
     IN /\ free' = free \ {f}
        /\ pgdir' = [pgdir EXCEPT ![m] = f]
  /\ pde' = [pde EXCEPT ![m] = [d \in DOMAIN @ |-> NULL]]
  /\ pte' = [pte EXCEPT ![m] = [a \in DOMAIN @ |-> ZeroPte]]
  /\ denied' = {x \in denied : x[1] # m}
  /\ kmalloc("mm")
  /\ vmas' = [vmas EXCEPT ![m] = <<>>]
  /\ live' = live \cup {m}
  /\ Return
  /\ UNCHANGED <<given, mem, current, calls>>

\* mm_new without memory for the page directory: init_pgindex does not test
\* pgalloc's result and clears the page at P2V(-1), so it never returns NULL.
MmNewFaults ==
  /\ Ready /\ live # MM
  /\ kmalloc("mm")
  /\ Halt("fault", [call |-> "new"])
  /\ UNCHANGED <<live, vmas, tables, free, given, mem, current, calls>>

\* What page_index_clear() gives back: the page tables that are present.
TablesCleared(m) == {pde[m][d] : d \in DOMAIN pde[m]} \ {NULL}

\* The tables, then the directory; free_pages() overwrites what it is given.
destroy_pgindex(m) ==
  LET back == TablesCleared(m) \cup {pgdir[m]}
  IN /\ given' = given \cup back
     /\ mem' = [f \in Frames |-> IF f \in back THEN [i \in Bytes |-> Junk]
                                               ELSE mem[f]]
     /\ pgdir' = [pgdir EXCEPT ![m] = NULL]

\* mm_destroy of an mm without areas.
mm_destroy(m) ==
  /\ Begin /\ m \in live /\ vmas[m] = <<>>
  /\ destroy_pgindex(m)
  /\ pde' = [pde EXCEPT ![m] = [d \in DOMAIN @ |-> NULL]]
  /\ kfree("mm")
  /\ live' = live \ {m}
  /\ Return
  /\ UNCHANGED <<vmas, pte, denied, free, current>>

\* mm_destroy of one with areas: for the first one __clean_vma calls
\* unmap_pages, which is panic("implement me!").
MmDestroyPanics(m) ==
  /\ Ready /\ m \in live /\ vmas[m] # <<>>
  /\ Halt("panic", Idle)
  /\ UNCHANGED <<live, vmas, tables, store, current, calls>>

-----------------------------------------------------------------------------
(* Page tables *)

\* walkpgdir with alloc = 1 finds no page table for a and takes a page for it.
NeedsTable(m, a) == pde[m][PDX(a)] = NULL

\* walkpgdir and the store of map_pages and set_pages_perm: the entry of a
\* becomes e.
StorePte(m, a, e) ==
  \/ /\ ~NeedsTable(m, a)
     /\ pte' = [pte EXCEPT ![m][a] = e]
     /\ UNCHANGED <<free, pde>>
  \/ /\ NeedsTable(m, a)
     /\ free # {}
     /\ free' = free \ {Taken(free)}
     /\ pde' = [pde EXCEPT ![m][PDX(a)] = Taken(free)]
     /\ pte' = [pte EXCEPT ![m] =
          [b \in DOMAIN @ |-> IF b = a THEN e
                              ELSE IF PDX(b) = PDX(a) THEN ZeroPte
                              ELSE @[b]]]

\* walkpgdir tests pgalloc's result for 0, but failure is -1: when there is no
\* page for the table it clears the page at address -1.
TableFaults(m, a) == NeedsTable(m, a)

\* The test of map_pages before its store.
Remaps(m, a) == ~NeedsTable(m, a) /\ PTE_P \in pte[m][a].bits

-----------------------------------------------------------------------------
(* Finding areas *)

\* __find_vma_before: the number of areas in front of [addr, addr + len), or
\* -1 for an overlap.  In front of the first area the code compares addr with
\* words that lie before the struct mm, so both answers are possible there.
FindVmaBefore(m, addr, len) ==
  LET vs == vmas[m]
      k == Cardinality({i \in DOMAIN vs : vs[i].start < addr + len})
  IN IF vs = <<>> THEN {0}
     ELSE IF k = 0 THEN {0, -1}
     ELSE IF addr < vs[k].start + PAGE_SIZE THEN {-1} ELSE {k}

\* __find_continuous_vma: the index of the area at addr, or 0.  The word it
\* takes for the start of an area after the last one is never a user address.
FindContinuousVma(m, addr, len) ==
  LET vs == vmas[m]
      at == {i \in DOMAIN vs : vs[i].start = addr}
      n == len \div PAGE_SIZE
  IN IF at = {} THEN 0
     ELSE LET i == Min(at)
          IN IF \A j \in 1..(n - 1) : /\ i + j \in DOMAIN vs
                                      /\ vs[i + j].start = addr + j * PAGE_SIZE
             THEN i ELSE 0

-----------------------------------------------------------------------------
(* create_uvm *)

BadRange(addr, len) == ~IsAligned(len) \/ ~IsAligned(addr)

\* EINVAL, nothing to do, EFAULT
CreateRefused(m, addr, len) ==
  /\ Ready /\ m \in live
  /\ BadRange(addr, len) \/ len = 0 \/ -1 \in FindVmaBefore(m, addr, len)
  /\ Refused

\* The pages that the loop will map, one per turn.
CreateTurns(addr, len, flags) ==
  [i \in 1..(len \div PAGE_SIZE) |->
     [start |-> addr + (i - 1) * PAGE_SIZE, flags |-> flags, pages |-> NULL]]

CreateCall(m, addr, len, flags) ==
  /\ Begin /\ m \in live /\ ~BadRange(addr, len) /\ len > 0
  /\ \E k \in FindVmaBefore(m, addr, len) \ {-1} :
       op' = [call |-> "create", m |-> m, first |-> k, done |-> 0, at |-> "vma",
              turns |-> CreateTurns(addr, len, flags), page |-> NULL]
  /\ UNCHANGED <<live, vmas, tables, store, current, halted>>

\* One turn of the loop, which mm_clone has word for word: op.at is the
\* allocation or the label that comes next, op.page the new block's paddr.
Turning(at) ==
  /\ op.call \in {"create", "clone"} /\ halted = "no" /\ op.at = at
  /\ at \in {"vma", "upages", "pages", "map"} => op.done < Len(op.turns)
cur == op.turns[op.done + 1]
Goto(at) == op' = [op EXCEPT !.at = at] /\ UNCHANGED halted
Bookkeeping == <<live, current, calls>>

\* kmalloc of the struct vma, of the struct upages: on, or to the label.
VmaNew ==
  /\ Turning("vma")
  /\ \/ kmalloc("vma") /\ Goto("upages")
     \/ UNCHANGED heap /\ Goto("rollback")
  /\ UNCHANGED <<vmas, tables, free, given, mem, Bookkeeping>>

UpagesNew ==
  /\ Turning("upages")
  /\ \/ kmalloc("upages") /\ Goto("pages")
     \/ UNCHANGED heap /\ Goto("rollback_vma")
  /\ UNCHANGED <<vmas, tables, free, given, mem, Bookkeeping>>

AllocPages ==
  /\ Turning("pages")
  /\ \/ /\ free # {}
        /\ free' = free \ {Taken(free)}
        /\ op' = [op EXCEPT !.at = "map", !.page = Taken(free)]
        /\ UNCHANGED halted
     \/ Goto("rollback_pages") /\ UNCHANGED free
  /\ UNCHANGED <<vmas, tables, given, mem, heap, Bookkeeping>>

\* Mutant: the new area goes in front of the ones already inserted.
InsertFirst(vs, k, n, v) == InsertAt(vs, k + 1, v)

\* list_add_after vma_cur, which is n areas behind vma_start
ListAdd(vs, k, n, v) == InsertAt(vs, k + n + 1, v)

\* map_pages, and the area enters the list.
MapAndAdd ==
  /\ Turning("map") /\ ~Remaps(op.m, cur.start)
  /\ StorePte(op.m, cur.start, [frame |-> op.page, bits |-> cur.flags \cup {PTE_P}])
  /\ vmas' = [vmas EXCEPT ![op.m] =
       ListAdd(@, op.first, op.done, [cur EXCEPT !.pages = op.page])]
  /\ op' = [op EXCEPT !.at = "vma", !.done = @ + 1, !.page = NULL]
  /\ UNCHANGED <<pgdir, denied, given, heap, halted, Bookkeeping>>

CreatePage == op.call = "create" /\ MapAndAdd /\ UNCHANGED mem

\* map_pages: panic("remap"), or walkpgdir's write to address -1.  It never
\* returns an error, so rollback_pgalloc is not reached.
MapStops ==
  /\ Turning("map")
  /\ \/ Remaps(op.m, cur.start) /\ Halt("remap", op)
     \/ TableFaults(op.m, cur.start) /\ Halt("fault", op)
  /\ UNCHANGED <<vmas, tables, store, Bookkeeping>>

\* Mutant: the label jumps to the end and forgets the struct vma.
RollbackPagesOnly ==
  /\ Turning("rollback_pages")
  /\ kfree("upages") /\ Goto("rollback")
  /\ UNCHANGED <<vmas, tables, free, given, mem, Bookkeeping>>

\* rollback_pages, which falls through to rollback_vma
RollbackPages ==
  /\ Turning("rollback_pages")
  /\ kfree("upages") /\ Goto("rollback_vma")
  /\ UNCHANGED <<vmas, tables, free, given, mem, Bookkeeping>>

RollbackVma ==
  /\ Turning("rollback_vma")
  /\ kfree("vma") /\ Goto("rollback")
  /\ UNCHANGED <<vmas, tables, free, given, mem, Bookkeeping>>

\* __unmap_and_free_vma of the n areas after the k-th: none, or the first one
\* leaves the list and unmap_pages panics, with its structs and page in hand.
UnmapAndFree(m, k, n) ==
  \/ n = 0 /\ Return /\ UNCHANGED vmas
  \/ /\ n > 0
     /\ vmas' = [vmas EXCEPT ![m] = RemoveAt(@, k + 1)]
     /\ Halt("panic", [call |-> "unmap", page |-> vmas[m][k + 1].pages])

\* rollback: the turns that had succeeded are undone.
Rollback ==
  /\ Turning("rollback")
  /\ UnmapAndFree(op.m, op.first, op.done)
  /\ UNCHANGED <<tables, store, Bookkeeping>>

TurnsDone ==
  /\ op.call \in {"create", "clone"} /\ halted = "no"
  /\ op.at = "vma" /\ op.done = Len(op.turns)
  /\ Return
  /\ UNCHANGED <<vmas, tables, store, Bookkeeping>>

-----------------------------------------------------------------------------
(* destroy_uvm and set_uvm_perm *)

\* EINVAL, or EFAULT for a range with a hole
RangeRefused(m, addr, len) ==
  /\ Ready /\ m \in live
  /\ BadRange(addr, len) \/ FindContinuousVma(m, addr, len) = 0
  /\ Refused

destroy_uvm(m, addr, len) ==
  /\ Begin /\ m \in live /\ ~BadRange(addr, len)
  /\ LET k == FindContinuousVma(m, addr, len)
     IN k > 0 /\ UnmapAndFree(m, k - 1, len \div PAGE_SIZE)
  /\ UNCHANGED <<live, tables, store, current>>

\* set_pages_perm, page by page: the low twelve bits become flags.
SetPagesPerm(m, addr, len, flags) ==
  pte' = [pte EXCEPT ![m] =
    [a \in DOMAIN @ |-> IF a >= addr /\ a < addr + len
                        THEN [@[a] EXCEPT !.bits = flags] ELSE @[a]]]

\* The loop never moves vma on: only the first area records the new flags.
set_uvm_perm(m, addr, len, flags) ==
  /\ Begin /\ m \in live /\ ~BadRange(addr, len)
  /\ LET k == FindContinuousVma(m, addr, len)
     IN /\ k > 0
        /\ vmas' = IF len = 0 THEN vmas
                   ELSE [vmas EXCEPT ![m][k].flags = flags]
  /\ SetPagesPerm(m, addr, len, flags)
  /\ LET range == {<<m, a>> : a \in {b \in PageAddrs : b >= addr /\ b < addr + len}}
     IN denied' = IF PTE_P \in flags THEN denied \ range ELSE denied \cup range
  /\ Return
  /\ UNCHANGED <<live, pgdir, pde, store, current>>

-----------------------------------------------------------------------------
(* mm_clone *)

\* dst "should be initialized via mm_new": it has no areas yet.  A turn for
\* each area of src, which does not change meanwhile.
CloneCall(dst, src) ==
  /\ Begin /\ dst # src /\ {dst, src} \subseteq live /\ vmas[dst] = <<>>
  /\ op' = [call |-> "clone", m |-> dst, src |-> src, first |-> 0, done |-> 0,
            at |-> "vma", turns |-> vmas[src], page |-> NULL]
  /\ UNCHANGED <<live, vmas, tables, store, current, halted>>

\* Mutant: the copy goes from the new page to the old one.
CopyBackwards(f, g) == mem' = [mem EXCEPT ![g] = mem[f]]

\* memmove from the source's page g to the new page f
CopyPage(f, g) == mem' = [mem EXCEPT ![f] = mem[g]]

ClonePage == op.call = "clone" /\ MapAndAdd /\ CopyPage(op.page, cur.pages)

-----------------------------------------------------------------------------
(* Copies *)

\* uva2kva: the frame behind the page of a, or NULL.  The offset of a in its
\* page is dropped: the caller writes from the start of the page.
uva2kva(m, a) ==
  LET e == pte[m][PGROUNDDOWN(a)]
  IN IF {PTE_P, PTE_U} \subseteq e.bits THEN e.frame ELSE NULL

\* The turns of the loop of __copy_fill_uvm: where each one starts.
Turns(addr, len) ==
  {addr} \cup {a \in PageAddrs : addr < a /\ a < addr + len}
TurnEnd(a, addr, len) == Min({PGROUNDDOWN(a) + PAGE_SIZE, addr + len})
\* The turns that run before the first page that cannot be accessed.
TurnsRun(m, addr, len) ==
  {a \in Turns(addr, len) :
     \A b \in Turns(addr, len) : b <= a => uva2kva(m, b) # NULL}

\* Mutant: every turn copies from the start of the caller's buffer.
CopyRestarts(m, addr, data) ==
  [f \in Frames |-> [i \in Bytes |->
     LET at == {a \in TurnsRun(m, addr, Len(data)) :
                  uva2kva(m, a) = f /\ i < TurnEnd(a, addr, Len(data)) - a}
     IN IF at = {} THEN mem[f][i] ELSE data[i + 1]]]

\* The memory after the loop: turn a stores TurnEnd - a bytes at the start of
\* its page, from as far into the buffer as the turns before have come.
CopyLoop(m, addr, data) ==
  [f \in Frames |-> [i \in Bytes |->
     LET at == {a \in TurnsRun(m, addr, Len(data)) :
                  uva2kva(m, a) = f /\ i < TurnEnd(a, addr, Len(data)) - a}
     IN IF at = {} THEN mem[f][i] ELSE data[(Min(at) - addr) + i + 1]]]

\* copy_from_uvm: byte i of the caller's buffer after the loop has read the
\* turn that holds it from the start of that turn's page.
CopyFrom(m, addr, i) ==
  LET a == Max({b \in Turns(addr, i + 1) : b <= addr + i})
  IN mem[uva2kva(m, a)][addr + i - a]

StartPage(addr) == PGROUNDDOWN(addr)
EndPage(addr, len) == PGROUNDUP(addr + len)

\* copy_to_uvm and fill_uvm, by way of __copy_fill_uvm: EFAULT for a hole.
CopyRange(m, addr, len) ==
  FindContinuousVma(m, StartPage(addr), EndPage(addr, len) - StartPage(addr))
CopyRefused(m, addr, len) ==
  Ready /\ m \in live /\ CopyRange(m, addr, len) = 0 /\ Refused

\* When the mm is the current one, the assertion compares its page directory
\* with what get_pgindex makes of %cr3, which is not a kernel address.
CopyAsserts(m, addr, len) ==
  /\ Ready /\ m \in live /\ CopyRange(m, addr, len) > 0 /\ m = current
  /\ Halt("assert", Idle)
  /\ UNCHANGED <<live, vmas, tables, store, current, calls>>

\* Returns 0, or EACCES from the first turn whose page is not accessible.
copy_to_uvm(m, addr, data) ==
  /\ Begin /\ m \in live /\ CopyRange(m, addr, Len(data)) > 0 /\ m # current
  /\ mem' = CopyLoop(m, addr, data)
  /\ Return
  /\ UNCHANGED <<live, vmas, tables, free, given, heap, current>>

Next ==
  \/ MmNewFaults
  \/ \E m \in MM : mm_new(m) \/ mm_destroy(m) \/ MmDestroyPanics(m)
  \/ \E m \in MM, a \in Addr, len \in Lens :
       \/ CreateRefused(m, a, len)
       \/ RangeRefused(m, a, len)
       \/ destroy_uvm(m, a, len)
       \/ \E flags \in Flags : \/ CreateCall(m, a, len, flags)
                               \/ set_uvm_perm(m, a, len, flags)
  \/ VmaNew \/ UpagesNew \/ AllocPages \/ CreatePage \/ ClonePage \/ MapStops
  \/ RollbackPages \/ RollbackVma \/ Rollback \/ TurnsDone
  \/ \E dst, src \in MM : CloneCall(dst, src)
  \/ \E m \in MM, a \in Addr, d \in Data : \/ CopyRefused(m, a, Len(d))
                                          \/ CopyAsserts(m, a, Len(d))
                                          \/ copy_to_uvm(m, a, d)

Spec == Init /\ [][Next]_vars

-----------------------------------------------------------------------------
(* Properties *)

TypeOK ==
  /\ live \subseteq MM /\ free \cup given \subseteq Frames
  /\ heap \in [Structs -> Nat] /\ denied \subseteq MM \X PageAddrs
  /\ \A m \in MM : vmas[m] \in Seq(Vma)
  /\ pgdir \in [MM -> Frames \cup {NULL}]
  /\ pde \in [MM -> [0..(NPDENTRIES - 1) -> Frames \cup {NULL}]]
  /\ pte \in [MM -> [PageAddrs -> Pte]]
  /\ mem \in [Frames -> [Bytes -> Val]]
  /\ halted \in {"no", "panic", "remap", "assert", "fault"}

\* Rules 1 and 3 of struct vma (uvm.h), kept through every turn of a creation,
\* of a clone and of their failures: the areas of an mm are in ascending order
\* and do not overlap.
AreasSorted ==
  \A m \in live : \A i, j \in DOMAIN vmas[m] :
    i < j => vmas[m][i].start + PAGE_SIZE <= vmas[m][j].start

\* Rule 2: every area has a page of its own, which no other area of any mm and
\* no page table uses.  The page table leads the area's address to it, unless
\* set_uvm_perm was last called there without VMA_EXEC, which is PTE_P; and an
\* address without an area is not mapped.
Owned(m) == {pgdir[m]} \cup ({pde[m][d] : d \in DOMAIN pde[m]} \ {NULL})
Areas == UNION {{<<m, i>> : i \in DOMAIN vmas[m]} : m \in live}
PageOf(x) == vmas[x[1]][x[2]].pages
OneToOne ==
  /\ \A x, y \in Areas : PageOf(x) = PageOf(y) => x = y
  /\ \A x \in Areas : \A m \in live : PageOf(x) \notin Owned(m)
  /\ halted = "no" =>
       \A m \in live : \A a \in PageAddrs :
         LET at == {i \in DOMAIN vmas[m] : vmas[m][i].start = a}
             present == pde[m][PDX(a)] # NULL /\ PTE_P \in pte[m][a].bits
         IN /\ present <=> at # {} /\ <<m, a>> \notin denied
            /\ \A i \in at : pte[m][a].frame = vmas[m][i].pages

\* Whatever failed half way, once a call has returned every page is free, given
\* back or in use by one mm, and every struct belongs to an mm: each error path
\* has freed what its turn had obtained, once.  At the panic of unmap_pages
\* only the area being unmapped is off its list.
Conserved ==
  op.call \in {"none", "unmap"} =>
    LET out == IF op.call = "unmap" THEN {op.page} ELSE {}
        used == UNION {Owned(m) : m \in live} \cup {PageOf(x) : x \in Areas}
        n == Cardinality(Areas) + Cardinality(out)
    IN /\ Frames = free \cup given \cup used \cup out
       /\ free \cap given = {} /\ (free \cup given) \cap (used \cup out) = {}
       /\ used \cap out = {}
       /\ heap = [mm |-> Cardinality(live), vma |-> n, upages |-> n]

\* map_pages' panic("remap") cannot happen: an entry that is present belongs
\* to an area, and creation and clone never map a page that has one.
NeverRemaps == halted # "remap"

\* A copy that succeeds has stored byte i of the buffer where the user finds
\* address addr + i, and no other byte of any mm has changed.
UserByte(mm, tab, m, a) == mm[tab[m][PGROUNDDOWN(a)].frame][a % PAGE_SIZE]
HasArea(m, a) == \E i \in DOMAIN vmas[m] : vmas[m][i].start = PGROUNDDOWN(a)
UserBytes == {x \in live \X (0..(PAGE_SIZE * NPTENTRIES * NPDENTRIES - 1)) :
                HasArea(x[1], x[2])}
CopyExact ==
  [][\A m \in MM, addr \in Addr, data \in Data :
       /\ copy_to_uvm(m, addr, data)
       /\ TurnsRun(m, addr, Len(data)) = Turns(addr, Len(data))
       => \A x \in UserBytes :
            UserByte(mem', pte', x[1], x[2]) =
              IF x[1] = m /\ x[2] \in addr..(addr + Len(data) - 1)
              THEN data[x[2] - addr + 1]
              ELSE UserByte(mem, pte, x[1], x[2])]_vars

\* Copying out of user space gives what the user finds at those addresses.
ReadExact ==
  \A m \in live, addr \in Addr, data \in Data :
    /\ CopyRange(m, addr, Len(data)) > 0
    /\ TurnsRun(m, addr, Len(data)) = Turns(addr, Len(data))
    => \A i \in 0..(Len(data) - 1) :
         CopyFrom(m, addr, i) = UserByte(mem, pte, m, addr + i)

\* A clone that succeeds has the areas of the original, each with the same
\* contents in a page of its own, and no turn of it changes a byte that another
\* mm sees.
CloneExact ==
  [][/\ op.call = "clone" /\ TurnsDone =>
          LET d == vmas[op.m]
              s == vmas[op.src]
          IN /\ Len(d) = Len(s)
             /\ \A i \in DOMAIN s : /\ d[i].start = s[i].start
                                    /\ d[i].flags = s[i].flags
                                    /\ mem[d[i].pages] = mem[s[i].pages]
     /\ ClonePage =>
          \A x \in UserBytes :
            x[1] # op.m => UserByte(mem', pte', x[1], x[2]) =
                           UserByte(mem, pte, x[1], x[2])]_vars

\* The three rules of struct vma (uvm.h): areas in order, disjoint, and one to one
\* with pages that the page table leads to; and no page is mapped twice.
VmaRules == TypeOK /\ AreasSorted /\ OneToOne /\ NeverRemaps

\* Copies in both directions move exactly the bytes asked for.
CopiesExact == CopyExact /\ []ReadExact
=============================================================================
