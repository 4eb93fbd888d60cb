------------------------------- MODULE MemMap -------------------------------
(***************************************************************************)
(* How the kernel learns how much memory there is: the first stage of the  *)
(* boot loader (boot/arch/i386/bootasm.S) asks the BIOS for its memory map *)
(* entry by entry, opens address line A20 through the keyboard controller  *)
(* and enters protected mode; get_mem_init() and page_allocator_init()     *)
(* (kern/mm/pmm/page_alloc.c) pick the block that the page allocator gets. *)
(*                                                                         *)
(* The BIOS and the controller are external.  The count at 0x9000 is never *)
(* set, only incremented, and the table behind it holds what was there.    *)
(***************************************************************************)
EXTENDS Naturals, Sequences

CONSTANTS Maps,       \* memory maps: sequences of [base, len, type]
          Stale,      \* contents of 0x9000 at power-on
          Leftover,   \* what the table holds at power-on: an entry
          TableSize,  \* entries between 0x9004 and the end of that memory
          WORD,       \* values of a 32-bit word
          PGSIZE,     \* bytes of a page
          ImageEnds   \* physical addresses that _end may have

VARIABLES map,        \* the BIOS's map
          ebx, di,    \* continuation value, and entry written next
          stale, num, pmb,  \* 0x9000 at first, and now; the table at 0x9004
          kbc,        \* keyboard controller: input buffer, and what it awaits
          a20,
          end,        \* _end
          pick, tmp, largest,   \* get_mem_init: i, tmp, largest
          area,       \* base_addr and page_num
          apc         \* where the processor is

avars == <<map, ebx, di, stale, num, pmb, kbc, a20, end, pick, tmp, largest, area, apc>>
scanned == <<pick, tmp, largest, area>>

Nothing == 0
WritePort == 209   \* 0xd1
OpenA20 == 223     \* 0xdf

AInit ==
  /\ map \in Maps /\ stale \in Stale /\ end \in ImageEnds
  /\ ebx = 0 /\ di = 1 /\ num = stale
  /\ pmb = [i \in 1..TableSize |-> Leftover]
  /\ kbc \in [buffer : {Nothing, 1}, awaits : {FALSE}] /\ a20 = FALSE
  /\ pick = 0 /\ tmp = 0 /\ largest = 0
  /\ area = [base_addr |-> 0, page_num |-> 0]
  /\ apc = "e820"

-----------------------------------------------------------------------------
(* bootasm.S *)

\* int 0x15 stores the next entry and returns 0 in ebx with the last one, which
\* is therefore not counted.
E820 ==
  /\ apc = "e820"
  /\ pmb' = [pmb EXCEPT ![di] = map[ebx + 1]]
  /\ IF ebx + 1 = Len(map)
     THEN ebx' = 0 /\ apc' = "seta20.1" /\ UNCHANGED <<di, num>>
     ELSE ebx' = ebx + 1 /\ di' = di + 1 /\ num' = num + 1 /\ UNCHANGED apc
  /\ UNCHANGED <<map, stale, kbc, a20, end, scanned>>

\* External: the controller takes what is in its input buffer.
KbcTakes ==
  /\ kbc.buffer # Nothing
  /\ kbc' = [buffer |-> Nothing, awaits |-> kbc.buffer = WritePort]
  /\ a20' = (a20 \/ (kbc.awaits /\ kbc.buffer = OpenA20))
  /\ UNCHANGED <<map, ebx, di, stale, num, pmb, end, scanned, apc>>

\* seta20.1: wait for an empty buffer, then announce a byte.
SetA20Cmd ==
  /\ apc = "seta20.1" /\ kbc.buffer = Nothing
  /\ kbc' = [kbc EXCEPT !.buffer = WritePort]
  /\ apc' = "seta20.2"
  /\ UNCHANGED <<map, ebx, di, stale, num, pmb, a20, end, scanned>>

\* seta20.2: wait again, then the byte.
SetA20Data ==
  /\ apc = "seta20.2" /\ kbc.buffer = Nothing
  /\ kbc' = [kbc EXCEPT !.buffer = OpenA20]
  /\ apc' = "lgdt"
  /\ UNCHANGED <<map, ebx, di, stale, num, pmb, a20, end, scanned>>

\* lgdt to the call of bootmain(), which enters the kernel (see BootLoader).
Protected ==
  /\ apc = "lgdt"
  /\ apc' = "get_mem_init"
  /\ UNCHANGED <<map, ebx, di, stale, num, pmb, kbc, a20, end, scanned>>

-----------------------------------------------------------------------------
(* page_alloc.c *)

LengthLow(e) == e.len % WORD

\* Mutant: reserved blocks are taken, too.
ScanAnyType ==
  /\ apc = "get_mem_init" /\ pick < num
  /\ IF LengthLow(pmb[pick + 1]) > tmp
     THEN tmp' = LengthLow(pmb[pick + 1]) /\ largest' = pick
     ELSE UNCHANGED <<tmp, largest>>
  /\ pick' = pick + 1
  /\ UNCHANGED <<map, ebx, di, stale, num, pmb, kbc, a20, end, area, apc>>

\* One turn of get_mem_init's loop.
Scan ==
  /\ apc = "get_mem_init" /\ pick < num
  /\ IF pmb[pick + 1].type = 1 /\ LengthLow(pmb[pick + 1]) > tmp
     THEN tmp' = LengthLow(pmb[pick + 1]) /\ largest' = pick
     ELSE UNCHANGED <<tmp, largest>>
  /\ pick' = pick + 1
  /\ UNCHANGED <<map, ebx, di, stale, num, pmb, kbc, a20, end, area, apc>>

mem_phybase == pmb[largest + 1].base % WORD
mem_size == LengthLow(pmb[largest + 1])
RoundUp(a) == ((a + PGSIZE - 1) \div PGSIZE) * PGSIZE

\* The rest of page_allocator_init(): the area starts after the image; the
\* pages taken off are those between the image's end and the rounded end.
page_allocator_init ==
  /\ apc = "get_mem_init" /\ pick >= num
  /\ area' = IF mem_phybase < end
             THEN [base_addr |-> RoundUp(end),
                   page_num |-> (mem_size \div PGSIZE) - ((RoundUp(end) - end) \div PGSIZE)]
             ELSE [base_addr |-> mem_phybase, page_num |-> mem_size \div PGSIZE]
  /\ apc' = "allocator"
  /\ UNCHANGED <<map, ebx, di, stale, num, pmb, kbc, a20, end, pick, tmp, largest>>

ACpuStep == E820 \/ SetA20Cmd \/ SetA20Data \/ Protected \/ Scan \/ page_allocator_init

ANext == ACpuStep \/ KbcTakes

-----------------------------------------------------------------------------
(* Properties *)

\* The kernel finds in the table what the BIOS reported, entry by entry and in
\* its order, but the count is one too small: get_mem_init() does not see the
\* last entry, unless 0x9000 did not hold zero at power-on.
MapKept ==
  apc # "e820" =>
    /\ \A i \in 1..Len(map) : pmb[i] = map[i]
    /\ num = stale + Len(map) - 1

\* Whatever 0x9000 held, the block chosen is the first of the longest usable
\* ones among the entries that are counted, and entry 0 if none is usable.  The
\* last entry reported is not among them (see MapKept), however long it is;
\* entries left over from before power-on are, if 0x9000 was not zero.
LargestFound ==
  apc = "allocator" =>
    LET usable == {i \in 1..num : pmb[i].type = 1 /\ LengthLow(pmb[i]) > 0}
    IN  IF usable = {} THEN largest = 0
        ELSE /\ largest + 1 \in usable
             /\ \A i \in usable :
                  \/ LengthLow(pmb[i]) < mem_size
                  \/ LengthLow(pmb[i]) = mem_size /\ i >= largest + 1

\* The area never covers the kernel image.  It lies inside its block if the
\* image does not reach into the block.  If it does, as in the usual boot, the
\* area starts behind the image and still has as many pages as the block, since
\* the pages taken off are those between _end and the next page, that is none:
\* it runs past its block by what was skipped, up to the block's odd bytes.
AreaPlaced ==
  apc = "allocator" =>
    LET areaEnd == area.base_addr + area.page_num * PGSIZE
        blockEnd == mem_phybase + mem_size
    IN  /\ area.base_addr >= end
        /\ mem_phybase >= end => area.base_addr = mem_phybase /\ areaEnd <= blockEnd
        /\ mem_phybase < end =>
             areaEnd = blockEnd + (RoundUp(end) - mem_phybase) - (mem_size % PGSIZE)

\* From the BIOS' answers to the allocator's area: the table is kept, the
\* largest counted block found, and the image spared.
AreaRight == MapKept /\ LargestFound /\ AreaPlaced
=============================================================================
