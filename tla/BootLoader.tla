----------------------------- MODULE BootLoader -----------------------------
(***************************************************************************)
(* The second stage of the boot loader (boot/bootmain.c): each program     *)
(* segment of the kernel is read sector by sector through the IDE ports,   *)
(* its tail is zeroed, and the kernel is entered, where clear_bss()        *)
(* (kern/init/early_init.c) runs first.                                    *)
(*                                                                         *)
(* Memory holds, for each address, 0 or 1 + the number of the file byte    *)
(* that was put there.  The drive is external: it is busy after a command  *)
(* and becomes ready, and it reads the sector its four address registers   *)
(* select.  The header and the program headers stay where they were read   *)
(* to (segments are linked above the scratch area at 0x10000).             *)
(***************************************************************************)
EXTENDS Naturals, Sequences

CONSTANTS SECTSIZE,  \* bytes of a sector
          REG,       \* values an address register of the drive can hold (256)
          LBA,       \* first sector of the kernel's partition
          Addr,      \* physical addresses 0..n
          Images     \* kernel images: sequences of program headers

VARIABLES image,  \* the program headers
          seg,    \* ph: number of the segment that is being loaded
          pa,     \* readseg: where the next sector goes
          sect,   \* readseg: number of the next sector
          drive,  \* "ready", "busy", and what its registers select
          mem,    \* memory
          bpc     \* where the loader is

bvars == <<image, seg, pa, sect, drive, mem, bpc>>

Ph == image[seg]

\* The bytes written by readsect to the drive's address registers.
Registers(offset) ==
  <<offset % REG, (offset \div REG) % REG, (offset \div (REG * REG)) % REG>>

\* External: the sector that the drive reads for these registers.
Selected(regs) == regs[1] + REG * regs[2] + REG * REG * regs[3]

BInit ==
  /\ image \in Images
  /\ seg = 1 /\ pa = 0 /\ sect = 0
  /\ drive = [ready |-> TRUE, regs |-> Registers(0)]
  /\ mem = [a \in Addr |-> 0]
  /\ bpc = "ph"

\* Mutant: the first sector is put at the segment's address itself.
SegUnrounded ==
  /\ bpc = "ph" /\ seg <= Len(image)
  /\ pa' = Ph.p_paddr
  /\ sect' = (Ph.p_offset + LBA * SECTSIZE) \div SECTSIZE
  /\ bpc' = "sector"
  /\ UNCHANGED <<image, seg, drive, mem>>

\* The loop over the program headers, into readseg: the address and the offset
\* are rounded down to a sector boundary.
Seg ==
  /\ bpc = "ph" /\ seg <= Len(image)
  /\ pa' = Ph.p_paddr - ((Ph.p_offset + LBA * SECTSIZE) % SECTSIZE)
  /\ sect' = (Ph.p_offset + LBA * SECTSIZE) \div SECTSIZE
  /\ bpc' = "sector"
  /\ UNCHANGED <<image, seg, drive, mem>>

\* readsect: waitdisk(), the registers and the read command.
Issue ==
  /\ bpc = "sector" /\ pa < Ph.p_paddr + Ph.p_filesz
  /\ drive.ready
  /\ drive' = [ready |-> FALSE, regs |-> Registers(sect)]
  /\ bpc' = "data"
  /\ UNCHANGED <<image, seg, pa, sect, mem>>

\* External: the drive has the sector.
DriveReady ==
  /\ ~drive.ready
  /\ drive' = [drive EXCEPT !.ready = TRUE]
  /\ UNCHANGED <<image, seg, pa, sect, mem, bpc>>

\* readsect: waitdisk() and insl; readseg goes on to the next sector.
Insl ==
  /\ bpc = "data" /\ drive.ready
  /\ mem' = [a \in Addr |->
              IF a \in pa..(pa + SECTSIZE - 1)
              THEN Selected(drive.regs) * SECTSIZE + (a - pa) + 1
              ELSE mem[a]]
  /\ pa' = pa + SECTSIZE
  /\ sect' = sect + 1
  /\ bpc' = "sector"
  /\ UNCHANGED <<image, seg, drive>>

\* readseg returns; stosb zeroes the rest of the segment.
Zero ==
  /\ bpc = "sector" /\ pa >= Ph.p_paddr + Ph.p_filesz
  /\ mem' = [a \in Addr |->
              IF a \in (Ph.p_paddr + Ph.p_filesz)..(Ph.p_paddr + Ph.p_memsz - 1)
              THEN 0 ELSE mem[a]]
  /\ seg' = seg + 1
  /\ bpc' = "ph"
  /\ UNCHANGED <<image, pa, sect, drive>>

Enter ==
  /\ bpc = "ph" /\ seg > Len(image)
  /\ bpc' = "kernel"
  /\ UNCHANGED <<image, seg, pa, sect, drive, mem>>

\* clear_bss(): stosb with a count of words, so a quarter of the .bss (here the
\* tail of the last segment) is cleared.
ClearBss ==
  LET ph == image[Len(image)]
      start == ph.p_paddr + ph.p_filesz
      count == (ph.p_memsz - ph.p_filesz) \div 4
  IN /\ bpc = "kernel"
     /\ mem' = [a \in Addr |-> IF a \in start..(start + count - 1) THEN 0 ELSE mem[a]]
     /\ bpc' = "init"
     /\ UNCHANGED <<image, seg, pa, sect, drive>>

BNext == Seg \/ Issue \/ DriveReady \/ Insl \/ Zero \/ Enter \/ ClearBss

-----------------------------------------------------------------------------
(* Properties *)

\* Segments that the loader can load: in increasing order, the sector that a
\* segment starts in holds no byte of an earlier one, unless the two follow
\* each other in the file as they do in memory.
Loadable(img) == \A i, j \in 1..Len(img) :
  i < j =>
    \/ img[j].p_paddr - (img[j].p_offset % SECTSIZE) >= img[i].p_paddr + img[i].p_memsz
    \/ /\ img[j].p_paddr >= img[i].p_paddr + img[i].p_filesz
       /\ img[i].p_memsz = img[i].p_filesz
       /\ img[j].p_offset - img[j].p_paddr = img[i].p_offset - img[i].p_paddr

\* The kernel starts on the image the linker made: every file byte of every
\* segment is at its address, and every other byte of a segment is zero, with
\* all the bytes that whole sectors write around a segment.
ImageLoaded ==
  bpc \in {"kernel", "init"} =>
    \A i \in 1..Len(image) : \A k \in 0..(image[i].p_memsz - 1) :
      mem[image[i].p_paddr + k] =
        IF k < image[i].p_filesz THEN image[i].p_offset + LBA * SECTSIZE + k + 1 ELSE 0
=============================================================================
