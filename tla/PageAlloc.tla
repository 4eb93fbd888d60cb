----------------------------- MODULE PageAlloc -----------------------------
(***************************************************************************)
(* The page allocator over its buddies (page_alloc, page_free and          *)
(* page_allocator_init in kern/mm/pmm/page_alloc.c).  A buddy is what      *)
(* BuddyAbs says it is; Buddy shows that the tree implements that.         *)
(*                                                                         *)
(* page_allocator_init leaves the slots of area.buddylist uninitialised,   *)
(* and buddy_init does not store the struct it allocates back into its     *)
(* slot: a slot holds whatever word was there, the address of some memory  *)
(* (two slots perhaps of the same, or NULL both) or of none.  buddy_init   *)
(* writes through self before it tests it for NULL: at -O2, the default of *)
(* configure, the test is gone and the memset clears the tree that the     *)
(* slot points to.  Addresses are counted in pages.                        *)
(***************************************************************************)
EXTENDS Integers, FiniteSets

CONSTANTS Level,     \* level of a buddy (10)
          Pow,       \* Pow[i] is 1 << i
          Base,      \* area.base_addr
          Total,     \* pages of the area at boot
          PageBytes, \* bytes in a page (4096)
          Word,      \* page_num counts modulo Word (2^32)
          Structs,   \* addresses where there is memory for a struct buddy
          Wild       \* any other word

ASSUME AreaAssumption ==
  /\ Level \in Nat /\ Base \in Nat /\ Total \in Nat /\ PageBytes \in Nat \ {0}
  /\ Word \in Nat /\ Total < Word
  /\ Wild \notin Structs

VARIABLES page_num,  \* area.page_num
          buddy_num, \* area.buddy_num
          slot,      \* area.buddylist
          blocks,    \* blocks[a]: the blocks in use in the buddy struct at a
          paddr,     \* pages->paddr of the last call that succeeded
          result     \* result of the last call: "ok", "eof", or "wild"

pavars == <<page_num, buddy_num, slot, blocks, paddr, result>>

Per == Pow[Level]
NSlots == Total \div Per
Sizes == {Pow[i] : i \in 0..Level}

B(own) == INSTANCE BuddyAbs WITH owned <- own, op <- "idle", arg <- 0, ret <- 0

\* The rounding of buddy_alloc: s pages, 0 counting as 1.
Rounded(s) == CHOOSE n \in Sizes : n >= s /\ \A m \in Sizes : m >= s => n <= m

\* What buddy_alloc returns for s pages in the buddy of slot i: the lowest free
\* block, or none.
Offsets(bl, i, s) ==
  LET free == IF s > Per THEN {} ELSE B(bl[slot[i]])!FreeBlocks(Rounded(s))
  IN {b[1] : b \in {c \in free : \A d \in free : c[1] <= d[1]}}

\* page_allocator_init
PAInit ==
  /\ page_num = Total
  /\ buddy_num = 0
  /\ slot \in [0 .. NSlots - 1 -> Structs \cup {Wild}]
  /\ blocks = [a \in Structs |-> {}]
  /\ paddr = 0
  /\ result = "ok"

\* pages->paddr = base + (i << 22) + (offset << 12); area.page_num -= s;
Take(bl, i, o, s) ==
  /\ blocks' = [bl EXCEPT ![slot[i]] = @ \cup {<<o, Rounded(s)>>}]
  /\ page_num' = (page_num - s) % Word
  /\ paddr' = Base + i * Per + o
  /\ result' = "ok"

\* The loop over the buddies: the first one that has room serves the request.
AllocFromExisting(s) ==
  \E i \in 0 .. buddy_num - 1 :
    /\ \A j \in 0 .. i - 1 : Offsets(blocks, j, s) = {}
    /\ \E o \in Offsets(blocks, i, s) : Take(blocks, i, o, s)
    /\ UNCHANGED <<buddy_num, slot>>

NoRoom(s) == \A j \in 0 .. buddy_num - 1 : Offsets(blocks, j, s) = {}

\* The last offset was -2 (too large for a buddy): no new buddy is made.
AllocTooLarge(s) ==
  /\ s > Per
  /\ buddy_num > 0
  /\ result' = "eof"
  /\ UNCHANGED <<page_num, buddy_num, slot, blocks, paddr>>

\* if (area.buddy_num >= area.page_num / 1024) return EOF;
AllocExhausted(s) ==
  /\ NoRoom(s)
  /\ s <= Per \/ buddy_num = 0
  /\ buddy_num >= page_num \div Per
  /\ result' = "eof"
  /\ UNCHANGED <<page_num, buddy_num, slot, blocks, paddr>>

\* A new buddy: the last slot is not reached yet, and there is memory behind it.
NewBuddy(s) ==
  /\ NoRoom(s)
  /\ s <= Per \/ buddy_num = 0
  /\ buddy_num < page_num \div Per
  /\ buddy_num < NSlots /\ slot[buddy_num] \in Structs

\* buddy_init() of the new buddy, and the second try.
InitAndTake(s) ==
  LET cleared == [blocks EXCEPT ![slot[buddy_num]] = {}]
      fits == Offsets(cleared, buddy_num, s)
  IN \/ \E o \in fits : Take(cleared, buddy_num, o, s)
     \/ /\ fits = {}
        /\ blocks' = cleared
        /\ result' = "eof"
        /\ UNCHANGED <<page_num, paddr>>

\* Mutant: area.buddy_num is not incremented.
AllocFromNewStuck(s) ==
  NewBuddy(s) /\ InitAndTake(s) /\ UNCHANGED <<buddy_num, slot>>

\* buddy_init(area.buddylist[area.buddy_num++], 10), and a second try.
AllocFromNew(s) ==
  NewBuddy(s) /\ InitAndTake(s) /\ buddy_num' = buddy_num + 1 /\ UNCHANGED slot

\* The same with a slot beyond the end of the array, or one that leads to no
\* memory: what follows is not modelled.
AllocWild(s) ==
  /\ NoRoom(s)
  /\ s <= Per \/ buddy_num = 0
  /\ buddy_num < page_num \div Per
  /\ buddy_num < NSlots => slot[buddy_num] = Wild
  /\ result' = "wild"
  /\ UNCHANGED <<page_num, buddy_num, slot, blocks, paddr>>

\* buddy_size: the length of the block that contains the page, or EOF.
BuddySize(p) ==
  LET around == {c \in blocks[slot[(p - Base) \div Per]] :
                   B({})!Contains(c, (p - Base) % Per)}
  IN IF around = {} THEN -1 ELSE (CHOOSE c \in around : TRUE)[2]

\* page_free: asks for the size of the block and adds it, in bytes, to page_num;
\* the buddy is not told.
page_free(p) ==
  /\ page_num' = (page_num + BuddySize(p) * PageBytes) % Word
  /\ result' = "ok"
  /\ UNCHANGED <<buddy_num, slot, blocks, paddr>>

page_alloc(s) ==
  \/ AllocFromExisting(s) \/ AllocTooLarge(s) \/ AllocExhausted(s)
  \/ AllocFromNew(s) \/ AllocWild(s)

-----------------------------------------------------------------------------
(* Properties *)

\* Two slots in use lead to the same buddy.
SlotsShared == \E i, j \in 0 .. buddy_num - 1 : i # j /\ slot[i] = slot[j]

\* The slots used stay within the Total / 1024 words that page_allocator_init
\* allocated for area.buddylist.
SlotsSuffice == buddy_num < NSlots \/ result # "wild"
=============================================================================
