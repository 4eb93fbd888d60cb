------------------------------ MODULE KMalloc ------------------------------
(***************************************************************************)
(* kmalloc and kfree (kern/mm/vmm/vmm.c) over the page-of-blocks allocator *)
(* simple_alloc / simple_free (kern/mm/vmm/simple_alloc.c), one action per *)
(* access to the shared descriptors.  Context 1 is the kernel's main line  *)
(* of control; context n + 1 is an interrupt handler that runs to its end  *)
(* on top of context n.                                                    *)
(*                                                                         *)
(* pgalloc and pgfree are taken at their interface: pgalloc returns a page *)
(* nobody owns or, at any time, the error -1.                              *)
(***************************************************************************)
EXTENDS Integers, Sequences, FiniteSets

CONSTANTS Page,      \* pages that pgalloc may return
          STACK,     \* the page-sized array on allocator_init's stack
          NULL,      \* the null pointer
          BLOCKSIZE, \* BLOCKSIZE[o], for o in 1 .. number of orders
          NBLOCKS,   \* NBLOCKS[o]
          Request,   \* sizes that callers ask for
          BootSize,  \* what page_allocator_init asks for
          Nesting    \* how many contexts there are

Order == 1 .. Len(BLOCKSIZE)
Ctx == 1 .. Nesting
Header == 8           \* sizeof(struct block_header)
Descriptor == 16      \* sizeof(struct page_descriptor)
PAGE_SIZE == 4096
MAX_TRIES == 4        \* MAX_GET_FREE_PAGE_TRIES
AllPages == Page \cup {STACK}
Block == 1 .. NBLOCKS[1]
LEN == 0              \* a bh_next that has been overwritten by bh_length

\* get_order
get_order(size) ==
  CHOOSE o \in Order : /\ size + Header <= BLOCKSIZE[o]
                       /\ \A q \in 1 .. o - 1 : size + Header > BLOCKSIZE[q]

\* The check of simple_allocator_bootstrap, a panic if it fails.
SizesFit == \A o \in Order : NBLOCKS[o] * BLOCKSIZE[o] + Descriptor <= PAGE_SIZE

\* get_order is total on the sizes that kmalloc lets through.
ASSUME SizesAssumption ==
  /\ SizesFit
  /\ \E o \in Order : PAGE_SIZE \div 2 + Header <= BLOCKSIZE[o]
  /\ NULL \notin AllPages /\ STACK \notin Page

VARIABLES is_page_alloc_on,
          sizes,   \* sizes[o].firstfree
          next,    \* page->next
          first,   \* page->firstfree
          nfree,   \* page->nfree
          order,   \* page->order
          flag,    \* bh_flags of each block: "free" or "used"
          bh_next, \* bh_next of each block
          pool,    \* pages nobody owns
          pc,      \* where each context is
          loc,     \* the local variables order, tries, page, p, pg2 of each
          live,    \* history: blocks that callers hold
          said,    \* history: the complaints the allocator has printed
          fault    \* why the kernel stopped, or "none"

lists == <<sizes, next>>
desc == <<first, nfree, order, flag, bh_next>>
history == <<live, said, fault>>
vars == <<is_page_alloc_on, lists, desc, pool, pc, loc, history>>

Init ==
  /\ is_page_alloc_on = FALSE
  /\ sizes = [o \in Order |-> NULL]
  /\ next = [g \in AllPages |-> NULL]
  /\ first = [g \in AllPages |-> NULL]
  /\ nfree = [g \in AllPages |-> 0]
  /\ order = [g \in AllPages |-> 1]
  /\ flag = [g \in AllPages |-> [b \in Block |-> "used"]]
  /\ bh_next = [g \in AllPages |-> [b \in Block |-> NULL]]
  /\ pool = Page
  /\ pc = [c \in Ctx |-> "idle"]
  /\ loc = [c \in Ctx |-> [order |-> 1, tries |-> 0, page |-> NULL, p |-> NULL, pg2 |-> NULL]]
  /\ live = {} /\ said = {} /\ fault = "none"

\* A context runs while the kernel has not stopped and nothing interrupts it.
Runs(c) == /\ fault = "none"
           /\ \A d \in Ctx : d > c => pc[d] = "idle"

At(c, l) == Runs(c) /\ pc[c] = l
Goto(c, l) == pc' = [pc EXCEPT ![c] = l]
Keep == UNCHANGED <<is_page_alloc_on, pool, history>>

-----------------------------------------------------------------------------
(* kmalloc and simple_alloc *)

Call(c, size) ==
  /\ At(c, "idle")
  /\ Goto(c, "try")
  /\ loc' = [loc EXCEPT ![c].order = get_order(size), ![c].tries = MAX_TRIES]
  /\ UNCHANGED <<is_page_alloc_on, lists, desc, pool, history>>

\* page_allocator_init's call, from the bootstrap.
BootCall == /\ ~is_page_alloc_on /\ live = {}
            /\ Call(1, BootSize)

AllocCall(c) == /\ is_page_alloc_on
                /\ \E s \in Request : s <= PAGE_SIZE \div 2 /\ Call(c, s)

\* if (size > PAGE_SIZE / 2) panic(...): simple_alloc's own refusals, of larger
\* sizes still, are never reached.
AllocTooLarge(c) ==
  /\ At(c, "idle") /\ is_page_alloc_on
  /\ \E s \in Request : s > PAGE_SIZE \div 2
  /\ fault' = "large"
  /\ UNCHANGED <<is_page_alloc_on, lists, desc, pool, pc, loc, live, said>>

\* while (tries--) { if ((page = sizes[order].firstfree) && ...
Try(c) ==
  /\ At(c, "try")
  /\ LET t == loc[c].tries
         g == sizes[loc[c].order]
     IN IF t = 0
        THEN fault' = "tries" /\ UNCHANGED <<pc, loc>>
        ELSE /\ loc' = [loc EXCEPT ![c].tries = t - 1, ![c].page = g]
             /\ Goto(c, IF g = NULL THEN "grow" ELSE "block")
             /\ UNCHANGED fault
  /\ UNCHANGED <<is_page_alloc_on, lists, desc, pool, live, said>>

\* ... (p = page->firstfree))
TryBlock(c) ==
  /\ At(c, "block")
  /\ LET p == first[loc[c].page]
     IN /\ loc' = [loc EXCEPT ![c].p = p]
        /\ Goto(c, IF p = NULL THEN "grow" ELSE "flag")
  /\ Keep /\ UNCHANGED <<lists, desc>>

\* A block number that is really a length, or a block that is not free.
TryFlag(c) ==
  /\ At(c, "flag")
  /\ LET g == loc[c].page
         p == loc[c].p
         free == p # LEN /\ flag[g][p] = "free"
     IN /\ Goto(c, IF free THEN "unchain" ELSE "idle")
        /\ said' = IF free THEN said ELSE said \cup {"isn't free"}
  /\ UNCHANGED <<is_page_alloc_on, lists, desc, pool, loc, live, fault>>

\* Mutant: the rest of the page's chain is lost.
UnchainAll(c) ==
  /\ At(c, "unchain")
  /\ first' = [first EXCEPT ![loc[c].page] = NULL]
  /\ Goto(c, "count")
  /\ Keep /\ UNCHANGED <<lists, nfree, order, flag, bh_next, loc>>

\* page->firstfree = p->bh_next;
Unchain(c) ==
  /\ At(c, "unchain")
  /\ LET g == loc[c].page
     IN first' = [first EXCEPT ![g] = bh_next[g][loc[c].p]]
  /\ Goto(c, "count")
  /\ Keep /\ UNCHANGED <<lists, nfree, order, flag, bh_next, loc>>

\* page->nfree--; if (!page->nfree)
CountDown(c) ==
  /\ At(c, "count")
  /\ LET g == loc[c].page
     IN /\ nfree' = [nfree EXCEPT ![g] = @ - 1]
        /\ Goto(c, IF nfree[g] = 1 THEN "drop" ELSE "use")
  /\ Keep /\ UNCHANGED <<lists, first, order, flag, bh_next, loc>>

\* sizes[order].firstfree = page->next; page->next = NULL;
DropPage(c) ==
  /\ At(c, "drop")
  /\ sizes' = [sizes EXCEPT ![loc[c].order] = next[loc[c].page]]
  /\ Goto(c, "dropped")
  /\ Keep /\ UNCHANGED <<next, desc, loc>>

DropNext(c) ==
  /\ At(c, "dropped")
  /\ next' = [next EXCEPT ![loc[c].page] = NULL]
  /\ Goto(c, "use")
  /\ Keep /\ UNCHANGED <<sizes, desc, loc>>

\* p->bh_flags = MF_USED; p->bh_length = size; return p+1;
Use(c) ==
  /\ At(c, "use")
  /\ LET g == loc[c].page
         p == loc[c].p
     IN /\ flag' = [flag EXCEPT ![g][p] = "used"]
        /\ bh_next' = [bh_next EXCEPT ![g][p] = LEN]
        /\ live' = live \cup {<<g, p>>}
        /\ said' = IF <<g, p>> \in live THEN said \cup {"twice"} ELSE said
        /\ fault' = IF g = STACK /\ is_page_alloc_on THEN "stack" ELSE fault
  /\ Goto(c, "idle")
  /\ UNCHANGED <<is_page_alloc_on, lists, first, nfree, order, pool, loc>>

\* A new page: every block is free and chained to the next.  No other context
\* knows the page yet, so this is one step.
Carve(c, g) ==
  LET o == loc[c].order
  IN /\ flag' = [flag EXCEPT ![g] = [b \in Block |-> IF b <= NBLOCKS[o] THEN "free" ELSE "used"]]
     /\ bh_next' = [bh_next EXCEPT ![g] = [b \in Block |-> IF b < NBLOCKS[o] THEN b + 1 ELSE NULL]]
     /\ order' = [order EXCEPT ![g] = o]
     /\ nfree' = [nfree EXCEPT ![g] = NBLOCKS[o]]
     /\ first' = [first EXCEPT ![g] = 1]
     /\ loc' = [loc EXCEPT ![c].page = g]
     /\ Goto(c, "link")
     /\ UNCHANGED <<is_page_alloc_on, lists, history>>

\* page = tmp_mem_pt during the bootstrap.
GrowBoot(c) ==
  /\ At(c, "grow") /\ ~is_page_alloc_on
  /\ Carve(c, STACK)
  /\ UNCHANGED pool

\* page = pgalloc() after it.
Grow(c) ==
  /\ At(c, "grow") /\ is_page_alloc_on
  /\ \E g \in pool : Carve(c, g) /\ pool' = pool \ {g}

\* pgalloc() returned -1, which is not !page: simple_alloc goes on to write to the
\* page at -1.
GrowFails(c) ==
  /\ At(c, "grow") /\ is_page_alloc_on
  /\ fault' = "wild"
  /\ UNCHANGED <<is_page_alloc_on, lists, desc, pool, pc, loc, live, said>>

\* page->next = sizes[order].firstfree; sizes[order].firstfree = page;
Link(c) ==
  /\ At(c, "link")
  /\ next' = [next EXCEPT ![loc[c].page] = sizes[loc[c].order]]
  /\ Goto(c, "linked")
  /\ Keep /\ UNCHANGED <<sizes, desc, loc>>

LinkFirst(c) ==
  /\ At(c, "linked")
  /\ sizes' = [sizes EXCEPT ![loc[c].order] = loc[c].page]
  /\ Goto(c, "try")
  /\ Keep /\ UNCHANGED <<next, desc, loc>>

\* simple_allocator_init, after page_allocator_init's kmalloc.
simple_allocator_init ==
  /\ Runs(1) /\ \A c \in Ctx : pc[c] = "idle"
  /\ ~is_page_alloc_on /\ live # {}
  /\ is_page_alloc_on' = TRUE
  /\ UNCHANGED <<lists, desc, pool, pc, loc, history>>

-----------------------------------------------------------------------------
(* kfree and simple_free; callers free blocks they hold, and the block of    *)
(* the bootstrap, area.buddylist, is never freed                             *)

\* What simple_free tests first: an order of the table (the code's bound lets
\* two more pass), a next at a page's boundary, where the array on the stack
\* need not be, and a used block.
Kmalloced(g, p) == order[g] \in Order /\ next[g] # STACK /\ flag[g][p] = "used"

FreeCall(c) ==
  /\ At(c, "idle") /\ is_page_alloc_on
  /\ \E b \in live :
       /\ b[1] # STACK
       /\ live' = live \ {b}
       /\ loc' = [loc EXCEPT ![c].order = order[b[1]], ![c].page = b[1], ![c].p = b[2]]
       /\ Goto(c, IF Kmalloced(b[1], b[2]) THEN "mark" ELSE "idle")
       /\ said' = IF Kmalloced(b[1], b[2]) THEN said ELSE said \cup {"non-kmalloced"}
  /\ UNCHANGED <<is_page_alloc_on, lists, desc, pool, fault>>

\* p->bh_flags = MF_FREE; p->bh_next = page->firstfree;
Mark(c) ==
  /\ At(c, "mark")
  /\ LET g == loc[c].page
     IN /\ flag' = [flag EXCEPT ![g][loc[c].p] = "free"]
        /\ bh_next' = [bh_next EXCEPT ![g][loc[c].p] = first[g]]
  /\ Goto(c, "chain")
  /\ Keep /\ UNCHANGED <<lists, first, nfree, order, loc>>

\* page->firstfree = p;
Chain(c) ==
  /\ At(c, "chain")
  /\ first' = [first EXCEPT ![loc[c].page] = loc[c].p]
  /\ Goto(c, "countup")
  /\ Keep /\ UNCHANGED <<lists, nfree, order, flag, bh_next, loc>>

\* page->nfree++; if (page->nfree == 1) { if (page->next) ...
CountUp(c) ==
  /\ At(c, "countup")
  /\ LET g == loc[c].page
         dazed == nfree[g] = 0 /\ next[g] # NULL
     IN /\ nfree' = [nfree EXCEPT ![g] = @ + 1]
        /\ Goto(c, IF nfree[g] = 0 /\ ~dazed THEN "relink" ELSE "full")
        /\ said' = IF dazed THEN said \cup {"dazed"} ELSE said
  /\ UNCHANGED <<is_page_alloc_on, lists, first, order, flag, bh_next, pool, loc, live, fault>>

\* page->next = sizes[order].firstfree; sizes[order].firstfree = page;
Relink(c) ==
  /\ At(c, "relink")
  /\ next' = [next EXCEPT ![loc[c].page] = sizes[loc[c].order]]
  /\ Goto(c, "relinked")
  /\ Keep /\ UNCHANGED <<sizes, desc, loc>>

RelinkFirst(c) ==
  /\ At(c, "relinked")
  /\ sizes' = [sizes EXCEPT ![loc[c].order] = loc[c].page]
  /\ Goto(c, "full")
  /\ Keep /\ UNCHANGED <<next, desc, loc>>

\* if (page->nfree == NBLOCKS(page->order)) { if (sizes[order].firstfree == page)
TestFull(c) ==
  /\ At(c, "full")
  /\ LET g == loc[c].page
         o == loc[c].order
     IN /\ loc' = [loc EXCEPT ![c].pg2 = sizes[o]]
        /\ Goto(c, IF nfree[g] # NBLOCKS[order[g]] THEN "idle"
                   ELSE IF sizes[o] = g THEN "pop" ELSE "scan")
  /\ Keep /\ UNCHANGED <<lists, desc>>

\* sizes[order].firstfree = page->next;
Pop(c) ==
  /\ At(c, "pop")
  /\ sizes' = [sizes EXCEPT ![loc[c].order] = next[loc[c].page]]
  /\ Goto(c, "give")
  /\ Keep /\ UNCHANGED <<next, desc, loc>>

\* Mutant: pg2 is not advanced.
ScanOnStuck(c) ==
  /\ At(c, "scan")
  /\ loc[c].pg2 # NULL /\ next[loc[c].pg2] # loc[c].page
  /\ UNCHANGED vars

\* The for loop over pg2: one page further.
ScanOn(c) ==
  /\ At(c, "scan")
  /\ loc[c].pg2 # NULL /\ next[loc[c].pg2] # loc[c].page
  /\ loc' = [loc EXCEPT ![c].pg2 = next[@]]
  /\ Keep /\ UNCHANGED <<lists, desc, pc>>

\* Mutant: the page stays on its list.
ScanStopLinked(c) ==
  /\ At(c, "scan")
  /\ LET g == loc[c].pg2
     IN IF g = NULL
        THEN said' = said \cup {"doesn't show"} /\ UNCHANGED next
        ELSE /\ next[g] = loc[c].page
             /\ UNCHANGED next
             /\ UNCHANGED said
  /\ Goto(c, "give")
  /\ UNCHANGED <<is_page_alloc_on, sizes, desc, pool, loc, live, fault>>

\* The loop ends at the predecessor of page, which skips it, or at NULL.
ScanStop(c) ==
  /\ At(c, "scan")
  /\ LET g == loc[c].pg2
     IN IF g = NULL
        THEN said' = said \cup {"doesn't show"} /\ UNCHANGED next
        ELSE /\ next[g] = loc[c].page
             /\ next' = [next EXCEPT ![g] = next[loc[c].page]]
             /\ UNCHANGED said
  /\ Goto(c, "give")
  /\ UNCHANGED <<is_page_alloc_on, sizes, desc, pool, loc, live, fault>>

\* pgfree(page);
Give(c) ==
  /\ At(c, "give")
  /\ pool' = pool \cup {loc[c].page}
  /\ Goto(c, "idle")
  /\ UNCHANGED <<is_page_alloc_on, lists, desc, loc, history>>

-----------------------------------------------------------------------------
Alloc(c) ==
  \/ AllocCall(c) \/ AllocTooLarge(c) \/ Try(c) \/ TryBlock(c) \/ TryFlag(c)
  \/ Unchain(c) \/ CountDown(c) \/ DropPage(c) \/ DropNext(c) \/ Use(c)
  \/ GrowBoot(c) \/ Grow(c) \/ GrowFails(c) \/ Link(c) \/ LinkFirst(c)

Free(c) ==
  \/ FreeCall(c) \/ Mark(c) \/ Chain(c) \/ CountUp(c) \/ Relink(c)
  \/ RelinkFirst(c) \/ TestFull(c) \/ Pop(c) \/ ScanOn(c) \/ ScanStop(c)
  \/ Give(c)

Next ==
  \/ BootCall \/ simple_allocator_init
  \/ \E c \in Ctx : Alloc(c) \/ Free(c)

Spec == Init /\ [][Next]_vars

\* A call in progress goes on: nothing in the two routines waits.
Continue(c) == pc[c] # "idle" /\ (Alloc(c) \/ Free(c))
FairSpec == Spec /\ \A c \in Ctx : WF_vars(Continue(c))

-----------------------------------------------------------------------------
(* Properties *)

\* Types of the descriptors, lists and history variables.
TypeOK ==
  /\ sizes \in [Order -> AllPages \cup {NULL}]
  /\ next \in [AllPages -> AllPages \cup {NULL}]
  /\ first \in [AllPages -> Block \cup {LEN, NULL}]
  /\ nfree \in [AllPages -> 0 .. NBLOCKS[1]]
  /\ order \in [AllPages -> Order]
  /\ flag \in [AllPages -> [Block -> {"free", "used"}]]
  /\ pool \subseteq Page
  /\ live \subseteq AllPages \X Block

AtRest == fault = "none" /\ \A c \in Ctx : pc[c] = "idle"

\* The nth page on the list of order o, and the nth free block of page g.
PageAt(o) ==
  LET f[n \in Nat] == IF n = 0 THEN sizes[o]
                      ELSE IF f[n-1] = NULL THEN NULL ELSE next[f[n-1]]
  IN f
BlockAt(g) ==
  LET f[n \in Nat] == IF n = 0 THEN first[g]
                      ELSE IF f[n-1] \in {NULL, LEN} THEN NULL ELSE bh_next[g][f[n-1]]
  IN f

Listed(o) == {PageAt(o)[n] : n \in 0 .. Cardinality(AllPages)} \ {NULL}
FreeIn(g) == {BlockAt(g)[n] : n \in 0 .. Cardinality(Block)} \ {NULL}

\* Between calls the list of an order holds exactly the pages carved for that
\* order that have a free block, each once, and ends.
ListsExact ==
  AtRest => \A o \in Order :
    /\ Listed(o) = {g \in AllPages \ pool : order[g] = o /\ nfree[g] > 0}
    /\ PageAt(o)[Cardinality(Listed(o))] = NULL

\* Between calls the free chain of a page in use is exactly its blocks that
\* nobody holds, nfree counts them, and each of them is flagged free.
ChainsExact ==
  AtRest => \A g \in AllPages \ pool :
    LET mine == {b \in Block : <<g, b>> \in live}
    IN nfree[g] + Cardinality(mine) > 0 =>
         /\ FreeIn(g) = (1 .. NBLOCKS[order[g]]) \ mine
         /\ nfree[g] = Cardinality(FreeIn(g))
         /\ \A b \in Block : flag[g][b] = "free" <=> b \in FreeIn(g)

\* A page goes back to the page allocator only when no caller holds a block of it
\* and no list leads to it.
GivesBackUnused ==
  [][\A c \in Ctx : Give(c) =>
       /\ \A b \in live : b[1] # loc[c].page
       /\ \A o \in Order : loc[c].page \notin Listed(o)]_vars

\* The complaints of the two routines about their own bookkeeping are never
\* printed, and the loop of simple_alloc never runs out of tries.
NeverConfused == said = {} /\ fault # "tries"

\* No block is handed to a second caller while the first one holds it.
HandedOnce == "twice" \notin said

\* The temporary allocator's page is not handed out once the real allocator runs.
BootstrapPageHidden == fault # "stack"

\* Every call of kmalloc or kfree returns, or the kernel stops.
CallsReturn ==
  \A c \in Ctx : pc[c] # "idle" ~> (pc[c] = "idle" \/ fault # "none")

\* The bookkeeping of the heap is exact between calls, lists and chains, and no
\* check of it in kmalloc and kfree ever fails.
HeapExact == TypeOK /\ ListsExact /\ ChainsExact /\ NeverConfused
=============================================================================
