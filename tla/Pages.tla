------------------------------- MODULE Pages --------------------------------
(***************************************************************************)
(* The page interface that the rest of the kernel calls (kern/mm/pmm/pmm.c *)
(* and include/aim/pmm.h): alloc_pages(), alloc_aligned_pages() and        *)
(* free_pages(), with the zeroing and junk filling of page contents, on    *)
(* top of the dummy allocator and, once it is registered, of PageAlloc.    *)
(* Addresses and sizes are counted in pages.                               *)
(***************************************************************************)
EXTENDS PageAlloc, Sequences

CONSTANTS PgSizes, Aligns, FlagSets,
          Strays,    \* what pages->paddr may hold before a call
          MaxOwned,  \* blocks held at a time
          MaxCalls   \* calls of alloc_pages, alloc_aligned_pages and free_pages

Mem == Base .. (Base + NSlots * Per - 1)
GFP_ZERO == "zero"
GFP_UNSAFE == "unsafe"

Nobody == [size |-> 0]

VARIABLES registered,   \* FALSE: the dummy allocator
          content,      \* of each page: "zero", "junk" or "data"
          owned,        \* blocks handed out: [paddr, size, flags, align, data]
          pads,         \* alloc_aligned_pages(): the padding still to be freed
          pend,         \* alloc_aligned_pages(): the block it returns, or Nobody
          calls,        \* the calls so far
          handed,       \* history: the pages that page_alloc() has given out
          twice,        \* history: it gave one of them out again
          smeared       \* history: pages zeroed by a call that failed

gvars == <<registered, content, owned, pads, pend, calls, handed, twice, smeared>>
vars == <<pavars, gvars>>

Span(p, size) == p..(p + size - 1)

Init ==
  /\ PAInit
  /\ registered = FALSE
  /\ content = [p \in Mem |-> "junk"]
  /\ owned = {} /\ pads = <<>> /\ pend = Nobody /\ calls = 0
  /\ handed = {} /\ twice = FALSE /\ smeared = {}

Ready == result # "wild" /\ pend = Nobody

\* The start of a call.
Call == Ready /\ calls < MaxCalls /\ calls' = calls + 1

\* pmemset(): page by page.
pmemset(cont, p, b, size) ==
  [q \in Mem |-> IF q \in Span(p, size) THEN b ELSE cont[q]]

set_page_allocator ==
  /\ Ready /\ ~registered /\ registered' = TRUE
  /\ UNCHANGED <<pavars, content, owned, pads, pend, calls, handed, twice, smeared>>

\* The registered alloc routine; the dummy one returns EOF.
Alloc(size) ==
  IF registered THEN page_alloc(size)
  ELSE result' = "eof" /\ UNCHANGED <<page_num, buddy_num, slot, blocks, paddr>>

Zeroed(cont, p, size, flags) ==
  IF GFP_ZERO \in flags THEN pmemset(cont, p, "zero", size) ELSE cont

\* What free_pages() does to the contents.
Junked(cont, p, size, flags) ==
  IF GFP_UNSAFE \notin flags THEN pmemset(cont, p, "junk", size) ELSE cont

Block(p, size, flags, align) ==
  [paddr |-> p, size |-> size, flags |-> flags, align |-> align, data |-> FALSE]

\* alloc_pages() up to its result: the pages at pages->paddr are zeroed even if
\* the allocation failed, when the field is what the caller's struct held.
GetPages(size, flags, stray) ==
  /\ Alloc(size)
  /\ CASE result' = "ok" ->
            /\ content' = Zeroed(content, paddr', size, flags)
            /\ twice' = (twice \/ Span(paddr', size) \cap handed # {})
            /\ handed' = handed \cup Span(paddr', size)
            /\ smeared' = smeared \ Span(paddr', size)
       [] result' = "eof" ->
            /\ content' = Zeroed(content, stray, size, flags)
            /\ smeared' = IF GFP_ZERO \in flags
                          THEN smeared \cup (Span(stray, size) \cap Mem) ELSE smeared
            /\ UNCHANGED <<handed, twice>>
       [] OTHER -> UNCHANGED <<content, handed, twice, smeared>>
  /\ UNCHANGED registered

alloc_pages(size, flags, stray) ==
  /\ Call /\ Cardinality(owned) < MaxOwned
  /\ GetPages(size, flags, stray)
  /\ owned' = IF result' = "ok" THEN owned \cup {Block(paddr', size, flags, 1)} ELSE owned
  /\ UNCHANGED <<pads, pend>>

ALIGN_BELOW(a, align) == (a \div align) * align

ALIGN_ABOVE(a, align) == ALIGN_BELOW(a + align - 1, align)

\* Mutant: the padding behind begins where it would without padding before.
PaddingTooEarly(a, p, size, align) ==
  (IF a < p THEN <<[paddr |-> a, size |-> p - a]>> ELSE <<>>)
  \o
  (IF a + size + align - 1 > p + size
   THEN <<[paddr |-> a + size, size |-> align - 1]>>
   ELSE <<>>)

\* The padding that alloc_aligned_pages() frees, before and behind the block.
Padding(a, p, size, align) ==
  (IF a < p THEN <<[paddr |-> a, size |-> p - a]>> ELSE <<>>)
  \o
  (IF a + size + align - 1 > p + size
   THEN <<[paddr |-> p + size, size |-> (a + size + align - 1) - (p + size)]>>
   ELSE <<>>)

\* alloc_aligned_pages() asks for align - 1 pages more than it needs ...
alloc_aligned_pages(size, flags, align, stray) ==
  /\ Call /\ Cardinality(owned) < MaxOwned
  /\ GetPages(size + align - 1, flags, stray)
  /\ IF result' = "ok"
     THEN LET p == ALIGN_ABOVE(paddr', align)
          IN pend' = Block(p, size, flags, align) /\ pads' = Padding(paddr', p, size, align)
     ELSE UNCHANGED <<pend, pads>>
  /\ UNCHANGED owned

\* ... frees what is before and what is behind, by free_pages() ...
FreePadding ==
  /\ pend # Nobody /\ pads # <<>>
  /\ content' = Junked(content, Head(pads).paddr, Head(pads).size, pend.flags)
  /\ page_free(Head(pads).paddr)
  /\ pads' = Tail(pads)
  /\ UNCHANGED <<registered, owned, pend, calls, handed, twice, smeared>>

\* ... and returns.
AlignedReturns ==
  /\ pend # Nobody /\ pads = <<>>
  /\ owned' = owned \cup {pend} /\ pend' = Nobody
  /\ UNCHANGED <<pavars, registered, content, pads, calls, handed, twice, smeared>>

\* free_pages(): the contents go, the pages are not available again.
free_pages(b) ==
  /\ Call
  /\ content' = Junked(content, b.paddr, b.size, b.flags)
  /\ page_free(b.paddr)
  /\ owned' = owned \ {b}
  /\ UNCHANGED <<registered, pads, pend, handed, twice, smeared>>

\* pgalloc() and pgfree(): one page, no flags.
pgalloc == \E stray \in Strays : alloc_pages(1, {}, stray)
pgfree(b) == b.size = 1 /\ b.flags = {} /\ free_pages(b)

\* The owner of a block writes to it.
OwnerWrites(b) ==
  /\ Ready /\ ~b.data
  /\ content' = pmemset(content, b.paddr, "data", b.size)
  /\ owned' = (owned \ {b}) \cup {[b EXCEPT !.data = TRUE]}
  /\ smeared' = smeared \ Span(b.paddr, b.size)
  /\ UNCHANGED <<pavars, registered, pads, pend, calls, handed, twice>>

Next ==
  \/ set_page_allocator \/ pgalloc \/ FreePadding \/ AlignedReturns
  \/ \E size \in PgSizes, flags \in FlagSets, stray \in Strays :
       \/ alloc_pages(size, flags, stray)
       \/ \E align \in Aligns : alloc_aligned_pages(size, flags, align, stray)
  \/ \E b \in owned : pgfree(b) \/ free_pages(b) \/ OwnerWrites(b)

Spec == Init /\ [][Next]_vars

-----------------------------------------------------------------------------
(* Properties *)

\* No page is given out twice, whatever is allocated and freed, unless two
\* slots of area.buddylist lead to one struct: page_allocator_init() does not
\* fill the slots and buddy_init() does not store the struct it allocates, so
\* that the words found there decide.  Freed pages do not come back at all.
HandedOnceUnlessShared == twice => SlotsShared

\* No page is given out twice.
NeverHandedTwice == ~twice

\* The blocks of callers lie in the area, apart from each other, and those of
\* alloc_aligned_pages() are aligned although the area need not be.
BlocksPlaced ==
  /\ \A b \in owned : Span(b.paddr, b.size) \subseteq Mem /\ b.paddr % b.align = 0
  /\ ~twice => \A b, c \in owned :
       b # c => Span(b.paddr, b.size) \cap Span(c.paddr, c.size) = {}

\* A page in use holds what its owner wrote, and until then zeros if it asked
\* for zeros, whatever others allocate and free.  One thing does overwrite the
\* pages of others: an allocation with GFP_ZERO that fails zeroes the pages at
\* the address that happens to be in the caller's struct.
ContentsKept ==
  ~twice => \A b \in owned : \A p \in Span(b.paddr, b.size) :
    /\ b.data => content[p] = IF p \in smeared THEN "zero" ELSE "data"
    /\ ~b.data /\ GFP_ZERO \in b.flags => content[p] = "zero"

\* What an owner wrote is gone when the block is freed, unless it was freed with
\* GFP_UNSAFE: an action property.
FreedJunked ==
  [][\A b \in owned : GFP_UNSAFE \notin b.flags =>
       \A p \in Span(b.paddr, b.size) :
         (\A c \in owned' : p \notin Span(c.paddr, c.size)) => content'[p] = "junk"]_vars

\* Blocks and what is in them, through alloc_pages, alloc_aligned_pages and
\* free_pages: in the area, apart, aligned, overwritten only by a failed
\* allocation with GFP_ZERO, and erased when they are freed.
PagesKept == [](BlocksPlaced /\ ContentsKept) /\ FreedJunked
=============================================================================
