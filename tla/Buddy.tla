------------------------------- MODULE Buddy -------------------------------
(***************************************************************************)
(* One buddy of the page allocator (kern/mm/pmm/page_alloc.c): buddy_init, *)
(* buddy_alloc, buddy_free and buddy_size with their helpers, one action   *)
(* per iteration of their loops.  Node i of the heap-ordered tree has the  *)
(* children 2i+1 and 2i+2.  The calls are not concurrent: one runs from    *)
(* its first to its last step.                                             *)
(*                                                                         *)
(* The C struct declares tree[1 << 10] for level 10; the code indexes      *)
(* 2^(level+1)-1 entries, and tree is modelled with all of them.           *)
(***************************************************************************)
EXTENDS Integers

CONSTANTS Level, \* self->level
          Pow    \* Pow[i] is 1 << i

ASSUME LevelAssumption == Level \in Nat

\* The powers of two, by the facts about them that the algorithm relies on.
ASSUME PowAssumption ==
  /\ Pow \in [0..Level -> Nat]
  /\ Pow[0] = 1
  /\ \A i \in 0..Level : i < Level => Pow[i + 1] = 2 * Pow[i]
  /\ \A i, j \in 0..Level : i < j => 2 * Pow[i] <= Pow[j]

VARIABLES tree,    \* self->tree
          pc,      \* the loop the running call is in
          size,    \* buddy_alloc: the request rounded up to a power of two
          offset,  \* buddy_free, buddy_size: the argument
          index, level, length, left,  \* locals of the three loops
          node,    \* index in _mark_parent and _combine
          ret,     \* the value just returned; 0 while a call runs
          owned,   \* history: the blocks <<offset, pages>> held by callers
          live     \* history: the nodes reachable through split and full nodes

locals == <<size, offset, index, level, length, left, node>>
vars == <<tree, pc, locals, ret, owned, live>>

UNUSED == 0
USED == 1
SPLIT == 2
FULL == 3

Pages == Pow[Level]
Nodes == 0 .. 2 * Pages - 2

EOF == -1

PCs == {"idle", "search", "climb", "mark", "free", "combine", "unfull", "size",
        "panic"}

IsOdd(i) == i % 2 = 1
get_buddy_index(i) == i - 1 + (i % 2) * 2
parent(i) == ((i + 1) \div 2) - 1
Children(i) == {2 * i + 1, 2 * i + 2}
index_offset(i, l) == ((i + 1) - Pow[l]) * Pow[Level - l]

\* The sizes a request of at most Pages pages is rounded to.  next_pow_of_2
\* itself is checked against these sizes in module Pow2.
Sizes == {Pow[i] : i \in 0..Level}

-----------------------------------------------------------------------------
\* buddy_init: memset(self->tree, NODE_UNUSED, size*2-1).
Init ==
  /\ tree = [i \in Nodes |-> UNUSED]
  /\ pc = "idle"
  /\ size = 1 /\ offset = 0
  /\ index = 0 /\ level = 0 /\ length = Pages /\ left = 0 /\ node = 0
  /\ ret = 0
  /\ owned = {}
  /\ live = {0}

\* The locals of a call are gone when it returns.
Forget ==
  /\ size' = 1 /\ offset' = 0
  /\ index' = 0 /\ level' = 0 /\ length' = Pages /\ left' = 0 /\ node' = 0

Start(to) ==
  /\ pc = "idle"
  /\ pc' = to
  /\ index' = 0 /\ length' = Pages /\ ret' = 0
  /\ UNCHANGED <<tree, node, owned, live>>

-----------------------------------------------------------------------------
(* buddy_alloc *)

\* The entry, for a request that rounds to n pages.
AllocCall(n) ==
  /\ Start("search")
  /\ size' = n /\ level' = 0
  /\ UNCHANGED <<offset, left>>

\* if (size > length) return -2;
AllocTooLarge ==
  /\ pc = "idle"
  /\ ret' = -2
  /\ UNCHANGED <<tree, pc, locals, owned, live>>

\* Mutant: takes any node of the right size that is not itself in use.
SearchTakeSplit ==
  /\ pc = "search"
  /\ size = length
  /\ tree[index] # USED
  /\ tree' = [tree EXCEPT ![index] = USED]
  /\ node' = index
  /\ pc' = "mark"
  /\ UNCHANGED <<size, offset, index, level, length, left, ret, owned, live>>

\* size == length and the node is unused: take it.
SearchTake ==
  /\ pc = "search"
  /\ size = length
  /\ tree[index] = UNUSED
  /\ tree' = [tree EXCEPT ![index] = USED]
  /\ node' = index
  /\ pc' = "mark"
  /\ UNCHANGED <<size, offset, index, level, length, left, ret, owned, live>>

\* size < length: go down to the left child ...
Descend ==
  /\ pc = "search"
  /\ size # length
  /\ index' = 2 * index + 1
  /\ length' = length \div 2
  /\ level' = level + 1
  /\ UNCHANGED <<pc, size, offset, left, node, ret, owned>>

\* ... of a node that is split already ...
SearchDown ==
  /\ Descend
  /\ tree[index] = SPLIT
  /\ UNCHANGED <<tree, live>>

\* ... or of an unused one, which is split first.
SearchSplit ==
  /\ Descend
  /\ tree[index] = UNUSED
  /\ tree' = [tree EXCEPT ![index] = SPLIT,
                          ![2 * index + 1] = UNUSED, ![2 * index + 2] = UNUSED]
  /\ live' = live \cup Children(index)

\* Mutant: the right child's buddy is searched, again, before going back up.
SearchSkipAgain ==
  /\ pc = "search"
  /\ IF size = length THEN tree[index] # UNUSED ELSE tree[index] \in {USED, FULL}
  /\ IF index # 0 THEN index' = get_buddy_index(index) /\ UNCHANGED pc
                  ELSE pc' = "climb" /\ UNCHANGED index
  /\ UNCHANGED <<tree, size, offset, level, length, left, node, ret, owned, live>>

\* Nothing to be had in this node: turn to its buddy, or go back up.
SearchSkip ==
  /\ pc = "search"
  /\ IF size = length THEN tree[index] # UNUSED ELSE tree[index] \in {USED, FULL}
  /\ IF IsOdd(index) THEN index' = index + 1 /\ UNCHANGED pc
                     ELSE pc' = "climb" /\ UNCHANGED index
  /\ UNCHANGED <<tree, size, offset, level, length, left, node, ret, owned, live>>

\* for (;;) { level--; length *= 2; index = (index+1)/2 - 1; ... }
\* The climb ends above the root: return -1 ...
ClimbOut ==
  /\ pc = "climb"
  /\ parent(index) < 0
  /\ pc' = "idle"
  /\ ret' = -1
  /\ Forget
  /\ UNCHANGED <<tree, owned, live>>

\* ... or at the first left child, whose buddy is searched next.
Climb ==
  /\ pc = "climb"
  /\ parent(index) >= 0
  /\ level' = level - 1
  /\ length' = length * 2
  /\ IF IsOdd(parent(index)) THEN index' = parent(index) + 1 /\ pc' = "search"
                             ELSE index' = parent(index) /\ UNCHANGED pc
  /\ UNCHANGED <<tree, size, offset, left, node, ret, owned, live>>

\* Mutant: a full buddy is not recognised.
BuddyTakenUsedOnly ==
  /\ get_buddy_index(node) > 0
  /\ tree[get_buddy_index(node)] = USED

\* _mark_parent: while the buddy is taken too, the parent is full.
BuddyTaken ==
  /\ get_buddy_index(node) > 0
  /\ tree[get_buddy_index(node)] \in {USED, FULL}

MarkParent ==
  /\ pc = "mark"
  /\ BuddyTaken
  /\ node' = parent(node)
  /\ tree' = [tree EXCEPT ![parent(node)] = FULL]
  /\ UNCHANGED <<pc, size, offset, index, level, length, left, ret, owned, live>>

\* return index_offset(index, level, self->level);
AllocReturn ==
  /\ pc = "mark"
  /\ ~BuddyTaken
  /\ pc' = "idle"
  /\ ret' = index_offset(index, level)
  /\ owned' = owned \cup {<<index_offset(index, level), size>>}
  /\ Forget
  /\ UNCHANGED <<tree, live>>

-----------------------------------------------------------------------------
(* buddy_free *)

\* if (offset >= (1 << self->level)) panic(...);
FreeCall(o) ==
  /\ Start("free")
  /\ offset' = o /\ left' = 0
  /\ UNCHANGED <<size, level>>

FreeRange ==
  /\ pc = "free"
  /\ offset >= Pages
  /\ pc' = "panic"
  /\ UNCHANGED <<tree, locals, ret, owned, live>>

\* default: go down to the half that contains offset (also in buddy_size).
Walk(p) ==
  /\ pc = p
  /\ offset < Pages
  /\ tree[index] \in {SPLIT, FULL}
  /\ length' = length \div 2
  /\ IF offset < left + (length \div 2)
       THEN index' = 2 * index + 1 /\ UNCHANGED left
       ELSE index' = 2 * index + 2 /\ left' = left + (length \div 2)
  /\ UNCHANGED <<tree, pc, size, offset, level, node, ret, owned, live>>

\* Mutant: an offset inside a block frees the block.
FreeUsedInside ==
  /\ pc = "free"
  /\ offset < Pages
  /\ tree[index] = USED
  /\ node' = index
  /\ pc' = "combine"
  /\ UNCHANGED <<tree, size, offset, index, level, length, left, ret, owned, live>>

\* case NODE_USED, offset == left: _combine(self, index)
FreeUsed ==
  /\ pc = "free"
  /\ offset < Pages
  /\ tree[index] = USED
  /\ offset = left
  /\ node' = index
  /\ pc' = "combine"
  /\ UNCHANGED <<tree, size, offset, index, level, length, left, ret, owned, live>>

\* The two other panics: offset is inside a block, or the page is not in use.
FreeWrong ==
  /\ pc = "free"
  /\ offset < Pages
  /\ tree[index] = UNUSED \/ (tree[index] = USED /\ offset # left)
  /\ pc' = "panic"
  /\ UNCHANGED <<tree, locals, ret, owned, live>>

\* _combine: the buddy is unused as well, the two become their parent.
BuddyUnused ==
  /\ get_buddy_index(node) >= 0
  /\ tree[get_buddy_index(node)] = UNUSED

CombineUp ==
  /\ pc = "combine"
  /\ BuddyUnused
  /\ node' = parent(node)
  /\ live' = live \ {node, get_buddy_index(node)}
  /\ UNCHANGED <<tree, pc, size, offset, index, level, length, left, ret, owned>>

\* self->tree[index] = NODE_UNUSED, and index moves to the parent.
CombineDone ==
  /\ pc = "combine"
  /\ ~BuddyUnused
  /\ tree' = [tree EXCEPT ![node] = UNUSED]
  /\ node' = parent(node)
  /\ pc' = "unfull"
  /\ UNCHANGED <<size, offset, index, level, length, left, ret, owned, live>>

\* while (index >= 0 && tree[index] == NODE_FULL) tree[index] = NODE_SPLIT;
Unfull ==
  /\ pc = "unfull"
  /\ node >= 0
  /\ tree[node] = FULL
  /\ tree' = [tree EXCEPT ![node] = SPLIT]
  /\ node' = parent(node)
  /\ UNCHANGED <<pc, size, offset, index, level, length, left, ret, owned, live>>

FreeReturn ==
  /\ pc = "unfull"
  /\ node < 0 \/ (node >= 0 /\ tree[node] # FULL)
  /\ pc' = "idle"
  /\ owned' = owned \ {<<offset, length>>}
  /\ Forget
  /\ UNCHANGED <<tree, ret, live>>

-----------------------------------------------------------------------------
(* buddy_size *)

SizeCall(o) ==
  /\ Start("size")
  /\ offset' = o /\ left' = 0
  /\ UNCHANGED <<size, level>>

SizeReturn ==
  /\ pc = "size"
  /\ \/ offset >= Pages /\ ret' = EOF
     \/ offset < Pages /\ tree[index] = USED /\ ret' = length
     \/ offset < Pages /\ tree[index] = UNUSED /\ ret' = EOF
  /\ pc' = "idle"
  /\ Forget
  /\ UNCHANGED <<tree, owned, live>>

-----------------------------------------------------------------------------
Alloc ==
  \/ \E n \in Sizes : AllocCall(n)
  \/ AllocTooLarge \/ SearchTake \/ SearchDown \/ SearchSplit \/ SearchSkip
  \/ ClimbOut \/ Climb \/ MarkParent \/ AllocReturn

Free ==
  \/ \E o \in 0..Pages : FreeCall(o)
  \/ FreeRange \/ Walk("free") \/ FreeUsed \/ FreeWrong
  \/ CombineUp \/ CombineDone \/ Unfull \/ FreeReturn

Size == (\E o \in 0..Pages : SizeCall(o)) \/ Walk("size") \/ SizeReturn

Next == Alloc \/ Free \/ Size

Spec == Init /\ [][Next]_vars

\* The steps of a call that has begun.
Continue ==
  \/ SearchTake \/ SearchDown \/ SearchSplit \/ SearchSkip \/ ClimbOut \/ Climb
  \/ MarkParent \/ AllocReturn
  \/ FreeRange \/ Walk("free") \/ FreeUsed \/ FreeWrong
  \/ CombineUp \/ CombineDone \/ Unfull \/ FreeReturn
  \/ Walk("size") \/ SizeReturn

-----------------------------------------------------------------------------
(* Properties *)

\* Types of the tree, the locals and the history variables.
TypeOK ==
  /\ tree \in [Nodes -> {UNUSED, USED, SPLIT, FULL}]
  /\ pc \in PCs
  /\ size \in Sizes /\ offset \in 0..Pages
  /\ index \in Nodes /\ level \in 0..Level /\ length \in Nat /\ left \in Nat
  /\ node \in Nodes \cup {-1}
  /\ ret \in -2..Pages
  /\ owned \subseteq (0..Pages) \X Sizes
  /\ live \subseteq Nodes

Disjoint(b, c) == b[1] + b[2] <= c[1] \/ c[1] + c[2] <= b[1]

\* Two blocks that buddy_alloc handed out and that were not freed share no page,
\* and no block sticks out of the area.
OwnedDisjoint ==
  \A b \in owned : /\ b[1] + b[2] <= Pages
                   /\ \A c \in owned : b # c => Disjoint(b, c)

\* The block that a call of buddy_alloc returns shares no page with a block that
\* is in use at that moment.
AllocFresh ==
  [][AllocReturn => \A b \in owned : Disjoint(b, <<ret', size>>)]_vars

\* The walk of buddy_alloc keeps index, level and length in step: index is a
\* node of that level and length is what such a node covers.  The offset that
\* is returned is computed from index and level after an arbitrary sequence of
\* descents, steps to a buddy and climbs.
SearchInStep ==
  pc \in {"search", "climb", "mark"} =>
    /\ Pow[level] <= index + 1 /\ index + 1 < 2 * Pow[level]
    /\ length = Pow[Level - level]
    /\ size <= length

Ancestors(i) == {((i + 1) \div Pow[k]) - 1 : k \in 1..Level} \ {-1}

\* live really is what it says: the nodes all of whose ancestors are split or
\* full.  While _combine climbs, the nodes under the one it has reached are
\* being given up although their parent still says split.
LiveIsReachable ==
  live = {i \in Nodes :
            \A a \in Ancestors(i) : /\ tree[a] \in {SPLIT, FULL}
                                    /\ pc = "combine" => a # node}

\* Between calls the inner nodes tell the truth about what is below them: a full
\* node has no free page left, a split node has one, and is not merely two
\* unused halves.  The skip of full nodes in buddy_alloc and the early stop of
\* _mark_parent, of _combine and of its second loop rest on this.
Canonical ==
  pc = "idle" =>
    \A i \in live :
      /\ tree[i] = FULL => \A k \in Children(i) : tree[k] \in {USED, FULL}
      /\ tree[i] = SPLIT => /\ \E k \in Children(i) : tree[k] \in {UNUSED, SPLIT}
                            /\ \E k \in Children(i) : tree[k] # UNUSED

\* Where the search is on its way around the tree: a node is passed going down,
\* before its children, and going up, after them.
Round == 4 * Pages
Tour ==
  LET from == index_offset(index, level)
  IN IF pc = "search" THEN Round * from + (Pages - length)
                      ELSE Round * (from + length) - (2 * Pages - length)

\* Every loop makes progress, so every call ends: the two-way walk of buddy_alloc
\* never comes back to a place it has left, the climbs of _mark_parent and
\* _combine move towards the root, and the descents of buddy_free and buddy_size
\* halve the interval.
LoopsAdvance ==
  [][/\ pc \in {"search", "climb"} /\ pc' \in {"search", "climb"} => Tour' > Tour
     /\ pc \in {"mark", "combine", "unfull"} /\ pc' = pc => node' < node
     /\ pc \in {"free", "size"} /\ pc' = pc => length' < length]_vars

\* No call gets stuck: in every state of every loop one of its cases applies.
NeverStuck == pc \notin {"idle", "panic"} => ENABLED Continue

\* struct buddy declares tree[1 << 10] for the 1024 pages of a level-10 buddy
\* ("fixed buddy size: 4M"): the nodes the loops touch fit that array.
NodesFitArray ==
  pc \in {"search", "free", "size"} => index < Pow[Level]

-----------------------------------------------------------------------------
(* Implementation of BuddyAbs *)

AbsOp ==
  CASE pc \in {"search", "climb", "mark"} -> "alloc"
    [] pc \in {"free", "combine", "unfull"} -> "free"
    [] OTHER -> pc

AbsArg ==
  CASE AbsOp = "alloc" -> size
    [] AbsOp \in {"free", "size"} -> offset
    [] OTHER -> 0

A == INSTANCE BuddyAbs WITH op <- AbsOp, arg <- AbsArg

\* buddy_alloc, buddy_free and buddy_size do what BuddyAbs says: in particular
\* buddy_alloc returns -1 only when no aligned block of that size is free, and
\* buddy_free panics exactly on offsets that do not start a block in use.
ImplementsBuddyAbs == A!Spec

\* Every call of buddy_alloc, buddy_free and buddy_size ends: its loops advance
\* and never get stuck.
CallsEnd == LoopsAdvance /\ []NeverStuck

\* Inner tags are true between calls, and at every step a node is reachable
\* exactly when live says so.
TagsTrue == Canonical /\ LiveIsReachable
=============================================================================
