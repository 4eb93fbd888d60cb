---------------------------- MODULE BuddyProofs ----------------------------
(***************************************************************************)
(* Proofs about one buddy, for every level.                                *)
(***************************************************************************)
EXTENDS Buddy, TLAPS

-----------------------------------------------------------------------------
(* The geometry of the tree *)

AtLevel(i, l) == Pow[l] <= i + 1 /\ i + 1 < 2 * Pow[l]
Lev(i) == CHOOSE l \in 0..Level : AtLevel(i, l)
Len(i) == Pow[Level - Lev(i)]
Lo(i) == index_offset(i, Lev(i))
Block(i) == <<Lo(i), Len(i)>>

\* The powers of two are positive and grow.
LEMMA PowFacts ==
  /\ \A i \in 0..Level : Pow[i] \in Nat /\ Pow[i] >= 1 /\ Pow[i] <= Pages
  /\ \A i \in 1..Level : Pow[i] = 2 * Pow[i - 1]
<1>1. ASSUME NEW i \in 0..Level PROVE Pow[i] \in Nat /\ Pow[i] >= 1 /\ Pow[i] <= Pages
  <2>1. i > 0 => 2 * Pow[0] <= Pow[i]
    BY PowAssumption, LevelAssumption
  <2>2. i < Level => 2 * Pow[i] <= Pow[Level]
    BY PowAssumption, LevelAssumption
  <2>3. Pow[i] \in Nat /\ Pow[0] = 1 /\ Pow[Level] \in Nat
    BY PowAssumption, LevelAssumption
  <2> QED
    BY <2>1, <2>2, <2>3, LevelAssumption DEF Pages
<1>2. ASSUME NEW i \in 1..Level PROVE Pow[i] = 2 * Pow[i - 1]
  <2>1. i - 1 \in 0..Level /\ i - 1 < Level /\ (i - 1) + 1 = i
    BY LevelAssumption
  <2> QED
    BY <2>1, PowAssumption
<1> QED
  BY <1>1, <1>2

\* A node belongs to one level.
LEMMA LevUnique ==
  ASSUME NEW i \in Nat, NEW l \in 0..Level, AtLevel(i, l)
  PROVE  Lev(i) = l
<1>1. ASSUME NEW k \in 0..Level, AtLevel(i, k) PROVE k = l
  <2>1. k < l => 2 * Pow[k] <= Pow[l]
    BY PowAssumption
  <2>2. l < k => 2 * Pow[l] <= Pow[k]
    BY PowAssumption
  <2>3. Pow[k] \in Nat /\ Pow[l] \in Nat
    BY PowFacts
  <2> QED
    BY <1>1, <2>1, <2>2, <2>3, LevelAssumption DEF AtLevel
<1> QED
  BY <1>1 DEF Lev

\* The arithmetic of parents, children and buddies.
LEMMA Family ==
  /\ parent(0) = -1 /\ get_buddy_index(0) = -1
  /\ \A i \in Nat \ {0} :
       /\ parent(i) \in Nat /\ get_buddy_index(i) \in Nat \ {0}
       /\ Children(parent(i)) = {i, get_buddy_index(i)}
       /\ get_buddy_index(i) # i
       /\ IsOdd(i) => i = 2 * parent(i) + 1 /\ get_buddy_index(i) = i + 1
       /\ ~IsOdd(i) => i = 2 * parent(i) + 2
  /\ \A i \in Nat : \A j \in Children(i) : j \in Nat \ {0} /\ parent(j) = i
BY DEF parent, get_buddy_index, Children, IsOdd

\* The two halves of a node's block are the blocks of its children.
LEMMA Halves ==
  ASSUME NEW i \in Nat, NEW l \in 0..Level, AtLevel(i, l), l < Level
  PROVE  /\ AtLevel(2 * i + 1, l + 1) /\ AtLevel(2 * i + 2, l + 1)
         /\ Len(i) = 2 * Len(2 * i + 1)
         /\ Len(2 * i + 1) = Len(2 * i + 2)
         /\ Lo(2 * i + 1) = Lo(i)
         /\ Lo(2 * i + 2) = Lo(i) + Len(2 * i + 1)
<1> DEFINE p == Pow[l]
           q == Pow[Level - (l + 1)]
<1>1. l + 1 \in 0..Level /\ Level - (l + 1) \in 0..Level /\ Level - l \in 1..Level
      /\ (Level - l) - 1 = Level - (l + 1)
  BY LevelAssumption
<1>2. p \in Nat /\ q \in Nat
  BY <1>1, PowFacts
<1>3. Pow[l + 1] = 2 * p /\ Pow[Level - l] = 2 * q
  BY <1>1, PowFacts, PowAssumption
<1>4. AtLevel(2 * i + 1, l + 1) /\ AtLevel(2 * i + 2, l + 1)
  BY <1>2, <1>3 DEF AtLevel
<1>5. Lev(i) = l /\ Lev(2 * i + 1) = l + 1 /\ Lev(2 * i + 2) = l + 1
  BY <1>1, <1>4, LevUnique
<1>6. Lo(i) = ((i + 1) - p) * (2 * q)
  BY <1>3, <1>5 DEF Lo, index_offset
<1>7. Lo(2 * i + 1) = (((2 * i + 1) + 1) - 2 * p) * q
      /\ Lo(2 * i + 2) = (((2 * i + 2) + 1) - 2 * p) * q
  BY <1>3, <1>5 DEF Lo, index_offset
<1>8. Len(i) = 2 * q /\ Len(2 * i + 1) = q /\ Len(2 * i + 2) = q
  BY <1>3, <1>5 DEF Len
<1> HIDE DEF p, q
<1>9. ((i + 1) - p) * (2 * q) = (((2 * i + 1) + 1) - 2 * p) * q
  BY <1>2
<1>10. (((2 * i + 2) + 1) - 2 * p) * q = ((i + 1) - p) * (2 * q) + q
  BY <1>2
<1> QED
  BY <1>4, <1>6, <1>7, <1>8, <1>9, <1>10

-----------------------------------------------------------------------------
(* The inductive invariant *)

\* Where _combine is: the node it has reached counts as free.
Freeing(i) == pc = "combine" /\ i = node

Inner(i) == tree[i] \in {SPLIT, FULL} /\ ~Freeing(i)
Taken(i) == tree[i] = USED /\ ~Freeing(i)

\* Live nodes have a place in the area ...
LivePlaced ==
  \A i \in live : /\ \E l \in 0..Level : AtLevel(i, l)
                  /\ Lo(i) \in Nat
                  /\ Len(i) \in Nat /\ Len(i) >= 1
                  /\ Lo(i) + Len(i) <= Pages

\* ... the root is one, the others hang under live inner nodes ...
LiveUp ==
  /\ 0 \in live
  /\ \A i \in live : i # 0 => parent(i) \in live /\ Inner(parent(i))

\* ... whose children are all live.
LiveDown == \A i \in live : Inner(i) => Children(i) \subseteq live

\* The live nodes that are not inner nodes share no page.
LeafDisjoint ==
  \A i, j \in live : ~Inner(i) /\ ~Inner(j) /\ i # j => Disjoint(Block(i), Block(j))

\* Where the loops are.
Position ==
  /\ pc \in {"search", "climb", "mark"} => index \in live
  /\ pc = "mark" => Taken(index) /\ size = length /\ node \in live
  /\ pc = "free" \/ pc = "size" =>
       index \in live /\ left = Lo(index) /\ length = Len(index)
  /\ pc = "combine" => node \in live

\* The block that buddy_free is giving back is out of the way of the others.
Returning ==
  pc \in {"combine", "unfull"} =>
    /\ \A i \in live : Taken(i) => Disjoint(Block(i), <<offset, length>>)
    /\ offset + length <= Pages

\* What a caller holds is a used node, or the block being given back.
OwnedTaken ==
  \A b \in owned :
    \/ \E i \in live : Taken(i) /\ b = Block(i) /\ (pc = "mark" => i # index)
    \/ pc \in {"combine", "unfull"} /\ b = <<offset, length>>

Inv ==
  /\ TypeOK
  /\ SearchInStep
  /\ LivePlaced
  /\ LiveUp
  /\ LiveDown
  /\ LeafDisjoint
  /\ Position
  /\ Returning
  /\ OwnedTaken

\* The root covers the whole area.
LEMMA Root == AtLevel(0, 0) /\ Lev(0) = 0 /\ Lo(0) = 0 /\ Len(0) = Pages
<1>1. AtLevel(0, 0)
  BY PowAssumption DEF AtLevel
<1>2. Lev(0) = 0
  BY <1>1, LevUnique, LevelAssumption
<1>3. Level - 0 = Level
  BY LevelAssumption
<1>4. Pow[0] = 1 /\ Pow[Level] \in Nat
  BY PowAssumption, LevelAssumption
<1> QED
  BY <1>1, <1>2, <1>3, <1>4 DEF Lo, Len, index_offset, Pages

\* buddy_init establishes the invariant.
LEMMA InitInv == Init => Inv
<1> SUFFICES ASSUME Init PROVE Inv
  OBVIOUS
<1>0. Pages \in Nat /\ Pages >= 1
  BY PowFacts, LevelAssumption DEF Pages
<1>1. TypeOK
  <2>1. 0 \in Nodes
    BY <1>0 DEF Nodes
  <2>2. 1 \in Sizes
    BY PowAssumption, LevelAssumption DEF Sizes
  <2> QED
    BY <1>0, <2>1, <2>2, LevelAssumption DEF Init, TypeOK, PCs
<1>2. LivePlaced
  BY <1>0, Root, LevelAssumption DEF Init, LivePlaced
<1>3. LiveUp /\ LiveDown /\ LeafDisjoint
  <2>1. ~Inner(0)
    BY <1>0 DEF Init, Inner, SPLIT, FULL, UNUSED, Nodes
  <2> QED
    BY <2>1 DEF Init, LiveUp, LiveDown, LeafDisjoint
<1>4. SearchInStep /\ Position /\ Returning /\ OwnedTaken
  BY DEF Init, SearchInStep, Position, Returning, OwnedTaken
<1> QED
  BY <1>1, <1>2, <1>3, <1>4 DEF Inv

-----------------------------------------------------------------------------
(* Facts used by several steps *)

\* A power of two below another one is at most half of it.
LEMMA SizeHalf ==
  ASSUME NEW n \in Sizes, NEW l \in 0..Level, n <= Pow[Level - l], n # Pow[Level - l]
  PROVE  l < Level /\ 2 * n <= Pow[Level - l] /\ n <= Pow[Level - (l + 1)]
<1>1. PICK a \in 0..Level : n = Pow[a]
  BY DEF Sizes
<1>2. Level - l \in 0..Level
  BY LevelAssumption
<1>3. Pow[a] \in Nat /\ Pow[a] >= 1 /\ Pow[Level - l] \in Nat /\ Pow[Level - l] >= 1
  BY <1>2, PowFacts
<1>4. ~(Level - l < a)
  <2>1. Level - l < a => 2 * Pow[Level - l] <= Pow[a]
    BY <1>2, PowAssumption
  <2> QED
    BY <1>1, <1>3, <2>1
<1>5. a < Level - l
  BY <1>1, <1>2, <1>4, LevelAssumption
<1>6. 2 * Pow[a] <= Pow[Level - l]
  BY <1>2, <1>5, PowAssumption
<1>7. l < Level
  BY <1>5, LevelAssumption
<1>8. Level - l \in 1..Level /\ (Level - l) - 1 = Level - (l + 1)
      /\ Level - (l + 1) \in 0..Level
  BY <1>7, LevelAssumption
<1>9. Pow[Level - l] = 2 * Pow[Level - (l + 1)] /\ Pow[Level - (l + 1)] \in Nat
  BY <1>8, PowFacts
<1> QED
  BY <1>1, <1>3, <1>6, <1>7, <1>9

\* A node on a level is a node of the tree.
LEMMA LevelNode ==
  ASSUME NEW i \in Nat, NEW l \in 0..Level, AtLevel(i, l)
  PROVE  i \in Nodes
<1>1. Pow[l] \in Nat /\ Pow[l] <= Pages
  BY PowFacts
<1>2. Pages \in Nat
  BY PowFacts, LevelAssumption DEF Pages
<1> QED
  BY <1>1, <1>2 DEF AtLevel, Nodes

\* In buddy_alloc, level and length are those of the node index.
LEMMA SearchPlace ==
  ASSUME Inv, pc \in {"search", "climb", "mark"}
  PROVE  /\ index \in Nat /\ level \in 0..Level /\ AtLevel(index, level)
         /\ Lev(index) = level /\ length = Len(index)
         /\ Lo(index) = index_offset(index, level)
         /\ length \in Nat
<1>1. index \in Nat /\ level \in 0..Level
  BY DEF Inv, TypeOK, Nodes
<1>2. AtLevel(index, level) /\ length = Pow[Level - level]
  BY DEF Inv, SearchInStep, AtLevel
<1>3. Lev(index) = level
  BY <1>1, <1>2, LevUnique
<1> QED
  BY <1>1, <1>2, <1>3 DEF Lo, Len, Inv, TypeOK

\* The live nodes do not change with the locals.
LEMMA LiveFrame ==
  ASSUME Inv, tree' = tree, live' = live, pc # "combine", pc' # "combine"
  PROVE  /\ LivePlaced' /\ LiveUp' /\ LiveDown' /\ LeafDisjoint'
         /\ \A i : Inner(i)' = Inner(i) /\ Taken(i)' = Taken(i)
<1>1. \A i : Inner(i)' = Inner(i) /\ Taken(i)' = Taken(i)
  BY DEF Inner, Taken, Freeing
<1>2. LivePlaced'
  BY DEF Inv, LivePlaced
<1>3. LiveUp' /\ LiveDown' /\ LeafDisjoint'
  BY <1>1 DEF Inv, LiveUp, LiveDown, LeafDisjoint
<1> QED
  BY <1>1, <1>2, <1>3

\* The tag values are different.
LEMMA Tags == UNUSED = 0 /\ USED = 1 /\ SPLIT = 2 /\ FULL = 3
BY DEF UNUSED, USED, SPLIT, FULL

-----------------------------------------------------------------------------
(* buddy_alloc preserves the invariant *)

\* The entry of buddy_alloc.
LEMMA AllocCallInv == ASSUME Inv, NEW n \in Sizes, AllocCall(n) PROVE Inv'
<1> USE DEF AllocCall, Start
<1>0. Pages \in Nat /\ 0 \in Nodes /\ 0 \in 0..Level
  BY PowFacts, LevelAssumption DEF Pages, Nodes
<1>1. TypeOK'
  BY <1>0 DEF Inv, TypeOK, PCs
<1>2. SearchInStep'
  <2>1. n <= Pages
    BY PowFacts DEF Sizes
  <2>2. Pow[Level - 0] = Pages
    BY LevelAssumption DEF Pages
  <2> QED
    BY <2>1, <2>2, Root DEF SearchInStep, AtLevel
<1>3. LivePlaced' /\ LiveUp' /\ LiveDown' /\ LeafDisjoint'
      /\ \A i : Inner(i)' = Inner(i) /\ Taken(i)' = Taken(i)
  BY LiveFrame
<1>4. Position' /\ Returning' /\ OwnedTaken'
  BY <1>3 DEF Inv, Position, Returning, OwnedTaken, LiveUp
<1> QED
  BY <1>1, <1>2, <1>3, <1>4 DEF Inv

\* The request is larger than the buddy.
LEMMA AllocTooLargeInv == ASSUME Inv, AllocTooLarge PROVE Inv'
<1> USE DEF AllocTooLarge, locals
<1>1. TypeOK'
  <2>1. -2 \in -2..Pages
    BY PowFacts, LevelAssumption DEF Pages
  <2> QED
    BY <2>1 DEF Inv, TypeOK
<1>2. LivePlaced' /\ LiveUp' /\ LiveDown' /\ LeafDisjoint'
      /\ \A i : Inner(i)' = Inner(i) /\ Taken(i)' = Taken(i)
  BY LiveFrame
<1>3. SearchInStep' /\ Position' /\ Returning' /\ OwnedTaken'
  BY <1>2 DEF Inv, SearchInStep, Position, Returning, OwnedTaken
<1> QED
  BY <1>1, <1>2, <1>3 DEF Inv

\* Taking an unused node: the new block was nobody's.
LEMMA SearchTakeInv == ASSUME Inv, SearchTake PROVE Inv'
<1> USE DEF SearchTake
<1>0. index \in Nodes /\ index \in live /\ live \subseteq Nodes
  BY DEF Inv, TypeOK, Position
<1>1. TypeOK'
  BY Tags DEF Inv, TypeOK, PCs
<1>2. \A i \in Nodes : tree'[i] = IF i = index THEN USED ELSE tree[i]
  BY DEF Inv, TypeOK
<1>3. \A i \in live : /\ Inner(i)' <=> Inner(i)
                      /\ Taken(i)' <=> Taken(i) \/ i = index
  BY <1>0, <1>2, Tags DEF Inner, Taken, Freeing
<1>4. LivePlaced'
  BY DEF Inv, LivePlaced
<1>5. LiveUp' /\ LiveDown' /\ LeafDisjoint'
  BY <1>3 DEF Inv, LiveUp, LiveDown, LeafDisjoint
<1>6. SearchInStep' /\ Position' /\ Returning'
  BY <1>0, <1>3 DEF Inv, SearchInStep, Position, Returning
<1>7. OwnedTaken'
  <2>1. ~Taken(index)
    BY Tags DEF Taken
  <2> QED
    BY <1>3, <2>1 DEF Inv, OwnedTaken
<1> QED
  BY <1>1, <1>4, <1>5, <1>6, <1>7 DEF Inv

\* Going down to the left child of a live inner node of buddy_alloc's walk.
LEMMA DescendStep ==
  ASSUME Inv, Descend, index \in live
  PROVE  /\ AtLevel(index, level) /\ level < Level /\ level \in 0..Level
         /\ index' \in Nodes /\ level' \in 0..Level /\ length' \in Nat
         /\ 2 * index + 2 \in Nodes
         /\ SearchInStep'
<1> USE DEF Descend
<1>1. index \in Nat /\ level \in 0..Level /\ AtLevel(index, level)
  BY SearchPlace
<1>2. size \in Sizes /\ size <= Pow[Level - level] /\ length = Pow[Level - level]
  BY DEF Inv, TypeOK, SearchInStep
<1>3. level < Level /\ size <= Pow[Level - (level + 1)]
  BY <1>1, <1>2, SizeHalf
<1>4. level + 1 \in 0..Level
  BY <1>1, <1>3, LevelAssumption
<1>5. AtLevel(2 * index + 1, level + 1) /\ AtLevel(2 * index + 2, level + 1)
  BY <1>1, <1>3, Halves
<1>6. index' \in Nodes /\ 2 * index + 2 \in Nodes
  BY <1>1, <1>4, <1>5, LevelNode
<1>7. length' = Pow[Level - (level + 1)] /\ length' \in Nat
  <2>1. Level - level \in 1..Level /\ (Level - level) - 1 = Level - (level + 1)
        /\ Level - (level + 1) \in 0..Level
    BY <1>1, <1>3, LevelAssumption
  <2>2. Pow[Level - level] = 2 * Pow[Level - (level + 1)]
        /\ Pow[Level - (level + 1)] \in Nat
    BY <2>1, PowFacts
  <2> QED
    BY <1>2, <2>2
<1>8. SearchInStep'
  BY <1>3, <1>5, <1>7 DEF SearchInStep, AtLevel
<1> QED
  BY <1>1, <1>3, <1>4, <1>6, <1>7, <1>8

\* Going down from a node that is split already.
LEMMA SearchDownInv == ASSUME Inv, SearchDown PROVE Inv'
<1> USE DEF SearchDown
<1>0. pc = "search" /\ pc' = pc /\ index' = 2 * index + 1
      /\ UNCHANGED <<size, offset, left, node, ret, owned>>
  BY DEF Descend
<1>1. index \in live /\ Inner(index)
  BY <1>0, Tags DEF Inv, Position, Inner, Freeing
<1>2. index' \in live
  BY <1>0, <1>1 DEF Inv, LiveDown, Children
<1>3. TypeOK' /\ SearchInStep'
  BY <1>0, <1>1, DescendStep DEF Inv, TypeOK
<1>4. LivePlaced' /\ LiveUp' /\ LiveDown' /\ LeafDisjoint'
      /\ \A i : Inner(i)' = Inner(i) /\ Taken(i)' = Taken(i)
  BY <1>0, LiveFrame
<1>5. Position' /\ Returning' /\ OwnedTaken'
  BY <1>0, <1>2, <1>4 DEF Inv, Position, Returning, OwnedTaken
<1> QED
  BY <1>3, <1>4, <1>5 DEF Inv

\* Splitting an unused node: the halves replace it, and share no page with what
\* it shared no page with.
LEMMA SearchSplitInv == ASSUME Inv, SearchSplit PROVE Inv'
<1> USE DEF SearchSplit
<1>k. PICK k \in Nat, a \in Nat, b \in Nat : k = index /\ a = 2 * k + 1 /\ b = 2 * k + 2
  BY <1>k DEF Inv, TypeOK, Nodes
<1>0. pc = "search" /\ pc' = pc /\ index' = a
      /\ UNCHANGED <<size, offset, left, node, ret, owned>>
  BY <1>k DEF Descend
<1>1. k \in live /\ k \in Nodes /\ live \subseteq Nodes
  BY <1>0, <1>k DEF Inv, Position, TypeOK, Nodes
<1>2. /\ AtLevel(k, level) /\ level < Level /\ level \in 0..Level
      /\ a \in Nodes /\ b \in Nodes /\ SearchInStep'
      /\ level' \in 0..Level /\ length' \in Nat
  BY <1>0, <1>1, <1>k, DescendStep
<1>3. TypeOK'
  BY <1>0, <1>2, <1>k, Tags DEF Inv, TypeOK, Children
<1>4. /\ AtLevel(a, level + 1) /\ AtLevel(b, level + 1) /\ level + 1 \in 0..Level
      /\ Len(k) = 2 * Len(a) /\ Len(a) = Len(b)
      /\ Lo(a) = Lo(k) /\ Lo(b) = Lo(k) + Len(a)
  BY <1>k, <1>1, <1>2, Halves, LevelAssumption
<1>5. /\ Lo(k) \in Nat /\ Len(k) \in Nat /\ Len(k) >= 1
      /\ Lo(k) + Len(k) <= Pages /\ Pages \in Nat
  BY <1>k, <1>1, PowFacts, LevelAssumption DEF Inv, LivePlaced, Pages
<1>6. Len(a) \in Nat
  <2>1. Lev(a) = level + 1
    BY <1>k, <1>1, <1>4, LevUnique
  <2>2. Level - (level + 1) \in 0..Level
    BY <1>k, <1>2, LevelAssumption
  <2> QED
    BY <2>1, <2>2, PowFacts DEF Len
<1>7. a \notin live /\ b \notin live /\ a # b /\ k \notin {a, b}
  <2>1. ~Inner(k)
    BY <1>0, <1>k, Tags DEF Inner
  <2>2. parent(a) = k /\ parent(b) = k /\ a # 0 /\ b # 0
    BY <1>k, <1>1, Family DEF Children
  <2> QED
    BY <1>k, <1>1, <2>1, <2>2 DEF Inv, LiveUp
<1>8. live' = live \cup {a, b}
  BY <1>k DEF Children
<1>9. \A i \in Nodes : tree'[i] = IF i = k THEN SPLIT
                                  ELSE IF i \in {a, b} THEN UNUSED ELSE tree[i]
  BY <1>1, <1>2, <1>7, <1>k DEF Inv, TypeOK
<1>10. /\ \A i \in live : i # k => (Inner(i)' <=> Inner(i)) /\ (Taken(i)' <=> Taken(i))
       /\ Inner(k)' /\ ~Inner(k) /\ ~Taken(k) /\ ~Taken(k)'
       /\ ~Inner(a)' /\ ~Inner(b)' /\ ~Taken(a)' /\ ~Taken(b)'
  <2>1. \A i : ~Freeing(i) /\ ~Freeing(i)'
    BY <1>0 DEF Freeing
  <2>2. k \in Nodes /\ tree[k] = UNUSED /\ tree'[k] = SPLIT
    BY <1>1, <1>9, <1>k
  <2>3. tree'[a] = UNUSED /\ tree'[b] = UNUSED
    BY <1>2, <1>7, <1>9
  <2>4. \A i \in live : i # k => tree'[i] = tree[i]
    BY <1>1, <1>7, <1>9
  <2>5. \A i \in live : i # k => (Inner(i)' <=> Inner(i)) /\ (Taken(i)' <=> Taken(i))
    BY <2>1, <2>4 DEF Inner, Taken
  <2>6. Inner(k)' /\ ~Inner(k) /\ ~Taken(k) /\ ~Taken(k)'
    BY <2>1, <2>2, Tags DEF Inner, Taken
  <2>7. ~Inner(a)' /\ ~Inner(b)' /\ ~Taken(a)' /\ ~Taken(b)'
    BY <2>1, <2>3, Tags DEF Inner, Taken
  <2> QED
    BY <2>5, <2>6, <2>7
<1>11. LivePlaced'
  <2>1. \A i \in live' : /\ \E l \in 0..Level : AtLevel(i, l)
                         /\ Lo(i) \in Nat /\ Len(i) \in Nat /\ Len(i) >= 1
                         /\ Lo(i) + Len(i) <= Pages
    BY <1>k, <1>4, <1>5, <1>6, <1>8 DEF Inv, LivePlaced
  <2> QED
    BY <2>1 DEF LivePlaced
<1>12. LiveUp'
  <2>1. parent(a) = k /\ parent(b) = k
    BY <1>k, <1>1, Family DEF Children
  <2> QED
    BY <1>k, <1>1, <1>8, <1>10, <2>1 DEF Inv, LiveUp
<1>13. LiveDown'
  <2>1. Children(k) = {a, b}
    BY <1>k DEF Children
  <2> QED
    BY <1>k, <1>8, <1>10, <2>1 DEF Inv, LiveDown
<1>14. LeafDisjoint'
  <2>1. ASSUME NEW i \in live, ~Inner(i), i # k
        PROVE  Disjoint(Block(i), Block(a)) /\ Disjoint(Block(i), Block(b))
    <3>1. Disjoint(Block(i), Block(k))
      BY <1>k, <1>1, <1>10, <2>1 DEF Inv, LeafDisjoint
    <3>2. Lo(i) \in Nat /\ Len(i) \in Nat
      BY <1>k DEF Inv, LivePlaced
    <3> QED
      BY <1>k, <1>4, <1>5, <1>6, <3>1, <3>2 DEF Disjoint, Block
  <2>2. Disjoint(Block(a), Block(b))
    BY <1>k, <1>4, <1>5, <1>6 DEF Disjoint, Block
  <2>3. ASSUME NEW i, NEW j PROVE Disjoint(Block(i), Block(j)) <=> Disjoint(Block(j), Block(i))
    BY DEF Disjoint
  <2> QED
    BY <1>k, <1>8, <1>10, <2>1, <2>2, <2>3 DEF Inv, LeafDisjoint
<1>15. Position' /\ Returning'
  BY <1>k, <1>0, <1>8 DEF Position, Returning
<1>16. OwnedTaken'
  BY <1>k, <1>0, <1>8, <1>10 DEF Inv, OwnedTaken
<1> QED
  BY <1>k, <1>2, <1>3, <1>11, <1>12, <1>13, <1>14, <1>15, <1>16 DEF Inv

\* Turning to the buddy, or going back up.
LEMMA SearchSkipInv == ASSUME Inv, SearchSkip PROVE Inv'
<1> USE DEF SearchSkip
<1>0. pc = "search" /\ pc' \in {"search", "climb"} /\ index \in live /\ index \in Nat
      /\ UNCHANGED <<tree, size, offset, level, length, left, node, ret, owned, live>>
  BY DEF Inv, Position, TypeOK, Nodes
<1>1. LivePlaced' /\ LiveUp' /\ LiveDown' /\ LeafDisjoint'
      /\ \A i : Inner(i)' = Inner(i) /\ Taken(i)' = Taken(i)
  BY <1>0, LiveFrame
<1>2. /\ index' \in live /\ index' \in Nat
      /\ IsOdd(index) => index' = index + 1 /\ pc' = "search"
      /\ ~IsOdd(index) => index' = index /\ pc' = "climb"
  <2>1. IsOdd(index) => index # 0
    BY DEF IsOdd
  <2>2. IsOdd(index) => index + 1 \in Children(parent(index))
    BY <1>0, <2>1, Family
  <2>3. IsOdd(index) => index + 1 \in live
    BY <1>0, <2>1, <2>2 DEF Inv, LiveUp, LiveDown
  <2>4. CASE IsOdd(index)
    BY <1>0, <2>3, <2>4
  <2>5. CASE ~IsOdd(index)
    BY <1>0, <2>5
  <2> QED
    BY <2>4, <2>5
<1>3. SearchInStep'
  <2>1. AtLevel(index, level) /\ Pow[level] \in Nat /\ level \in 0..Level
    BY <1>0, SearchPlace, PowFacts
  <2>2. level = 0 => index = 0
    BY <1>0, <2>1, PowAssumption DEF AtLevel
  <2>3. level > 0 => Pow[level] = 2 * Pow[level - 1] /\ Pow[level - 1] \in Nat
    BY <2>1, PowFacts, LevelAssumption
  <2>4. AtLevel(index', level)
    BY <1>0, <1>2, <2>1, <2>2, <2>3 DEF AtLevel, IsOdd
  <2> QED
    BY <1>0, <2>4 DEF Inv, SearchInStep, AtLevel
<1>4. TypeOK'
  BY <1>0, <1>2 DEF Inv, TypeOK, PCs
<1>5. Position' /\ Returning' /\ OwnedTaken'
  BY <1>0, <1>1, <1>2 DEF Inv, Position, Returning, OwnedTaken
<1> QED
  BY <1>1, <1>3, <1>4, <1>5 DEF Inv

\* A call that returns leaves locals of the right types.
LEMMA ForgetType ==
  ASSUME Forget
  PROVE  /\ size' \in Sizes /\ offset' \in 0..Pages
         /\ index' \in Nodes /\ level' \in 0..Level /\ length' \in Nat /\ left' \in Nat
         /\ node' \in Nodes \cup {-1}
<1>1. Pages \in Nat /\ Pages >= 1 /\ 0 \in Nodes
  BY PowFacts, LevelAssumption DEF Pages, Nodes
<1>2. 1 \in Sizes
  BY PowAssumption, LevelAssumption DEF Sizes
<1> QED
  BY <1>1, <1>2, LevelAssumption DEF Forget

\* The search ends above the root: the request fails and nothing has changed.
LEMMA ClimbOutInv == ASSUME Inv, ClimbOut PROVE Inv'
<1> USE DEF ClimbOut
<1>1. TypeOK'
  <2>1. -1 \in -2..Pages
    BY PowFacts, LevelAssumption DEF Pages
  <2> QED
    BY <2>1, ForgetType DEF Inv, TypeOK, PCs
<1>2. LivePlaced' /\ LiveUp' /\ LiveDown' /\ LeafDisjoint'
      /\ \A i : Inner(i)' = Inner(i) /\ Taken(i)' = Taken(i)
  BY LiveFrame
<1>3. SearchInStep' /\ Position' /\ Returning'
  BY DEF SearchInStep, Position, Returning
<1>4. OwnedTaken'
  BY <1>2 DEF Inv, OwnedTaken
<1> QED
  BY <1>1, <1>2, <1>3, <1>4 DEF Inv

\* One step up, and over to the buddy of a left child.
LEMMA ClimbInv == ASSUME Inv, Climb PROVE Inv'
<1> USE DEF Climb
<1> DEFINE p == parent(index)
<1>0. pc = "climb" /\ pc' \in {"search", "climb"} /\ index \in live
      /\ UNCHANGED <<tree, size, offset, left, node, ret, owned, live>>
      /\ level' = level - 1 /\ length' = length * 2
  BY DEF Inv, Position
<1>1. LivePlaced' /\ LiveUp' /\ LiveDown' /\ LeafDisjoint'
      /\ \A i : Inner(i)' = Inner(i) /\ Taken(i)' = Taken(i)
  BY <1>0, LiveFrame
<1>2. index \in Nat /\ index # 0 /\ level \in 0..Level /\ AtLevel(index, level)
      /\ length = Pow[Level - level]
  BY <1>0, SearchPlace, Family DEF Inv, SearchInStep
<1>3. p \in live /\ p \in Nat /\ (index = 2 * p + 1 \/ index = 2 * p + 2)
  BY <1>0, <1>2, Family DEF Inv, LiveUp
<1>4. level >= 1 /\ Pow[level] = 2 * Pow[level - 1] /\ Pow[level - 1] \in Nat
      /\ level - 1 \in 0..Level
  <2>1. level # 0
    BY <1>2, PowAssumption DEF AtLevel
  <2> QED
    BY <1>2, <2>1, PowFacts, LevelAssumption
<1>5. AtLevel(p, level - 1)
  BY <1>2, <1>3, <1>4 DEF AtLevel
<1>6. length' = Pow[Level - (level - 1)] /\ length' \in Nat /\ length <= length'
  <2>1. Level - (level - 1) \in 1..Level /\ (Level - (level - 1)) - 1 = Level - level
        /\ Level - level \in 0..Level
    BY <1>2, <1>4, LevelAssumption
  <2>2. Pow[Level - (level - 1)] = 2 * Pow[Level - level] /\ Pow[Level - level] \in Nat
    BY <2>1, PowFacts
  <2> QED
    BY <1>0, <1>2, <2>2
<1>7. size <= length'
  <2>1. size <= length /\ size \in Nat /\ length \in Nat
    BY <1>0, PowFacts DEF Inv, SearchInStep, TypeOK, Sizes
  <2> QED
    BY <1>6, <2>1
<1> HIDE DEF p
<1>8. index' \in live /\ index' \in Nat /\ AtLevel(index', level - 1)
  <2>1. CASE ~IsOdd(p)
    BY <1>3, <1>5, <2>1 DEF p
  <2>2. CASE IsOdd(p)
    <3>1. p # 0 /\ index' = p + 1
      BY <2>2 DEF p, IsOdd
    <3>2. p + 1 \in Children(parent(p)) /\ p = 2 * parent(p) + 1 /\ parent(p) \in Nat
      BY <1>3, <2>2, <3>1, Family
    <3>3. p + 1 \in live
      BY <1>3, <3>1, <3>2 DEF Inv, LiveUp, LiveDown
    <3>4. level - 1 # 0
      BY <1>3, <1>5, <3>1, PowAssumption DEF AtLevel
    <3>5. Pow[level - 1] = 2 * Pow[(level - 1) - 1] /\ Pow[(level - 1) - 1] \in Nat
      <4>1. level - 1 \in 1..Level /\ (level - 1) - 1 \in 0..Level
        BY <1>2, <1>4, <3>4, LevelAssumption
      <4> QED
        BY <4>1, PowFacts
    <3>6. AtLevel(p + 1, level - 1)
      BY <1>3, <1>5, <3>2, <3>5 DEF AtLevel
    <3> QED
      BY <1>3, <3>1, <3>3, <3>6
  <2> QED
    BY <2>1, <2>2
<1>9. SearchInStep'
  BY <1>0, <1>6, <1>7, <1>8 DEF SearchInStep, AtLevel
<1>10. TypeOK'
  BY <1>0, <1>4, <1>6, <1>8 DEF Inv, TypeOK, PCs
<1>11. Position' /\ Returning' /\ OwnedTaken'
  BY <1>0, <1>1, <1>8 DEF Inv, Position, Returning, OwnedTaken
<1> QED
  BY <1>1, <1>9, <1>10, <1>11 DEF Inv

\* _mark_parent only turns inner nodes into full ones.
LEMMA MarkParentInv == ASSUME Inv, MarkParent PROVE Inv'
<1> USE DEF MarkParent
<1>0. pc = "mark" /\ pc' = "mark" /\ node \in live /\ node \in Nat /\ live \subseteq Nodes
  BY DEF Inv, Position, TypeOK, Nodes
<1>k. PICK k : k = parent(node)
  OBVIOUS
<1>1. k \in live /\ k \in Nodes /\ Inner(k)
  <2>1. node # 0
    BY Family DEF BuddyTaken
  <2> QED
    BY <1>0, <1>k, <2>1 DEF Inv, LiveUp
<1>2. TypeOK'
  BY <1>0, <1>1, <1>k, Tags DEF Inv, TypeOK
<1>3. \A i \in live : tree'[i] = IF i = k THEN FULL ELSE tree[i]
  BY <1>0, <1>k DEF Inv, TypeOK
<1>4. \A i \in live : (Inner(i)' <=> Inner(i)) /\ (Taken(i)' <=> Taken(i))
  <2>1. \A i : ~Freeing(i) /\ ~Freeing(i)'
    BY <1>0 DEF Freeing
  <2>2. tree[k] \in {SPLIT, FULL}
    BY <1>1 DEF Inner
  <2> QED
    BY <1>3, <2>1, <2>2, Tags DEF Inner, Taken
<1>5. LivePlaced'
  BY DEF Inv, LivePlaced
<1>6. LiveUp' /\ LiveDown' /\ LeafDisjoint'
  BY <1>4 DEF Inv, LiveUp, LiveDown, LeafDisjoint
<1>7. SearchInStep' /\ Returning' /\ OwnedTaken'
  BY <1>0, <1>4 DEF Inv, SearchInStep, Returning, OwnedTaken
<1>8. Position'
  BY <1>0, <1>1, <1>k, <1>4 DEF Inv, Position
<1> QED
  BY <1>2, <1>5, <1>6, <1>7, <1>8 DEF Inv

\* buddy_alloc returns: the offset is where the node's block begins.
LEMMA AllocReturnInv == ASSUME Inv, AllocReturn PROVE Inv'
<1> USE DEF AllocReturn
<1>0. pc = "mark" /\ pc' = "idle" /\ index \in live /\ Taken(index) /\ size = length
      /\ tree' = tree /\ live' = live
  BY DEF Inv, Position
<1>k. PICK k : k = index
  OBVIOUS
<1>1. index_offset(index, level) = Lo(k) /\ size = Len(k)
  BY <1>0, <1>k, SearchPlace
<1>2. owned' = owned \cup {Block(k)} /\ ret' = Lo(k)
  BY <1>1 DEF Block
<1>3. Lo(k) \in 0..Pages
  BY <1>0, <1>k, PowFacts, LevelAssumption DEF Inv, LivePlaced, Pages
<1>4. TypeOK'
  BY <1>0, <1>1, <1>2, <1>3, ForgetType DEF Inv, TypeOK, PCs, Block
<1>5. LivePlaced' /\ LiveUp' /\ LiveDown' /\ LeafDisjoint'
      /\ \A i : Inner(i)' = Inner(i) /\ Taken(i)' = Taken(i)
  BY <1>0, LiveFrame
<1>6. SearchInStep' /\ Position' /\ Returning'
  BY <1>0 DEF SearchInStep, Position, Returning
<1>7. OwnedTaken'
  BY <1>0, <1>2, <1>5, <1>k DEF Inv, OwnedTaken
<1> QED
  BY <1>4, <1>5, <1>6, <1>7 DEF Inv

-----------------------------------------------------------------------------
(* buddy_free and buddy_size preserve the invariant *)

\* The entry of buddy_free and of buddy_size.
LEMMA WalkCallInv ==
  ASSUME Inv, NEW o \in 0..Pages, FreeCall(o) \/ SizeCall(o)
  PROVE  Inv'
<1> USE DEF FreeCall, SizeCall, Start
<1>1. TypeOK'
  <2>1. Pages \in Nat /\ 0 \in Nodes
    BY PowFacts, LevelAssumption DEF Pages, Nodes
  <2> QED
    BY <2>1 DEF Inv, TypeOK, PCs
<1>2. LivePlaced' /\ LiveUp' /\ LiveDown' /\ LeafDisjoint'
      /\ \A i : Inner(i)' = Inner(i) /\ Taken(i)' = Taken(i)
  BY LiveFrame
<1>3. SearchInStep' /\ Returning'
  BY DEF SearchInStep, Returning
<1>4. Position'
  BY Root DEF Inv, Position, LiveUp
<1>5. OwnedTaken'
  BY <1>2 DEF Inv, OwnedTaken
<1> QED
  BY <1>1, <1>2, <1>3, <1>4, <1>5 DEF Inv

\* The panics of buddy_free.
LEMMA FreePanicInv == ASSUME Inv, FreeRange \/ FreeWrong PROVE Inv'
<1> USE DEF FreeRange, FreeWrong, locals
<1>1. TypeOK'
  BY DEF Inv, TypeOK, PCs
<1>2. LivePlaced' /\ LiveUp' /\ LiveDown' /\ LeafDisjoint'
      /\ \A i : Inner(i)' = Inner(i) /\ Taken(i)' = Taken(i)
  BY LiveFrame
<1>3. SearchInStep' /\ Returning' /\ Position'
  BY DEF SearchInStep, Returning, Position
<1>4. OwnedTaken'
  BY <1>2 DEF Inv, OwnedTaken
<1> QED
  BY <1>1, <1>2, <1>3, <1>4 DEF Inv

\* Going down to the half that contains the offset.
LEMMA WalkInv == ASSUME Inv, Walk("free") \/ Walk("size") PROVE Inv'
<1> USE DEF Walk
<1>0. /\ pc \in {"free", "size"} /\ pc' = pc /\ tree' = tree /\ live' = live
      /\ index \in live /\ left = Lo(index) /\ length = Len(index)
      /\ UNCHANGED <<size, offset, level, node, ret, owned>>
      /\ tree[index] \in {SPLIT, FULL}
      /\ live \subseteq Nodes /\ index \in Nat
  BY DEF Inv, Position, TypeOK, Nodes
<1>k. PICK k \in Nat : k = index
  BY <1>0
<1>1. 2 * k + 1 \in live /\ 2 * k + 2 \in live
  <2>1. Inner(k)
    BY <1>0, <1>k DEF Inner, Freeing
  <2> QED
    BY <1>0, <1>k, <2>1 DEF Inv, LiveDown, Children
<1>2. /\ Len(k) = 2 * Len(2 * k + 1) /\ Len(2 * k + 2) = Len(2 * k + 1)
      /\ Lo(2 * k + 1) = Lo(k) /\ Lo(2 * k + 2) = Lo(k) + Len(2 * k + 1)
  <2>1. PICK l \in 0..Level : AtLevel(k, l)
    BY <1>0, <1>k DEF Inv, LivePlaced
  <2>3. l < Level
    <3>1. 2 * k + 1 \in Nodes
      BY <1>0, <1>1
    <3>2. 2 * k + 1 <= 2 * Pages - 2
      BY <3>1, PowFacts, LevelAssumption DEF Nodes, Pages
    <3>3. l = Level => Pages <= k + 1
      BY <2>1 DEF AtLevel, Pages
    <3> QED
      BY <3>2, <3>3, PowFacts, LevelAssumption DEF Pages
  <2> QED
    BY <2>1, <2>3, Halves
<1>3. Len(2 * k + 1) \in Nat /\ Lo(k) \in Nat
  BY <1>0, <1>1, <1>k DEF Inv, LivePlaced
<1>4. length \div 2 = Len(2 * k + 1)
  BY <1>0, <1>2, <1>3, <1>k
<1>5. index' \in live /\ left' = Lo(index') /\ length' = Len(index') /\ left' \in Nat
  <2>1. CASE offset < left + (length \div 2)
    <3>1. index' = 2 * k + 1 /\ left' = left /\ length' = length \div 2
      BY <1>k, <2>1
    <3> QED
      BY <1>0, <1>1, <1>2, <1>3, <1>4, <1>k, <3>1
  <2>2. CASE ~(offset < left + (length \div 2))
    <3>1. index' = 2 * k + 2 /\ left' = left + (length \div 2) /\ length' = length \div 2
      BY <1>k, <2>2
    <3> QED
      BY <1>0, <1>1, <1>2, <1>3, <1>4, <1>k, <3>1
  <2> QED
    BY <2>1, <2>2
<1>6. TypeOK'
  <2>1. length' \in Nat
    BY <1>3, <1>4, <1>0
  <2> QED
    BY <1>0, <1>5, <2>1 DEF Inv, TypeOK
<1>7. LivePlaced' /\ LiveUp' /\ LiveDown' /\ LeafDisjoint'
      /\ \A i : Inner(i)' = Inner(i) /\ Taken(i)' = Taken(i)
  BY <1>0, LiveFrame
<1>8. SearchInStep' /\ Returning' /\ Position'
  BY <1>0, <1>5 DEF SearchInStep, Returning, Position
<1>9. OwnedTaken'
  BY <1>0, <1>7 DEF Inv, OwnedTaken
<1> QED
  BY <1>6, <1>7, <1>8, <1>9 DEF Inv

\* buddy_free finds the block: from here on it belongs to nobody.
LEMMA FreeUsedInv == ASSUME Inv, FreeUsed PROVE Inv'
<1> USE DEF FreeUsed
<1>0. /\ pc = "free" /\ pc' = "combine" /\ tree' = tree /\ live' = live
      /\ index \in live /\ tree[index] = USED /\ live \subseteq Nodes
      /\ UNCHANGED <<size, offset, index, level, length, left, ret, owned>>
      /\ node' = index
  BY DEF Inv, Position, TypeOK
<1>k. PICK k : k = index
  OBVIOUS
<1>1. <<offset, length>> = Block(k)
  BY <1>0, <1>k DEF Inv, Position, Block
<1>2. TypeOK'
  BY <1>0 DEF Inv, TypeOK, PCs
<1>3. /\ \A i : ~Freeing(i) /\ (Freeing(i)' <=> i = k)
      /\ Taken(k) /\ ~Inner(k)
      /\ \A i : (Inner(i)' <=> Inner(i)) /\ (Taken(i)' <=> Taken(i) /\ i # k)
  BY <1>0, <1>k, Tags DEF Inner, Taken, Freeing
<1>4. LivePlaced'
  BY <1>0 DEF Inv, LivePlaced
<1>5. LiveUp' /\ LiveDown' /\ LeafDisjoint'
  BY <1>0, <1>3 DEF Inv, LiveUp, LiveDown, LeafDisjoint
<1>6. SearchInStep' /\ Position'
  BY <1>0 DEF SearchInStep, Position
<1>7. Returning'
  <2>1. ASSUME NEW i \in live, Taken(i), i # k
        PROVE  Disjoint(Block(i), <<offset, length>>)
    <3>1. ~Inner(i)
      BY <2>1, Tags DEF Taken, Inner
    <3> QED
      BY <1>0, <1>1, <1>3, <1>k, <2>1, <3>1 DEF Inv, LeafDisjoint
  <2>2. offset + length <= Pages
    BY <1>0, <1>k DEF Inv, Position, LivePlaced
  <2> QED
    BY <1>0, <1>3, <2>1, <2>2 DEF Returning
<1>8. OwnedTaken'
  BY <1>0, <1>1, <1>3 DEF Inv, OwnedTaken
<1> QED
  BY <1>2, <1>4, <1>5, <1>6, <1>7, <1>8 DEF Inv

\* _combine goes one level up: two free buddies become their parent's block.
LEMMA CombineUpInv == ASSUME Inv, CombineUp PROVE Inv'
<1> USE DEF CombineUp
<1>0. /\ pc = "combine" /\ pc' = "combine" /\ tree' = tree
      /\ node \in live /\ node \in Nat /\ live \subseteq Nodes
      /\ UNCHANGED <<size, offset, index, level, length, left, ret, owned>>
  BY DEF Inv, Position, TypeOK, Nodes
<1>k. PICK k, u, p : k = node /\ u = get_buddy_index(node) /\ p = parent(node)
  OBVIOUS
<1>1. k # 0 /\ tree[u] = UNUSED
  BY <1>k, Family DEF BuddyUnused
<1>2. /\ p \in Nat /\ u \in Nat \ {0} /\ u # k /\ Children(p) = {k, u}
      /\ {k, u} = {2 * p + 1, 2 * p + 2}
  BY <1>0, <1>1, <1>k, Family DEF Children
<1>3. p \in live /\ Inner(p) /\ u \in live /\ ~Inner(u) /\ ~Inner(k) /\ ~Taken(k)
      /\ ~Taken(u) /\ p \notin {k, u}
  <2>1. p \in live /\ Inner(p)
    BY <1>0, <1>1, <1>k DEF Inv, LiveUp
  <2>2. u \in live
    BY <1>2, <2>1 DEF Inv, LiveDown
  <2>3. ~Inner(u) /\ ~Inner(k) /\ ~Taken(k) /\ ~Taken(u)
    BY <1>0, <1>1, <1>k, Tags DEF Inner, Taken, Freeing
  <2> QED
    BY <2>1, <2>2, <2>3
<1>4. live' = live \ {k, u} /\ node' = p
  BY <1>k
<1>5. /\ \A i \in live' : i # p => (Inner(i)' <=> Inner(i)) /\ (Taken(i)' <=> Taken(i))
      /\ ~Inner(p)' /\ ~Taken(p)' /\ ~Taken(p)
  BY <1>0, <1>3, <1>4, <1>k, Tags DEF Inner, Taken, Freeing
<1>6. \A i \in live' : i # 0 => parent(i) \notin {k, u, p}
  <2>1. ASSUME NEW i \in live, i # 0, parent(i) = p PROVE i \in {k, u}
    <3>1. i \in Nat \ {0}
      BY <1>0, <2>1 DEF Nodes
    <3>2. i \in Children(parent(i))
      BY <3>1, Family
    <3> QED
      BY <1>2, <2>1, <3>2
  <2>2. ASSUME NEW i \in live, i # 0 PROVE parent(i) \notin {k, u}
    BY <1>3, <2>2 DEF Inv, LiveUp
  <2> QED
    BY <1>4, <2>1, <2>2
<1>7. TypeOK'
  BY <1>0, <1>3, <1>4 DEF Inv, TypeOK
<1>8. LivePlaced'
  BY <1>4 DEF Inv, LivePlaced
<1>9. LiveUp'
  <2>1. 0 \in live'
    BY <1>1, <1>2, <1>4 DEF Inv, LiveUp
  <2>2. ASSUME NEW i \in live', i # 0 PROVE parent(i) \in live' /\ Inner(parent(i))'
    <3>1. parent(i) \in live' /\ Inner(parent(i)) /\ parent(i) # p
      BY <1>4, <1>6, <2>2 DEF Inv, LiveUp
    <3>2. PICK j : j = parent(i)
      OBVIOUS
    <3>3. Inner(j)'
      BY <1>5, <3>1, <3>2
    <3> QED
      BY <3>1, <3>2, <3>3
  <2> QED
    BY <2>1, <2>2 DEF LiveUp
<1>10. LiveDown'
  <2>1. ASSUME NEW i \in live', Inner(i)' PROVE Children(i) \subseteq live'
    <3>1. i \in live /\ i # p /\ Inner(i) /\ i \in Nat
      BY <1>0, <1>4, <1>5, <2>1 DEF Nodes
    <3>2. Children(i) \subseteq live
      BY <3>1 DEF Inv, LiveDown
    <3>3. \A j \in Children(i) : parent(j) = i
      BY <3>1, Family
    <3>4. parent(k) = p /\ parent(u) = p
      BY <1>2, Family
    <3> QED
      BY <1>4, <3>1, <3>2, <3>3, <3>4
  <2> QED
    BY <2>1 DEF LiveDown
<1>11. LeafDisjoint'
  <2>1. /\ Len(p) = 2 * Len(2 * p + 1) /\ Len(2 * p + 2) = Len(2 * p + 1)
        /\ Lo(2 * p + 1) = Lo(p) /\ Lo(2 * p + 2) = Lo(p) + Len(2 * p + 1)
    <3>1. PICK l \in 0..Level : AtLevel(p, l)
      BY <1>3 DEF Inv, LivePlaced
    <3>2. l < Level
      <4>1. 2 * p + 2 \in Nodes
        BY <1>0, <1>2, <1>3, <1>k
      <4>2. 2 * p + 2 <= 2 * Pages - 2
        BY <4>1, PowFacts, LevelAssumption DEF Nodes, Pages
      <4>3. l = Level => Pages <= p + 1
        BY <3>1 DEF AtLevel, Pages
      <4> QED
        BY <1>2, <4>2, <4>3, PowFacts, LevelAssumption DEF Pages
    <3> QED
      BY <1>2, <3>1, <3>2, Halves
  <2>2. Lo(p) \in Nat /\ Len(2 * p + 1) \in Nat
    <3>1. 2 * p + 1 \in live
      BY <1>0, <1>2, <1>3, <1>k
    <3> QED
      BY <1>3, <3>1 DEF Inv, LivePlaced
  <2>3. ASSUME NEW i \in live, ~Inner(i), i \notin {k, u, p}
        PROVE  Disjoint(Block(i), Block(p))
    <3>1. Disjoint(Block(i), Block(k)) /\ Disjoint(Block(i), Block(u))
      BY <1>0, <1>3, <1>k, <2>3 DEF Inv, LeafDisjoint
    <3>2. Disjoint(Block(i), Block(2 * p + 1)) /\ Disjoint(Block(i), Block(2 * p + 2))
      BY <1>2, <3>1
    <3>3. Lo(i) \in Nat /\ Len(i) \in Nat /\ Len(i) >= 1
      BY DEF Inv, LivePlaced
    <3> QED
      BY <2>1, <2>2, <3>2, <3>3 DEF Disjoint, Block
  <2>4. ASSUME NEW i, NEW j PROVE Disjoint(Block(i), Block(j)) <=> Disjoint(Block(j), Block(i))
    BY DEF Disjoint
  <2> QED
    BY <1>4, <1>5, <2>3, <2>4 DEF Inv, LeafDisjoint
<1>12. SearchInStep' /\ Position'
  BY <1>0, <1>3, <1>4 DEF SearchInStep, Position
<1>13. Returning'
  BY <1>0, <1>4, <1>5 DEF Inv, Returning
<1>14. OwnedTaken'
  BY <1>0, <1>3, <1>4, <1>5 DEF Inv, OwnedTaken
<1> QED
  BY <1>7, <1>8, <1>9, <1>10, <1>11, <1>12, <1>13, <1>14 DEF Inv

\* _combine marks the merged node as unused.
LEMMA CombineDoneInv == ASSUME Inv, CombineDone PROVE Inv'
<1> USE DEF CombineDone
<1>0. /\ pc = "combine" /\ pc' = "unfull" /\ live' = live
      /\ node \in live /\ node \in Nat /\ live \subseteq Nodes
      /\ UNCHANGED <<size, offset, index, level, length, left, ret, owned>>
  BY DEF Inv, Position, TypeOK, Nodes
<1>k. PICK k : k = node
  OBVIOUS
<1>1. parent(k) \in live \cup {-1}
  BY <1>0, <1>k, Family DEF Inv, LiveUp
<1>2. TypeOK'
  BY <1>0, <1>1, <1>k, Tags DEF Inv, TypeOK, PCs
<1>3. \A i \in live : tree'[i] = IF i = k THEN UNUSED ELSE tree[i]
  BY <1>0, <1>k DEF Inv, TypeOK
<1>4. \A i \in live : (Inner(i)' <=> Inner(i)) /\ (Taken(i)' <=> Taken(i))
  BY <1>0, <1>3, <1>k, Tags DEF Inner, Taken, Freeing
<1>5. LivePlaced'
  BY <1>0 DEF Inv, LivePlaced
<1>6. LiveUp' /\ LiveDown' /\ LeafDisjoint'
  BY <1>0, <1>4 DEF Inv, LiveUp, LiveDown, LeafDisjoint
<1>7. SearchInStep' /\ Position'
  BY <1>0 DEF SearchInStep, Position
<1>8. Returning' /\ OwnedTaken'
  BY <1>0, <1>4 DEF Inv, Returning, OwnedTaken
<1> QED
  BY <1>2, <1>5, <1>6, <1>7, <1>8 DEF Inv

\* The second loop of _combine only turns full nodes into split ones.
LEMMA UnfullInv == ASSUME Inv, Unfull PROVE Inv'
<1> USE DEF Unfull
<1>0. /\ pc = "unfull" /\ pc' = "unfull" /\ live' = live
      /\ node \in Nodes /\ node \in Nat /\ live \subseteq Nodes /\ tree[node] = FULL
      /\ UNCHANGED <<size, offset, index, level, length, left, ret, owned>>
  BY DEF Inv, TypeOK, Nodes
<1>k. PICK k : k = node
  OBVIOUS
<1>1. parent(k) \in Nodes \cup {-1}
  <2>1. k # 0 => parent(k) \in Nat /\ parent(k) <= k
    BY <1>0, <1>k DEF parent
  <2>2. Pages \in Nat
    BY PowFacts, LevelAssumption DEF Pages
  <2> QED
    BY <1>0, <1>k, <2>1, <2>2, Family DEF Nodes
<1>2. TypeOK'
  BY <1>0, <1>1, <1>k, Tags DEF Inv, TypeOK
<1>3. \A i \in live : tree'[i] = IF i = k THEN SPLIT ELSE tree[i]
  BY <1>0, <1>k DEF Inv, TypeOK
<1>4. \A i \in live : (Inner(i)' <=> Inner(i)) /\ (Taken(i)' <=> Taken(i))
  BY <1>0, <1>3, <1>k, Tags DEF Inner, Taken, Freeing
<1>5. LivePlaced'
  BY <1>0 DEF Inv, LivePlaced
<1>6. LiveUp' /\ LiveDown' /\ LeafDisjoint'
  BY <1>0, <1>4 DEF Inv, LiveUp, LiveDown, LeafDisjoint
<1>7. SearchInStep' /\ Position'
  BY <1>0 DEF SearchInStep, Position
<1>8. Returning' /\ OwnedTaken'
  BY <1>0, <1>4 DEF Inv, Returning, OwnedTaken
<1> QED
  BY <1>2, <1>5, <1>6, <1>7, <1>8 DEF Inv

\* buddy_free returns, and its block is no longer the caller's.
LEMMA FreeReturnInv == ASSUME Inv, FreeReturn PROVE Inv'
<1> USE DEF FreeReturn
<1>1. TypeOK'
  BY ForgetType DEF Inv, TypeOK, PCs
<1>2. LivePlaced' /\ LiveUp' /\ LiveDown' /\ LeafDisjoint'
      /\ \A i : Inner(i)' = Inner(i) /\ Taken(i)' = Taken(i)
  BY LiveFrame
<1>3. SearchInStep' /\ Position' /\ Returning'
  BY DEF SearchInStep, Position, Returning
<1>4. OwnedTaken'
  BY <1>2 DEF Inv, OwnedTaken
<1> QED
  BY <1>1, <1>2, <1>3, <1>4 DEF Inv

\* buddy_size returns.
LEMMA SizeReturnInv == ASSUME Inv, SizeReturn PROVE Inv'
<1> USE DEF SizeReturn
<1>0. pc = "size" /\ pc' = "idle" /\ tree' = tree /\ live' = live /\ owned' = owned
  OBVIOUS
<1>1. ret' \in -2..Pages
  <2>1. Pages \in Nat
    BY PowFacts, LevelAssumption DEF Pages
  <2>2. length \in Nat /\ length <= Pages
    BY <1>0, <2>1 DEF Inv, Position, LivePlaced
  <2> QED
    BY <2>1, <2>2 DEF EOF
<1>2. TypeOK'
  BY <1>0, <1>1, ForgetType DEF Inv, TypeOK, PCs
<1>3. LivePlaced' /\ LiveUp' /\ LiveDown' /\ LeafDisjoint'
      /\ \A i : Inner(i)' = Inner(i) /\ Taken(i)' = Taken(i)
  BY <1>0, LiveFrame
<1>4. SearchInStep' /\ Position' /\ Returning'
  BY <1>0 DEF SearchInStep, Position, Returning
<1>5. OwnedTaken'
  BY <1>0, <1>3 DEF Inv, OwnedTaken
<1> QED
  BY <1>2, <1>3, <1>4, <1>5 DEF Inv

-----------------------------------------------------------------------------
(* The theorems *)

\* Every step of the three routines preserves the invariant.
LEMMA NextInv == Inv /\ [Next]_vars => Inv'
<1> SUFFICES ASSUME Inv, [Next]_vars PROVE Inv'
  OBVIOUS
<1>1. CASE Alloc
  BY <1>1, AllocCallInv, AllocTooLargeInv, SearchTakeInv, SearchDownInv,
     SearchSplitInv, SearchSkipInv, ClimbOutInv, ClimbInv, MarkParentInv,
     AllocReturnInv DEF Alloc
<1>2. CASE Free
  BY <1>2, WalkCallInv, FreePanicInv, WalkInv, FreeUsedInv, CombineUpInv,
     CombineDoneInv, UnfullInv, FreeReturnInv DEF Free
<1>3. CASE Size
  BY <1>3, WalkCallInv, WalkInv, SizeReturnInv DEF Size
<1>4. CASE UNCHANGED vars
  <2>1. \A i : Inner(i)' = Inner(i) /\ Taken(i)' = Taken(i)
    BY <1>4 DEF vars, locals, Inner, Taken, Freeing
  <2>2. TypeOK' /\ SearchInStep' /\ LivePlaced'
    BY <1>4 DEF vars, locals, Inv, TypeOK, SearchInStep, LivePlaced
  <2>3. LiveUp' /\ LiveDown' /\ LeafDisjoint'
    BY <1>4, <2>1 DEF vars, locals, Inv, LiveUp, LiveDown, LeafDisjoint
  <2>4. Position' /\ Returning' /\ OwnedTaken'
    BY <1>4, <2>1 DEF vars, locals, Inv, Position, Returning, OwnedTaken
  <2> QED
    BY <2>2, <2>3, <2>4 DEF Inv
<1> QED
  BY <1>1, <1>2, <1>3, <1>4 DEF Next

\* The invariant holds in every reachable state.
THEOREM Invariance == Spec => []Inv
BY InitInv, NextInv, PTL DEF Spec

\* Every index the loops compute is a node of the tree of 2^(Level+1)-1 nodes,
\* and the locals and return values stay in their ranges.
THEOREM TypeCorrect == Spec => []TypeOK
<1>1. Inv => TypeOK
  BY DEF Inv
<1> QED
  BY <1>1, Invariance, PTL

\* The walk of buddy_alloc keeps index, level and length in step.
THEOREM SearchInStepHolds == Spec => []SearchInStep
<1>1. Inv => SearchInStep
  BY DEF Inv
<1> QED
  BY <1>1, Invariance, PTL

\* The blocks that buddy_alloc has handed out and that have not been freed lie
\* inside the area and share no page, for a buddy of any level.
THEOREM OwnedDisjointHolds == Spec => []OwnedDisjoint
<1>1. ASSUME Inv PROVE OwnedDisjoint
  <2>1. ASSUME NEW i \in live, Taken(i) PROVE ~Inner(i)
    BY <2>1, Tags DEF Taken, Inner
  <2>2. ASSUME NEW b \in owned PROVE b[1] + b[2] <= Pages
    BY <1>1 DEF Inv, OwnedTaken, LivePlaced, Returning, Block
  <2>3. ASSUME NEW b \in owned, NEW c \in owned, b # c PROVE Disjoint(b, c)
    <3> DEFINE Node(d, i) == Taken(i) /\ d = Block(i)
    <3>1. ASSUME NEW i \in live, NEW j \in live, Node(b, i), Node(c, j)
          PROVE  Disjoint(b, c)
      BY <1>1, <2>1, <2>3, <3>1 DEF Inv, LeafDisjoint
    <3>2. ASSUME NEW i \in live, Node(b, i), pc \in {"combine", "unfull"},
                 c = <<offset, length>>
          PROVE  Disjoint(b, c)
      BY <1>1, <3>2 DEF Inv, Returning
    <3>3. ASSUME NEW i \in live, Node(c, i), pc \in {"combine", "unfull"},
                 b = <<offset, length>>
          PROVE  Disjoint(b, c)
      <4>1. Disjoint(c, b)
        BY <1>1, <3>3 DEF Inv, Returning
      <4> QED
        BY <4>1 DEF Disjoint
    <3> QED
      BY <1>1, <2>3, <3>1, <3>2, <3>3 DEF Inv, OwnedTaken
  <2> QED
    BY <2>2, <2>3 DEF OwnedDisjoint
<1> QED
  BY <1>1, Invariance, PTL

\* A block that buddy_alloc returns shares no page with any block in use.
THEOREM AllocFreshHolds == Spec => AllocFresh
<1>1. ASSUME Inv, AllocReturn
      PROVE  \A b \in owned : Disjoint(b, <<ret', size>>)
  <2>1. pc = "mark" /\ index \in live /\ Taken(index) /\ size = length
    BY <1>1 DEF AllocReturn, Inv, Position
  <2>2. <<ret', size>> = Block(index)
    BY <1>1, <2>1, SearchPlace DEF AllocReturn, Block
  <2>3. \A i \in live : Taken(i) => ~Inner(i)
    BY Tags DEF Taken, Inner
  <2> QED
    BY <1>1, <2>1, <2>2, <2>3 DEF Inv, OwnedTaken, LeafDisjoint
<1>2. Inv /\ [Next]_vars
        => [AllocReturn => \A b \in owned : Disjoint(b, <<ret', size>>)]_vars
  BY <1>1
<1> QED
  BY <1>2, Invariance, PTL DEF Spec, AllocFresh

-----------------------------------------------------------------------------
(* The loops end *)

\* Tour written with the place of the node.
Touring ==
  /\ pc = "search" => Tour = Round * Lo(index) + (Pages - Len(index))
  /\ pc = "climb" =>
       Tour = Round * (Lo(index) + Len(index)) - (2 * Pages - Len(index))
  /\ pc \in {"search", "climb"} =>
       /\ index \in Nat /\ Lo(index) \in Nat
       /\ Len(index) \in Nat /\ Len(index) >= 1 /\ Len(index) <= Pages

LEMMA TourPlace == Inv => Touring
<1> SUFFICES ASSUME Inv, pc \in {"search", "climb"} PROVE Touring
  BY DEF Touring
<1>1. Lo(index) = index_offset(index, level) /\ length = Len(index) /\ index \in Nat
  BY SearchPlace
<1>2. Pages \in Nat
  BY PowFacts, LevelAssumption DEF Pages
<1>3. index \in live
  BY DEF Inv, Position
<1> QED
  BY <1>1, <1>2, <1>3 DEF Tour, Touring, Inv, LivePlaced

\* ... before and after a step.
LEMMA TourNext == ASSUME Inv, [Next]_vars PROVE Touring /\ Touring'
<1>1. Inv'
  BY NextInv
<1>2. Touring
  BY TourPlace
<1>3. Inv' => Touring'
  BY TourPlace, PTL
<1> QED
  BY <1>1, <1>2, <1>3

\* Round is larger than any correction Tour makes inside a round.
LEMMA RoundLonger ==
  ASSUME NEW a \in Nat, NEW b \in Nat, b >= 1
  PROVE  /\ Round * a \in Nat /\ Round * (a + b) \in Nat
         /\ Round * (a + b) >= Round * a + 4 * Pages
         /\ Pages \in Nat /\ Pages >= 1
<1>1. Pages \in Nat /\ Pages >= 1
  BY PowFacts, LevelAssumption DEF Pages
<1>2. Round \in Nat /\ Round = 4 * Pages
  BY <1>1 DEF Round
<1> HIDE DEF Round
<1>3. Round * (a + b) = Round * a + Round * b
  BY <1>2
<1>4. Round * b >= Round
  BY <1>2
<1>5. Round * a \in Nat /\ Round * b \in Nat
  BY <1>2
<1> QED
  BY <1>1, <1>2, <1>3, <1>4, <1>5

\* A left child and the node to its right are the halves of their parent.
LEMMA RightOf ==
  ASSUME NEW i \in Nat, NEW l \in 0..Level, AtLevel(i, l), i # 0
  PROVE  /\ l >= 1 /\ AtLevel(parent(i), l - 1) /\ Len(parent(i)) = 2 * Len(i)
         /\ IsOdd(i) => Lo(i + 1) = Lo(i) + Len(i) /\ Len(i + 1) = Len(i)
         /\ ~IsOdd(i) => Lo(parent(i)) + Len(parent(i)) = Lo(i) + Len(i)
<1> DEFINE p == parent(i)
<1>1. p \in Nat /\ (IsOdd(i) => i = 2 * p + 1) /\ (~IsOdd(i) => i = 2 * p + 2)
  BY Family
<1>2. l # 0
  BY PowAssumption DEF AtLevel
<1>3. l >= 1 /\ l - 1 \in 0..Level /\ l - 1 < Level /\ (l - 1) + 1 = l
      /\ Level - l \in 0..Level
  BY <1>2, LevelAssumption
<1>4. Pow[l] = 2 * Pow[l - 1] /\ Pow[l - 1] \in Nat
  BY <1>3, PowFacts
<1> HIDE DEF p
<1>5. AtLevel(p, l - 1)
  BY <1>1, <1>4 DEF AtLevel
<1>6. /\ Len(p) = 2 * Len(2 * p + 1) /\ Len(2 * p + 1) = Len(2 * p + 2)
      /\ Lo(2 * p + 1) = Lo(p) /\ Lo(2 * p + 2) = Lo(p) + Len(2 * p + 1)
  BY <1>1, <1>3, <1>5, Halves
<1>7. Lev(i) = l
  BY LevUnique
<1>8. Len(i) \in Nat /\ Lo(i) \in Int
  BY <1>3, <1>4, <1>7, PowFacts DEF Len, Lo, index_offset
<1>9. CASE IsOdd(i)
  <2>1. i = 2 * p + 1 /\ i + 1 = 2 * p + 2
    BY <1>1, <1>9
  <2> QED
    BY <1>3, <1>5, <1>6, <1>9, <2>1 DEF p
<1>10. CASE ~IsOdd(i)
  <2>1. i = 2 * p + 2
    BY <1>1, <1>10
  <2>2. Len(p) = 2 * Len(i) /\ Lo(i) = Lo(p) + Len(i)
    BY <1>6, <2>1
  <2>3. Lo(p) \in Int
    <3>1. Lev(p) = l - 1
      BY <1>1, <1>3, <1>5, LevUnique
    <3>2. Level - (l - 1) \in 0..Level
      BY <1>3, LevelAssumption
    <3>3. Pow[Level - (l - 1)] \in Nat
      BY <3>2, PowFacts
    <3> QED
      BY <1>1, <1>4, <3>1, <3>3 DEF Lo, index_offset
  <2> QED
    BY <1>3, <1>5, <1>8, <1>10, <2>2, <2>3 DEF p
<1> QED
  BY <1>9, <1>10

\* Going down stays at the same first page, with a shorter length.
LEMMA DescendAdvances ==
  ASSUME Inv, Descend, Touring, Touring' PROVE Tour' > Tour
<1>1. pc = "search" /\ pc' = "search" /\ index' = 2 * index + 1 /\ index \in live
  BY DEF Descend, Inv, Position
<1>2. index \in Nat /\ level \in 0..Level /\ AtLevel(index, level) /\ level < Level
  BY <1>1, DescendStep, SearchPlace
<1>3. Lo(index') = Lo(index) /\ Len(index) = 2 * Len(index')
  BY <1>1, <1>2, Halves
<1>4. /\ Lo(index) \in Nat /\ Len(index) \in Nat /\ Len(index) >= 1
      /\ Tour = Round * Lo(index) + (Pages - Len(index))
  BY <1>1 DEF Touring
<1>5. Len(index') \in Nat /\ Tour' = Round * Lo(index') + (Pages - Len(index'))
  BY <1>1 DEF Touring
<1>6. Round * Lo(index) \in Nat /\ Pages \in Nat
  BY <1>4, RoundLonger
<1> QED
  BY <1>3, <1>4, <1>5, <1>6

\* A node that has nothing is left to the right, or upwards.
LEMMA SkipAdvances ==
  ASSUME Inv, SearchSkip, Touring, Touring' PROVE Tour' > Tour
<1>1. pc = "search" /\ index \in Nat /\ level \in 0..Level /\ AtLevel(index, level)
  BY SearchPlace DEF SearchSkip
<1>2. /\ Lo(index) \in Nat /\ Len(index) \in Nat /\ Len(index) >= 1
      /\ Tour = Round * Lo(index) + (Pages - Len(index))
  BY <1>1 DEF Touring
<1>3. /\ Round * Lo(index) \in Nat /\ Round * (Lo(index) + Len(index)) \in Nat
      /\ Round * (Lo(index) + Len(index)) >= Round * Lo(index) + 4 * Pages
      /\ Pages \in Nat /\ Pages >= 1
  BY <1>2, RoundLonger
<1>4. CASE IsOdd(index)
  <2>1. index # 0 /\ index' = index + 1 /\ pc' = "search"
    BY <1>1, <1>4 DEF SearchSkip, IsOdd
  <2>2. Lo(index') = Lo(index) + Len(index) /\ Len(index') = Len(index)
    BY <1>1, <1>4, <2>1, RightOf
  <2>3. Tour' = Round * Lo(index') + (Pages - Len(index'))
    BY <2>1 DEF Touring
  <2> QED
    BY <1>2, <1>3, <2>2, <2>3
<1>5. CASE ~IsOdd(index)
  <2>1. index' = index /\ pc' = "climb"
    BY <1>1, <1>5 DEF SearchSkip
  <2>2. Tour' = Round * (Lo(index) + Len(index)) - (2 * Pages - Len(index))
    BY <2>1 DEF Touring
  <2> QED
    BY <1>2, <1>3, <2>2
<1> QED
  BY <1>4, <1>5

\* A climb starts at a right child (or the root): the search never skips an
\* unsearched right half.
Rightmost == pc = "climb" => ~IsOdd(index)

LEMMA RightmostNext ==
  ASSUME Rightmost, [Next]_vars PROVE Rightmost'
<1>1. Alloc /\ pc' = "climb" => SearchSkip \/ Climb
  BY DEF Alloc, AllocCall, Start, AllocTooLarge, SearchTake, SearchDown, SearchSplit,
         Descend, ClimbOut, MarkParent, AllocReturn
<1>2. Free => pc' # "climb"
  BY DEF Free, FreeCall, Start, FreeRange, Walk, FreeUsed, FreeWrong, CombineUp,
         CombineDone, Unfull, FreeReturn
<1>3. Size => pc' # "climb"
  BY DEF Size, SizeCall, Start, Walk, SizeReturn
<1>4. SearchSkip /\ pc' = "climb" => ~IsOdd(index')
  BY DEF SearchSkip
<1>5. Climb /\ pc' = "climb" => ~IsOdd(index')
  BY DEF Climb
<1>6. UNCHANGED vars => Rightmost'
  BY DEF Rightmost, vars, locals
<1> QED
  BY <1>1, <1>2, <1>3, <1>4, <1>5, <1>6 DEF Rightmost, Next

\* Going up stays at the same last page, with a greater length, until there is
\* a node to the right.
LEMMA ClimbAdvances ==
  ASSUME Inv, Rightmost, Climb, Touring, Touring' PROVE Tour' > Tour
<1> DEFINE p == parent(index)
<1>1. pc = "climb" /\ index \in Nat /\ level \in 0..Level /\ AtLevel(index, level)
      /\ ~IsOdd(index) /\ index # 0
  BY SearchPlace, Family DEF Climb, Rightmost
<1>2. /\ level >= 1 /\ AtLevel(p, level - 1) /\ Len(p) = 2 * Len(index)
      /\ Lo(p) + Len(p) = Lo(index) + Len(index) /\ p \in Nat
  BY <1>1, RightOf, Family
<1>3. /\ Lo(index) \in Nat /\ Len(index) \in Nat /\ Len(index) >= 1 /\ Len(index) <= Pages
      /\ Tour = Round * (Lo(index) + Len(index)) - (2 * Pages - Len(index))
  BY <1>1 DEF Touring
<1>4. Round * (Lo(index) + Len(index)) \in Nat /\ Pages \in Nat /\ Pages >= 1
  BY <1>3, RoundLonger
<1>5. CASE IsOdd(p)
  <2>1. index' = p + 1 /\ pc' = "search" /\ p # 0
    BY <1>5 DEF Climb, IsOdd
  <2> HIDE DEF p
  <2>2. Lo(index') = Lo(p) + Len(p)
    <3>1. level - 1 \in 0..Level
      BY <1>1, <1>2, LevelAssumption
    <3> QED
      BY <1>2, <1>5, <2>1, <3>1, RightOf
  <2>3. Tour' = Round * Lo(index') + (Pages - Len(index'))
        /\ Len(index') \in Nat /\ Len(index') <= Pages
    BY <2>1 DEF Touring
  <2> QED
    BY <1>2, <1>3, <1>4, <2>2, <2>3
<1>6. CASE ~IsOdd(p)
  <2>1. index' = p /\ pc' = "climb"
    BY <1>1, <1>6 DEF Climb
  <2>2. Tour' = Round * (Lo(p) + Len(p)) - (2 * Pages - Len(p))
    BY <2>1 DEF Touring
  <2> HIDE DEF p
  <2> QED
    BY <1>2, <1>3, <1>4, <2>2
<1> QED
  BY <1>5, <1>6

\* The steps that stay in a loop.
LEMMA LoopSteps ==
  ASSUME Next
  PROVE  /\ pc \in {"search", "climb"} /\ pc' \in {"search", "climb"}
              => Descend \/ SearchSkip \/ Climb
         /\ pc \in {"mark", "combine", "unfull"} /\ pc' = pc
              => MarkParent \/ CombineUp \/ Unfull
         /\ pc \in {"free", "size"} /\ pc' = pc => Walk("free") \/ Walk("size")
<1>1. CASE Alloc
  <2>1. CASE (\E n \in Sizes : AllocCall(n)) \/ AllocTooLarge
    BY <2>1 DEF AllocCall, Start, AllocTooLarge
  <2>2. CASE SearchTake \/ ClimbOut \/ AllocReturn
    BY <2>2 DEF SearchTake, ClimbOut, AllocReturn
  <2>3. CASE SearchDown \/ SearchSplit
    <3>1. Descend /\ pc = "search"
      BY <2>3 DEF SearchDown, SearchSplit, Descend
    <3> QED
      BY <3>1
  <2>4. CASE SearchSkip
    <3>1. pc = "search"
      BY <2>4 DEF SearchSkip
    <3> QED
      BY <2>4, <3>1
  <2>5. CASE Climb
    <3>1. pc = "climb"
      BY <2>5 DEF Climb
    <3> QED
      BY <2>5, <3>1
  <2>6. CASE MarkParent
    <3>1. pc = "mark"
      BY <2>6 DEF MarkParent
    <3> QED
      BY <2>6, <3>1
  <2> QED
    BY <1>1, <2>1, <2>2, <2>3, <2>4, <2>5, <2>6 DEF Alloc
<1>2. CASE Free
  <2>1. CASE \E o \in 0..Pages : FreeCall(o)
    BY <2>1 DEF FreeCall, Start
  <2>2. CASE FreeRange \/ FreeUsed \/ FreeWrong \/ CombineDone \/ FreeReturn
    BY <2>2 DEF FreeRange, FreeUsed, FreeWrong, CombineDone, FreeReturn
  <2>3. CASE Walk("free")
    <3>1. pc = "free"
      BY <2>3 DEF Walk
    <3> QED
      BY <2>3, <3>1
  <2>4. CASE CombineUp \/ Unfull
    <3>1. pc \in {"combine", "unfull"}
      BY <2>4 DEF CombineUp, Unfull
    <3> QED
      BY <2>4, <3>1
  <2> QED
    BY <1>2, <2>1, <2>2, <2>3, <2>4 DEF Free
<1>3. CASE Size
  <2>1. CASE (\E o \in 0..Pages : SizeCall(o)) \/ SizeReturn
    BY <2>1 DEF SizeCall, Start, SizeReturn
  <2>2. CASE Walk("size")
    <3>1. pc = "size"
      BY <2>2 DEF Walk
    <3> QED
      BY <2>2, <3>1
  <2> QED
    BY <1>3, <2>1, <2>2 DEF Size
<1> QED
  BY <1>1, <1>2, <1>3 DEF Next

\* Every loop of the three routines makes progress in each iteration, for a buddy
\* of any level: no call goes on for ever.
THEOREM LoopsAdvanceHolds == Spec => LoopsAdvance
<1> DEFINE Advance ==
      /\ pc \in {"search", "climb"} /\ pc' \in {"search", "climb"} => Tour' > Tour
      /\ pc \in {"mark", "combine", "unfull"} /\ pc' = pc => node' < node
      /\ pc \in {"free", "size"} /\ pc' = pc => length' < length
<1>1. ASSUME Inv, Rightmost, Next PROVE Advance
  <2>0. Touring /\ Touring'
    BY <1>1, TourNext
  <2>1. pc \in {"search", "climb"} /\ pc' \in {"search", "climb"}
          => Descend \/ SearchSkip \/ Climb
    BY <1>1, LoopSteps
  <2>2. Descend \/ SearchSkip \/ Climb => Tour' > Tour
    BY <1>1, <2>0, DescendAdvances, SkipAdvances, ClimbAdvances
  <2>3. \A i \in Nat : parent(i) < i
    BY DEF parent
  <2>4. pc \in {"mark", "combine", "unfull"} /\ pc' = pc
          => MarkParent \/ CombineUp \/ Unfull
    BY <1>1, LoopSteps
  <2>5. MarkParent \/ CombineUp \/ Unfull => node \in Nat /\ node' = parent(node)
    BY <1>1 DEF MarkParent, CombineUp, Unfull, Inv, Position, TypeOK, Nodes
  <2>6. pc \in {"free", "size"} /\ pc' = pc => Walk("free") \/ Walk("size")
    BY <1>1, LoopSteps
  <2>7. Walk("free") \/ Walk("size") => length' < length
    <3> SUFFICES ASSUME Walk("free") \/ Walk("size") PROVE length' < length
      OBVIOUS
    <3>1. length' = length \div 2 /\ index \in live /\ length = Len(index)
      BY <1>1 DEF Walk, Inv, Position
    <3>2. length \in Nat /\ length >= 1
      BY <1>1, <3>1 DEF Inv, LivePlaced
    <3> QED
      BY <3>1, <3>2
  <2> QED
    BY <2>1, <2>2, <2>3, <2>4, <2>5, <2>6, <2>7
<1>2. Init => Rightmost
  BY DEF Init, Rightmost
<1>3. Inv /\ Rightmost /\ [Next]_vars => Rightmost' /\ [Advance]_vars
  BY <1>1, RightmostNext
<1> QED
  BY <1>2, <1>3, Invariance, PTL DEF Spec, LoopsAdvance
=============================================================================
