--------------------------- MODULE EarlyMapProofs ---------------------------
(***************************************************************************)
(* The queue of early mappings, for every layout, queue length and set of  *)
(* sizes: automatically placed mappings never meet, and the overlap check  *)
(* lets two mappings share a page only if they start at the same address.  *)
(***************************************************************************)
EXTENDS EarlyMap, TLAPS

Entries == [vaddr : Nat, size : Nat \ {0}, type : {MEMORY, KMMAP, EARLY_OTHER}]

\* a ends before b starts, or the other way round.
Apart(a, b) == a.vaddr + a.size <= b.vaddr \/ b.vaddr + b.size <= a.vaddr

ETypeOK ==
  /\ queue \in Seq(Entries)
  /\ mem_top \in Nat /\ KERN_BASE <= mem_top /\ mem_top <= KMMAP_BASE
  /\ kmmap_top \in Nat /\ KMMAP_BASE <= kmmap_top /\ kmmap_top <= RESERVED_BASE

\* An automatically placed mapping lies in its area, below the area's top.
BelowTop(e) ==
  /\ e.type = MEMORY => KERN_BASE <= e.vaddr /\ e.vaddr + e.size <= mem_top
  /\ e.type = KMMAP => KMMAP_BASE <= e.vaddr /\ e.vaddr + e.size <= kmmap_top

\* Two entries of the queue, a the older one.
Compatible(a, b) ==
  /\ a.vaddr = b.vaddr \/ Apart(a, b)
  /\ EARLY_OTHER \notin {a.type, b.type} => Apart(a, b)

EInd ==
  /\ ETypeOK
  /\ \A i \in 1..Len(queue) : BelowTop(queue[i])
  /\ \A i, j \in 1..Len(queue) : i < j => Compatible(queue[i], queue[j])

\* Ranges that are apart share no page.
LEMMA ApartPages ==
  ASSUME NEW a \in Entries, NEW b \in Entries
  PROVE  Apart(a, b) <=> Pages(a) \cap Pages(b) = {}
<1>1. ASSUME Apart(a, b) PROVE Pages(a) \cap Pages(b) = {}
  BY <1>1 DEF Apart, Pages, Entries
<1>2. ASSUME ~Apart(a, b) PROVE Pages(a) \cap Pages(b) # {}
  <2>1. CASE a.vaddr <= b.vaddr
    <3>1. b.vaddr \in Pages(a) /\ b.vaddr \in Pages(b)
      BY <1>2, <2>1 DEF Apart, Pages, Entries
    <3> QED
      BY <3>1
  <2>2. CASE ~(a.vaddr <= b.vaddr)
    <3>1. a.vaddr \in Pages(a) /\ a.vaddr \in Pages(b)
      BY <1>2, <2>2 DEF Apart, Pages, Entries
    <3> QED
      BY <3>1
  <2> QED
    BY <2>1, <2>2
<1> QED
  BY <1>1, <1>2

\* The overlap check of early_mapping_add: passing it means equal starts or
\* ranges apart.
LEMMA CheckMeans ==
  ASSUME NEW a \in Entries, NEW b \in Entries,
         ~OVERLAP(b.vaddr, b.size, a.vaddr, a.size)
  PROVE  a.vaddr = b.vaddr \/ Apart(a, b)
BY DEF OVERLAP, Apart, Entries

\* Appending an entry that passed the check and is apart from the automatically
\* placed ones, if it is one, preserves the invariant.
LEMMA AppendKeeps ==
  ASSUME EInd, NEW e \in Entries, Addable(e),
         queue' = Append(queue, e), ETypeOK',
         mem_top <= mem_top', kmmap_top <= kmmap_top', BelowTop(e)',
         \A i \in 1..Len(queue) :
           EARLY_OTHER \notin {queue[i].type, e.type} => Apart(queue[i], e)
  PROVE  EInd'
<1>1. queue \in Seq(Entries) /\ Len(queue) \in Nat
  BY DEF EInd, ETypeOK
<1>2. /\ Len(queue') = Len(queue) + 1
      /\ \A i \in 1..Len(queue) : queue'[i] = queue[i] /\ queue[i] \in Entries
      /\ queue'[Len(queue) + 1] = e
  BY <1>1
<1>3. ASSUME NEW i \in 1..Len(queue') PROVE BelowTop(queue[i])'
  <2>1. CASE i \in 1..Len(queue)
    <3>1. queue'[i] = queue[i] /\ queue[i] \in Entries /\ BelowTop(queue[i])
      BY <1>2, <2>1 DEF EInd
    <3>2. queue[i].vaddr \in Nat /\ queue[i].size \in Nat
      BY <3>1 DEF Entries
    <3>3. mem_top \in Nat /\ kmmap_top \in Nat /\ mem_top' \in Nat /\ kmmap_top' \in Nat
      BY DEF EInd, ETypeOK
    <3> QED
      BY <3>1, <3>2, <3>3 DEF BelowTop
  <2>2. CASE i = Len(queue) + 1
    BY <1>2, <2>2 DEF BelowTop
  <2> QED
    BY <1>1, <1>2, <2>1, <2>2
<1>4. ASSUME NEW i \in 1..Len(queue'), NEW j \in 1..Len(queue'), i < j
      PROVE  Compatible(queue[i], queue[j])'
  <2>1. CASE j \in 1..Len(queue)
    <3>1. i \in 1..Len(queue) /\ Compatible(queue[i], queue[j])
      BY <1>1, <1>4, <2>1 DEF EInd
    <3> QED
      BY <1>2, <2>1, <3>1 DEF Compatible, Apart
  <2>2. CASE j = Len(queue) + 1
    <3>1. i \in 1..Len(queue) /\ queue[i] \in Entries
      BY <1>1, <1>2, <1>4, <2>2
    <3>2. ~OVERLAP(e.vaddr, e.size, queue[i].vaddr, queue[i].size)
      BY <1>1, <3>1 DEF Addable
    <3>3. queue[i].vaddr = e.vaddr \/ Apart(queue[i], e)
      BY <3>1, <3>2, CheckMeans
    <3>4. Compatible(queue[i], e)
      BY <3>1, <3>3 DEF Compatible
    <3> QED
      BY <1>2, <2>2, <3>1, <3>4 DEF Compatible, Apart
  <2> QED
    BY <1>1, <1>2, <2>1, <2>2
<1> QED
  BY <1>3, <1>4 DEF EInd

LEMMA EIndInit == EInit => EInd
BY LayoutAssumption DEF EInit, EInd, ETypeOK

\* Every operation on the queue preserves the invariant.
LEMMA EIndStep == EInd /\ [QueueOps \/ MmuOps]_evars => EInd'
<1> SUFFICES ASSUME EInd, [QueueOps \/ MmuOps]_evars PROVE EInd'
  OBVIOUS
<1>1. CASE UNCHANGED <<queue, mem_top, kmmap_top>>
  BY <1>1 DEF EInd, ETypeOK, BelowTop
<1>2. CASE early_mapping_clear
  BY <1>2, LayoutAssumption DEF early_mapping_clear, EInd, ETypeOK
<1>3. ASSUME NEW v \in KERN_BASE..RESERVED_BASE, NEW s \in Sizes, early_mapping_add(v, s)
      PROVE  EInd'
  <2> DEFINE e == Mapping(v, s, EARLY_OTHER)
  <2>1. e \in Entries /\ e.type = EARLY_OTHER
    BY LayoutAssumption DEF Mapping, Entries
  <2>2. Addable(e) /\ queue' = Append(queue, e) /\ UNCHANGED <<mem_top, kmmap_top>>
    BY <1>3 DEF early_mapping_add
  <2>3. ETypeOK'
    BY <2>1, <2>2 DEF EInd, ETypeOK
  <2>4. BelowTop(e)'
    BY <2>1 DEF BelowTop, MEMORY, KMMAP, EARLY_OTHER, Mapping
  <2>5. mem_top <= mem_top' /\ kmmap_top <= kmmap_top'
    BY <2>2 DEF EInd, ETypeOK
  <2> HIDE DEF e
  <2> QED
    BY <2>1, <2>2, <2>3, <2>4, <2>5, AppendKeeps
<1>4. ASSUME NEW s \in Sizes, early_mapping_add_memory(s) PROVE EInd'
  <2> DEFINE size == IF s > KMMAP_BASE - mem_top THEN KMMAP_BASE - mem_top ELSE s
  <2>0. size \in Nat \ {0} /\ mem_top + size <= KMMAP_BASE
    BY <1>4, LayoutAssumption DEF early_mapping_add_memory, EInd, ETypeOK
  <2>1. Mapping(mem_top, size, MEMORY) \in Entries
    BY <2>0 DEF Mapping, Entries, EInd, ETypeOK
  <2>2. PICK e \in Entries : e = Mapping(mem_top, size, MEMORY)
    BY <2>1
  <2>3. e.type = MEMORY /\ e.vaddr = mem_top /\ e.size = size
    BY <2>2 DEF Mapping
  <2>4. /\ Addable(e) /\ queue' = Append(queue, e)
        /\ mem_top' = mem_top + size /\ UNCHANGED kmmap_top
    BY <1>4, <2>2 DEF early_mapping_add_memory
  <2> HIDE DEF size
  <2>5. ETypeOK' /\ mem_top <= mem_top' /\ kmmap_top <= kmmap_top'
    BY <2>0, <2>4, LayoutAssumption DEF EInd, ETypeOK
  <2>6. BelowTop(e)'
    BY <2>0, <2>3, <2>4 DEF BelowTop, MEMORY, KMMAP, EInd, ETypeOK
  <2>7. ASSUME NEW i \in 1..Len(queue), EARLY_OTHER \notin {queue[i].type, e.type}
        PROVE  Apart(queue[i], e)
    <3>1. queue[i] \in Entries /\ BelowTop(queue[i])
      BY DEF EInd, ETypeOK
    <3>2. queue[i].type \in {MEMORY, KMMAP}
      BY <2>7, <3>1 DEF Entries
    <3> QED
      BY <2>0, <2>3, <3>1, <3>2, LayoutAssumption
      DEF BelowTop, Apart, Entries, EInd, ETypeOK
  <2> QED
    BY <2>4, <2>5, <2>6, <2>7, AppendKeeps
<1>5. ASSUME NEW s \in Sizes, early_mapping_add_kmmap(s) PROVE EInd'
  <2> DEFINE size == s
  <2>0. size \in Nat \ {0} /\ kmmap_top + size <= RESERVED_BASE
    BY <1>5, LayoutAssumption DEF early_mapping_add_kmmap, EInd, ETypeOK
  <2>1. Mapping(kmmap_top, size, KMMAP) \in Entries
    BY <2>0 DEF Mapping, Entries, EInd, ETypeOK
  <2>2. PICK e \in Entries : e = Mapping(kmmap_top, size, KMMAP)
    BY <2>1
  <2>3. e.type = KMMAP /\ e.vaddr = kmmap_top /\ e.size = size
    BY <2>2 DEF Mapping
  <2>4. /\ Addable(e) /\ queue' = Append(queue, e)
        /\ kmmap_top' = kmmap_top + size /\ UNCHANGED mem_top
    BY <1>5, <2>2 DEF early_mapping_add_kmmap
  <2> HIDE DEF size
  <2>5. ETypeOK' /\ mem_top <= mem_top' /\ kmmap_top <= kmmap_top'
    BY <2>0, <2>4, LayoutAssumption DEF EInd, ETypeOK
  <2>6. BelowTop(e)'
    BY <2>0, <2>3, <2>4 DEF BelowTop, MEMORY, KMMAP, EInd, ETypeOK
  <2>7. ASSUME NEW i \in 1..Len(queue), EARLY_OTHER \notin {queue[i].type, e.type}
        PROVE  Apart(queue[i], e)
    <3>1. queue[i] \in Entries /\ BelowTop(queue[i])
      BY DEF EInd, ETypeOK
    <3>2. queue[i].type \in {MEMORY, KMMAP}
      BY <2>7, <3>1 DEF Entries
    <3>3. /\ queue[i].vaddr \in Nat /\ queue[i].size \in Nat
          /\ mem_top \in Nat /\ kmmap_top \in Nat
          /\ mem_top <= KMMAP_BASE /\ KMMAP_BASE <= kmmap_top
      BY <3>1 DEF Entries, EInd, ETypeOK
    <3>4. queue[i].vaddr + queue[i].size <= kmmap_top
      BY <3>1, <3>2, <3>3, LayoutAssumption DEF BelowTop
    <3> QED
      BY <2>3, <3>4 DEF Apart
  <2> QED
    BY <2>4, <2>5, <2>6, <2>7, AppendKeeps
<1>6. CASE MmuOps \/ UNCHANGED evars
  BY <1>1, <1>6
  DEF MmuOps, evars, handlers_add, handlers_clear, mmu_handlers_add,
      mmu_handlers_clear, jump_handlers_add, jump_handlers_clear, early_mm_init,
      mmu_init, abs_jump
<1> QED
  BY <1>2, <1>3, <1>4, <1>5, <1>6 DEF QueueOps

\* The invariant gives both properties of the queue.
LEMMA EIndMeans == EInd => AreasDisjoint /\ OverlapOnlyAtStart
<1> SUFFICES ASSUME EInd PROVE AreasDisjoint /\ OverlapOnlyAtStart
  OBVIOUS
<1>1. DOMAIN queue = 1..Len(queue) /\ Len(queue) \in Nat
  BY DEF EInd, ETypeOK
<1>2. \A i \in 1..Len(queue) : queue[i] \in Entries
  BY DEF EInd, ETypeOK
<1>3. ASSUME NEW i \in 1..Len(queue), NEW j \in 1..Len(queue), i # j
      PROVE  Compatible(queue[i], queue[j]) \/ Compatible(queue[j], queue[i])
  BY <1>1, <1>3 DEF EInd
<1>4. ASSUME NEW i \in 1..Len(queue), NEW j \in 1..Len(queue), i # j,
             EARLY_OTHER \notin {queue[i].type, queue[j].type}
      PROVE  Pages(queue[i]) \cap Pages(queue[j]) = {}
  <2>1. Apart(queue[i], queue[j])
    BY <1>3, <1>4 DEF Compatible, Apart
  <2> QED
    BY <1>2, <2>1, ApartPages
<1>5. ASSUME NEW i \in 1..Len(queue), NEW j \in 1..Len(queue), i < j,
             Pages(queue[i]) \cap Pages(queue[j]) # {}
      PROVE  queue[i].vaddr = queue[j].vaddr
  <2>1. ~Apart(queue[i], queue[j])
    BY <1>2, <1>5, ApartPages
  <2> QED
    BY <1>5, <2>1 DEF EInd, Compatible
<1> QED
  BY <1>1, <1>4, <1>5 DEF AreasDisjoint, OverlapOnlyAtStart, EInd, ETypeOK

\* The invariant holds in every state early_mapping_add and its relatives reach.
THEOREM EIndAlways == ESpec => []EInd
BY EIndInit, EIndStep, PTL DEF ESpec

\* early_mapping_add_memory and early_mapping_add_kmmap never give out a page
\* twice, for every layout and every sequence of additions.
THEOREM EarlyAreasDisjoint == ESpec => []AreasDisjoint
BY EIndAlways, EIndMeans, PTL

\* early_mapping_add lets two mappings overlap only if they start at the same
\* address, for every layout and every sequence of additions.
THEOREM EarlyOverlapOnlyAtStart == ESpec => []OverlapOnlyAtStart
BY EIndAlways, EIndMeans, PTL

\* Both facts together, as the runs check them.
THEOREM EarlyMappingsApart == ESpec => []MappingsApart
BY EarlyAreasDisjoint, EarlyOverlapOnlyAtStart, PTL DEF MappingsApart
=============================================================================
