------------------------------ MODULE BuddyAbs ------------------------------
(***************************************************************************)
(* What a buddy allocator of 2^Level pages promises: a block it hands out  *)
(* is aligned to its power-of-two size, lies inside the area and meets no  *)
(* block still in use; of the blocks it could hand out it takes the lowest *)
(* one; it refuses a request only when there is none; freeing anything but *)
(* the start of a block in use is a panic; and asking for the size of a    *)
(* page tells the block that contains it.                                  *)
(* A block is a pair <<first page, number of pages>>.                      *)
(***************************************************************************)
EXTENDS Integers

CONSTANTS Level, Pow

VARIABLES owned,  \* the blocks in use
          op,     \* the call being served: "idle", "alloc", "free", "size", "panic"
          arg,    \* its argument (the rounded size, or a page offset); 0 when idle
          ret     \* the value just returned; 0 while a call is served

vars == <<owned, op, arg, ret>>

Sizes == {Pow[i] : i \in 0..Level}

Disjoint(b, c) == b[1] + b[2] <= c[1] \/ c[1] + c[2] <= b[1]

\* The aligned blocks of n pages.
BlocksOf(n) == {<<k * n, n>> : k \in 0 .. (Pow[Level] \div n) - 1}

FreeBlocks(n) == {b \in BlocksOf(n) : \A c \in owned : Disjoint(b, c)}

Contains(b, o) == b[1] <= o /\ o < b[1] + b[2]

Init == owned = {} /\ op = "idle" /\ arg = 0 /\ ret = 0

Call(o, a) ==
  /\ op = "idle"
  /\ op' = o /\ arg' = a /\ ret' = 0
  /\ UNCHANGED owned

Return(o, v) ==
  /\ op = o
  /\ op' = "idle" /\ arg' = 0 /\ ret' = v

\* A request larger than the whole area is answered at once.
TooLarge ==
  /\ op = "idle"
  /\ ret' = -2
  /\ UNCHANGED <<owned, op, arg>>

AllocOk ==
  /\ op = "alloc"
  /\ \E b \in FreeBlocks(arg) :
       /\ \A c \in FreeBlocks(arg) : b[1] <= c[1]
       /\ Return("alloc", b[1])
       /\ owned' = owned \cup {b}

AllocNone ==
  /\ op = "alloc"
  /\ FreeBlocks(arg) = {}
  /\ Return("alloc", -1)
  /\ UNCHANGED owned

FreeOk ==
  \E b \in owned :
    /\ b[1] = arg
    /\ Return("free", ret)
    /\ owned' = owned \ {b}

FreePanic ==
  /\ op = "free"
  /\ \A b \in owned : b[1] # arg
  /\ op' = "panic" /\ arg' = 0
  /\ UNCHANGED <<owned, ret>>

SizeOf ==
  /\ \/ \E b \in owned : Contains(b, arg) /\ Return("size", b[2])
     \/ (\A b \in owned : ~Contains(b, arg)) /\ Return("size", -1)
  /\ UNCHANGED owned

Next ==
  \/ \E n \in Sizes : Call("alloc", n)
  \/ \E o \in 0..Pow[Level], f \in {"free", "size"} : Call(f, o)
  \/ TooLarge \/ AllocOk \/ AllocNone \/ FreeOk \/ FreePanic \/ SizeOf

Spec == Init /\ [][Next]_vars
=============================================================================
