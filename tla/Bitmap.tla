------------------------------- MODULE Bitmap -------------------------------
(***************************************************************************)
(* Bit operations (include/bitops.h) and bitmaps (include/bitmap.h,        *)
(* kern/lib/libbitmap).  A word is the set of its bits' numbers, 0 being   *)
(* the lowest; a bitmap is a function from 0 to words.  The code's loops   *)
(* over words are definitions over all words of the loop; positions that   *)
(* functions return are 1-based, and 0 stands for none.                    *)
(*                                                                         *)
(* BITS_TO_LONGS divides by a long's bytes, so that a bitmap has more      *)
(* words than it needs, and some operations run over all of them.          *)
(***************************************************************************)
EXTENDS Integers, Sequences, SequencesExt, FiniteSets, FiniteSetsExt

CONSTANTS BITS_PER_LONG,   \* a power of two
          LONG_SIZE,       \* sizeof(long)
          MaxBits          \* size of the largest bitmap

VARIABLE bin    \* what the operations are applied to

B == BITS_PER_LONG
ONES == 0..(B - 1)
NOT(w) == ONES \ w
SHL(w, s) == {b + s : b \in w} \cap ONES
SHR(w, s) == {b - s : b \in {x \in w : x >= s}}

BITS_TO_LONGS(n) == (n + LONG_SIZE - 1) \div LONG_SIZE
Words == 0..(BITS_TO_LONGS(MaxBits) - 1)
BITMAP_FIRST_WORD_MASK(start) == SHL(ONES, start % B)
BITMAP_LAST_WORD_MASK(n) == IF n % B = 0 THEN ONES ELSE 0..((n % B) - 1)

\* Inputs: two bitmaps, the second one taken from a few, a size and a position
\* (in bits).  Bits past the size are set in some of them.
BitInputs ==
  LET map(lo, rest) == [k \in Words |-> IF k = 0 THEN lo[1] ELSE IF k = 1 THEN lo[2] ELSE rest]
  IN {i \in [m : {map(<<u, v>>, r) : u, v \in SUBSET ONES, r \in {{}, ONES}},
              o : {map(<<{1, 3}, {0, 2}>>, {}), map(<<ONES, {0}>>, {})},
              n : 1..MaxBits, at : {0, 1, B, B + 2, MaxBits - 1}] :
        i.m[2] = {} <=> i.o[0] # ONES}
NoBits == [m |-> [k \in Words |-> {}], o |-> [k \in Words |-> {}], n |-> 0, at |-> 0]

-----------------------------------------------------------------------------
(* Words *)

\* The steps of the binary searches: half a word, a quarter, ..., 1.
Halves == SetToSortSeq({h \in 1..(B \div 2) : \E i \in 0..B : h * 2^i = B}, >)

\* __generic_ffs: skip the lower half while it is empty.
ffs(w) ==
  LET step(acc, h) == IF acc.w \cap 0..(h - 1) = {}
                      THEN [num |-> acc.num + h, w |-> SHR(acc.w, h)] ELSE acc
  IN IF w = {} THEN 0 ELSE FoldLeft(step, [num |-> 1, w |-> w], Halves).num

\* __generic_fls: shift the upper half out while it is empty.
fls(w) ==
  LET step(acc, h) == IF acc.w \cap (B - h)..(B - 1) = {}
                      THEN [num |-> acc.num - h, w |-> SHL(acc.w, h)] ELSE acc
  IN IF w = {} THEN 0 ELSE FoldLeft(step, [num |-> B, w |-> w], Halves).num

ffz(w) == ffs(NOT(w))
flz(w) == fls(NOT(w))

\* Words as numbers; 31 bits are as many as TLC's integers have.
Number31(w) == FoldSet(LAMBDA b, n : n + 2^b, 0, w)

\* n & 0x5555..., 0x3333..., 0x0F0F...: every other field of width bits.
Fields(n, width) ==
  LET at(i) == 2^(2 * width * i)
  IN FoldSet(LAMBDA i, v : v + ((n \div at(i)) % 2^width) * at(i), 0, 0..(16 \div width - 1))

\* hweight32: sums of neighbouring fields of 1, 2, 4, 8 and 16 bits.
hweight32(w) ==
  LET n == Number31(w)
      r1 == n - Fields(n \div 2, 1)
      r2 == Fields(r1, 2) + Fields(r1 \div 4, 2)
      r4 == Fields(r2 + (r2 \div 16), 4)
      r8 == r4 + (r4 \div 256)
  IN (r8 + (r8 \div 65536)) % 256

hweight(w) == hweight32(w)

\* The two-word versions: each looks at the high word only if the low is 0.
ffs64(lo, hi) == IF lo = {} THEN ffs(hi) + B ELSE ffs(lo)
fls64(lo, hi) == IF lo = {} THEN fls(hi) + B ELSE fls(lo)
ffz64(lo, hi) == ffz(lo)
flz64(lo, hi) == IF lo = {} THEN flz(hi) + B ELSE flz(lo)
hweight64(lo, hi) == hweight(hi) + hweight(lo)

-----------------------------------------------------------------------------
(* Searching *)

\* The whole words first, then what is left of the last one.
bitmap_find_first_bit(m, n) ==
  LET full == {k \in 0..((n \div B) - 1) : m[k] # {}}
      tmp == m[n \div B] \cap 0..((n % B) - 1)
  IN IF full # {} THEN Min(full) * B + ffs(m[Min(full)])
     ELSE IF tmp = {} THEN 0 ELSE (n \div B) * B + ffs(tmp)

\* The last word first, then the whole words downwards; size if there is none.
bitmap_find_last_bit(m, n) ==
  LET tmp == m[n \div B] \cap 0..((n % B) - 1)
      full == {k \in 0..((n \div B) - 1) : m[k] # {}}
  IN IF tmp # {} THEN (n \div B) * B + fls(tmp)
     ELSE IF full # {} THEN Max(full) * B + fls(m[Max(full)]) ELSE n

\* Of the words from bit o on, what lies below bit n.
From(m, n, o) == [k \in (o \div B)..((n - 1) \div B) |->
  m[k] \cap (IF k = o \div B THEN SHL(ONES, o % B) ELSE ONES)
       \cap (IF (k + 1) * B > n THEN 0..((n % B) - 1) ELSE ONES)]

FirstOf(words) ==
  LET some == {k \in DOMAIN words : words[k] # {}}
  IN IF some = {} THEN 0 ELSE Min(some) * B + ffs(words[Min(some)])

\* Mutant: the position is taken as 0-based.
NextAfter(m, n, offset) ==
  IF offset = 0 \/ offset >= n THEN 0 ELSE FirstOf(From(m, n, offset))

bitmap_find_next_bit(m, n, offset) ==
  IF offset = 0 \/ offset - 1 >= n THEN 0 ELSE FirstOf(From(m, n, offset - 1))

bitmap_find_next_zero_bit(m, n, offset) ==
  IF offset = 0 \/ offset - 1 >= n THEN 0
  ELSE FirstOf(From([k \in DOMAIN m |-> NOT(m[k])], n, offset - 1))

-----------------------------------------------------------------------------
(* Setting and clearing *)

\* The mask that bitmap_set() and bitmap_clear() apply to word k: whole words
\* from the first, which is masked, on; then what is left.
Area(start, nr, k) ==
  LET size == start + nr
      left == IF size \div B > start \div B THEN size % B ELSE nr
      first == IF k = start \div B THEN BITMAP_FIRST_WORD_MASK(start) ELSE ONES
  IN IF k < start \div B \/ k > size \div B \/ (k = size \div B /\ left = 0) THEN {}
     ELSE IF k < size \div B THEN first ELSE first \cap BITMAP_LAST_WORD_MASK(size)

bitmap_set(m, start, nr) == [k \in DOMAIN m |-> m[k] \cup Area(start, nr, k)]
bitmap_clear(m, start, nr) == [k \in DOMAIN m |-> m[k] \ Area(start, nr, k)]
bitmap_zero(m, n) == [k \in DOMAIN m |-> IF k < BITS_TO_LONGS(n) THEN {} ELSE m[k]]
bitmap_fill(m, n) == [k \in DOMAIN m |->
  IF k < BITS_TO_LONGS(n) - 1 THEN ONES
  ELSE IF k = BITS_TO_LONGS(n) - 1 THEN BITMAP_LAST_WORD_MASK(n) ELSE m[k]]

-----------------------------------------------------------------------------
(* Two bitmaps *)

\* The words that count, the last one masked.
Masked(m, n) == [k \in 0..((n - 1) \div B) |->
  IF k < n \div B THEN m[k] ELSE m[k] \cap BITMAP_LAST_WORD_MASK(n)]

bitmap_equal(a, b, n) == \A k \in 0..((n - 1) \div B) : Masked(a, n)[k] = Masked(b, n)[k]
bitmap_intersects(a, b, n) ==
  \E k \in 0..((n - 1) \div B) : Masked(a, n)[k] \cap b[k] # {}
bitmap_subset(a, b, n) == \A k \in 0..((n - 1) \div B) : Masked(a, n)[k] \subseteq b[k]
bitmap_full(a, n) ==
  \A k \in 0..((n - 1) \div B) : Masked([j \in DOMAIN a |-> NOT(a[j])], n)[k] = {}
bitmap_weight(a, n) == FoldFunction(LAMBDA w, s : hweight(w) + s, 0, Masked(a, n))
bitmap_complement(dst, a, n) == [k \in DOMAIN dst |->
  IF k \in 0..((n - 1) \div B) THEN Masked([j \in DOMAIN a |-> NOT(a[j])], n)[k] ELSE dst[k]]

\* These store a word computed from word k of both, for BITS_TO_LONGS words.
Stored(dst, word, n) ==
  [k \in DOMAIN dst |-> IF k < BITS_TO_LONGS(n) THEN word[k] ELSE dst[k]]
bitmap_and(dst, a, b, n) == Stored(dst, [k \in DOMAIN a |-> a[k] \cap b[k]], n)
bitmap_or(dst, a, b, n) == Stored(dst, [k \in DOMAIN a |-> a[k] \cup b[k]], n)
bitmap_xor(dst, a, b, n) ==
  Stored(dst, [k \in DOMAIN a |-> (a[k] \ b[k]) \cup (b[k] \ a[k])], n)
bitmap_andnot(dst, a, b, n) == Stored(dst, [k \in DOMAIN a |-> a[k] \ b[k]], n)

-----------------------------------------------------------------------------
(* Shifting *)

\* The bits of word k that __bitmap_shift_* take.
Taken(src, k, n) ==
  IF n % B # 0 /\ k = BITS_TO_LONGS(n) - 1 THEN src[k] \cap BITMAP_LAST_WORD_MASK(n) ELSE src[k]

Cut(w, k, n) ==
  IF n % B # 0 /\ k = BITS_TO_LONGS(n) - 1 THEN w \cap BITMAP_LAST_WORD_MASK(n) ELSE w

bitmap_shift_left(dst, src, shift, n) ==
  LET lim == BITS_TO_LONGS(n) off == shift \div B rem == shift % B
  IN [k \in DOMAIN dst |->
       IF k >= lim THEN dst[k] ELSE IF k < off THEN {}
       ELSE LET lower == IF rem # 0 /\ k - off > 0 THEN src[k - off - 1] ELSE {}
            IN Cut(SHR(lower, B - rem) \cup SHL(Taken(src, k - off, n), rem), k, n)]

bitmap_shift_right(dst, src, shift, n) ==
  LET lim == BITS_TO_LONGS(n) off == shift \div B rem == shift % B
  IN [k \in DOMAIN dst |->
       IF k >= lim THEN dst[k] ELSE IF k + off >= lim THEN {}
       ELSE LET upper == IF rem = 0 \/ off + k + 1 >= lim THEN {} ELSE Taken(src, off + k + 1, n)
            IN Cut(SHL(upper, B - rem) \cup SHR(Taken(src, off + k, n), rem), k, n)]

-----------------------------------------------------------------------------
(* Properties *)

\* The bits of a bitmap of n bits, 1-based.
Bits(m, n) == {b \in 1..n : (b - 1) % B \in m[(b - 1) \div B]}
Least(S) == IF S = {} THEN 0 ELSE Min(S)
Clean(m, n) == \A k \in DOMAIN m : \A b \in m[k] : k * B + b < n

\* The word operations find and count the right bits; those on two words only
\* where the word they do not look at has nothing to say.
WordsExact ==
  LET lo == bin.m[0] hi == bin.m[1]
      bits(l, h) == {b + 1 : b \in l} \cup {b + B + 1 : b \in h}
      wide == {b \in 0..30 : (b % B) \in (IF (b \div B) % 2 = bin.at % 2 THEN lo ELSE hi)}
      most(S) == IF S = {} THEN 0 ELSE Max(S)
  IN /\ lo \cup hi # {} => ffs64(lo, hi) = Least(bits(lo, hi))
     /\ (lo # {} /\ hi = {}) \/ (lo = {} /\ hi # {}) => fls64(lo, hi) = most(bits(lo, hi))
     /\ lo # ONES => ffz64(lo, hi) = Least(bits(NOT(lo), NOT(hi)))
     /\ lo = {} \/ hi = ONES => flz64(lo, hi) = most(bits(NOT(lo), NOT(hi)))
     /\ hweight64(lo, hi) = Cardinality(bits(lo, hi))
     /\ bin.n = 1 => hweight32(wide) = Cardinality(wide)

\* Every search finds the bit it should, at any size and from any position,
\* whatever lies past the size: the first, the next or the last one.
SearchExact ==
  LET S == Bits(bin.m, bin.n)
      zeros == (1..bin.n) \ S
  IN /\ bitmap_find_first_bit(bin.m, bin.n) = Least(S)
     /\ bitmap_find_last_bit(bin.m, bin.n) = (IF S = {} THEN bin.n ELSE Max(S))
     /\ bin.at > 0 =>
          /\ bitmap_find_next_bit(bin.m, bin.n, bin.at) = Least({b \in S : b >= bin.at})
          /\ bitmap_find_next_zero_bit(bin.m, bin.n, bin.at) = Least({b \in zeros : b >= bin.at})

\* Setting and clearing an area changes the bits of the area and no others;
\* filling and zeroing leave the bits of the bitmap so.
AreaExact ==
  LET all == B * Cardinality(Words)
      area == {b \in 1..all : b > bin.at /\ b <= bin.at + bin.n}
  IN /\ bin.at + bin.n <= MaxBits =>
          /\ Bits(bitmap_set(bin.m, bin.at, bin.n), all) = Bits(bin.m, all) \cup area
          /\ Bits(bitmap_clear(bin.m, bin.at, bin.n), all) = Bits(bin.m, all) \ area
     /\ Bits(bitmap_fill(bin.m, bin.n), bin.n) = 1..bin.n
     /\ Bits(bitmap_zero(bin.m, bin.n), bin.n) = {}

\* What compares, counts and combines bitmaps agrees with the sets of their
\* bits, whatever lies past the size.
SetsExact ==
  LET a == Bits(bin.m, bin.n) b == Bits(bin.o, bin.n)
      got(m) == Bits(m, bin.n)
  IN /\ bitmap_equal(bin.m, bin.o, bin.n) <=> a = b
     /\ bitmap_intersects(bin.m, bin.o, bin.n) <=> a \cap b # {}
     /\ bitmap_subset(bin.m, bin.o, bin.n) <=> a \subseteq b
     /\ bitmap_full(bin.m, bin.n) <=> a = 1..bin.n
     /\ bitmap_weight(bin.m, bin.n) = Cardinality(a)
     /\ got(bitmap_complement(bin.o, bin.m, bin.n)) = (1..bin.n) \ a
     /\ got(bitmap_and(bin.o, bin.m, bin.o, bin.n)) = a \cap b
     /\ got(bitmap_or(bin.o, bin.m, bin.o, bin.n)) = a \cup b
     /\ got(bitmap_xor(bin.o, bin.m, bin.o, bin.n)) = (a \ b) \cup (b \ a)
     /\ got(bitmap_andnot(bin.o, bin.m, bin.o, bin.n)) = a \ b

\* Shifts move every bit, across the words' boundaries too; a right shift needs
\* the bits past the size to be 0.
ShiftExact ==
  LET S == Bits(bin.m, bin.n)
  IN bin.at <= bin.n =>
     /\ Bits(bitmap_shift_left(bin.o, bin.m, bin.at, bin.n), bin.n)
          = {b + bin.at : b \in S} \cap 1..bin.n
     /\ Clean(bin.m, bin.n) =>
          Bits(bitmap_shift_right(bin.o, bin.m, bin.at, bin.n), bin.n)
            = {b - bin.at : b \in S} \cap 1..bin.n

\* Bit operations and bitmaps compute what they should of the sets of bit numbers.
BitmapsExact == bin # NoBits =>
  WordsExact /\ SearchExact /\ AreaExact /\ SetsExact /\ ShiftExact
=============================================================================
