-------------------------------- MODULE Libc --------------------------------
(***************************************************************************)
(* lib/libc: memory, strings and vsnprintf(), and accesses to device       *)
(* registers along a chain of buses (drivers/io).                          *)
(*                                                                         *)
(* Memory is a function from addresses; a character is a small number, 0   *)
(* being '\0'.  vsnprintf() is given its format as directives: characters, *)
(* conversions with a width, and strings; digits are their values, "minus" *)
(* is Minus.                                                               *)
(***************************************************************************)
EXTENDS Integers, Sequences, SequencesExt, FiniteSets

CONSTANTS WSIZE,     \* sizeof(word) of memcpy()
          MemSize,   \* size of memory
          PORTS,     \* port addresses wrap here
          Formats,   \* directives and the size of the buffer
          BusChains  \* chains of buses, the device's own first

VARIABLES min,   \* memory and the arguments of its functions
          pin,   \* those of vsnprintf()
          ain    \* buses, address and offset of an access

Mem == 0..(MemSize - 1)

\* Memory holds different bytes, or two strings; the arguments stay inside.
MemInputs ==
  {i \in [mem : {[a \in Mem |-> a + 1],
                 [a \in Mem |-> IF a % 5 = 4 THEN 0 ELSE 1 + ((a % 5) % 3)]},
          dst : Mem, src : Mem, n : 0..(MemSize \div 2)] :
     i.dst + i.n <= MemSize /\ i.src + i.n <= MemSize}

-----------------------------------------------------------------------------
(* Memory *)

\* count bytes, one after the other, upwards.
CopyUp(mem, dst, src, count) ==
  FoldLeft(LAMBDA m, i : [m EXCEPT ![dst + i - 1] = m[src + i - 1]], mem, [i \in 1..count |-> i])

CopyDown(mem, dst, src, count) ==
  FoldLeft(LAMBDA m, i : [m EXCEPT ![dst + count - i] = m[src + count - i]],
           mem, [i \in 1..count |-> i])

\* A word is read before it is written.
CopyWord(mem, dst, src) == [a \in DOMAIN mem |->
  IF a \in dst..(dst + WSIZE - 1) THEN mem[src + a - dst] ELSE mem[a]]

CopyWords(mem, dst, src, count) ==
  FoldLeft(LAMBDA m, i : CopyWord(m, dst + (i - 1) * WSIZE, src + (i - 1) * WSIZE),
           mem, [i \in 1..count |-> i])

\* Mutant: the bytes before the first word are not taken off the length.
CopyHeadTwice(mem, dst, src, length) ==
  LET t == IF src % WSIZE = 0 /\ dst % WSIZE = 0 THEN 0
           ELSE IF src % WSIZE # dst % WSIZE \/ length < WSIZE THEN length
           ELSE WSIZE - (src % WSIZE)
      head == CopyUp(mem, dst, src, t)
      words == length \div WSIZE
      body == CopyWords(head, dst + t, src + t, words)
  IN IF length = 0 \/ dst = src THEN mem
     ELSE CopyUp(body, dst + t + words * WSIZE, src + t + words * WSIZE, length % WSIZE)

\* memcpy: bytes up to a word's boundary if both addresses have one together,
\* else all of them; then words; then the bytes that are left.
memcpy(mem, dst, src, length) ==
  LET t == IF src % WSIZE = 0 /\ dst % WSIZE = 0 THEN 0
           ELSE IF src % WSIZE # dst % WSIZE \/ length < WSIZE THEN length
           ELSE WSIZE - (src % WSIZE)
      head == CopyUp(mem, dst, src, t)
      words == (length - t) \div WSIZE
      body == CopyWords(head, dst + t, src + t, words)
  IN IF length = 0 \/ dst = src THEN mem
     ELSE CopyUp(body, dst + t + words * WSIZE, src + t + words * WSIZE, (length - t) % WSIZE)

\* memmove: downwards if the source's end would be overwritten.
memmove(mem, dst, src, n) ==
  IF src < dst /\ src + n > dst THEN CopyDown(mem, dst, src, n) ELSE CopyUp(mem, dst, src, n)

memset(mem, dst, c, n) ==
  FoldLeft(LAMBDA m, i : [m EXCEPT ![dst + i - 1] = c], mem, [i \in 1..n |-> i])

\* Where the loops of memcmp() and strcmp() stop.
FirstWhere(n, P(_)) == CHOOSE i \in 0..n : (i = n \/ P(i)) /\ \A j \in 0..(i - 1) : ~P(j)

memcmp(mem, b1, b2, count) ==
  LET i == FirstWhere(count - 1, LAMBDA j : mem[b1 + j] # mem[b2 + j])
  IN IF count = 0 THEN 0 ELSE mem[b1 + i] - mem[b2 + i]

strcmp(mem, s1, s2) ==
  LET i == FirstWhere(MemSize, LAMBDA j : mem[s1 + j] # mem[s2 + j] \/ mem[s1 + j] = 0)
  IN mem[s1 + i] - mem[s2 + i]

\* strlcpy: at most dsize bytes, up to the first '\0'; returns their number,
\* without the '\0'.
StrlcpyEnd(mem, src, dsize) == FirstWhere(dsize, LAMBDA j : mem[src + j] = 0)

strlcpy(mem, dst, src, dsize) ==
  LET i == StrlcpyEnd(mem, src, dsize)
  IN CopyUp(mem, dst, src, IF i = dsize THEN i ELSE i + 1)

-----------------------------------------------------------------------------
(* vsnprintf *)

Minus == 90
Space == 91
Zero == 0

\* Digits, the lowest first.
DigitsOf(base) ==
  LET f[v \in 0..1000] == IF v = 0 THEN <<>> ELSE <<v % base>> \o f[v \div base]
  IN f

\* print_uint: the digits, or the lowest width of them after zeros.  (The test
\* for FLAG_ZEROPAD is always true.)
Number(v, base, width) ==
  LET digs == DigitsOf(base)[IF v < 0 THEN -v ELSE v]
      buf == IF digs = <<>> THEN <<Zero>> ELSE digs
      sign == IF v < 0 THEN <<Minus>> ELSE <<>>
  IN sign \o (IF width = 0 THEN Reverse(buf)
              ELSE [i \in 1..width |-> IF width - i >= Len(buf) THEN Zero ELSE buf[width - i + 1]])

\* 's': the string, then spaces.
String(s, width) == s \o [i \in 1..(IF width > Len(s) THEN width - Len(s) ELSE 0) |-> Space]

Text1(d) == CASE d.conv = "char" -> <<d.arg>>
              [] d.conv = "str" -> String(d.str, d.width)
              [] OTHER -> Number(d.arg, d.base, d.width)

AllText(dirs) == FlattenSeq([i \in DOMAIN dirs |-> Text1(dirs[i])])

\* The buffer is OutSize bytes of memory, of which the caller owns size.
OutSize == 12
Junk == 92
Open == -1

\* set_ch: a character; after the one that makes pos the size, the last becomes
\* '\0' and vsnprintf() returns the size, also if the '\0' was what filled it.
set_ch(o, ch, size) ==
  IF o.ret # Open THEN o
  ELSE IF o.pos + 1 = size
  THEN [str |-> [o.str EXCEPT ![o.pos] = ch, ![size - 1] = 0], pos |-> size, ret |-> size]
  ELSE [str |-> [o.str EXCEPT ![o.pos] = ch], pos |-> o.pos + 1, ret |-> Open]

\* The characters one by one, then '\0', which is not counted.
vsnprintf(dirs, size) ==
  LET o == FoldLeft(LAMBDA acc, ch : set_ch(acc, ch, size),
                    [str |-> [i \in 0..(OutSize - 1) |-> Junk], pos |-> 0, ret |-> Open],
                    AllText(dirs) \o <<0>>)
  IN [str |-> o.str, ret |-> IF o.ret = Open THEN o.pos - 1 ELSE o.ret]

-----------------------------------------------------------------------------
(* Registers behind buses *)

\* A memory bus makes the access at base + offset.
MemBus(acc) == [space |-> "mem", at |-> acc.base + acc.at, base |-> 0]

\* Mutant: the outer bus is given the device's base, not the inner bus's.
PortBusKeepsBase(acc, bus) ==
  IF bus.root THEN [space |-> "port", at |-> (acc.base + acc.at) % PORTS, base |-> 0]
  ELSE [space |-> "up", base |-> acc.base, at |-> acc.base + acc.at]

\* A port bus passes the access to its own bus, at its base there, or makes it
\* at the port with that number.
PortBus(acc, bus) ==
  IF bus.root THEN [space |-> "port", at |-> (acc.base + acc.at) % PORTS, base |-> 0]
  ELSE [space |-> "up", base |-> bus.base, at |-> acc.base + acc.at]

\* A bus's read or write function, of any width, and those of the buses above.
Access(chain, base, offset) ==
  LET step(acc, bus) ==
        IF acc.space # "up" THEN acc
        ELSE IF bus.kind = "mem" THEN MemBus(acc) ELSE PortBus(acc, bus)
      end == FoldLeft(step, [space |-> "up", base |-> base, at |-> offset], chain)
  IN [space |-> end.space, at |-> end.at]

-----------------------------------------------------------------------------
(* Properties *)

\* memmove() is exact for overlapping areas, memcpy() for those that do not
\* overlap, at every alignment; nothing outside the destination changes.
MemoryExact ==
  LET i == min
      moved == [a \in Mem |-> IF a \in i.dst..(i.dst + i.n - 1)
                              THEN i.mem[i.src + a - i.dst] ELSE i.mem[a]]
  IN /\ memmove(i.mem, i.dst, i.src, i.n) = moved
     /\ i.dst + i.n <= i.src \/ i.src + i.n <= i.dst => memcpy(i.mem, i.dst, i.src, i.n) = moved
     /\ memset(i.mem, i.dst, 0, i.n)
          = [a \in Mem |-> IF a \in i.dst..(i.dst + i.n - 1) THEN 0 ELSE i.mem[a]]

\* memcmp() and strcmp() are 0 exactly for equal areas and strings, and negative
\* exactly if the first area or string comes first in lexical order (a string
\* before those it begins); strlcpy() copies the string that fits, and leaves
\* what does not fit without its end.
StringsExact ==
  LET i == min
      area(a, n) == [k \in 1..n |-> i.mem[a + k - 1]]
      before(s, t) == \E k \in DOMAIN s \cap DOMAIN t :
        SubSeq(s, 1, k - 1) = SubSeq(t, 1, k - 1) /\ s[k] < t[k]
      ends(a) == \E b \in a..(MemSize - 1) : i.mem[b] = 0
      len(a) == (CHOOSE b \in a..(MemSize - 1) : i.mem[b] = 0 /\ \A c \in a..(b - 1) : i.mem[c] # 0) - a
  IN /\ memcmp(i.mem, i.dst, i.src, i.n) = 0 <=> area(i.dst, i.n) = area(i.src, i.n)
     /\ memcmp(i.mem, i.dst, i.src, i.n) < 0 <=> before(area(i.dst, i.n), area(i.src, i.n))
     /\ ends(i.dst) /\ ends(i.src) =>
          /\ strcmp(i.mem, i.dst, i.src) = 0
               <=> len(i.dst) = len(i.src) /\ area(i.dst, len(i.dst)) = area(i.src, len(i.src))
          /\ strcmp(i.mem, i.dst, i.src) < 0
               <=> before(area(i.dst, len(i.dst) + 1), area(i.src, len(i.src) + 1))
          /\ i.dst + i.n <= i.src \/ i.src + i.n <= i.dst =>
               LET after == strlcpy(i.mem, i.dst, i.src, i.n)
                   copied == IF len(i.src) < i.n THEN len(i.src) + 1 ELSE i.n
               IN after = [a \in Mem |-> IF a \in i.dst..(i.dst + copied - 1)
                                         THEN i.mem[i.src + a - i.dst] ELSE i.mem[a]]

\* What is printed of a number reads back as the number, or as its lowest
\* digits if the width is too small for it.
NumbersReadBack ==
  \A j \in DOMAIN pin.dirs :
    LET d == pin.dirs[j]
        text == Text1(d)
        digs == SelectSeq(text, LAMBDA c : c # Minus)
        value == FoldLeft(LAMBDA v, c : v * d.base + c, 0, digs)
        abs == IF d.arg < 0 THEN -d.arg ELSE d.arg
    IN d.conv = "num" =>
         /\ value = IF d.width = 0 THEN abs ELSE abs % d.base^d.width
         /\ Len(digs) >= 1
         /\ Minus \in Range(text) <=> d.arg < 0

\* The bytes behind a buffer that has a size are never written, it always ends,
\* it holds as much of the text as fits, and the returned length is the text's
\* if there was room to spare.  A buffer of size 0 is overrun by the whole text:
\* set_ch() compares the size only after it has stored.
BufferKept ==
  LET r == vsnprintf(pin.dirs, pin.size)
      text == AllText(pin.dirs)
      kept == IF pin.size = 0 \/ Len(text) < pin.size THEN Len(text) ELSE pin.size - 1
  IN /\ \A k \in 0..(OutSize - 1) :
          r.str[k] = IF k < kept THEN text[k + 1] ELSE IF k = kept THEN 0 ELSE Junk
     /\ r.ret = IF Len(text) + 1 = pin.size THEN pin.size ELSE
                IF pin.size = 0 \/ Len(text) < pin.size THEN Len(text) ELSE pin.size

\* A register is reached at the sum of its offset and of all bases on the way
\* to the bus where the access is made.
AccessExact ==
  LET c == ain.chain
      last == CHOOSE i \in DOMAIN c : (c[i].kind = "mem" \/ c[i].root)
                /\ \A j \in 1..(i - 1) : c[j].kind # "mem" /\ ~c[j].root
      sum == ain.base + ain.offset
             + FoldLeft(LAMBDA s, b : s + b.base, 0, SubSeq(c, 1, last - 1))
  IN Access(c, ain.base, ain.offset) =
       IF c[last].kind = "mem" THEN [space |-> "mem", at |-> sum]
       ELSE [space |-> "port", at |-> sum % PORTS]

\* The libc subset computes what it should: memory, strings and formatted text.
LibcExact == MemoryExact /\ StringsExact /\ NumbersReadBack /\ BufferKept
=============================================================================
