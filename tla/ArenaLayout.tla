---------------------------- MODULE ArenaLayout -----------------------------
(***************************************************************************)
(* What is true of the pages, the cursor and the blocks of an arena        *)
(* whichever interface it is used through, and the lemmas that its         *)
(* functions keep it so.                                                   *)
(***************************************************************************)
EXTENDS Arena, SequenceTheorems, TLAPS

Page == [base : PageBases, size : Nat]

ArenaState ==
  [pages : Seq(Page), index : Nat, current : Nat, sentinel : Nat, last : Nat,
   mem : [Addr -> Cell]]

\* The current page, from its base to its top.
Base(s) == s.pages[s.index + 1].base
Top(s) == s.pages[s.index + 1].base + s.pages[s.index + 1].size

\* Pages are in memory, hold a page size of ps, and have no byte in common.
PagesOK(s, ps) ==
  /\ \A i \in 1 .. Len(s.pages) :
       /\ ps <= s.pages[i].size
       /\ s.pages[i].base + s.pages[i].size <= AddrMax + 1
  /\ \A i, j \in 1 .. Len(s.pages) :
       i # j => Apart(s.pages[i].base, s.pages[i].size, s.pages[j].base, s.pages[j].size)

\* The cursor is in the current page, or behind what is used of it.
CursorOK(s) ==
  IF s.pages = <<>>
    THEN s.current = Null /\ s.sentinel = Null /\ s.last = Null
    ELSE s.index < Len(s.pages) /\ Base(s) <= s.current /\ s.sentinel <= Top(s)

\* The bytes from lo up to hi are in a page, behind the cursor.
Holds(s, lo, hi) ==
  \E i \in 1 .. Len(s.pages) :
    /\ s.pages[i].base <= lo
    /\ hi <= s.pages[i].base + s.pages[i].size
    /\ i <= s.index + 1
    /\ i = s.index + 1 => hi <= s.current

\* They are in a page that is the current one or was before.
Reached(s, lo, hi) ==
  \E i \in 1 .. Len(s.pages) :
    s.pages[i].base <= lo /\ hi <= s.pages[i].base + s.pages[i].size /\ i <= s.index + 1

\* They are not between last and the top of the current page.
Below(s, lo, hi) == hi <= s.last \/ Top(s) <= lo

BlocksOK(s, b) ==
  /\ \A h \in Handle : b[h] # NoBlock => Holds(s, Start(b[h]), End(b[h]))
  /\ \A g, h \in Handle : b[g] # NoBlock /\ b[h] # NoBlock /\ g # h =>
       End(b[g]) <= Start(b[h]) \/ End(b[h]) <= Start(b[g])

LastOK(s, b) ==
  s.last # Null =>
    /\ Base(s) <= s.last /\ s.last <= s.current
    /\ \A h \in Handle : b[h] # NoBlock /\ Start(b[h]) # s.last => Below(s, Start(b[h]), End(b[h]))

Layout(s, ps, b) == PagesOK(s, ps) /\ CursorOK(s) /\ BlocksOK(s, b) /\ LastOK(s, b)

-----------------------------------------------------------------------------
(***************************************************************************)
(* Alignment.                                                              *)
(***************************************************************************)

\* The remainder of a division is what is left of the divisor's multiples.
LEMMA Remainder ==
  ASSUME NEW m \in Nat, NEW a \in Nat \ {0}
  PROVE  /\ m \div a \in Nat
         /\ m % a \in 0 .. a - 1
         /\ m = a * (m \div a) + (m % a)
OBVIOUS

\* A multiple of a and less than a make a sum with that remainder.
LEMMA RemainderOfSum ==
  ASSUME NEW q \in Int, NEW a \in Nat \ {0}, NEW r \in 0 .. a - 1
  PROVE  (a * q + r) % a = r
OBVIOUS

\* A multiple of a does not change a remainder.
LEMMA AddMultiple ==
  ASSUME NEW x \in Nat, NEW y \in Nat, NEW a \in Nat \ {0}, x % a = 0
  PROVE  (x + y) % a = y % a
<1> DEFINE q == x \div a
           k == y \div a
           r == y % a
<1>1. q \in Nat /\ k \in Nat /\ r \in 0 .. a - 1 /\ x = a * q /\ y = a * k + r
  BY Remainder
<1> HIDE DEF q, k, r
<1>2. a * q + (a * k + r) = a * (q + k) + r
  BY <1>1
<1>3. (a * (q + k) + r) % a = r
  BY <1>1, RemainderOfSum
<1> QED
  BY <1>1, <1>2, <1>3 DEF r

\* The bounds of memory.
LEMMA Bounds ==
  /\ SizeMax \in Nat /\ AddrMax \in Nat /\ AddrMax <= SizeMax
  /\ SizeT \in Nat \ {0} /\ MaxAlign \in Nat \ {0} /\ SizeT <= MaxAlign
  /\ \A b \in PageBases : b \in Nat \ {0} /\ b % MaxAlign = 0
BY ArenaAssumption DEF ArenaAssumption

\* A sum that size_t can hold does not wrap.
LEMMA NoWrap ==
  ASSUME NEW x \in Nat, x <= SizeMax
  PROVE  Wrap(x) = x
<1>1. x \in 0 .. (SizeMax + 1) - 1 /\ SizeMax + 1 \in Nat \ {0}
  BY Bounds
<1>2. ((SizeMax + 1) * 0 + x) % (SizeMax + 1) = x
  BY <1>1, RemainderOfSum
<1>3. (SizeMax + 1) * 0 + x = x
  BY <1>1
<1> QED
  BY <1>2, <1>3 DEF Wrap

\* _mulle_arena_align_pointer yields the next multiple of the alignment, if
\* the sum it makes does not wrap.
LEMMA AlignUp ==
  ASSUME NEW p \in Nat, NEW a \in Nat \ {0}, p + (a - 1) <= SizeMax
  PROVE  /\ Align(p, a) \in Nat
         /\ p <= Align(p, a)
         /\ Align(p, a) <= p + (a - 1)
         /\ Align(p, a) % a = 0
<1> DEFINE m == p + (a - 1)
<1>1. m \in Nat /\ m = p + (a - 1) /\ m <= SizeMax
  OBVIOUS
<1> HIDE DEF m
<1> DEFINE r == m % a
           k == m \div a
<1>2. k \in Nat /\ r \in 0 .. a - 1 /\ m = a * k + r
  BY <1>1, Remainder
<1>3. Align(p, a) = m - r
  BY <1>1, NoWrap DEF Align
<1> HIDE DEF r, k
<1>4. m - r = a * k + 0 /\ a * k \in Nat
  BY <1>1, <1>2
<1>5. (a * k + 0) % a = 0
  BY <1>2, RemainderOfSum
<1> QED
  BY <1>1, <1>2, <1>3, <1>4, <1>5

-----------------------------------------------------------------------------
(***************************************************************************)
(* A new page.                                                             *)
(***************************************************************************)

\* The cursor of c is at the start of a page that s has not reached, with
\* min bytes in front of the sentinel.
OnNewPage(s, c, ps, min) ==
  /\ c \in ArenaState /\ PagesOK(c, ps)
  /\ c.index < Len(c.pages)
  /\ c.current = Base(c) /\ c.current + min <= c.sentinel /\ c.sentinel <= Top(c)
  /\ \A i \in 1 .. Len(s.pages) :
       /\ i \in 1 .. Len(c.pages) /\ c.pages[i] = s.pages[i]
       /\ i <= s.index + 1 => i <= c.index
  /\ \A x \in Addr : c.mem[x] # s.mem[x] => Base(c) <= x /\ x < Top(c)

\* The base and the size of a page are numbers.
LEMMA PageType == \A p \in Page : p.base \in Nat \ {0} /\ p.size \in Nat
BY Bounds DEF Page

\* What the members of an arena are.
LEMMA StateType ==
  ASSUME NEW s \in ArenaState
  PROVE  /\ s.pages \in Seq(Page) /\ Len(s.pages) \in Nat /\ DOMAIN s.pages = 1 .. Len(s.pages)
         /\ \A i \in 1 .. Len(s.pages) :
              /\ s.pages[i] \in Page
              /\ s.pages[i].base \in Nat \ {0} /\ s.pages[i].size \in Nat
         /\ s.index \in Nat /\ s.current \in Nat /\ s.sentinel \in Nat /\ s.last \in Nat
         /\ s.mem \in [Addr -> Cell]
<1>1. /\ s.pages \in Seq(Page) /\ s.index \in Nat /\ s.current \in Nat /\ s.sentinel \in Nat
      /\ s.last \in Nat /\ s.mem \in [Addr -> Cell]
  BY DEF ArenaState
<1>2. \A i \in 1 .. Len(s.pages) : s.pages[i] \in Page
  BY <1>1, ElementOfSeq
<1> QED
  BY <1>1, <1>2, PageType, LenProperties

\* The variables name a state of the arena.
LEMMA Became ==
  ASSUME NEW c \in ArenaState, Become(c)
  PROVE  Now' = c
BY DEF Now, Become, ArenaState

\* A store of bytes is a memory that differs in those bytes.
LEMMA StoreProperties ==
  ASSUME NEW m \in [Addr -> Cell], NEW addr \in Int, NEW n \in Int, NEW v \in Cell
  PROVE  /\ Store(m, addr, n, v) \in [Addr -> Cell]
         /\ \A x \in Addr : Store(m, addr, n, v)[x] =
              IF addr <= x /\ x < addr + n THEN v ELSE m[x]
BY DEF Store

\* What the fields of an arena's state are makes it one.
LEMMA MadeState ==
  ASSUME NEW p \in Seq(Page), NEW i \in Nat, NEW at \in Nat, NEW end \in Nat, NEW l \in Nat,
         NEW m \in [Addr -> Cell]
  PROVE  [pages |-> p, index |-> i, current |-> at, sentinel |-> end, last |-> l, mem |-> m]
           \in ArenaState
BY DEF ArenaState

\* _mulle_arena_new_page keeps the pages there are, and what is in them.
LEMMA NewPageOK ==
  ASSUME NEW s \in ArenaState, pageSize \in Nat \ {0}, PagesOK(s, pageSize),
         s.pages = <<>> \/ s.index < Len(s.pages),
         NEW min \in Nat, NEW c \in NewPage(s, min)
  PROVE  OnNewPage(s, c, pageSize, min)
<1> USE Bounds
<1>0. /\ s.pages \in Seq(Page) /\ s.index \in Nat /\ s.mem \in [Addr -> Cell] /\ s.last \in Nat
      /\ Len(s.pages) \in Nat
      /\ \A i \in 1 .. Len(s.pages) : s.pages[i] \in Page
  BY StateType
<1>1. CASE min <= pageSize /\ s.index + 1 < Len(s.pages)
  <2>1. c = Enter(s, s.index + 1, pageSize)
    BY <1>1 DEF NewPage
  <2>2. s.index + 2 \in 1 .. Len(s.pages) /\ (s.index + 1) + 1 = s.index + 2
    BY SMTT(20), <1>0, <1>1
  <2>3. /\ c = [pages |-> s.pages, index |-> s.index + 1, current |-> s.pages[s.index + 2].base,
                sentinel |-> s.pages[s.index + 2].base + pageSize, last |-> s.last, mem |-> s.mem]
        /\ c.pages = s.pages /\ c.mem = s.mem /\ c.index = s.index + 1 /\ c.last = s.last
        /\ c.current = s.pages[s.index + 2].base
        /\ c.sentinel = s.pages[s.index + 2].base + pageSize
    BY <2>1, <2>2 DEF Enter
  <2>4. s.pages[s.index + 2].base \in Nat /\ s.pages[s.index + 2].size \in Nat
        /\ pageSize <= s.pages[s.index + 2].size
    BY <1>0, <2>2 DEF Page, PagesOK
  <2>5. c \in ArenaState
    <3>1. \A x, y \in Nat : x + y \in Nat
      OBVIOUS
    <3>2. s.index + 1 \in Nat /\ s.pages[s.index + 2].base + pageSize \in Nat
      BY <1>0, <2>4, <3>1
    <3> QED
      BY <1>0, <2>3, <2>4, <3>2, MadeState
  <2>6. PagesOK(c, pageSize)
    BY <2>3 DEF PagesOK
  <2>7. /\ Base(c) = s.pages[s.index + 2].base
        /\ Top(c) = s.pages[s.index + 2].base + s.pages[s.index + 2].size
    BY <2>2, <2>3 DEF Base, Top
  <2>8. /\ c.index < Len(c.pages)
        /\ c.current = Base(c) /\ c.current + min <= c.sentinel /\ c.sentinel <= Top(c)
    <3>1. c.index < Len(c.pages)
      BY <1>1, <2>3
    <3>2. c.sentinel = c.current + pageSize /\ c.current = Base(c) /\ Base(c) \in Nat
          /\ Top(c) = Base(c) + s.pages[s.index + 2].size
      BY <2>3, <2>4, <2>7
    <3>3. c.current + min <= c.sentinel
      BY <1>1, <3>2
    <3>4. c.sentinel <= Top(c)
      BY <2>4, <3>2
    <3> QED
      BY <3>1, <3>2, <3>3, <3>4
  <2>9. \A i \in 1 .. Len(s.pages) :
          /\ i \in 1 .. Len(c.pages) /\ c.pages[i] = s.pages[i]
          /\ i <= s.index + 1 => i <= c.index
    BY <2>3
  <2> QED
    BY <2>3, <2>5, <2>6, <2>8, <2>9 DEF OnNewPage
<1>2. CASE ~(min <= pageSize /\ s.index + 1 < Len(s.pages))
  <2> DEFINE size == IF min > pageSize THEN min ELSE pageSize
             len == Len(s.pages)
  <2>0. size \in Nat /\ pageSize <= size /\ min <= size /\ len \in Nat /\ size > 0
    BY <1>0
  <2>1. PICK page \in FreshPages(s, size) : c = Enter(AddPage(s, page), len, page.size)
    <3>1. c \in {Enter(AddPage(s, page), Len(s.pages), page.size) : page \in FreshPages(s, size)}
      BY <1>2 DEF NewPage
    <3> QED
      BY <3>1
  <2>2. /\ page \in Page /\ page.base \in Nat \ {0} /\ page.size = size
        /\ page.base + size <= AddrMax + 1
        /\ \A i \in 1 .. len : Apart(page.base, size, s.pages[i].base, s.pages[i].size)
    <3>1. PICK b \in PageBases : /\ page = [base |-> b, size |-> size]
                                 /\ b + size - 1 <= AddrMax
                                 /\ \A i \in DOMAIN s.pages :
                                      Apart(b, size, s.pages[i].base, s.pages[i].size)
      BY <2>1 DEF FreshPages
    <3>2. DOMAIN s.pages = 1 .. len
      BY <1>0, LenProperties
    <3> QED
      BY <3>1, <3>2, <2>0 DEF Page
  <2> HIDE DEF size
  <2>3. /\ Append(s.pages, page) \in Seq(Page) /\ Len(Append(s.pages, page)) = len + 1
        /\ \A i \in 1 .. len : Append(s.pages, page)[i] = s.pages[i]
        /\ Append(s.pages, page)[len + 1] = page
    BY <1>0, <2>2, AppendProperties
  <2>4. /\ c.pages = Append(s.pages, page) /\ c.index = len /\ c.last = s.last
        /\ c.current = page.base /\ c.sentinel = page.base + size
        /\ c.mem = Store(s.mem, page.base, size, Zero)
        /\ c = [pages |-> Append(s.pages, page), index |-> len, current |-> page.base,
                sentinel |-> page.base + size, last |-> s.last,
                mem |-> Store(s.mem, page.base, size, Zero)]
    BY <2>1, <2>2, <2>3 DEF Enter, AddPage
  <2>5. /\ Store(s.mem, page.base, size, Zero) \in [Addr -> Cell]
        /\ \A x \in Addr : Store(s.mem, page.base, size, Zero)[x] # s.mem[x] =>
             page.base <= x /\ x < page.base + size
    <3>1. Zero \in Cell
      BY DEF Cell
    <3>2. s.mem \in [Addr -> Cell] /\ page.base \in Int /\ size \in Int
      BY <1>0, <2>0, <2>2
    <3> DEFINE base == page.base
               m == s.mem
    <3> HIDE DEF base, m
    <3>3. /\ Store(m, base, size, Zero) \in [Addr -> Cell]
          /\ \A x \in Addr : Store(m, base, size, Zero)[x] =
               IF base <= x /\ x < base + size THEN Zero ELSE m[x]
      <4>1. m \in [Addr -> Cell] /\ base \in Int /\ size \in Int
        BY <3>2 DEF base, m
      <4> QED
        BY ONLY <3>1, <4>1, StoreProperties
    <3> QED
      BY <3>3 DEF base, m
  <2>6. c \in ArenaState
    <3>1. page.base \in Nat /\ page.base + size \in Nat /\ len \in Nat /\ s.last \in Nat
      BY <1>0, <2>0, <2>2
    <3> QED
      BY <2>3, <2>4, <2>5, <3>1, MadeState
  <2>7. Base(c) = page.base /\ Top(c) = page.base + size
    BY <2>2, <2>3, <2>4 DEF Base, Top
  <2>8. PagesOK(c, pageSize)
    <3>1. ASSUME NEW i \in 1 .. len + 1
          PROVE  /\ i \in 1 .. len => c.pages[i] = s.pages[i]
                 /\ i \notin 1 .. len => i = len + 1 /\ c.pages[i] = page
      BY SMTT(20), <2>0, <2>3, <2>4
    <3>2. ASSUME NEW i \in 1 .. len + 1
          PROVE  /\ pageSize <= c.pages[i].size
                 /\ c.pages[i].base + c.pages[i].size <= AddrMax + 1
      BY <2>0, <2>2, <3>1 DEF PagesOK
    <3>3. ASSUME NEW i \in 1 .. len + 1, NEW j \in 1 .. len + 1, i # j
          PROVE  Apart(c.pages[i].base, c.pages[i].size, c.pages[j].base, c.pages[j].size)
      <4>1. CASE i \in 1 .. len /\ j \in 1 .. len
        BY <3>1, <3>3, <4>1 DEF PagesOK
      <4>2. CASE i \notin 1 .. len
        BY <2>0, <2>2, <3>1, <3>3, <4>2
      <4>3. CASE j \notin 1 .. len
        BY <2>0, <2>2, <3>1, <3>3, <4>3 DEF Apart
      <4> QED
        BY <4>1, <4>2, <4>3
    <3> QED
      BY <2>3, <2>4, <3>2, <3>3 DEF PagesOK
  <2>9. /\ c.index < Len(c.pages)
        /\ c.current = Base(c) /\ c.current + min <= c.sentinel /\ c.sentinel <= Top(c)
    <3>1. c.index < Len(c.pages)
      BY <2>0, <2>2, <2>3, <2>4
    <3>2. page.base \in Nat /\ size \in Nat /\ min <= size
      BY <2>0, <2>2
    <3> QED
      BY <2>4, <2>7, <3>1, <3>2
  <2>10. ASSUME NEW i \in 1 .. len
         PROVE  /\ i \in 1 .. Len(c.pages) /\ c.pages[i] = s.pages[i]
                /\ i <= s.index + 1 => i <= c.index
    BY <2>0, <2>3, <2>4
  <2> QED
    BY <2>4, <2>5, <2>6, <2>7, <2>8, <2>9, <2>10 DEF OnNewPage
<1> QED
  BY <1>1, <1>2

\* What is in the pages reached is not in the new page, and stays as it is.
LEMMA HeldOnNewPage ==
  ASSUME NEW s \in ArenaState, NEW c, NEW ps \in Nat, NEW min \in Nat, OnNewPage(s, c, ps, min),
         NEW lo \in Int, NEW hi \in Int, Reached(s, lo, hi)
  PROVE  /\ Holds(c, lo, hi)
         /\ hi <= Base(c) \/ Top(c) <= lo
         /\ \A x \in Addr : lo <= x /\ x < hi => c.mem[x] = s.mem[x]
<1>1. PICK i \in 1 .. Len(s.pages) :
        s.pages[i].base <= lo /\ hi <= s.pages[i].base + s.pages[i].size /\ i <= s.index + 1
  BY DEF Reached
<1>2. i \in 1 .. Len(c.pages) /\ c.pages[i] = s.pages[i] /\ i <= c.index
  BY <1>1 DEF OnNewPage
<1>3. /\ c \in ArenaState /\ PagesOK(c, ps) /\ c.index < Len(c.pages)
  BY DEF OnNewPage
<1>4. /\ c.index \in Nat /\ c.pages \in Seq(Page) /\ Len(c.pages) \in Nat
      /\ c.index + 1 \in 1 .. Len(c.pages) /\ i \in Nat /\ i # c.index + 1
  BY <1>2, <1>3, StateType
<1> DEFINE p == c.pages[i]
           q == c.pages[c.index + 1]
<1>5. p \in Page /\ q \in Page /\ Apart(p.base, p.size, q.base, q.size)
  BY <1>2, <1>3, <1>4, ElementOfSeq DEF PagesOK
<1>6. Base(c) = q.base /\ Top(c) = q.base + q.size /\ p.base <= lo /\ hi <= p.base + p.size
  BY <1>1, <1>2 DEF Base, Top
<1> HIDE DEF p, q
<1>8. hi <= Base(c) \/ Top(c) <= lo
  BY <1>5, <1>6, PageType DEF Apart
<1>9. Base(c) \in Nat /\ Top(c) \in Nat
  BY <1>5, <1>6, PageType
<1>7. Holds(c, lo, hi)
  <2>1. i <= c.index + 1 /\ i # c.index + 1
    BY <1>2, <1>4
  <2> QED
    BY <1>1, <1>2, <2>1 DEF Holds
<1>10. \A x \in Addr : lo <= x /\ x < hi => c.mem[x] = s.mem[x]
  BY <1>8, <1>9, Bounds DEF OnNewPage, Addr
<1> QED
  BY <1>7, <1>8, <1>10

-----------------------------------------------------------------------------
(***************************************************************************)
(* The steps of an allocation: the bytes are placed, the cursor is bumped, *)
(* the bytes are filled, and the client is handed the block.               *)
(***************************************************************************)

BlockType ==
  [kind : {"none", "raw", "vtable"}, addr : Nat, size : Nat, align : Nat, len : Nat, val : Cell]

\* Where a block starts and where it ends are numbers.
LEMMA EndsType == \A x \in BlockType : Start(x) \in Int /\ End(x) \in Int
<1> SUFFICES ASSUME NEW x \in BlockType PROVE Start(x) \in Int /\ End(x) \in Int
  OBVIOUS
<1>1. x.addr \in Nat /\ x.size \in Nat
  BY DEF BlockType
<1>2. SizeT \in Int
  BY Bounds
<1> QED
  BY <1>1, <1>2 DEF Start, End

\* A client without blocks has a value of its type for each of them.
LEMMA NoBlocksFine ==
  /\ NoBlocks \in [Handle -> BlockType]
  /\ \A h \in Handle : NoBlocks[h] = NoBlock
<1>1. Zero \in Cell
  BY DEF Cell
<1> QED
  BY <1>1 DEF NoBlocks, NoBlock, Block, BlockType, Null

\* A byte of a page.
Paged(s, x) ==
  \E i \in 1 .. Len(s.pages) : s.pages[i].base <= x /\ x < s.pages[i].base + s.pages[i].size

\* What s holds is held by c, neither of it in front of the bump pointer, nor changed.
Placed(s, c, ps) ==
  /\ c \in ArenaState /\ PagesOK(c, ps)
  /\ c.index < Len(c.pages) /\ Base(c) <= c.current /\ c.sentinel <= Top(c)
  /\ \A lo, hi \in Int : Holds(s, lo, hi) =>
       /\ Holds(c, lo, hi)
       /\ hi <= c.current \/ Top(c) <= lo
       /\ \A x \in Addr : lo <= x /\ x < hi => c.mem[x] = s.mem[x]
  /\ \A lo, hi \in Int : Reached(s, lo, hi) => Reached(c, lo, hi)
  /\ \A x \in Int : Paged(s, x) => Paged(c, x)
  /\ \A x \in Addr : c.mem[x] # s.mem[x] => Paged(c, x)

\* The n bytes at last are part of no range that s holds, and behind the cursor of c.
Grown(s, c, ps, n) ==
  /\ c \in ArenaState /\ PagesOK(c, ps)
  /\ c.index < Len(c.pages) /\ c.sentinel <= Top(c)
  /\ Base(c) <= c.last /\ c.last + n <= c.current /\ c.last + n <= Top(c)
  /\ \A lo, hi \in Int : Holds(s, lo, hi) =>
       /\ Holds(c, lo, hi)
       /\ Below(c, lo, hi)
       /\ \A x \in Addr : lo <= x /\ x < hi => c.mem[x] = s.mem[x]
  /\ \A lo, hi \in Int : Reached(s, lo, hi) => Reached(c, lo, hi)
  /\ \A x \in Int : Paged(s, x) => Paged(c, x)
  /\ \A x \in Addr : c.mem[x] # s.mem[x] => Paged(c, x)

\* The current page is one of the pages.
LEMMA CurrentPage ==
  ASSUME NEW s \in ArenaState, s.index < Len(s.pages)
  PROVE  /\ s.index + 1 \in 1 .. Len(s.pages)
         /\ Base(s) \in Nat \ {0} /\ Top(s) \in Nat /\ Base(s) <= Top(s)
         /\ \A x \in Int : Base(s) <= x /\ x < Top(s) => Paged(s, x)
<1>1. s.index + 1 \in 1 .. Len(s.pages)
  BY StateType
<1>2. Base(s) \in Nat \ {0} /\ Top(s) \in Nat /\ Base(s) <= Top(s)
  <2> DEFINE page == s.pages[s.index + 1]
  <2>1. page \in Page
    BY <1>1, StateType
  <2>2. Base(s) = page.base /\ Top(s) = page.base + page.size
    BY DEF Base, Top
  <2> HIDE DEF page
  <2> QED
    BY <2>1, <2>2, PageType
<1> QED
  BY <1>1, <1>2 DEF Paged, Base, Top

\* Nothing that is held is between the bump pointer and the top of the page.
LEMMA HeldBehindCursor ==
  ASSUME NEW s \in ArenaState, NEW ps \in Nat, PagesOK(s, ps), s.index < Len(s.pages),
         Base(s) <= s.current,
         NEW lo \in Int, NEW hi \in Int, Holds(s, lo, hi)
  PROVE  hi <= s.current \/ Top(s) <= lo
<1>1. PICK i \in 1 .. Len(s.pages) :
        /\ s.pages[i].base <= lo /\ hi <= s.pages[i].base + s.pages[i].size
        /\ i = s.index + 1 => hi <= s.current
  BY DEF Holds
<1> DEFINE p == s.pages[i]
           q == s.pages[s.index + 1]
<1>2. p \in Page /\ q \in Page /\ s.index + 1 \in 1 .. Len(s.pages) /\ s.current \in Nat
  BY StateType, CurrentPage
<1>3. i # s.index + 1 => Apart(p.base, p.size, q.base, q.size)
  BY <1>2 DEF PagesOK
<1>4. /\ Base(s) = q.base /\ Top(s) = q.base + q.size
      /\ p.base <= lo /\ hi <= p.base + p.size
      /\ i = s.index + 1 => hi <= s.current
  BY <1>1 DEF Base, Top
<1> HIDE DEF p, q
<1>5. /\ p.base \in Nat /\ p.size \in Nat /\ q.base \in Nat /\ q.size \in Nat
      /\ s.current \in Nat
  BY <1>2, PageType
<1>6. CASE i = s.index + 1
  BY <1>4, <1>6
<1>7. CASE i # s.index + 1
  <2>1. p.base + p.size <= q.base \/ q.base + q.size <= p.base
    BY <1>3, <1>7 DEF Apart
  <2> QED
    BY <1>4, <1>5, <2>1
<1> QED
  BY <1>6, <1>7

\* What is held is in a page that was reached.
LEMMA HeldIsReached == \A s, lo, hi : Holds(s, lo, hi) => Reached(s, lo, hi)
BY DEF Holds, Reached

\* An allocation that fits leaves the pages as they are.
LEMMA PlacedHere ==
  ASSUME NEW s \in ArenaState, NEW ps \in Nat, PagesOK(s, ps), CursorOK(s), s.pages # <<>>
  PROVE  Placed(s, s, ps)
<1>1. s.index < Len(s.pages) /\ Base(s) <= s.current /\ s.sentinel <= Top(s)
  BY DEF CursorOK
<1> QED
  BY <1>1, HeldBehindCursor DEF Placed

\* One that does not fit goes to the start of a new page.
LEMMA PlacedOnNewPage ==
  ASSUME NEW s \in ArenaState, NEW c, NEW ps \in Nat, NEW min \in Nat, OnNewPage(s, c, ps, min)
  PROVE  Placed(s, c, ps)
<1>1. /\ c \in ArenaState /\ PagesOK(c, ps) /\ c.index < Len(c.pages)
      /\ c.current = Base(c) /\ c.sentinel <= Top(c)
      /\ \A x \in Addr : c.mem[x] # s.mem[x] => Base(c) <= x /\ x < Top(c)
  BY DEF OnNewPage
<1>2. Base(c) \in Nat /\ \A x \in Int : Base(c) <= x /\ x < Top(c) => Paged(c, x)
  BY <1>1, CurrentPage
<1>3. Addr \subseteq Int
  BY Bounds DEF Addr
<1>4. \A lo, hi \in Int : Holds(s, lo, hi) =>
        /\ Holds(c, lo, hi)
        /\ hi <= c.current \/ Top(c) <= lo
        /\ \A x \in Addr : lo <= x /\ x < hi => c.mem[x] = s.mem[x]
  <2> SUFFICES ASSUME NEW lo \in Int, NEW hi \in Int, Holds(s, lo, hi)
               PROVE  /\ Holds(c, lo, hi)
                      /\ hi <= Base(c) \/ Top(c) <= lo
                      /\ \A x \in Addr : lo <= x /\ x < hi => c.mem[x] = s.mem[x]
    BY <1>1
  <2> QED
    BY HeldOnNewPage, HeldIsReached
<1>5. \A x \in Int : Paged(s, x) => Paged(c, x)
  BY DEF OnNewPage, Paged
<1>6. \A lo, hi \in Int : Reached(s, lo, hi) => Reached(c, lo, hi)
  BY HeldOnNewPage, HeldIsReached
<1> QED
  BY <1>1, <1>2, <1>3, <1>4, <1>5, <1>6 DEF Placed

\* A bump of the cursor makes room for n bytes at top, which it may write to.
LEMMA Bumped ==
  ASSUME NEW s \in ArenaState, NEW c, NEW ps \in Nat, Placed(s, c, ps),
         NEW n \in Nat, NEW top \in Nat, NEW to \in Nat, NEW m \in [Addr -> Cell],
         c.current <= top, top + n <= to, top + n <= Top(c),
         \A x \in Addr : m[x] # c.mem[x] => top <= x /\ x < top + n
  PROVE  Grown(s, Bump(c, to, top, m), ps, n)
<1> DEFINE d == Bump(c, to, top, m)
<1>1. /\ c \in ArenaState /\ PagesOK(c, ps) /\ c.index < Len(c.pages)
      /\ Base(c) <= c.current /\ c.sentinel <= Top(c)
  BY DEF Placed
<1>2. /\ c.pages \in Seq(Page) /\ c.index \in Nat /\ c.sentinel \in Nat /\ c.current \in Nat
      /\ Base(c) \in Nat /\ Top(c) \in Nat
      /\ \A x \in Int : Base(c) <= x /\ x < Top(c) => Paged(c, x)
  BY <1>1, StateType, CurrentPage
<1>3. /\ d.pages = c.pages /\ d.index = c.index /\ d.sentinel = c.sentinel
      /\ d.last = top /\ d.current = to /\ d.mem = m /\ d \in ArenaState
  BY <1>2 DEF Bump, ArenaState
<1> HIDE DEF d
<1>4. Base(d) = Base(c) /\ Top(d) = Top(c) /\ PagesOK(d, ps)
  BY <1>1, <1>3 DEF Base, Top, PagesOK
<1>5. Addr \subseteq Int
  BY Bounds DEF Addr
<1>6. ASSUME NEW lo \in Int, NEW hi \in Int, Holds(s, lo, hi)
      PROVE  /\ Holds(d, lo, hi)
             /\ Below(d, lo, hi)
             /\ \A x \in Addr : lo <= x /\ x < hi => d.mem[x] = s.mem[x]
  <2>1. /\ Holds(c, lo, hi)
        /\ hi <= c.current \/ Top(c) <= lo
        /\ \A x \in Addr : lo <= x /\ x < hi => c.mem[x] = s.mem[x]
    BY <1>6 DEF Placed
  <2>2. hi <= top \/ Top(c) <= lo
    BY <1>2, <2>1
  <2>3. \A x \in Addr : lo <= x /\ x < hi => m[x] = c.mem[x]
    <3> SUFFICES ASSUME NEW x \in Addr, lo <= x, x < hi
                 PROVE  m[x] = c.mem[x]
      OBVIOUS
    <3>1. ~(top <= x /\ x < top + n)
      BY <1>2, <1>5, <2>2
    <3> QED
      BY <3>1
  <2>4. c.current <= to
    BY <1>2
  <2>5. Holds(d, lo, hi)
    <3>1. \A i \in 1 .. Len(c.pages) : (i = c.index + 1 => hi <= c.current) =>
            (i = c.index + 1 => hi <= to)
      BY <1>2, <2>4
    <3> QED
      BY <1>3, <2>1, <3>1 DEF Holds
  <2> QED
    BY <1>3, <1>4, <2>1, <2>2, <2>3, <2>5 DEF Below
<1>7. ASSUME NEW x \in Addr, d.mem[x] # s.mem[x]
      PROVE  Paged(d, x)
  <2>1. CASE m[x] # c.mem[x]
    <3>1. x \in Int /\ Base(c) <= x /\ x < Top(c)
      BY <1>1, <1>2, <1>5, <2>1
    <3> QED
      BY <1>2, <1>3, <3>1 DEF Paged
  <2>2. CASE m[x] = c.mem[x]
    <3>1. Paged(c, x)
      BY <1>3, <1>7, <2>2 DEF Placed
    <3> QED
      BY <1>3, <3>1 DEF Paged
  <2> QED
    BY <2>1, <2>2
<1>8. /\ d.index < Len(d.pages) /\ d.sentinel <= Top(d)
      /\ Base(d) <= d.last /\ d.last + n <= d.current /\ d.last + n <= Top(d)
  BY <1>1, <1>2, <1>3, <1>4
<1>9. \A x \in Int : Paged(s, x) => Paged(d, x)
  BY <1>3 DEF Placed, Paged
<1>10. \A lo, hi \in Int : Reached(s, lo, hi) => Reached(d, lo, hi)
  BY <1>3 DEF Placed, Reached
<1>11. Grown(s, d, ps, n)
  BY <1>3, <1>4, <1>6, <1>7, <1>8, <1>9, <1>10 DEF Grown
<1> QED
  BY <1>11 DEF d

\* The memory of a state, written to.
WithMem(c, m) == [c EXCEPT !.mem = m]

\* A write changes nothing but the memory.
LEMMA WithMemFields ==
  ASSUME NEW c \in ArenaState, NEW m \in [Addr -> Cell]
  PROVE  LET d == WithMem(c, m)
         IN  /\ d \in ArenaState
             /\ d.pages = c.pages /\ d.index = c.index /\ d.sentinel = c.sentinel
             /\ d.last = c.last /\ d.current = c.current /\ d.mem = m
BY DEF ArenaState, WithMem

\* The new block may be filled.
LEMMA Filled ==
  ASSUME NEW s \in ArenaState, NEW c, NEW ps \in Nat, NEW n \in Nat, Grown(s, c, ps, n),
         NEW m \in [Addr -> Cell],
         \A x \in Addr : m[x] # c.mem[x] => c.last <= x /\ x < c.last + n
  PROVE  Grown(s, WithMem(c, m), ps, n)
<1> DEFINE d == WithMem(c, m)
<1>1. /\ c \in ArenaState /\ PagesOK(c, ps) /\ c.index < Len(c.pages) /\ c.sentinel <= Top(c)
      /\ Base(c) <= c.last /\ c.last + n <= c.current /\ c.last + n <= Top(c)
  BY DEF Grown
<1>2. /\ c.pages \in Seq(Page) /\ c.index \in Nat /\ c.sentinel \in Nat /\ c.current \in Nat
      /\ c.last \in Nat /\ Base(c) \in Nat /\ Top(c) \in Nat
      /\ \A x \in Int : Base(c) <= x /\ x < Top(c) => Paged(c, x)
  BY <1>1, StateType, CurrentPage
<1>3. /\ d.pages = c.pages /\ d.index = c.index /\ d.sentinel = c.sentinel
      /\ d.last = c.last /\ d.current = c.current /\ d.mem = m /\ d \in ArenaState
  BY <1>1, WithMemFields
<1> HIDE DEF d
<1>4. /\ Base(d) = Base(c) /\ Top(d) = Top(c) /\ PagesOK(d, ps)
      /\ \A lo, hi \in Int : Holds(c, lo, hi) => Holds(d, lo, hi)
      /\ \A x \in Int : Paged(c, x) => Paged(d, x)
  BY <1>1, <1>3 DEF Base, Top, PagesOK, Holds, Paged
<1>5. Addr \subseteq Int
  BY Bounds DEF Addr
<1>6. ASSUME NEW lo \in Int, NEW hi \in Int, Holds(s, lo, hi)
      PROVE  /\ Holds(d, lo, hi)
             /\ Below(d, lo, hi)
             /\ \A x \in Addr : lo <= x /\ x < hi => d.mem[x] = s.mem[x]
  <2>1. /\ Holds(c, lo, hi)
        /\ hi <= c.last \/ Top(c) <= lo
        /\ \A x \in Addr : lo <= x /\ x < hi => c.mem[x] = s.mem[x]
    BY <1>6 DEF Grown, Below
  <2>2. \A x \in Addr : lo <= x /\ x < hi => m[x] = c.mem[x]
    BY <1>1, <1>2, <1>5, <2>1
  <2> QED
    BY <1>3, <1>4, <2>1, <2>2 DEF Below
<1>7. ASSUME NEW x \in Addr, d.mem[x] # s.mem[x]
      PROVE  Paged(d, x)
  <2>1. CASE m[x] # c.mem[x]
    <3>1. x \in Int /\ Base(c) <= x /\ x < Top(c)
      BY <1>1, <1>2, <1>5, <2>1
    <3> QED
      BY <1>2, <1>4, <3>1
  <2>2. CASE m[x] = c.mem[x]
    <3>1. Paged(c, x)
      BY <1>3, <1>7, <2>2 DEF Grown
    <3> QED
      BY <1>4, <1>5, <3>1
  <2> QED
    BY <2>1, <2>2
<1>8. \A x \in Int : Paged(s, x) => Paged(d, x)
  BY <1>4 DEF Grown
<1>9. Grown(s, d, ps, n)
  <2>1. \A lo, hi \in Int : Reached(s, lo, hi) => Reached(d, lo, hi)
    BY <1>3 DEF Grown, Reached
  <2> QED
    BY <1>1, <1>3, <1>4, <1>6, <1>7, <1>8, <2>1 DEF Grown
<1> QED
  BY <1>9 DEF d

\* A block of its own for the client: the blocks it has do not reach into it.
LEMMA Handed ==
  ASSUME NEW s \in ArenaState, NEW c \in ArenaState, NEW ps \in Nat, PagesOK(c, ps),
         c.index < Len(c.pages), c.sentinel <= Top(c), Base(c) <= c.last,
         NEW b \in [Handle -> BlockType], BlocksOK(s, b),
         NEW h \in Handle, NEW nb \in BlockType,
         Start(nb) = c.last, End(nb) <= c.current, End(nb) <= Top(c),
         c.last <= c.current,
         \A g \in Handle : g # h /\ b[g] # NoBlock =>
           Holds(c, Start(b[g]), End(b[g])) /\ Below(c, Start(b[g]), End(b[g]))
  PROVE  Layout(c, ps, [b EXCEPT ![h] = nb])
<1> DEFINE d == [b EXCEPT ![h] = nb]
<1>1. d[h] = nb /\ \A g \in Handle : g # h => d[g] = b[g]
  OBVIOUS
<1> HIDE DEF d
<1>2. /\ c.index + 1 \in 1 .. Len(c.pages) /\ Base(c) \in Nat \ {0} /\ Top(c) \in Nat
      /\ c.current \in Nat /\ c.last \in Nat /\ c.index \in Nat /\ c.pages \in Seq(Page)
  BY CurrentPage, StateType
<1>0. \A x \in BlockType : Start(x) \in Int /\ End(x) \in Int
  BY EndsType
<1>3. \A g \in Handle : Start(b[g]) \in Int /\ End(b[g]) \in Int
  BY <1>0
<1>4. Start(nb) \in Int /\ End(nb) \in Int
  BY <1>0
<1>5. Holds(c, Start(nb), End(nb))
  <2> DEFINE i == c.index + 1
  <2>1. /\ i \in 1 .. Len(c.pages) /\ i <= c.index + 1
        /\ c.pages[i].base = Base(c) /\ c.pages[i].base + c.pages[i].size = Top(c)
    BY <1>2 DEF Base, Top
  <2>2. Base(c) <= Start(nb) /\ End(nb) <= Top(c) /\ End(nb) <= c.current
    OBVIOUS
  <2> HIDE DEF i
  <2> QED
    BY <2>1, <2>2 DEF Holds
<1>6. \A g \in Handle : g # h /\ b[g] # NoBlock =>
        End(b[g]) <= Start(nb) \/ End(nb) <= Start(b[g])
  BY <1>2, <1>3, <1>4 DEF Below
<1>7. BlocksOK(c, d)
  BY <1>1, <1>5, <1>6 DEF BlocksOK
<1>8. LastOK(c, d)
  BY <1>1, <1>2 DEF LastOK
<1>9. CursorOK(c)
  <2>1. c.pages # <<>>
    BY <1>2, EmptySeq
  <2>2. Base(c) <= c.current
    BY <1>2
  <2> QED
    BY <2>1, <2>2 DEF CursorOK
<1> QED
  BY <1>7, <1>8, <1>9 DEF Layout, d

\* The blocks a client has are held, whatever is allocated.
LEMMA GrownKeeps ==
  ASSUME NEW s \in ArenaState, NEW c, NEW ps \in Nat, NEW n \in Nat, Grown(s, c, ps, n),
         NEW b \in [Handle -> BlockType], BlocksOK(s, b)
  PROVE  \A g \in Handle : b[g] # NoBlock =>
           /\ Holds(c, Start(b[g]), End(b[g]))
           /\ Below(c, Start(b[g]), End(b[g]))
           /\ \A x \in Addr : Start(b[g]) <= x /\ x < End(b[g]) => c.mem[x] = s.mem[x]
<1>1. \A g \in Handle : Start(b[g]) \in Int /\ End(b[g]) \in Int
  BY EndsType
<1> QED
  BY <1>1 DEF Grown, BlocksOK

\* An allocation keeps the layout.
LEMMA Allocated ==
  ASSUME NEW s \in ArenaState, NEW c, NEW ps \in Nat, NEW n \in Nat, Grown(s, c, ps, n),
         NEW b \in [Handle -> BlockType], BlocksOK(s, b),
         NEW h \in Handle, NEW nb \in BlockType, Start(nb) = c.last, End(nb) <= c.last + n
  PROVE  Layout(c, ps, [b EXCEPT ![h] = nb])
<1>1. /\ c \in ArenaState /\ PagesOK(c, ps) /\ c.index < Len(c.pages) /\ c.sentinel <= Top(c)
      /\ Base(c) <= c.last /\ c.last + n <= c.current /\ c.last + n <= Top(c)
  BY DEF Grown
<1>2. Base(c) \in Nat /\ Top(c) \in Nat /\ c.current \in Nat /\ c.last \in Nat
  BY <1>1, CurrentPage, StateType
<1>3. End(nb) \in Int
  BY Bounds DEF BlockType, End
<1>4. End(nb) <= c.current /\ End(nb) <= Top(c) /\ c.last <= c.current
  BY <1>1, <1>2, <1>3
<1> QED
  BY <1>1, <1>4, GrownKeeps, Handed

-----------------------------------------------------------------------------
(***************************************************************************)
(* The steps that move the cursor within its page.                         *)
(***************************************************************************)

\* Every block has a byte.
Solid(b) == \A h \in Handle : b[h] # NoBlock => Start(b[h]) < End(b[h])

\* All blocks but the one at last are out of the way when it grows or goes.
LEMMA OthersBelowLast ==
  ASSUME NEW s \in ArenaState, NEW b \in [Handle -> BlockType], BlocksOK(s, b), LastOK(s, b),
         Solid(b), s.last # Null, NEW h \in Handle, b[h] # NoBlock, Start(b[h]) = s.last,
         NEW g \in Handle, g # h, b[g] # NoBlock
  PROVE  Below(s, Start(b[g]), End(b[g]))
<1>1. /\ Start(b[g]) \in Int /\ End(b[g]) \in Int
      /\ Start(b[h]) \in Int /\ End(b[h]) \in Int
  BY EndsType
<1>2. End(b[g]) <= Start(b[h]) \/ End(b[h]) <= Start(b[g])
  BY DEF BlocksOK
<1>3. Start(b[g]) # s.last
  BY <1>1, <1>2 DEF Solid
<1> QED
  BY <1>3 DEF LastOK

\* What is out of the way stays held when the cursor moves behind last.
LEMMA HeldWhenMoved ==
  ASSUME NEW s \in ArenaState, s.index < Len(s.pages),
         NEW c \in ArenaState, c.pages = s.pages, c.index = s.index, s.last <= c.current,
         NEW lo \in Int, NEW hi \in Int, lo < hi, Holds(s, lo, hi), Below(s, lo, hi)
  PROVE  Holds(c, lo, hi)
<1>1. PICK i \in 1 .. Len(s.pages) :
        /\ s.pages[i].base <= lo /\ hi <= s.pages[i].base + s.pages[i].size
        /\ i <= s.index + 1
  BY DEF Holds
<1>2. i = s.index + 1 => hi <= c.current
  <2>1. SUFFICES ASSUME i = s.index + 1
                 PROVE  hi <= c.current
    OBVIOUS
  <2>2. hi <= Top(s) /\ Top(s) \in Int /\ s.last \in Nat /\ c.current \in Nat
    BY <1>1, <2>1, CurrentPage, StateType DEF Top
  <2> QED
    BY <2>2 DEF Below
<1> QED
  BY <1>1, <1>2 DEF Holds

\* The block at last grows or shrinks in place.
LEMMA GrownInPlace ==
  ASSUME NEW s \in ArenaState, NEW ps \in Nat, NEW b \in [Handle -> BlockType],
         Layout(s, ps, b), Solid(b), s.last # Null,
         NEW h \in Handle, b[h] # NoBlock, Start(b[h]) = s.last,
         NEW to \in Nat, NEW m \in [Addr -> Cell],
         NEW nb \in BlockType, Start(nb) = s.last, End(nb) <= to, s.last <= to, End(nb) <= Top(s)
  PROVE  Layout(Bump(s, to, s.last, m), ps, [b EXCEPT ![h] = nb])
<1> DEFINE c == Bump(s, to, s.last, m)
<1>1. /\ s.pages # <<>> /\ s.index < Len(s.pages) /\ s.sentinel <= Top(s)
      /\ Base(s) <= s.last /\ PagesOK(s, ps) /\ BlocksOK(s, b) /\ LastOK(s, b)
  BY DEF Layout, CursorOK, LastOK
<1>2. /\ c.pages = s.pages /\ c.index = s.index /\ c.sentinel = s.sentinel
      /\ c.last = s.last /\ c.current = to /\ c.mem = m /\ c \in ArenaState
  BY StateType DEF Bump, ArenaState
<1> HIDE DEF c
<1>3. Base(c) = Base(s) /\ Top(c) = Top(s) /\ PagesOK(c, ps)
  BY <1>1, <1>2 DEF Base, Top, PagesOK
<1>4. ASSUME NEW g \in Handle, g # h, b[g] # NoBlock
      PROVE  Holds(c, Start(b[g]), End(b[g])) /\ Below(c, Start(b[g]), End(b[g]))
  <2>1. Start(b[g]) \in Int /\ End(b[g]) \in Int /\ Start(b[g]) < End(b[g])
    BY <1>4, Bounds DEF BlockType, Start, End, Solid
  <2>2. Holds(s, Start(b[g]), End(b[g])) /\ Below(s, Start(b[g]), End(b[g]))
    BY <1>1, <1>4, OthersBelowLast DEF BlocksOK
  <2> QED
    BY <1>1, <1>2, <1>3, <2>1, <2>2, HeldWhenMoved DEF Below
<1>5. Layout(c, ps, [b EXCEPT ![h] = nb])
  BY <1>1, <1>2, <1>3, <1>4, Handed
<1> QED
  BY <1>5 DEF c

\* A block goes without a trace in the arena.
LEMMA Dropped ==
  ASSUME NEW s, NEW ps, NEW b \in [Handle -> BlockType], Layout(s, ps, b), NEW h \in Handle
  PROVE  Layout(s, ps, [b EXCEPT ![h] = NoBlock])
BY DEF Layout, BlocksOK, LastOK

\* The block at last goes, and the bytes from last on are free again.
LEMMA Returned ==
  ASSUME NEW s \in ArenaState, NEW ps \in Nat, NEW b \in [Handle -> BlockType],
         Layout(s, ps, b), Solid(b), s.last # Null,
         NEW h \in Handle, b[h] # NoBlock, Start(b[h]) = s.last,
         NEW m \in [Addr -> Cell]
  PROVE  Layout(Bump(s, s.last, Null, m), ps, [b EXCEPT ![h] = NoBlock])
<1> DEFINE c == Bump(s, s.last, Null, m)
           d == [b EXCEPT ![h] = NoBlock]
<1>1. /\ s.pages # <<>> /\ s.index < Len(s.pages) /\ s.sentinel <= Top(s)
      /\ Base(s) <= s.last /\ PagesOK(s, ps) /\ BlocksOK(s, b) /\ LastOK(s, b)
  BY DEF Layout, CursorOK, LastOK
<1>2. /\ c.pages = s.pages /\ c.index = s.index /\ c.sentinel = s.sentinel
      /\ c.last = Null /\ c.current = s.last /\ c.mem = m /\ c \in ArenaState
  BY StateType DEF Bump, ArenaState, Null
<1>3. d[h] = NoBlock /\ \A g \in Handle : g # h => d[g] = b[g]
  OBVIOUS
<1> HIDE DEF c, d
<1>4. Base(c) = Base(s) /\ Top(c) = Top(s) /\ PagesOK(c, ps) /\ CursorOK(c)
  BY <1>1, <1>2 DEF Base, Top, PagesOK, CursorOK
<1>5. ASSUME NEW g \in Handle, g # h, b[g] # NoBlock
      PROVE  Holds(c, Start(b[g]), End(b[g]))
  <2>1. Start(b[g]) \in Int /\ End(b[g]) \in Int /\ Start(b[g]) < End(b[g])
    BY <1>5, Bounds DEF BlockType, Start, End, Solid
  <2>2. Holds(s, Start(b[g]), End(b[g])) /\ Below(s, Start(b[g]), End(b[g]))
    BY <1>1, <1>5, OthersBelowLast DEF BlocksOK
  <2>3. s.last <= c.current
    BY <1>2, StateType
  <2> QED
    BY <1>1, <1>2, <2>1, <2>2, <2>3, HeldWhenMoved
<1>6. BlocksOK(c, d)
  BY <1>1, <1>3, <1>5 DEF BlocksOK
<1>7. Layout(c, ps, d)
  BY <1>2, <1>4, <1>6 DEF Layout, LastOK
<1> QED
  BY <1>7 DEF c, d

\* The layout does not depend on what the bytes are.
LEMMA LayoutOfOther ==
  ASSUME NEW s, NEW c, NEW ps, NEW b, NEW d, Layout(s, ps, b),
         c.pages = s.pages, c.index = s.index, c.current = s.current,
         c.sentinel = s.sentinel, c.last = s.last,
         \A h \in Handle : /\ d[h] # NoBlock => b[h] # NoBlock
                           /\ Start(d[h]) = Start(b[h]) /\ End(d[h]) = End(b[h])
  PROVE  Layout(c, ps, d)
<1>1. PagesOK(c, ps) /\ CursorOK(c)
  BY DEF Layout, PagesOK, CursorOK, Base, Top
<1>2. \A h \in Handle : d[h] # NoBlock => Holds(c, Start(d[h]), End(d[h]))
  BY DEF Layout, BlocksOK, Holds
<1>3. BlocksOK(c, d)
  BY <1>2 DEF Layout, BlocksOK
<1>4. LastOK(c, d)
  BY DEF Layout, LastOK, Below, Base, Top
<1> QED
  BY <1>1, <1>3, <1>4 DEF Layout

\* _mulle_arena_reset keeps the first pages and starts on the first of them.
LEMMA Rewound ==
  ASSUME NEW s \in ArenaState, NEW ps \in Nat, PagesOK(s, ps), NEW kept \in 0 .. Len(s.pages),
         NEW c \in ArenaState, c.pages = SubSeq(s.pages, 1, kept), c.index = 0, c.last = Null,
         kept = 0 => c.current = Null /\ c.sentinel = Null,
         kept # 0 => c.current = s.pages[1].base /\ c.sentinel = s.pages[1].base + ps
  PROVE  Layout(c, ps, NoBlocks) /\ c.current <= c.sentinel
<1>1. s.pages \in Seq(Page) /\ Len(s.pages) \in Nat
  BY StateType
<1>2. Len(c.pages) = kept /\ \A i \in 1 .. kept : c.pages[i] = s.pages[i]
  BY <1>1, SubSeqProperties
<1>3. PagesOK(c, ps)
  BY <1>1, <1>2 DEF PagesOK
<1>4. CursorOK(c) /\ c.current <= c.sentinel
  <2>1. CASE kept = 0
    <3>1. c.pages = <<>>
      BY <1>2, <2>1, StateType, EmptySeq
    <3> QED
      BY <2>1, <3>1 DEF CursorOK, Null
  <2>2. CASE kept # 0
    <3>1. kept > 0 /\ 1 \in 1 .. kept /\ 1 \in 1 .. Len(s.pages) /\ c.pages[1] = s.pages[1]
      BY <1>1, <1>2, <2>2
    <3>2. /\ Base(c) = s.pages[1].base /\ Top(c) = s.pages[1].base + s.pages[1].size
          /\ s.pages[1].base \in Nat /\ s.pages[1].size \in Nat /\ ps <= s.pages[1].size
      BY <3>1, StateType DEF Base, Top, PagesOK
    <3>3. c.pages # <<>> /\ c.index < Len(c.pages)
      BY <1>2, <3>1, EmptySeq
    <3>4. c.current = Base(c) /\ c.sentinel = Base(c) + ps /\ c.sentinel <= Top(c)
      BY <2>2, <3>2
    <3> QED
      BY <3>2, <3>3, <3>4 DEF CursorOK
  <2> QED
    BY <2>1, <2>2
<1>5. BlocksOK(c, NoBlocks) /\ LastOK(c, NoBlocks)
  BY DEF BlocksOK, LastOK, NoBlocks
<1> QED
  BY <1>3, <1>4, <1>5 DEF Layout

-----------------------------------------------------------------------------
(***************************************************************************)
(* What the bytes are.                                                     *)
(***************************************************************************)

\* A block holds what was put into it, and its size is in front of it.
Intact(m, b) ==
  /\ \A x \in Span(b.addr, b.len) : m[x] = b.val
  /\ b.kind = "vtable" => \A x \in Span(b.addr - SizeT, SizeT) : m[x] = Header(b.size)

AllIntact(m, b) == \A h \in Handle : b[h] # NoBlock => Intact(m, b[h])

\* Nothing was ever written outside of the pages.
Clean(s) == \A x \in Addr : s.mem[x] # Junk => Paged(s, x)

\* Whether bytes are the same from one address up to another.
SameBytes(m, k, lo, hi) == \A x \in Addr : lo <= x /\ x < hi => k[x] = m[x]

\* What is held is in memory.
LEMMA HeldInMemory ==
  ASSUME NEW s \in ArenaState, NEW ps, PagesOK(s, ps),
         NEW lo \in Int, NEW hi \in Int, Holds(s, lo, hi)
  PROVE  1 <= lo /\ hi <= AddrMax + 1
<1>1. PICK i \in 1 .. Len(s.pages) :
        s.pages[i].base <= lo /\ hi <= s.pages[i].base + s.pages[i].size
  BY DEF Holds
<1>2. s.pages[i].base + s.pages[i].size <= AddrMax + 1
  BY DEF PagesOK
<1>3. s.pages[i].base \in Nat \ {0} /\ s.pages[i].size \in Nat
  BY StateType
<1> QED
  BY <1>1, <1>2, <1>3, Bounds

\* A block stays intact as long as its bytes do.
LEMMA IntactStays ==
  ASSUME NEW m, NEW k, NEW b \in BlockType, b.len <= b.size,
         1 <= Start(b), End(b) <= AddrMax + 1, SameBytes(m, k, Start(b), End(b)), Intact(m, b)
  PROVE  Intact(k, b)
<1>1. b.addr \in Nat /\ b.size \in Nat /\ b.len \in Nat
  BY DEF BlockType
<1>2. \A x \in Span(b.addr, b.len) : k[x] = b.val
  <2>1. SUFFICES ASSUME NEW x \in Span(b.addr, b.len) PROVE k[x] = m[x]
    BY DEF Intact
  <2>2. x \in Addr /\ Start(b) <= x /\ x < End(b)
    BY <1>1, Bounds DEF Start, End, Span, Addr
  <2> QED
    BY <2>2 DEF SameBytes
<1>3. ASSUME b.kind = "vtable", NEW x \in Span(b.addr - SizeT, SizeT)
      PROVE  k[x] = Header(b.size)
  <2>1. Start(b) = b.addr - SizeT
    BY <1>3 DEF Start
  <2>2. x \in Addr /\ Start(b) <= x /\ x < End(b)
    BY <1>1, <1>3, <2>1, Bounds DEF End, Span, Addr
  <2>3. m[x] = Header(b.size)
    BY <1>3 DEF Intact
  <2> QED
    BY <2>2, <2>3 DEF SameBytes
<1> QED
  BY <1>2, <1>3 DEF Intact

\* The blocks whose bytes stay as they are stay intact.
LEMMA OthersIntact ==
  ASSUME NEW s \in ArenaState, NEW ps, PagesOK(s, ps),
         NEW b \in [Handle -> BlockType], BlocksOK(s, b), AllIntact(s.mem, b),
         NEW h \in Handle, b[h] # NoBlock, b[h].len <= b[h].size,
         NEW k, SameBytes(s.mem, k, Start(b[h]), End(b[h]))
  PROVE  Intact(k, b[h])
<1>1. Start(b[h]) \in Int /\ End(b[h]) \in Int
  BY EndsType
<1>2. 1 <= Start(b[h]) /\ End(b[h]) <= AddrMax + 1
  BY <1>1, HeldInMemory DEF BlocksOK
<1> QED
  BY <1>2, IntactStays DEF AllIntact

\* Pages that are clean stay clean when the writes go into pages.
LEMMA GrownClean ==
  ASSUME NEW s \in ArenaState, NEW c, NEW ps, NEW n, Grown(s, c, ps, n), Clean(s)
  PROVE  Clean(c) /\ \A x \in Addr : c.mem[x] # s.mem[x] => Paged(c, x)
BY Bounds DEF Grown, Clean, Addr

\* An allocation leaves the other blocks intact.
LEMMA GrownIntact ==
  ASSUME NEW s \in ArenaState, NEW c, NEW ps \in Nat, NEW n \in Nat, Grown(s, c, ps, n),
         PagesOK(s, ps), NEW b \in [Handle -> BlockType], BlocksOK(s, b), AllIntact(s.mem, b),
         \A g \in Handle : b[g] # NoBlock => b[g].len <= b[g].size,
         NEW h \in Handle, NEW nb, Intact(c.mem, nb)
  PROVE  AllIntact(c.mem, [b EXCEPT ![h] = nb])
<1>1. \A g \in Handle : b[g] # NoBlock => SameBytes(s.mem, c.mem, Start(b[g]), End(b[g]))
  <2>1. \A g \in Handle : b[g] # NoBlock =>
          \A x \in Addr : Start(b[g]) <= x /\ x < End(b[g]) => c.mem[x] = s.mem[x]
    BY GrownKeeps
  <2> QED
    BY <2>1 DEF SameBytes
<1>2. \A g \in Handle : b[g] # NoBlock => Intact(c.mem, b[g])
  BY <1>1, OthersIntact
<1> QED
  BY <1>2 DEF AllIntact

\* A copy of bytes is a memory that differs in the bytes copied to.
LEMMA CopyBytesProperties ==
  ASSUME NEW m \in [Addr -> Cell], NEW addr \in Int, NEW from \in Int, NEW n \in Int
  PROVE  /\ CopyBytes(m, addr, from, n) \in [Addr -> Cell]
         /\ \A x \in Addr : CopyBytes(m, addr, from, n)[x] # m[x] => addr <= x /\ x < addr + n
<1>1. Junk \in Cell
  BY DEF Cell
<1> QED
  BY <1>1 DEF CopyBytes

\* The len bytes at addr are v.
Known(m, addr, len, v) == \A x \in Span(addr, len) : x \in Addr /\ m[x] = v

\* Known bytes are known in the copy.
LEMMA CopyOfBytes ==
  ASSUME NEW m, NEW addr \in Int, NEW from \in Int, NEW n \in Int, NEW len \in Int, len <= n, NEW v,
         Known(m, from, len, v), Span(addr, len) \subseteq Addr
  PROVE  Known(CopyBytes(m, addr, from, n), addr, len, v)
<1> SUFFICES ASSUME NEW x \in Span(addr, len)
             PROVE  CopyBytes(m, addr, from, n)[x] = v
  BY DEF Known
<1>1. x \in Addr /\ x \in Int /\ addr <= x /\ x < addr + n /\ from + (x - addr) \in Span(from, len)
  BY DEF Span
<1>2. from + (x - addr) \in Addr /\ m[from + (x - addr)] = v
  BY <1>1 DEF Known
<1> QED
  BY <1>1, <1>2 DEF CopyBytes

\* What the client puts into a block are bytes.
LEMMA MarkIsByte == \A h \in Handle : Mark(h) \in Cell
BY DEF Mark, Cell

\* What the client is promised is a block.
LEMMA BlockFields ==
  ASSUME NEW kind \in {"none", "raw", "vtable"}, NEW addr \in Nat, NEW size \in Nat,
         NEW align \in Nat, NEW len \in Nat, NEW val \in Cell
  PROVE  /\ Block(kind, addr, size, align, len, val) \in BlockType
         /\ Block(kind, addr, size, align, len, val).kind = kind
         /\ Block(kind, addr, size, align, len, val).addr = addr
         /\ Block(kind, addr, size, align, len, val).size = size
         /\ Block(kind, addr, size, align, len, val).align = align
         /\ Block(kind, addr, size, align, len, val).len = len
         /\ Block(kind, addr, size, align, len, val).val = IF len = 0 THEN Zero ELSE val
<1>1. Zero \in Cell
  BY DEF Cell
<1> QED
  BY <1>1 DEF Block, BlockType

\* The new bytes are in memory.
LEMMA GrownInMemory ==
  ASSUME NEW s, NEW c, NEW ps, NEW n \in Nat, Grown(s, c, ps, n)
  PROVE  /\ c \in ArenaState /\ c.last \in Nat \ {0} /\ c.last + n <= AddrMax + 1
         /\ \A x \in Int : c.last <= x /\ x < c.last + n => x \in Addr
<1>1. /\ c \in ArenaState /\ PagesOK(c, ps) /\ c.index < Len(c.pages)
      /\ Base(c) <= c.last /\ c.last + n <= Top(c)
  BY DEF Grown
<1>2. /\ c.index + 1 \in 1 .. Len(c.pages) /\ Base(c) \in Nat \ {0} /\ Top(c) \in Nat
      /\ c.last \in Nat
  BY <1>1, CurrentPage, StateType
<1>3. Top(c) <= AddrMax + 1
  BY <1>1, <1>2 DEF PagesOK, Top
<1> QED
  BY <1>1, <1>2, <1>3, Bounds DEF Addr

\* The bump pointer of an arena is in memory.
LEMMA CursorInMemory ==
  ASSUME NEW s \in ArenaState, NEW ps, PagesOK(s, ps), CursorOK(s)
  PROVE  s.sentinel <= AddrMax + 1
<1>1. CASE s.pages = <<>>
  BY <1>1, Bounds DEF CursorOK, Null
<1>2. CASE s.pages # <<>>
  <2>1. s.index < Len(s.pages) /\ s.sentinel <= Top(s)
    BY <1>2 DEF CursorOK
  <2>2. s.index + 1 \in 1 .. Len(s.pages) /\ Top(s) \in Nat
    BY <2>1, CurrentPage
  <2>3. Top(s) <= AddrMax + 1
    BY <2>2 DEF PagesOK, Top
  <2> QED
    BY <2>1, <2>2, <2>3, Bounds, StateType
<1> QED
  BY <1>1, <1>2

-----------------------------------------------------------------------------
(***************************************************************************)
(* The actions that both interfaces share.                                 *)
(***************************************************************************)

\* The bytes that a step writes are bytes of a page.
StaysInside == \A x \in Addr : mem'[x] # mem[x] => Paged(Now, x) \/ Paged(Now, x)'

\* The block b when all of its bytes are v.
FilledWith(b, nb, v) ==
  /\ nb.kind = b.kind /\ nb.addr = b.addr /\ nb.size = b.size
  /\ nb.len = nb.size
  /\ nb.size # 0 => nb.val = v

\* A client that fills its block disturbs no other one.
LEMMA FillKeeps ==
  ASSUME NEW s \in ArenaState, NEW ps \in Nat, NEW b \in [Handle -> BlockType],
         Layout(s, ps, b), AllIntact(s.mem, b), Clean(s),
         \A g \in Handle : b[g] # NoBlock => b[g].len <= b[g].size,
         NEW h \in Handle, b[h] # NoBlock, NEW v \in Cell, NEW nb \in BlockType, FilledWith(b[h], nb, v),
         NEW m, m = Store(s.mem, nb.addr, nb.size, v)
  PROVE  /\ WithMem(s, m) \in ArenaState /\ m \in [Addr -> Cell]
         /\ Layout(WithMem(s, m), ps, [b EXCEPT ![h] = nb])
         /\ AllIntact(m, [b EXCEPT ![h] = nb])
         /\ Clean(WithMem(s, m))
         /\ \A x \in Addr : m[x] # s.mem[x] => Paged(WithMem(s, m), x)
<1> DEFINE d == [b EXCEPT ![h] = nb]
           c == WithMem(s, m)
<1>0. /\ nb.kind = b[h].kind /\ nb.addr = b[h].addr /\ nb.size = b[h].size
      /\ nb.len = nb.size /\ (nb.size # 0 => nb.val = v)
  BY DEF FilledWith
<1>1. d[h] = nb /\ \A g \in Handle : g # h => d[g] = b[g]
  OBVIOUS
<1>2. /\ nb.addr \in Nat /\ nb.size \in Nat /\ nb.len \in Nat
      /\ nb.addr \in Int /\ nb.size \in Int /\ s.mem \in [Addr -> Cell]
  BY StateType DEF BlockType
<1>3. /\ m \in [Addr -> Cell]
      /\ \A x \in Addr : m[x] = IF nb.addr <= x /\ x < nb.addr + nb.size THEN v ELSE s.mem[x]
  BY <1>2, StoreProperties
<1>4. /\ c \in ArenaState /\ c.pages = s.pages /\ c.index = s.index /\ c.sentinel = s.sentinel
      /\ c.last = s.last /\ c.current = s.current /\ c.mem = m
  BY <1>3, WithMemFields
<1> HIDE DEF d, c
<1>5. /\ Start(nb) = Start(b[h]) /\ End(nb) = End(b[h]) /\ End(nb) = nb.addr + nb.size
      /\ Start(nb) <= nb.addr /\ Start(nb) \in Int /\ End(nb) \in Int
  BY <1>0, <1>2, Bounds DEF Start, End
<1>6. Layout(c, ps, d)
  <2>1. \A g \in Handle : /\ d[g] # NoBlock => b[g] # NoBlock
                          /\ Start(d[g]) = Start(b[g]) /\ End(d[g]) = End(b[g])
    BY <1>1, <1>5
  <2> QED
    BY <1>4, <2>1, LayoutOfOther
<1>7. PagesOK(s, ps) /\ BlocksOK(s, b)
  BY DEF Layout
<1>8. 1 <= Start(nb) /\ End(nb) <= AddrMax + 1 /\ Holds(s, Start(nb), End(nb))
  <2>1. Holds(s, Start(b[h]), End(b[h]))
    BY <1>7 DEF BlocksOK
  <2>2. Holds(s, Start(nb), End(nb))
    BY <1>5, <2>1
  <2> QED
    BY <1>5, <1>7, <2>2, HeldInMemory
<1>9. Addr \subseteq Int /\ \A x \in Int : 1 <= x /\ x <= AddrMax => x \in Addr
  BY Bounds DEF Addr
<1>10. Intact(m, nb)
  <2>1. \A x \in Span(nb.addr, nb.len) : m[x] = nb.val
    <3>1. SUFFICES ASSUME NEW x \in Span(nb.addr, nb.len) PROVE m[x] = nb.val
      OBVIOUS
    <3>2. x \in Int /\ nb.addr <= x /\ x < nb.addr + nb.size /\ nb.size # 0
      BY <1>0, <1>2 DEF Span
    <3>3. x \in Addr
      BY <1>2, <1>5, <1>8, <1>9, <3>2, Bounds
    <3> QED
      BY <1>0, <1>3, <3>2, <3>3
  <2>2. ASSUME nb.kind = "vtable", NEW x \in Span(nb.addr - SizeT, SizeT)
        PROVE  m[x] = Header(nb.size)
    <3>1. s.mem[x] = Header(nb.size)
      BY <1>0, <2>2 DEF AllIntact, Intact
    <3>2. Start(nb) = nb.addr - SizeT
      BY <2>2 DEF Start
    <3>3. x \in Int /\ Start(nb) <= x /\ x < nb.addr
      BY <1>2, <2>2, <3>2, Bounds DEF Span
    <3>4. x \in Addr
      BY <1>2, <1>5, <1>8, <1>9, <3>3, Bounds
    <3> QED
      BY <1>2, <1>3, <3>1, <3>3, <3>4
  <2> QED
    BY <2>1, <2>2 DEF Intact
<1>11. ASSUME NEW g \in Handle, g # h, b[g] # NoBlock
       PROVE  Intact(m, b[g])
  <2>1. End(b[g]) <= Start(nb) \/ End(nb) <= Start(b[g])
    BY <1>5, <1>7, <1>11 DEF BlocksOK
  <2>2. Start(b[g]) \in Int /\ End(b[g]) \in Int
    BY EndsType
  <2>3. SameBytes(s.mem, m, Start(b[g]), End(b[g]))
    <3>1. ASSUME NEW x \in Addr, Start(b[g]) <= x, x < End(b[g])
          PROVE  ~(nb.addr <= x /\ x < nb.addr + nb.size)
      BY <1>2, <1>5, <1>9, <2>1, <2>2, <3>1
    <3> QED
      BY <1>3, <3>1 DEF SameBytes
  <2> QED
    BY <1>7, <1>11, <2>3, OthersIntact
<1>12. AllIntact(m, d)
  BY <1>1, <1>10, <1>11 DEF AllIntact
<1>13. ASSUME NEW x \in Addr, m[x] # s.mem[x]
       PROVE  Paged(c, x)
  <2>1. x \in Int /\ Start(nb) <= x /\ x < End(nb)
    BY <1>2, <1>3, <1>5, <1>9, <1>13
  <2>2. PICK i \in 1 .. Len(s.pages) :
          s.pages[i].base <= Start(nb) /\ End(nb) <= s.pages[i].base + s.pages[i].size
    BY <1>8 DEF Holds
  <2>3. s.pages[i].base \in Nat /\ s.pages[i].size \in Nat
    BY StateType
  <2>4. s.pages[i].base <= x /\ x < s.pages[i].base + s.pages[i].size
    BY <1>2, <1>5, <2>1, <2>2, <2>3
  <2> QED
    BY <1>4, <2>4 DEF Paged
<1>14. Clean(c)
  <2>1. \A x \in Int : Paged(s, x) => Paged(c, x)
    BY <1>4 DEF Paged
  <2> QED
    BY <1>4, <1>9, <1>13, <2>1 DEF Clean
<1> QED
  BY <1>3, <1>4, <1>6, <1>12, <1>13, <1>14 DEF c, d

\* A reset forgets all pages but the first ones, and starts on the first page.
LEMMA ResetRewinds ==
  ASSUME Now \in ArenaState, pageSize \in Nat, PagesOK(Now, pageSize),
         NEW k \in Nat, Reset(k)
  PROVE  /\ (Now \in ArenaState)'
         /\ Layout(Now, pageSize, block)'
         /\ (current <= sentinel)'
         /\ block' = NoBlocks /\ phase = "up" /\ UNCHANGED <<phase, pageSize>>
         /\ k = 0 => pages' = <<>>
         /\ Len(pages') = Lesser(k, Len(pages))
         /\ \A i \in 1 .. Lesser(k, Len(pages)) : pages'[i] = pages[i]
<1> DEFINE kept == Lesser(k, Len(pages))
           c == [pages |-> pages', index |-> pageIndex', current |-> current',
                 sentinel |-> sentinel', last |-> last', mem |-> mem']
           Wiped(x) == \E i \in 1 .. kept : x \in Span(pages[i].base, pageSize)
           Given(x) == \E i \in kept + 1 .. Len(pages) : x \in Span(pages[i].base, pages[i].size)
<1>1. /\ phase = "up" /\ pages # <<>> /\ pages' = SubSeq(pages, 1, kept)
      /\ mem' = [x \in Addr |-> CASE Wiped(x) -> IF Debug THEN Poison ELSE Zero
                                  [] Given(x) -> Junk
                                  [] OTHER -> mem[x]]
      /\ Rewind(kept) /\ block' = NoBlocks /\ UNCHANGED <<phase, pageSize>>
  BY DEF Reset
<1>2. /\ Now.pages = pages /\ Now.mem = mem /\ pages \in Seq(Page) /\ Len(pages) \in Nat
      /\ mem \in [Addr -> Cell]
      /\ \A i \in 1 .. Len(pages) : pages[i].base \in Nat \ {0} /\ pages[i].size \in Nat
                                    /\ pageSize <= pages[i].size
  BY StateType DEF Now, PagesOK
<1>3. kept \in 0 .. Len(pages) /\ kept \in Nat /\ (k = 0 => kept = 0)
  BY <1>2 DEF Lesser
<1> HIDE DEF kept
<1>4. /\ pageIndex' = 0 /\ last' = Null
      /\ kept = 0 => current' = Null /\ sentinel' = Null
      /\ kept # 0 => current' = pages[1].base /\ sentinel' = pages[1].base + pageSize
  BY <1>1 DEF Rewind
<1>5. current' \in Nat /\ sentinel' \in Nat
  <2>1. CASE kept = 0
    BY <1>4, <2>1 DEF Null
  <2>2. CASE kept # 0
    <3>1. 1 \in 1 .. Len(pages)
      BY <1>2, <1>3, <2>2
    <3> QED
      BY <1>2, <1>4, <2>2, <3>1
  <2> QED
    BY <2>1, <2>2
<1>6. /\ pages' \in Seq(Page) /\ Len(pages') = kept
      /\ \A i \in 1 .. kept : pages'[i] = pages[i]
  BY <1>1, <1>2, <1>3, SubSeqProperties
<1>7. mem' \in [Addr -> Cell]
  <2>1. Poison \in Cell /\ Zero \in Cell /\ Junk \in Cell
    BY DEF Cell
  <2> HIDE DEF Wiped, Given
  <2> QED
    BY <1>1, <1>2, <2>1
<1>8. c \in ArenaState
  BY <1>4, <1>5, <1>6, <1>7 DEF ArenaState, Null
<1>9. Now' = c
  BY DEF Now
<1>10. Layout(c, pageSize, NoBlocks) /\ c.current <= c.sentinel
  <2>1. /\ c.pages = SubSeq(Now.pages, 1, kept) /\ c.index = 0 /\ c.last = Null
        /\ kept \in 0 .. Len(Now.pages)
        /\ kept = 0 => c.current = Null /\ c.sentinel = Null
        /\ kept # 0 => /\ c.current = Now.pages[1].base
                       /\ c.sentinel = Now.pages[1].base + pageSize
    BY <1>1, <1>2, <1>3, <1>4
  <2> HIDE DEF c
  <2> QED
    BY <1>8, <2>1, Rewound
<1>11. k = 0 => pages' = <<>>
  BY <1>3, <1>6, EmptySeq
<1>12. Layout(Now, pageSize, block)' /\ (Now \in ArenaState)' /\ (current <= sentinel)'
  <2>1. pageSize' = pageSize /\ block' = NoBlocks
    BY <1>1
  <2>2. current' <= sentinel'
    BY <1>10
  <2> HIDE DEF c
  <2> QED
    BY <1>8, <1>9, <1>10, <2>1, <2>2
<1> QED
  BY <1>1, <1>6, <1>11, <1>12 DEF kept

\* It wipes what it keeps.
LEMMA ResetKeeps ==
  ASSUME Now \in ArenaState, pageSize \in Nat, PagesOK(Now, pageSize), Clean(Now),
         NEW k \in Nat, Reset(k)
  PROVE  Clean(Now)' /\ StaysInside
<1> DEFINE kept == Lesser(k, Len(pages))
           Wiped(x) == \E i \in 1 .. kept : x \in Span(pages[i].base, pageSize)
           Given(x) == \E i \in kept + 1 .. Len(pages) : x \in Span(pages[i].base, pages[i].size)
<1>1. mem' = [x \in Addr |-> CASE Wiped(x) -> IF Debug THEN Poison ELSE Zero
                                [] Given(x) -> Junk
                                [] OTHER -> mem[x]]
  BY DEF Reset
<1>2. /\ Now.pages = pages /\ Now.mem = mem /\ pages \in Seq(Page) /\ Len(pages) \in Nat
      /\ mem \in [Addr -> Cell]
      /\ \A i \in 1 .. Len(pages) : pages[i].base \in Nat \ {0} /\ pages[i].size \in Nat
                                    /\ pageSize <= pages[i].size
  BY StateType DEF Now, PagesOK
<1>3. kept \in 0 .. Len(pages) /\ kept \in Nat
  BY <1>2 DEF Lesser
<1>4. Now'.pages = pages' /\ Now'.mem = mem'
  BY DEF Now
<1>5. Len(pages') = kept /\ \A i \in 1 .. kept : pages'[i] = pages[i]
  BY ResetRewinds
<1> HIDE DEF kept
<1>6. ASSUME NEW x \in Addr
       PROVE  /\ mem'[x] # Junk => Paged(Now', x)
              /\ mem'[x] # mem[x] => Paged(Now, x)
  <2>1. x \in Int
    BY Bounds DEF Addr
  <2>2. mem'[x] = CASE Wiped(x) -> IF Debug THEN Poison ELSE Zero
                    [] Given(x) -> Junk
                    [] OTHER -> mem[x]
    BY <1>1
  <2>3. CASE Wiped(x)
    <3>1. PICK i \in 1 .. kept : x \in Span(pages[i].base, pageSize)
      BY <2>3
    <3>2. i \in 1 .. Len(pages) /\ i \in 1 .. Len(pages') /\ pages'[i] = pages[i]
      BY <1>2, <1>3, <1>5
    <3>3. pages[i].base <= x /\ x < pages[i].base + pages[i].size
      BY <1>2, <2>1, <3>1, <3>2 DEF Span
    <3> QED
      BY <1>2, <1>4, <3>2, <3>3 DEF Paged
  <2>4. CASE ~Wiped(x) /\ Given(x)
    <3>1. PICK i \in kept + 1 .. Len(pages) : x \in Span(pages[i].base, pages[i].size)
      BY <2>4
    <3>2. i \in 1 .. Len(pages)
      BY <1>2, <1>3
    <3>3. pages[i].base <= x /\ x < pages[i].base + pages[i].size
      BY <1>2, <2>1, <3>1, <3>2 DEF Span
    <3>4. Paged(Now, x)
      BY <1>2, <3>2, <3>3 DEF Paged
    <3>5. mem'[x] = Junk
      BY <2>2, <2>4
    <3> QED
      BY <3>4, <3>5
  <2>5. CASE ~Wiped(x) /\ ~Given(x)
    <3>1. mem'[x] = mem[x]
      BY <2>2, <2>5
    <3>2. ASSUME mem[x] # Junk
          PROVE  Paged(Now', x)
      <4>1. Paged(Now, x)
        BY <1>2, <3>2 DEF Clean
      <4>2. PICK i \in 1 .. Len(pages) : pages[i].base <= x /\ x < pages[i].base + pages[i].size
        BY <1>2, <4>1 DEF Paged
      <4>3. x \in Span(pages[i].base, pages[i].size)
        BY <1>2, <2>1, <4>2 DEF Span
      <4>4. i \in 1 .. kept
        BY <1>2, <1>3, <2>5, <4>3
      <4> QED
        BY <1>4, <1>5, <4>2, <4>4 DEF Paged
    <3> QED
      BY <3>1, <3>2
  <2> QED
    BY <2>3, <2>4, <2>5
<1>7. StaysInside
  BY <1>6 DEF StaysInside
<1>8. Clean(Now)'
  BY <1>4, <1>6 DEF Clean
<1> QED
  BY <1>7, <1>8

-----------------------------------------------------------------------------
(***************************************************************************)
(* What the layout shows of the properties of Arena.                       *)
(***************************************************************************)

\* The pages of the current state.
LEMMA NowType ==
  ASSUME Now \in ArenaState
  PROVE  /\ Now.pages = pages /\ Now.index = pageIndex /\ Now.current = current
         /\ Now.sentinel = sentinel /\ Now.last = last /\ Now.mem = mem
         /\ pages \in Seq(Page) /\ Len(pages) \in Nat /\ DOMAIN pages = 1 .. Len(pages)
         /\ \A i \in 1 .. Len(pages) : pages[i].base \in Nat /\ pages[i].size \in Nat
         /\ pageIndex \in Nat /\ current \in Nat /\ sentinel \in Nat /\ last \in Nat
         /\ mem \in [Addr -> Cell]
<1>1. /\ Now.pages = pages /\ Now.index = pageIndex /\ Now.current = current
      /\ Now.sentinel = sentinel /\ Now.last = last /\ Now.mem = mem
  BY DEF Now
<1> QED
  BY <1>1, StateType

\* The variables have their types.
LEMMA TypesShown ==
  ASSUME Now \in ArenaState, block \in [Handle -> BlockType], pageSize \in Nat,
         phase \in {"raw", "up", "aborted"}
  PROVE  TypeOK
BY NowType DEF TypeOK, BlockType, Page

\* The cursor is in its page as long as it is not past the sentinel.
LEMMA CursorShown ==
  ASSUME Now \in ArenaState, CursorOK(Now), current <= sentinel
  PROVE  CursorInPage
<1>1. CASE pages = <<>>
  BY <1>1, NowType DEF CursorOK, CursorInPage
<1>2. CASE pages # <<>>
  BY <1>2, NowType DEF CursorOK, CursorInPage, Base, Top
<1> QED
  BY <1>1, <1>2

\* The blocks are behind the cursor.
LEMMA BehindShown ==
  ASSUME Now \in ArenaState, BlocksOK(Now, block)
  PROVE  BlocksBehindCursor
<1> SUFFICES ASSUME NEW h \in Live
             PROVE  \E i \in DOMAIN pages :
                      /\ pages[i].base <= Start(block[h])
                      /\ End(block[h]) <= pages[i].base + pages[i].size
                      /\ i <= pageIndex + 1
                      /\ i = pageIndex + 1 => End(block[h]) <= current
  BY DEF BlocksBehindCursor
<1>1. Holds(Now, Start(block[h]), End(block[h]))
  BY DEF BlocksOK, Live
<1> QED
  BY <1>1, NowType DEF Holds

\* They have no byte in common.
LEMMA ApartShown ==
  ASSUME BlocksOK(Now, block)
  PROVE  BlocksApart
BY DEF BlocksOK, BlocksApart, Live

\* The last block is on top of its page.
LEMMA LastShown ==
  ASSUME Now \in ArenaState, CursorOK(Now), LastOK(Now, block)
  PROVE  LastIsOnTop
<1> SUFFICES ASSUME last # Null
             PROVE  \E i \in DOMAIN pages :
                      /\ i = pageIndex + 1
                      /\ pages[i].base <= last /\ last <= current
                      /\ \A h \in Live : Start(block[h]) # last =>
                           End(block[h]) <= last \/ pages[i].base + pages[i].size <= Start(block[h])
  BY DEF LastIsOnTop
<1>1. Now.index < Len(Now.pages) /\ Now.last # Null
  BY NowType DEF CursorOK
<1>2. pageIndex + 1 \in DOMAIN pages
  BY <1>1, NowType
<1>3. pages[pageIndex + 1].base <= last /\ last <= current
  BY <1>1, NowType DEF LastOK, Base
<1>4. \A h \in Live : Start(block[h]) # last =>
        \/ End(block[h]) <= last
        \/ pages[pageIndex + 1].base + pages[pageIndex + 1].size <= Start(block[h])
  BY <1>1, NowType DEF LastOK, Below, Top, Live
<1> QED
  BY <1>2, <1>3, <1>4

\* Blocks and headers hold what they should.
LEMMA IntactShown ==
  ASSUME AllIntact(mem, block)
  PROVE  ContentsKept /\ HeadersKept
BY DEF AllIntact, Intact, ContentsKept, HeadersKept, Live

\* Writes that stay inside are writes to bytes of a page.
LEMMA InsideShown ==
  ASSUME Now \in ArenaState, (Now \in ArenaState)', StaysInside
  PROVE  \A x \in Addr : mem'[x] # mem[x] =>
           \E p \in {pages[i] : i \in DOMAIN pages} \cup {pages'[i] : i \in DOMAIN pages'} :
             x \in Span(p.base, p.size)
<1> SUFFICES ASSUME NEW x \in Addr, mem'[x] # mem[x]
             PROVE  \E p \in {pages[i] : i \in DOMAIN pages} \cup {pages'[i] : i \in DOMAIN pages'} :
                      x \in Span(p.base, p.size)
  OBVIOUS
<1>1. x \in Int
  BY Bounds DEF Addr
<1>2. ASSUME NEW s \in ArenaState, Paged(s, x)
      PROVE  \E i \in DOMAIN s.pages : x \in Span(s.pages[i].base, s.pages[i].size)
  <2>1. PICK i \in 1 .. Len(s.pages) :
          s.pages[i].base <= x /\ x < s.pages[i].base + s.pages[i].size
    BY <1>2 DEF Paged
  <2>2. i \in DOMAIN s.pages /\ s.pages[i].base \in Nat /\ s.pages[i].size \in Nat
    BY StateType
  <2> QED
    BY <1>1, <2>1, <2>2 DEF Span
<1>3. CASE Paged(Now, x)
  BY <1>2, <1>3 DEF Now
<1>4. CASE Paged(Now, x)'
  <2>1. Now' \in ArenaState /\ Paged(Now', x) /\ Now'.pages = pages'
    BY <1>4 DEF Now
  <2> QED
    BY <1>2, <2>1
<1> QED
  BY <1>3, <1>4 DEF StaysInside
=============================================================================
