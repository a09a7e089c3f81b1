------------------------- MODULE NativeArenaProofs -------------------------
(***************************************************************************)
(* Theorems about a client of the native functions of an arena: the        *)
(* invariant of its runs, the properties of Arena that follow from it, and *)
(* the implementation of the abstract region.                              *)
(***************************************************************************)
EXTENDS ArenaRegion

\* No request is so large that the sums _mulle_arena_alloc makes of it, its
\* alignment and an address exceed size_t, which the code does not check.
RequestsFit == \A n \in Sizes : \A a \in Alignments \cup {1} : AddrMax + n + a <= SizeMax

NativeBlock(b) ==
  /\ b.kind = "raw"
  /\ b.size \in Sizes
  /\ b.len <= b.size

\* What the native functions keep of the arena s and the client's blocks b.
Fine(s, ps, b) ==
  /\ s \in ArenaState
  /\ b \in [Handle -> BlockType]
  /\ Layout(s, ps, b)
  /\ s.current <= s.sentinel
  /\ \A h \in Handle : b[h] # NoBlock => NativeBlock(b[h])
  /\ AllIntact(s.mem, b)
  /\ Clean(s)

\* No block is put where it is not aligned.
AlignedSteps ==
  \A h \in Handle : block'[h].addr # block[h].addr => block'[h].addr % block'[h].align = 0

\* The inductive invariant.
IInv ==
  /\ phase \in {"raw", "up"}
  /\ pageSize \in Nat
  /\ phase = "up" => pageSize # 0
  /\ phase = "raw" => pages = <<>> /\ block = NoBlocks
  /\ Fine(Now, pageSize, block)

-----------------------------------------------------------------------------
(***************************************************************************)
(* The operators.                                                          *)
(***************************************************************************)

\* The sizes of the requests are positive numbers.
LEMMA NativeBounds ==
  /\ Sizes \subseteq Nat \ {0}
  /\ Alignments \subseteq Nat \ {0}
  /\ DefaultPageSize \in Nat \ {0} /\ PageSizes \subseteq Nat
  /\ KeepCounts \subseteq Nat /\ Percents \subseteq Nat /\ Debug \in BOOLEAN
BY ArenaAssumption DEF ArenaAssumption

\* _mulle_arena_alloc yields n bytes that are nobody's, aligned as asked for.
LEMMA RawAllocOK ==
  ASSUME NEW s \in ArenaState, pageSize \in Nat \ {0}, PagesOK(s, pageSize), CursorOK(s),
         s.current <= s.sentinel,
         NEW n \in Nat \ {0}, NEW a \in Nat \ {0}, AddrMax + n + a <= SizeMax,
         NEW c \in RawAlloc(s, n, a)
  PROVE  /\ Grown(s, c, pageSize, n)
         /\ c.last % a = 0
         /\ c.current = c.last + n /\ c.current <= c.sentinel
<1> DEFINE top(d) == Align(d.current, a)
<1>1. PICK d \in Place(s, n, a) : c = Bump(d, Wrap(top(d) + n), top(d), d.mem)
  BY DEF RawAlloc
<1>2. /\ AddrMax \in Nat /\ SizeMax \in Nat /\ a \in Nat /\ a >= 1 /\ n \in Nat /\ n >= 1
      /\ pageSize \in Nat
  BY Bounds
<1>3. /\ Placed(s, d, pageSize) /\ d.sentinel <= AddrMax + 1 /\ d.sentinel <= Top(d)
      /\ d.current <= d.sentinel /\ top(d) + n <= d.sentinel
  <2>1. CASE Wrap(Align(s.current, a) + n) <= s.sentinel
    <3>1. d = s
      BY <2>1 DEF Place
    <3>2. s.current \in Nat /\ s.sentinel \in Nat /\ s.sentinel <= AddrMax + 1
      BY StateType, CursorInMemory
    <3>3. s.current + (a - 1) <= SizeMax
      BY <1>2, <3>2
    <3>4. Align(s.current, a) \in Nat /\ Align(s.current, a) <= s.current + (a - 1)
      BY <3>2, <3>3, AlignUp
    <3>5. Align(s.current, a) + n \in Nat /\ Align(s.current, a) + n <= SizeMax
      BY <1>2, <3>2, <3>4
    <3>6. Align(s.current, a) + n <= s.sentinel
      BY <2>1, <3>5, NoWrap
    <3>7. s.pages # <<>>
      BY <1>2, <3>4, <3>6 DEF CursorOK, Null
    <3>8. Placed(s, s, pageSize)
      BY <1>2, <3>7, PlacedHere
    <3>9. s.sentinel <= Top(s)
      BY <3>8 DEF Placed
    <3> QED
      BY <3>1, <3>2, <3>6, <3>8, <3>9
  <2>2. CASE ~(Wrap(Align(s.current, a) + n) <= s.sentinel)
    <3>1. d \in NewPage(s, Wrap(n + a - 1))
      BY <2>2 DEF Place
    <3>2. n + a - 1 \in Nat /\ n + a - 1 <= SizeMax
      BY <1>2
    <3>3. d \in NewPage(s, n + a - 1)
      BY <3>1, <3>2, NoWrap
    <3>4. OnNewPage(s, d, pageSize, n + a - 1)
      BY <3>2, <3>3, NewPageOK DEF CursorOK
    <3>5. /\ d \in ArenaState /\ PagesOK(d, pageSize) /\ d.index < Len(d.pages)
          /\ d.current + (n + a - 1) <= d.sentinel /\ d.sentinel <= Top(d) /\ d.current = Base(d)
      BY <3>4 DEF OnNewPage
    <3>6. Placed(s, d, pageSize)
      BY <1>2, <3>2, <3>4, PlacedOnNewPage
    <3>7. d.current \in Nat /\ d.sentinel \in Nat /\ CursorOK(d)
      BY <1>2, <3>2, <3>5, StateType, EmptySeq DEF CursorOK
    <3>8. d.sentinel <= AddrMax + 1
      BY <3>5, <3>7, CursorInMemory
    <3>9. d.current + (a - 1) <= SizeMax
      BY <1>2, <3>5, <3>7, <3>8
    <3>10. Align(d.current, a) \in Nat /\ Align(d.current, a) <= d.current + (a - 1)
      BY <3>7, <3>9, AlignUp
    <3> QED
      BY <1>2, <3>5, <3>6, <3>7, <3>8, <3>10
  <2> QED
    BY <2>1, <2>2
<1>4. /\ d \in ArenaState /\ d.current \in Nat /\ d.sentinel \in Nat /\ d.mem \in [Addr -> Cell]
      /\ d.index < Len(d.pages)
  BY <1>3, StateType DEF Placed
<1>5. d.current + (a - 1) <= SizeMax
  BY <1>2, <1>3, <1>4
<1>6. top(d) \in Nat /\ d.current <= top(d) /\ top(d) % a = 0
  BY <1>4, <1>5, AlignUp
<1>7. Wrap(top(d) + n) = top(d) + n
  <2>1. top(d) + n \in Nat /\ top(d) + n <= SizeMax
    BY <1>2, <1>3, <1>4, <1>6
  <2> QED
    BY <2>1, NoWrap
<1>8. c = Bump(d, top(d) + n, top(d), d.mem)
  BY <1>1, <1>7
<1> HIDE DEF top
<1>9. top(d) + n \in Nat /\ top(d) + n <= Top(d)
  <2>1. Top(d) \in Nat
    BY <1>4, CurrentPage
  <2> QED
    BY SMTT(20), <1>2, <1>3, <1>4, <1>6, <2>1
<1>10. Grown(s, c, pageSize, n)
  <2>1. top(d) + n <= top(d) + n /\ \A x \in Addr : d.mem[x] # d.mem[x] => FALSE
    BY <1>9
  <2>2. Placed(s, d, pageSize) /\ d.current <= top(d)
    BY <1>3, <1>6
  <2>3. Grown(s, Bump(d, top(d) + n, top(d), d.mem), pageSize, n)
    BY <1>2, <1>4, <1>6, <1>9, <2>1, <2>2, Bumped
  <2> QED
    BY <1>8, <2>3
<1>11. c.last = top(d) /\ c.current = top(d) + n /\ c.sentinel = d.sentinel
  BY <1>8 DEF Bump
<1> QED
  BY <1>3, <1>6, <1>10, <1>11

\* A block from a native function, len bytes of which are known.
LEMMA RawBlock ==
  ASSUME NEW addr \in Nat, NEW n \in Sizes, NEW a \in Nat,
         NEW len \in Nat, len <= n, NEW val \in Cell, NEW m,
         len # 0 => \A x \in Span(addr, len) : m[x] = val
  PROVE  LET b == Block("raw", addr, n, a, len, val)
         IN  /\ b \in BlockType /\ NativeBlock(b) /\ Intact(m, b)
             /\ Start(b) = addr /\ End(b) = addr + n
<1> DEFINE b == Block("raw", addr, n, a, len, val)
<1>1. Zero \in Cell /\ n \in Nat
  BY NativeBounds DEF Cell
<1>2. /\ b \in BlockType /\ b.kind = "raw" /\ b.addr = addr /\ b.size = n
      /\ b.align = a /\ b.len = len /\ (len # 0 => b.val = val)
  BY <1>1 DEF Block, BlockType
<1> HIDE DEF b
<1>3. Intact(m, b)
  <2>1. CASE len = 0
    <3>1. Span(b.addr, b.len) = {}
      BY <1>2, <2>1 DEF Span
    <3> QED
      BY <1>2, <3>1 DEF Intact
  <2>2. CASE len # 0
    BY <1>2, <2>2 DEF Intact
  <2> QED
    BY <2>1, <2>2
<1>4. NativeBlock(b) /\ Start(b) = addr /\ End(b) = addr + n
  BY <1>2 DEF NativeBlock, Start, End
<1> QED
  BY <1>2, <1>3, <1>4 DEF b

\* An allocation makes a block for the client.
LEMMA NativeHanded ==
  ASSUME NEW s, NEW ps \in Nat, NEW b, Fine(s, ps, b),
         NEW n \in Nat, NEW c, Grown(s, c, ps, n), c.current <= c.sentinel,
         NEW h \in Handle, NEW nb \in BlockType, NativeBlock(nb), Intact(c.mem, nb),
         Start(nb) = c.last, End(nb) = c.last + n
  PROVE  /\ Fine(c, ps, [b EXCEPT ![h] = nb])
         /\ \A x \in Addr : c.mem[x] # s.mem[x] => Paged(c, x)
<1>1. /\ s \in ArenaState /\ b \in [Handle -> BlockType] /\ Layout(s, ps, b)
      /\ PagesOK(s, ps) /\ BlocksOK(s, b) /\ AllIntact(s.mem, b) /\ Clean(s)
      /\ \A g \in Handle : b[g] # NoBlock => NativeBlock(b[g])
  BY DEF Fine, Layout
<1>2. c \in ArenaState /\ c.last \in Nat
  BY StateType DEF Grown
<1>3. End(nb) <= c.last + n
  BY <1>2
<1>4. Layout(c, ps, [b EXCEPT ![h] = nb])
  BY <1>1, <1>2, <1>3, Allocated
<1>5. AllIntact(c.mem, [b EXCEPT ![h] = nb])
  <2>1. \A g \in Handle : b[g] # NoBlock => b[g].len <= b[g].size
    BY <1>1 DEF NativeBlock
  <2> QED
    BY <1>1, <1>2, <2>1, GrownIntact
<1>6. Clean(c) /\ \A x \in Addr : c.mem[x] # s.mem[x] => Paged(c, x)
  BY <1>1, GrownClean
<1>7. /\ [b EXCEPT ![h] = nb] \in [Handle -> BlockType]
      /\ \A g \in Handle : [b EXCEPT ![h] = nb][g] # NoBlock => NativeBlock([b EXCEPT ![h] = nb][g])
  BY <1>1
<1>8. Fine(c, ps, [b EXCEPT ![h] = nb])
  BY <1>2, <1>4, <1>5, <1>6, <1>7 DEF Fine
<1> QED
  BY <1>6, <1>8

\* A native function that leaves the arena as c and the blocks as b.
LEMMA NativeStep ==
  ASSUME IInv, phase = "up", NEW c, NEW b, Become(c), block' = b, UNCHANGED <<phase, pageSize>>,
         Fine(c, pageSize, b), \A x \in Addr : c.mem[x] # mem[x] => Paged(c, x)
  PROVE  IInv' /\ StaysInside
<1>1. Now' = c /\ mem' = c.mem
  BY Became DEF Fine, Become
<1>2. Fine(Now, pageSize, block)'
  BY <1>1
<1>3. IInv'
  BY <1>2 DEF IInv
<1> QED
  BY <1>1, <1>3 DEF StaysInside

\* What the invariant says of the arena that a function is called on.
LEMMA FineNow ==
  ASSUME IInv
  PROVE  /\ Now \in ArenaState /\ Fine(Now, pageSize, block) /\ mem = Now.mem
         /\ PagesOK(Now, pageSize) /\ CursorOK(Now) /\ BlocksOK(Now, block)
         /\ Now.current <= Now.sentinel /\ block \in [Handle -> BlockType]
         /\ pageSize \in Nat
         /\ phase = "up" => pageSize \in Nat \ {0}
BY DEF IInv, Fine, Layout, Now

\* An allocation that hands out the block nb.
LEMMA HandedStep ==
  ASSUME IInv, phase = "up", NEW n \in Nat, NEW c, Grown(Now, c, pageSize, n),
         c.current <= c.sentinel,
         NEW h \in Handle, NEW nb \in BlockType, NativeBlock(nb), Intact(c.mem, nb),
         Start(nb) = c.last, End(nb) = c.last + n,
         Become(c), Give(h, nb)
  PROVE  IInv' /\ StaysInside
<1>1. Fine(Now, pageSize, block) /\ pageSize \in Nat /\ mem = Now.mem
  BY FineNow
<1>2. /\ Fine(c, pageSize, [block EXCEPT ![h] = nb])
      /\ \A x \in Addr : c.mem[x] # Now.mem[x] => Paged(c, x)
  BY <1>1, NativeHanded
<1> QED
  BY <1>1, <1>2, NativeStep DEF Give

\* Alloc hands out a block of which nothing is known.
LEMMA AllocStep ==
  ASSUME IInv, RequestsFit, NEW h \in Handle, NEW n \in Sizes, NEW a \in Alignments, Alloc(h, n, a)
  PROVE  IInv' /\ StaysInside
<1>1. PICK c \in RawAlloc(Now, n, a) :
        Become(c) /\ Give(h, Block("raw", c.last, n, a, 0, Zero)) /\ phase = "up"
  BY DEF Alloc, Available
<1>2. n \in Nat \ {0} /\ a \in Nat \ {0} /\ AddrMax + n + a <= SizeMax /\ Zero \in Cell
  BY NativeBounds DEF RequestsFit, Cell
<1>3. Grown(Now, c, pageSize, n) /\ c.last % a = 0 /\ c.current <= c.sentinel
  BY <1>1, <1>2, FineNow, RawAllocOK
<1> DEFINE nb == Block("raw", c.last, n, a, 0, Zero)
<1>4. c.last \in Nat
  BY <1>2, <1>3, GrownInMemory
<1>5. /\ nb \in BlockType /\ NativeBlock(nb) /\ Intact(c.mem, nb)
      /\ Start(nb) = c.last /\ End(nb) = c.last + n
  BY <1>2, <1>3, <1>4, RawBlock
<1> HIDE DEF nb
<1> QED
  BY <1>1, <1>2, <1>3, <1>5, HandedStep DEF nb

\* An allocation whose n bytes are all set to v.
LEMMA SetStep ==
  ASSUME IInv, NEW h \in Handle, NEW n \in Sizes, NEW a \in Nat, NEW v \in Cell, phase = "up",
         NEW c, Grown(Now, c, pageSize, n), c.current <= c.sentinel,
         Become(WithMem(c, Store(c.mem, c.last, n, v))),
         Give(h, Block("raw", c.last, n, a, n, v))
  PROVE  IInv' /\ StaysInside
<1> DEFINE m == Store(c.mem, c.last, n, v)
           d == WithMem(c, m)
<1>1. /\ n \in Nat /\ n \in 0 .. n /\ n # 0 /\ c \in ArenaState /\ c.last \in Nat
      /\ \A x \in Int : c.last <= x /\ x < c.last + n => x \in Addr
  BY NativeBounds, GrownInMemory
<1>2. /\ c.mem \in [Addr -> Cell] /\ m \in [Addr -> Cell]
      /\ \A x \in Addr : m[x] = IF c.last <= x /\ x < c.last + n THEN v ELSE c.mem[x]
  <2>1. c.mem \in [Addr -> Cell] /\ c.last \in Int /\ n \in Int /\ v \in Cell
    BY <1>1, StateType
  <2> QED
    BY ONLY <2>1, StoreProperties
<1>3. d.mem = m /\ d.last = c.last /\ d.current = c.current /\ d.sentinel = c.sentinel
  BY <1>1, <1>2, WithMemFields
<1>4. Grown(Now, d, pageSize, n)
  <2>1. \A x \in Addr : m[x] # c.mem[x] => c.last <= x /\ x < c.last + n
    BY <1>2
  <2> QED
    BY <1>1, <1>2, <2>1, FineNow, Filled
<1>5. \A x \in Span(d.last, n) : d.mem[x] = v
  BY <1>1, <1>2, <1>3 DEF Span
<1> DEFINE nb == Block("raw", c.last, n, a, n, v)
<1>6. /\ nb \in BlockType /\ NativeBlock(nb) /\ Intact(d.mem, nb)
      /\ Start(nb) = d.last /\ End(nb) = d.last + n
  BY <1>1, <1>3, <1>5, RawBlock
<1>7. Become(d) /\ Give(h, nb) /\ d.current <= d.sentinel
  BY <1>3
<1> HIDE DEF nb, d
<1> QED
  BY <1>1, <1>4, <1>6, <1>7, HandedStep

\* Calloc hands out zero bytes.
LEMMA CallocStep ==
  ASSUME IInv, RequestsFit, NEW h \in Handle, NEW n \in Sizes, NEW a \in Alignments, Calloc(h, n, a)
  PROVE  IInv' /\ StaysInside
<1>1. PICK c \in RawAlloc(Now, n, a) :
        /\ Become(WithMem(c, Store(c.mem, c.last, n, Zero)))
        /\ Give(h, Block("raw", c.last, n, a, n, Zero)) /\ phase = "up"
  BY DEF Calloc, Available, WithMem
<1>2. n \in Nat \ {0} /\ a \in Nat \ {0} /\ AddrMax + n + a <= SizeMax /\ Zero \in Cell
  BY NativeBounds DEF RequestsFit, Cell
<1>3. Grown(Now, c, pageSize, n) /\ c.last % a = 0 /\ c.current <= c.sentinel
  BY <1>1, <1>2, FineNow, RawAllocOK
<1> QED
  BY <1>1, <1>2, <1>3, SetStep

\* Memdup hands out the caller's bytes.
LEMMA MemdupStep ==
  ASSUME IInv, RequestsFit, NEW h \in Handle, NEW n \in Sizes, Memdup(h, n)
  PROVE  IInv' /\ StaysInside
<1>1. PICK c \in RawAlloc(Now, n, 1) :
        /\ Become(WithMem(c, Store(c.mem, c.last, n, Src)))
        /\ Give(h, Block("raw", c.last, n, 1, n, Src)) /\ phase = "up"
  BY DEF Memdup, Available, WithMem
<1>2. n \in Nat \ {0} /\ 1 \in Nat \ {0} /\ AddrMax + n + 1 <= SizeMax /\ Src \in Cell
  BY NativeBounds DEF RequestsFit, Cell
<1>3. Grown(Now, c, pageSize, n) /\ c.last % 1 = 0 /\ c.current <= c.sentinel
  BY <1>1, <1>2, FineNow, RawAllocOK
<1> QED
  BY <1>1, <1>2, <1>3, SetStep

\* A block that holds what the first bytes of the block g held.
LEMMA CopyStep ==
  ASSUME IInv, phase = "up", NEW g \in Handle, block[g] # NoBlock,
         NEW h \in Handle, NEW n \in Sizes, NEW a \in Nat,
         NEW c, Grown(Now, c, pageSize, n), c.current <= c.sentinel,
         NEW k \in Nat, k <= n, NEW len \in Nat, len <= k, len <= block[g].len,
         Become(WithMem(c, CopyBytes(c.mem, c.last, block[g].addr, k))),
         Give(h, Block("raw", c.last, n, a, len, block[g].val))
  PROVE  IInv' /\ StaysInside
<1> DEFINE b == block[g]
           m == CopyBytes(c.mem, c.last, b.addr, k)
           d == WithMem(c, m)
           nb == Block("raw", c.last, n, a, len, b.val)
<1>1. /\ n \in Nat /\ n # 0 /\ c \in ArenaState /\ c.last \in Nat
      /\ \A x \in Int : c.last <= x /\ x < c.last + n => x \in Addr
  BY NativeBounds, GrownInMemory
<1>2. /\ b \in BlockType /\ b.addr \in Nat /\ b.size \in Nat /\ b.len \in Nat /\ b.val \in Cell
      /\ b.len <= b.size /\ b.kind = "raw" /\ Start(b) = b.addr /\ End(b) = b.addr + b.size
  BY FineNow DEF Fine, NativeBlock, BlockType, Start, End
<1>3. c.mem \in [Addr -> Cell] /\ c.last \in Int /\ b.addr \in Int /\ k \in Int
  BY <1>1, <1>2, StateType
<1>4. /\ m \in [Addr -> Cell]
      /\ \A x \in Addr : m[x] # c.mem[x] => c.last <= x /\ x < c.last + n
  <2>1. /\ m \in [Addr -> Cell]
        /\ \A x \in Addr : m[x] # c.mem[x] => c.last <= x /\ x < c.last + k
    BY <1>3, CopyBytesProperties
  <2>2. Addr \subseteq Int
    BY Bounds DEF Addr
  <2> QED
    BY <1>1, <2>1, <2>2
<1>5. d.mem = m /\ d.last = c.last /\ d.current = c.current /\ d.sentinel = c.sentinel
  BY <1>1, <1>4, WithMemFields
<1>6. Grown(Now, d, pageSize, n)
  BY <1>1, <1>4, FineNow, Filled
<1>7. Known(c.mem, b.addr, len, b.val)
  <2>1. 1 <= Start(b) /\ End(b) <= AddrMax + 1 /\ Holds(Now, Start(b), End(b))
    <3>1. Start(b) \in Int /\ End(b) \in Int
      BY <1>2
    <3> QED
      BY <3>1, FineNow, HeldInMemory DEF BlocksOK
  <2>2. \A x \in Span(b.addr, len) :
          x \in Addr /\ Start(b) <= x /\ x < End(b) /\ x \in Span(b.addr, b.len)
    BY <1>2, <2>1, Bounds DEF Span, Addr
  <2>3. \A x \in Addr : Start(b) <= x /\ x < End(b) => c.mem[x] = Now.mem[x]
    <3>1. Start(b) \in Int /\ End(b) \in Int
      BY <1>2
    <3> HIDE DEF b
    <3> QED
      BY <2>1, <3>1 DEF Grown
  <2>4. \A x \in Span(b.addr, b.len) : Now.mem[x] = b.val
    BY FineNow DEF Fine, AllIntact, Intact
  <2> QED
    BY <2>2, <2>3, <2>4 DEF Known
<1>8. \A x \in Span(c.last, len) : m[x] = b.val
  <2>1. Span(c.last, len) \subseteq Addr
    BY <1>1 DEF Span
  <2>2. Known(m, c.last, len, b.val)
    BY <1>3, <1>7, <2>1, CopyOfBytes
  <2> QED
    BY <2>2 DEF Known
<1>9. /\ nb \in BlockType /\ NativeBlock(nb) /\ Intact(d.mem, nb)
      /\ Start(nb) = d.last /\ End(nb) = d.last + n
  <2>1. len <= n
    BY <1>1
  <2> QED
    <3>1. d.mem = m /\ d.last = c.last /\ c.last \in Nat /\ b.val \in Cell
      BY <1>1, <1>2, <1>5
    <3> HIDE DEF b, m, d
    <3>2. /\ nb \in BlockType /\ NativeBlock(nb) /\ Intact(m, nb)
          /\ Start(nb) = c.last /\ End(nb) = c.last + n
      BY <1>8, <2>1, <3>1, RawBlock
    <3> QED
      BY <3>1, <3>2
<1>10. Become(d) /\ Give(h, nb) /\ d.current <= d.sentinel
  BY <1>5
<1> HIDE DEF nb, d, b, m
<1> QED
  BY <1>1, <1>6, <1>9, <1>10, HandedStep

\* Memdup of a block hands out what is known of the block.
LEMMA MemdupBlockStep ==
  ASSUME IInv, RequestsFit, NEW h \in Handle, NEW g \in Handle, MemdupBlock(h, g)
  PROVE  IInv' /\ StaysInside
<1> DEFINE n == block[g].size
           len == block[g].len
<1>1. phase = "up" /\ block[g] # NoBlock
  BY DEF MemdupBlock, Available, Live
<1>2. PICK c \in RawAlloc(Now, n, 1) :
        /\ Become(WithMem(c, CopyBytes(c.mem, c.last, block[g].addr, n)))
        /\ Give(h, Block("raw", c.last, n, 1, len, block[g].val))
  <2>1. PICK c \in RawAlloc(Now, n, 1) :
          /\ Become([c EXCEPT !.mem = CopyBytes(@, c.last, block[g].addr, n)])
          /\ Give(h, Block("raw", c.last, n, 1, len, block[g].val))
    BY DEF MemdupBlock
  <2>2. Become(WithMem(c, CopyBytes(c.mem, c.last, block[g].addr, n)))
    BY <2>1 DEF WithMem
  <2> QED
    BY <2>1, <2>2
<1>3. n \in Sizes /\ len \in Nat /\ len <= n
  BY <1>1, FineNow DEF Fine, NativeBlock, BlockType
<1> HIDE DEF n, len
<1>4. n \in Nat \ {0} /\ 1 \in Nat \ {0} /\ AddrMax + n + 1 <= SizeMax
  BY <1>3, NativeBounds DEF RequestsFit
<1>5. Grown(Now, c, pageSize, n) /\ c.last % 1 = 0 /\ c.current <= c.sentinel
  BY <1>1, <1>2, <1>4, FineNow, RawAllocOK
<1>6. len <= block[g].len
  BY <1>3 DEF len
<1>7. n <= n /\ n \in Nat /\ 1 \in Nat
  BY <1>4
<1> QED
  BY <1>1, <1>2, <1>3, <1>5, <1>6, <1>7, CopyStep

\* Realloc keeps what both sizes of the block have room for.
LEMMA ReallocStep ==
  ASSUME IInv, RequestsFit, NEW h \in Handle, NEW n \in Sizes, NEW a \in Alignments,
         Realloc(h, n, a)
  PROVE  IInv' /\ StaysInside
<1> DEFINE b == block[h]
           len == Lesser(b.len, n)
<1>1. /\ phase = "up" /\ b.kind = "raw"
      /\ \E c \in RawRealloc(Now, b.addr, b.size, n, a) :
           Become(c) /\ Give(h, Block("raw", c.last, n, a, len, b.val))
  BY DEF Realloc
<1>2. /\ b # NoBlock /\ b \in BlockType /\ NativeBlock(b) /\ Intact(mem, b)
      /\ b.addr \in Nat /\ b.size \in Nat /\ b.len \in Nat /\ b.align \in Nat /\ b.val \in Cell
      /\ Start(b) = b.addr /\ End(b) = b.addr + b.size
  <2>1. b # NoBlock
    BY <1>1 DEF NoBlock, Block
  <2> QED
    BY <2>1, FineNow DEF Fine, NativeBlock, AllIntact, BlockType, Start, End
<1>3. n \in Nat \ {0} /\ n \in Nat /\ a \in Nat \ {0} /\ AddrMax + n + a <= SizeMax
  BY NativeBounds DEF RequestsFit
<1>4. len \in Nat /\ len <= n /\ len <= b.len /\ len <= Lesser(b.size, n) /\ Lesser(b.size, n) <= n
      /\ Lesser(b.size, n) \in Nat
  BY <1>2, <1>3 DEF Lesser, NativeBlock
<1> HIDE DEF len
<1>5. CASE b.addr = last /\ Wrap(last + n) <= sentinel
  <2> DEFINE c == Bump(Now, Wrap(last + n), last, mem)
             nb == Block("raw", last, n, a, len, b.val)
             d == [block EXCEPT ![h] = nb]
  <2>1. Become(c) /\ Give(h, nb)
    <3>1. Now.last = last /\ Now.sentinel = sentinel /\ Now.mem = mem
      BY DEF Now
    <3>2. RawRealloc(Now, b.addr, b.size, n, a) = {c}
      BY <1>5, <3>1 DEF RawRealloc
    <3>3. c.last = last
      BY DEF Bump
    <3> QED
      BY <1>1, <1>5, <3>2, <3>3
  <2>2. /\ Now \in ArenaState /\ Layout(Now, pageSize, block) /\ PagesOK(Now, pageSize)
        /\ CursorOK(Now) /\ BlocksOK(Now, block) /\ LastOK(Now, block)
        /\ last \in Nat /\ sentinel \in Nat /\ mem \in [Addr -> Cell]
        /\ Now.last = last /\ Now.sentinel = sentinel /\ Now.mem = mem /\ Now.current = current
        /\ current \in Nat /\ current <= sentinel /\ sentinel <= AddrMax + 1 /\ Clean(Now)
    BY FineNow, StateType, CursorInMemory DEF Fine, Layout, Now
  <2>3. last # Null
    <3>1. Holds(Now, Start(b), End(b)) /\ Start(b) \in Int /\ End(b) \in Int
      BY <1>2, <2>2 DEF BlocksOK
    <3>2. 1 <= Start(b)
      BY <2>2, <3>1, HeldInMemory
    <3> QED
      BY <1>2, <1>5, <3>2 DEF Null
  <2>4. last + n \in Nat /\ Wrap(last + n) = last + n
    <3>1. last <= current
      BY <2>2, <2>3 DEF LastOK
    <3>2. last + n \in Nat /\ last + n <= SizeMax
      BY <1>3, <2>2, <3>1, Bounds
    <3> QED
      BY <3>2, NoWrap
  <2>5. last + n <= sentinel /\ sentinel <= Top(Now) /\ c = Bump(Now, last + n, last, mem)
    <3>1. Now.pages # <<>>
      BY <2>2, <2>3 DEF CursorOK
    <3> QED
      BY <1>5, <2>2, <2>4, <3>1 DEF CursorOK
  <2>6. /\ nb \in BlockType /\ NativeBlock(nb) /\ Intact(mem, nb)
        /\ Start(nb) = last /\ End(nb) = last + n
    <3>1. \A x \in Span(last, len) : mem[x] = b.val
      BY <1>2, <1>4, <1>5 DEF Intact, Span
    <3> DEFINE v == b.val
    <3>2. /\ last \in Nat /\ n \in Sizes /\ a \in Nat /\ len \in Nat /\ len <= n /\ v \in Cell
          /\ len # 0 => \A x \in Span(last, len) : mem[x] = v
      BY <1>2, <1>3, <1>4, <2>2, <3>1
    <3>3. nb = Block("raw", last, n, a, len, v)
      OBVIOUS
    <3> HIDE DEF b, v, nb
    <3>4. LET y == Block("raw", last, n, a, len, v)
          IN  /\ y \in BlockType /\ NativeBlock(y) /\ Intact(mem, y)
              /\ Start(y) = last /\ End(y) = last + n
      BY ONLY <3>2, RawBlock
    <3> QED
      BY <3>3, <3>4
  <2>7. /\ c.last = last /\ c.current = last + n /\ c.sentinel = sentinel /\ c.mem = mem
        /\ c.pages = Now.pages /\ c \in ArenaState
    BY <2>2, <2>4, StateType DEF Bump, ArenaState
  <2> HIDE DEF nb, d
  <2>8. Layout(c, pageSize, d)
    <3>1. /\ Solid(block) /\ block \in [Handle -> BlockType] /\ pageSize \in Nat
      <4>1. ASSUME NEW g \in Handle, block[g] # NoBlock
            PROVE  Start(block[g]) < End(block[g])
        BY <4>1, FineNow, NativeBounds DEF Fine, NativeBlock, BlockType, Start, End
      <4> QED
        BY <4>1, FineNow DEF Solid
    <3>2. /\ Start(b) = Now.last /\ Start(nb) = Now.last /\ End(nb) <= last + n
          /\ Now.last <= last + n /\ Now.last # Null
      BY <1>2, <1>3, <1>5, <2>2, <2>3, <2>4, <2>6
    <3>3. Top(Now) \in Int /\ End(nb) <= Top(Now)
      <4>1. Now.index < Len(Now.pages)
        BY <2>2, <2>3 DEF CursorOK
      <4>2. Top(Now) \in Nat
        BY <2>2, <4>1, CurrentPage
      <4> QED
        BY <2>2, <2>4, <2>5, <2>6, <4>2
    <3>4. Layout(Bump(Now, last + n, Now.last, mem), pageSize, [block EXCEPT ![h] = nb])
      BY <1>2, <2>2, <2>4, <2>6, <3>1, <3>2, <3>3, GrownInPlace
    <3> QED
      BY <2>2, <2>5, <3>4 DEF d
  <2> HIDE DEF c
  <2>9. Fine(c, pageSize, d)
    <3>1. /\ d \in [Handle -> BlockType]
          /\ \A g \in Handle : d[g] # NoBlock => NativeBlock(d[g]) /\ Intact(mem, d[g])
      BY <2>2, <2>6, FineNow DEF Fine, d, AllIntact
    <3>2. Clean(c)
      BY <2>2, <2>7 DEF Clean, Paged
    <3> QED
      BY <2>5, <2>7, <2>8, <3>1, <3>2 DEF Fine, AllIntact
  <2> QED
    BY <1>1, <2>1, <2>7, <2>9, NativeStep DEF Give, d
<1>6. CASE ~(b.addr = last /\ Wrap(last + n) <= sentinel)
  <2>1. RawRealloc(Now, b.addr, b.size, n, a) =
          {WithMem(c, CopyBytes(c.mem, c.last, b.addr, Lesser(b.size, n))) : c \in RawAlloc(Now, n, a)}
    BY <1>6 DEF RawRealloc, WithMem, Now
  <2>2. PICK c \in RawAlloc(Now, n, a) :
          LET d == WithMem(c, CopyBytes(c.mem, c.last, b.addr, Lesser(b.size, n)))
          IN  Become(d) /\ Give(h, Block("raw", d.last, n, a, len, b.val))
    BY <1>1, <2>1
  <2>3. Grown(Now, c, pageSize, n) /\ c.last % a = 0 /\ c.current <= c.sentinel
    BY <1>1, <1>3, FineNow, RawAllocOK
  <2> DEFINE m == CopyBytes(c.mem, c.last, b.addr, Lesser(b.size, n))
  <2>4. WithMem(c, m).last = c.last
    <3>1. c \in ArenaState /\ c.last \in Nat
      BY <1>3, <2>3, GrownInMemory
    <3>2. c.mem \in [Addr -> Cell] /\ c.last \in Int /\ b.addr \in Int /\ Lesser(b.size, n) \in Int
      BY <1>2, <1>4, <3>1, StateType
    <3>3. m \in [Addr -> Cell]
      BY <3>2, CopyBytesProperties
    <3> HIDE DEF m
    <3> QED
      BY <3>1, <3>3, WithMemFields
  <2>5. Become(WithMem(c, m)) /\ Give(h, Block("raw", c.last, n, a, len, b.val))
    BY <2>2, <2>4
  <2> QED
    BY <1>1, <1>2, <1>3, <1>4, <2>3, <2>5, CopyStep
<1> QED
  BY <1>5, <1>6

\* The client fills its block.
LEMMA FillStep ==
  ASSUME IInv, NEW h \in Handle, Fill(h)
  PROVE  IInv' /\ StaysInside
<1> DEFINE b == block[h]
           nb == Block(b.kind, b.addr, b.size, b.align, b.size, Mark(h))
           m == Store(mem, b.addr, b.size, Mark(h))
           c == WithMem(Now, m)
           d == [block EXCEPT ![h] = nb]
<1>1. /\ phase = "up" /\ b # NoBlock /\ mem' = m /\ block' = d
      /\ UNCHANGED <<phase, pageSize, cursor>>
  BY DEF Fill, Live
<1>2. /\ b \in BlockType /\ NativeBlock(b) /\ b.kind = "raw"
      /\ b.addr \in Nat /\ b.size \in Nat \ {0} /\ b.align \in Nat /\ b.size \in Sizes
      /\ Mark(h) \in Cell
  BY <1>1, FineNow, NativeBounds, MarkIsByte DEF Fine, NativeBlock, BlockType
<1>3. /\ nb \in BlockType /\ nb.kind = b.kind /\ nb.addr = b.addr /\ nb.size = b.size
      /\ nb.len = nb.size /\ nb.val = Mark(h) /\ nb.align = b.align
  <2>1. Zero \in Cell
    BY DEF Cell
  <2> QED
    BY <1>2, <2>1 DEF Block, BlockType
<1>4. NativeBlock(nb)
  BY <1>2, <1>3 DEF NativeBlock
<1> HIDE DEF nb
<1>5. /\ Now \in ArenaState /\ pageSize \in Nat /\ block \in [Handle -> BlockType]
      /\ Layout(Now, pageSize, block) /\ AllIntact(Now.mem, block) /\ Clean(Now)
      /\ Now.mem = mem /\ \A g \in Handle : block[g] # NoBlock => block[g].len <= block[g].size
  BY FineNow DEF Fine, NativeBlock
<1>6. m = Store(Now.mem, nb.addr, nb.size, Mark(h))
  BY <1>3, <1>5
<1> HIDE DEF m
<1>7. /\ c \in ArenaState /\ m \in [Addr -> Cell] /\ Layout(c, pageSize, d)
      /\ AllIntact(m, d) /\ Clean(c)
      /\ \A x \in Addr : m[x] # Now.mem[x] => Paged(c, x)
  <2>1. FilledWith(block[h], nb, Mark(h))
    BY <1>3 DEF FilledWith
  <2> HIDE DEF b
  <2>2. block[h] # NoBlock
    BY <1>1 DEF b
  <2>3. Mark(h) \in Cell /\ nb \in BlockType
    BY <1>2, <1>3
  <2> HIDE DEF c, d
  <2>4. /\ WithMem(Now, m) \in ArenaState /\ m \in [Addr -> Cell]
        /\ Layout(WithMem(Now, m), pageSize, [block EXCEPT ![h] = nb])
        /\ AllIntact(m, [block EXCEPT ![h] = nb])
        /\ Clean(WithMem(Now, m))
        /\ \A x \in Addr : m[x] # Now.mem[x] => Paged(WithMem(Now, m), x)
    BY <1>5, <1>6, <2>1, <2>2, <2>3, FillKeeps
  <2> QED
    BY <2>4 DEF c, d
<1>8. /\ c.pages = Now.pages /\ c.index = Now.index /\ c.sentinel = Now.sentinel
      /\ c.last = Now.last /\ c.current = Now.current /\ c.mem = m
  BY <1>5, <1>7, WithMemFields
<1>9. Become(c)
  BY <1>1, <1>8 DEF Become, Now, cursor
<1>10. /\ d \in [Handle -> BlockType]
       /\ \A g \in Handle : d[g] # NoBlock => NativeBlock(d[g])
  BY <1>3, <1>4, <1>5, FineNow DEF Fine
<1> HIDE DEF c, d
<1>11. Fine(c, pageSize, d)
  <2>1. c.current <= c.sentinel
    BY <1>8, FineNow
  <2> QED
    BY <1>7, <1>8, <1>10, <2>1 DEF Fine
<1> QED
  BY <1>1, <1>5, <1>7, <1>8, <1>9, <1>11, NativeStep

\* A reset ends all blocks.
LEMMA ResetStep ==
  ASSUME IInv, NEW k \in Nat, Reset(k)
  PROVE  IInv' /\ StaysInside
<1>1. Now \in ArenaState /\ pageSize \in Nat /\ PagesOK(Now, pageSize) /\ Clean(Now)
  BY FineNow DEF Fine
<1>2. /\ (Now \in ArenaState)' /\ Layout(Now, pageSize, block)' /\ (current <= sentinel)'
      /\ Clean(Now)' /\ block' = NoBlocks /\ phase = "up" /\ UNCHANGED <<phase, pageSize>>
      /\ StaysInside
  BY <1>1, ResetRewinds, ResetKeeps
<1>3. (Now.current <= Now.sentinel)'
  BY <1>2 DEF Now
<1>4. Fine(Now, pageSize, block)'
  BY <1>2, <1>3, NoBlocksFine DEF Fine, AllIntact
<1> QED
  BY <1>2, <1>4 DEF IInv

\* An arena without pages is in order.
LEMMA Empty ==
  ASSUME NEW s \in ArenaState, s.pages = <<>>, NEW ps \in Nat,
         s.current = Null, s.sentinel = Null, s.last = Null, s.mem = [x \in Addr |-> Junk]
  PROVE  Fine(s, ps, NoBlocks)
<1>1. PagesOK(s, ps)
  <2>1. Len(s.pages) = 0
    BY EmptySeq
  <2> QED
    BY <2>1 DEF PagesOK
<1>2. Layout(s, ps, NoBlocks)
  BY <1>1, NoBlocksFine DEF Layout, CursorOK, BlocksOK, LastOK
<1>3. Clean(s)
  BY DEF Clean
<1> QED
  BY <1>2, <1>3, NoBlocksFine DEF Fine, AllIntact, Null

\* An arena that is done is as it was before.
LEMMA DoneStep ==
  ASSUME IInv, Done
  PROVE  IInv' /\ StaysInside
<1> DEFINE c == [pages |-> <<>>, index |-> 0, current |-> Null, sentinel |-> Null, last |-> Null,
                 mem |-> [x \in Addr |-> Junk]]
<1>1. c \in ArenaState
  <2>1. Junk \in Cell /\ <<>> \in Seq(Page)
    BY EmptySeq DEF Cell
  <2> QED
    BY <2>1 DEF ArenaState, Null
<1>2. Now' = c
  BY DEF Done, Now
<1>3. Fine(c, 0, NoBlocks)
  BY <1>1, Empty
<1> HIDE DEF c
<1>4. Fine(Now, pageSize, block)'
  BY <1>2, <1>3 DEF Done
<1>5. IInv'
  BY <1>4 DEF IInv, Done
<1>6. StaysInside
  BY FineNow DEF Done, StaysInside, Fine, Clean
<1> QED
  BY <1>5, <1>6

\* Init sets the page size and nothing else.
LEMMA InitArenaStep ==
  ASSUME IInv, NEW size \in PageSizes, InitArena(size)
  PROVE  IInv' /\ StaysInside
<1>1. /\ phase = "raw" /\ pages = <<>> /\ block = NoBlocks /\ phase' = "up"
      /\ pageSize' \in Nat \ {0} /\ Now' = Now /\ block' = block /\ mem' = mem
  <2>1. pageSize' \in Nat \ {0}
    BY NativeBounds DEF InitArena
  <2> QED
    BY <2>1 DEF IInv, InitArena, Now, cursor
<1>2. Fine(Now, pageSize', NoBlocks)
  <2>1. Fine(Now, pageSize, NoBlocks) /\ Now.pages = <<>>
    BY <1>1, FineNow DEF Now
  <2>2. PagesOK(Now, pageSize')
    <3>1. Len(Now.pages) = 0
      BY <2>1, EmptySeq
    <3> QED
      BY <3>1 DEF PagesOK
  <2> QED
    BY <2>1, <2>2 DEF Fine, Layout
<1>3. Fine(Now, pageSize, block)'
  BY <1>1, <1>2
<1> QED
  BY <1>1, <1>3 DEF IInv, StaysInside

\* The arena before its init.
LEMMA Initially == Init => IInv
<1> SUFFICES ASSUME Init PROVE IInv
  OBVIOUS
<1>1. Now \in ArenaState
  <2>1. Junk \in Cell /\ <<>> \in Seq(Page)
    BY EmptySeq DEF Cell
  <2> QED
    BY <2>1 DEF Init, Now, ArenaState, Null
<1>2. /\ Now.pages = <<>> /\ Now.current = Null /\ Now.sentinel = Null /\ Now.last = Null
      /\ Now.mem = [x \in Addr |-> Junk]
  BY DEF Init, Now
<1>3. Fine(Now, 0, NoBlocks)
  BY <1>1, <1>2, Empty
<1> QED
  BY <1>3 DEF Init, IInv

-----------------------------------------------------------------------------
(***************************************************************************)
(* The theorems.                                                           *)
(***************************************************************************)

\* Every step keeps the invariant, and writes to the arena's pages only.
LEMMA Stepwise ==
  ASSUME IInv, RequestsFit, Life \/ Native
  PROVE  IInv' /\ StaysInside
<1>1. CASE Life
  <2>1. ASSUME NEW size \in PageSizes, InitArena(size) PROVE IInv' /\ StaysInside
    BY <2>1, InitArenaStep
  <2>2. CASE Done
    BY <2>2, DoneStep
  <2>3. ASSUME NEW k \in KeepCounts, Reset(k) PROVE IInv' /\ StaysInside
    BY <2>3, NativeBounds, ResetStep
  <2>4. ASSUME NEW percent \in Percents, ResetKeepPercentage(percent)
        PROVE  IInv' /\ StaysInside
    <3> DEFINE x == Len(pages) * Lesser(percent, 100) + 99
               k == x \div 100
    <3>1. Len(pages) \in Nat /\ Lesser(percent, 100) \in Nat
      BY FineNow, NowType, NativeBounds DEF Lesser
    <3>2. x \in Nat
      BY <3>1
    <3>3. k \in Nat
      <4> HIDE DEF x
      <4> QED
        BY <3>2, Remainder
    <3>4. Reset(k)
      BY <2>4 DEF ResetKeepPercentage
    <3> HIDE DEF k
    <3> QED
      BY <3>3, <3>4, ResetStep
  <2>5. ASSUME NEW h \in Handle, Fill(h) PROVE IInv' /\ StaysInside
    BY <2>5, FillStep
  <2> QED
    BY <1>1, <2>1, <2>2, <2>3, <2>4, <2>5 DEF Life
<1>2. CASE Native
  <2>1. PICK h \in Handle :
          \/ \E n \in Sizes, a \in Alignments : Alloc(h, n, a) \/ Calloc(h, n, a) \/ Realloc(h, n, a)
          \/ \E n \in Sizes : Memdup(h, n) \/ Strdup(h, n - 1)
          \/ \E g \in Handle : MemdupBlock(h, g)
    BY <1>2 DEF Native
  <2>2. ASSUME NEW n \in Sizes, NEW a \in Alignments,
               Alloc(h, n, a) \/ Calloc(h, n, a) \/ Realloc(h, n, a)
        PROVE  IInv' /\ StaysInside
    BY <2>2, AllocStep, CallocStep, ReallocStep
  <2>3. ASSUME NEW n \in Sizes, Memdup(h, n) \/ Strdup(h, n - 1)
        PROVE  IInv' /\ StaysInside
    <3>1. (n - 1) + 1 = n
      BY NativeBounds
    <3>2. Strdup(h, n - 1) => Memdup(h, n)
      BY <3>1 DEF Strdup
    <3> QED
      BY <2>3, <3>2, MemdupStep
  <2>4. ASSUME NEW g \in Handle, MemdupBlock(h, g)
        PROVE  IInv' /\ StaysInside
    BY <2>4, MemdupBlockStep
  <2> QED
    BY <2>1, <2>2, <2>3, <2>4
<1> QED
  BY <1>1, <1>2

\* A step that changes nothing keeps the invariant.
LEMMA Stuttering ==
  ASSUME IInv, UNCHANGED vars
  PROVE  IInv' /\ StaysInside
<1>1. /\ Now' = Now /\ phase' = phase /\ pageSize' = pageSize /\ block' = block
      /\ pages' = pages /\ mem' = mem
  BY DEF vars, cursor, Now
<1> QED
  BY <1>1 DEF IInv, StaysInside

\* The invariant holds in all runs of a client of the native functions.
THEOREM NativeInvariant ==
  ASSUME RequestsFit
  PROVE  NativeSpec => []IInv
<1>1. Init => IInv
  BY Initially
<1>2. IInv /\ [Life \/ Native]_vars => IInv'
  BY Stepwise, Stuttering
<1> QED
  BY <1>1, <1>2, PTL DEF NativeSpec

\* The variables have their types.
THEOREM NativeTypeOK ==
  ASSUME RequestsFit
  PROVE  NativeSpec => []TypeOK
<1>1. IInv => TypeOK
  BY TypesShown DEF IInv, Fine
<1> QED
  BY <1>1, NativeInvariant, PTL

\* Bump pointer and sentinel stay in the current page, however the alignment
\* of a request and the end of the page meet in _mulle_arena_alloc.
THEOREM NativeCursorInPage ==
  ASSUME RequestsFit
  PROVE  NativeSpec => []CursorInPage
<1>1. IInv => CursorInPage
  BY FineNow, CursorShown DEF Now
<1> QED
  BY <1>1, NativeInvariant, PTL

\* What the native functions hand out next is no byte of a block.
THEOREM NativeBlocksBehindCursor ==
  ASSUME RequestsFit
  PROVE  NativeSpec => []BlocksBehindCursor
<1>1. IInv => BlocksBehindCursor
  BY FineNow, BehindShown
<1> QED
  BY <1>1, NativeInvariant, PTL

\* No two blocks of the native functions share a byte, whatever was
\* reallocated in place, put on another page, or kept by a reset in between.
THEOREM NativeBlocksApart ==
  ASSUME RequestsFit
  PROVE  NativeSpec => []BlocksApart
<1>1. IInv => BlocksApart
  BY FineNow, ApartShown
<1> QED
  BY <1>1, NativeInvariant, PTL

\* The block that _mulle_arena_realloc may extend in place is on top.
THEOREM NativeLastIsOnTop ==
  ASSUME RequestsFit
  PROVE  NativeSpec => []LastIsOnTop
<1>1. IInv => LastIsOnTop
  <2>1. IInv => LastOK(Now, block)
    BY DEF IInv, Fine, Layout
  <2> QED
    BY <2>1, FineNow, LastShown
<1> QED
  BY <1>1, NativeInvariant, PTL

\* A block that _mulle_arena_alloc places, for the native functions that call it.
LEMMA PlacedAligned ==
  ASSUME IInv, RequestsFit, phase = "up", NEW h \in Handle, NEW b, Give(h, b),
         NEW n \in Sizes, NEW a \in Alignments \cup {1}, NEW c \in RawAlloc(Now, n, a),
         b.addr = c.last, b.align = a
  PROVE  AlignedSteps
<1>1. n \in Nat \ {0} /\ a \in Nat \ {0} /\ AddrMax + n + a <= SizeMax
  BY NativeBounds DEF RequestsFit
<1>2. c.last % a = 0
  BY <1>1, FineNow, RawAllocOK
<1>3. \A g \in Handle : block'[g] = IF g = h THEN b ELSE block[g]
  BY FineNow DEF Give
<1> QED
  BY <1>2, <1>3 DEF AlignedSteps

\* The native functions leave a block aligned as asked, or where it is.
LEMMA NativePlacesAligned ==
  ASSUME IInv, RequestsFit, Native
  PROVE  AlignedSteps
<1>1. PICK h \in Handle :
        \/ \E n \in Sizes, a \in Alignments : Alloc(h, n, a) \/ Calloc(h, n, a) \/ Realloc(h, n, a)
        \/ \E n \in Sizes : Memdup(h, n) \/ Strdup(h, n - 1)
        \/ \E g \in Handle : MemdupBlock(h, g)
  BY DEF Native
<1>2. ASSUME NEW c, NEW n, NEW a, NEW len, NEW val
      PROVE  /\ Block("raw", c, n, a, len, val).addr = c
             /\ Block("raw", c, n, a, len, val).align = a
  BY DEF Block
<1>3. ASSUME NEW n \in Sizes, NEW a \in Alignments, Alloc(h, n, a) \/ Calloc(h, n, a)
      PROVE  AlignedSteps
  <2>1. PICK c \in RawAlloc(Now, n, a) :
          /\ phase = "up"
          /\ \/ Give(h, Block("raw", c.last, n, a, 0, Zero))
             \/ Give(h, Block("raw", c.last, n, a, n, Zero))
    BY <1>3 DEF Alloc, Calloc, Available
  <2> QED
    BY <1>2, <2>1, PlacedAligned
<1>4. ASSUME NEW n \in Sizes, Memdup(h, n)
      PROVE  AlignedSteps
  <2>1. PICK c \in RawAlloc(Now, n, 1) :
          phase = "up" /\ Give(h, Block("raw", c.last, n, 1, n, Src))
    BY <1>4 DEF Memdup, Available
  <2> QED
    BY <1>2, <2>1, PlacedAligned
<1>5. ASSUME NEW g \in Handle, MemdupBlock(h, g)
      PROVE  AlignedSteps
  <2> DEFINE n == block[g].size
  <2>1. PICK c \in RawAlloc(Now, n, 1) :
          /\ phase = "up" /\ g \in Live
          /\ Give(h, Block("raw", c.last, n, 1, block[g].len, block[g].val))
    BY <1>5 DEF MemdupBlock, Available
  <2>2. n \in Sizes
    BY <2>1, FineNow DEF Fine, NativeBlock, Live
  <2> HIDE DEF n
  <2> QED
    BY <1>2, <2>1, <2>2, PlacedAligned
<1>6. ASSUME NEW n \in Sizes, NEW a \in Alignments, Realloc(h, n, a)
      PROVE  AlignedSteps
  <2> DEFINE b == block[h]
             nb(addr) == Block("raw", addr, n, a, Lesser(b.len, n), b.val)
  <2>1. PICK c \in RawRealloc(Now, b.addr, b.size, n, a) :
          phase = "up" /\ Give(h, nb(c.last))
    BY <1>6 DEF Realloc
  <2>2. CASE b.addr = Now.last /\ Wrap(Now.last + n) <= Now.sentinel
    <3>1. c.last = b.addr
      BY <2>1, <2>2 DEF RawRealloc, Bump
    <3>2. \A g \in Handle : block'[g] = IF g = h THEN nb(c.last) ELSE block[g]
      BY <2>1, FineNow DEF Give
    <3>3. nb(c.last).addr = b.addr
      BY <1>2, <3>1
    <3> QED
      BY <3>2, <3>3 DEF AlignedSteps
  <2>3. CASE ~(b.addr = Now.last /\ Wrap(Now.last + n) <= Now.sentinel)
    <3>1. PICK d \in RawAlloc(Now, n, a) :
            c = WithMem(d, CopyBytes(d.mem, d.last, b.addr, Lesser(b.size, n)))
      BY <2>1, <2>3 DEF RawRealloc, WithMem
    <3>2. c.last = d.last
      BY <3>1 DEF WithMem
    <3> QED
      BY <1>2, <2>1, <3>1, <3>2, PlacedAligned
  <2> QED
    BY <2>2, <2>3
<1>7. ASSUME NEW n \in Sizes, Strdup(h, n - 1)
      PROVE  AlignedSteps
  <2>1. (n - 1) + 1 = n
    BY NativeBounds
  <2> QED
    BY <1>4, <1>7, <2>1 DEF Strdup
<1> QED
  BY <1>1, <1>3, <1>4, <1>5, <1>6, <1>7

\* Init, done, a reset and a client that fills a block move no block.
LEMMA LifePlacesAligned ==
  ASSUME IInv, Life
  PROVE  AlignedSteps
<1>1. ASSUME block' = NoBlocks
      PROVE  AlignedSteps
  <2>1. \A h \in Handle : block'[h].addr = 0 /\ block'[h].align = 1
    BY <1>1 DEF NoBlocks, NoBlock, Block, Null
  <2> QED
    BY <2>1 DEF AlignedSteps
<1>2. ASSUME NEW h \in Handle, Fill(h)
      PROVE  AlignedSteps
  <2>1. \A g \in Handle : block'[g].addr = block[g].addr
    BY <1>2, FineNow DEF Fill, Block
  <2> QED
    BY <2>1 DEF AlignedSteps
<1>3. ASSUME NEW size \in PageSizes, InitArena(size)
      PROVE  AlignedSteps
  BY <1>3 DEF InitArena, AlignedSteps
<1>4. ASSUME NEW k, Reset(k)
      PROVE  AlignedSteps
  BY <1>1, <1>4 DEF Reset
<1> QED
  BY <1>1, <1>2, <1>3, <1>4 DEF Life, Done, ResetKeepPercentage

\* A native block is aligned as it was asked for when it is placed, whatever
\* the pages, and realloc moves it only to where it is aligned.
THEOREM NativeAlignedWherePlaced ==
  ASSUME RequestsFit
  PROVE  NativeSpec => AlignedWherePlaced
<1>1. IInv /\ [Life \/ Native]_vars =>
        [\A h \in Handle : block'[h].addr # block[h].addr =>
           block'[h].addr % block'[h].align = 0]_vars
  BY NativePlacesAligned, LifePlacesAligned DEF AlignedSteps
<1> QED
  BY <1>1, NativeInvariant, PTL DEF NativeSpec, AlignedWherePlaced

\* A block holds what was last put into it until the arena is reset.
THEOREM NativeContentsKept ==
  ASSUME RequestsFit
  PROVE  NativeSpec => []ContentsKept
<1>1. IInv => ContentsKept
  BY FineNow, IntactShown DEF Fine
<1> QED
  BY <1>1, NativeInvariant, PTL

\* The arena writes into its own pages and nowhere else.
THEOREM NativeWritesInsidePages ==
  ASSUME RequestsFit
  PROVE  NativeSpec => WritesInsidePages
<1>1. IInv /\ IInv' /\ [Life \/ Native]_vars =>
        [\A x \in Addr : mem'[x] # mem[x] =>
           \E p \in {pages[i] : i \in DOMAIN pages} \cup {pages'[i] : i \in DOMAIN pages'} :
             x \in Span(p.base, p.size)]_vars
  <2>1. IInv => Now \in ArenaState
    BY FineNow
  <2>2. IInv' => (Now \in ArenaState)'
    BY DEF IInv, Fine
  <2>3. IInv /\ (Life \/ Native) => StaysInside
    BY Stepwise
  <2> QED
    BY <2>1, <2>2, <2>3, InsideShown
<1> QED
  BY <1>1, NativeInvariant, PTL DEF NativeSpec, WritesInsidePages

-----------------------------------------------------------------------------
(***************************************************************************)
(* The abstract region.                                                    *)
(***************************************************************************)

\* What the invariant says before and after a step that gives h the block b.
LEMMA TurnsWhenGiven ==
  ASSUME IInv, IInv', NEW h \in Handle, NEW b, Give(h, b)
  PROVE  Turns(h, b)
BY DEF IInv, Fine, Now, Give, Turns

\* The sizes of native blocks are sizes of the region.
LEMMA SizesOfRegion == Sizes \subseteq BlockSizes
BY NativeBounds DEF BlockSizes

\* A native function hands out, moves or copies a block of the region.
LEMMA NativeRefines ==
  ASSUME IInv, IInv', Native
  PROVE  Blocks!RegionNext
<1>1. PICK h \in Handle :
        \/ \E n \in Sizes, a \in Alignments : Alloc(h, n, a) \/ Calloc(h, n, a) \/ Realloc(h, n, a)
        \/ \E n \in Sizes : Memdup(h, n) \/ Strdup(h, n - 1)
        \/ \E g \in Handle : MemdupBlock(h, g)
  BY DEF Native
<1>2. ASSUME NEW n \in Sizes, NEW b, Give(h, b), h \notin Live, b.size = n,
             b.len = 0 \/ (b.len = n /\ b.val \in {Zero, Src})
      PROVE  Blocks!RegionNext
  <2>1. Turns(h, b) /\ block[h] = NoBlock /\ b.size \in BlockSizes
    BY <1>2, TurnsWhenGiven, SizesOfRegion DEF Live
  <2> QED
    BY <1>2, <2>1, AsObtain
<1>3. ASSUME NEW n \in Sizes, NEW a \in Alignments, Alloc(h, n, a)
      PROVE  Blocks!RegionNext
  <2>1. PICK addr : Give(h, Block("raw", addr, n, a, 0, Zero)) /\ h \notin Live
    BY <1>3 DEF Alloc, Available
  <2>2. /\ Block("raw", addr, n, a, 0, Zero).size = n
        /\ Block("raw", addr, n, a, 0, Zero).len = 0
    BY DEF Block
  <2> QED
    BY <1>2, <2>1, <2>2
<1>4. ASSUME NEW n \in Sizes, NEW a \in Alignments, Calloc(h, n, a)
      PROVE  Blocks!RegionNext
  <2>1. PICK addr : Give(h, Block("raw", addr, n, a, n, Zero)) /\ h \notin Live
    BY <1>4 DEF Calloc, Available
  <2>2. /\ Block("raw", addr, n, a, n, Zero).size = n
        /\ Block("raw", addr, n, a, n, Zero).len = n
        /\ Block("raw", addr, n, a, n, Zero).val = Zero
    BY DEF Block
  <2> QED
    BY <1>2, <2>1, <2>2
<1>5. ASSUME NEW n \in Sizes, Memdup(h, n)
      PROVE  Blocks!RegionNext
  <2>1. PICK addr : Give(h, Block("raw", addr, n, 1, n, Src)) /\ h \notin Live
    BY <1>5 DEF Memdup, Available
  <2>2. /\ Block("raw", addr, n, 1, n, Src).size = n
        /\ Block("raw", addr, n, 1, n, Src).len = n
        /\ Block("raw", addr, n, 1, n, Src).val \in {Zero, Src}
    BY DEF Block
  <2> QED
    BY <1>2, <2>1, <2>2
<1>6. ASSUME NEW g \in Handle, MemdupBlock(h, g)
      PROVE  Blocks!RegionNext
  <2> DEFINE b(addr) == Block("raw", addr, block[g].size, 1, block[g].len, block[g].val)
  <2>1. PICK addr : Give(h, b(addr)) /\ h \notin Live
    BY <1>6 DEF MemdupBlock, Available
  <2>2. Turns(h, b(addr)) /\ block[h] = NoBlock
    BY <2>1, TurnsWhenGiven DEF Live
  <2>3. View(b(addr)) = View(block[g])
    <3>1. /\ b(addr).size = block[g].size /\ b(addr).len = block[g].len
          /\ block[g].len # 0 => b(addr).val = block[g].val
      BY DEF Block
    <3>2. Bytes(b(addr).len, b(addr).val) = Bytes(block[g].len, block[g].val)
      BY <3>1 DEF Bytes
    <3> QED
      BY <3>1, <3>2 DEF View
  <2> HIDE DEF b
  <2> QED
    BY <2>2, <2>3, AsDuplicate
<1>7. ASSUME NEW n \in Sizes, NEW a \in Alignments, Realloc(h, n, a)
      PROVE  Blocks!RegionNext
  <2> DEFINE len == Lesser(block[h].len, n)
             b(addr) == Block("raw", addr, n, a, len, block[h].val)
  <2>1. PICK addr : Give(h, b(addr)) /\ block[h].kind = "raw"
    BY <1>7 DEF Realloc
  <2>2. /\ b(addr).size = n /\ b(addr).len = len
        /\ len # 0 => b(addr).val = block[h].val
    BY DEF Block
  <2> HIDE DEF b
  <2>3. block[h].size # 0
    <3>1. block[h] # NoBlock
      BY <2>1 DEF NoBlock, Block
    <3> QED
      BY <3>1, FineNow, NativeBounds DEF Fine, NativeBlock
  <2>4. Turns(h, b(addr)) /\ n \in BlockSizes
    BY <2>1, TurnsWhenGiven, SizesOfRegion
  <2> QED
    BY <2>2, <2>3, <2>4, AsResize
<1>8. ASSUME NEW n \in Sizes, Strdup(h, n - 1)
      PROVE  Blocks!RegionNext
  <2>1. (n - 1) + 1 = n
    BY NativeBounds
  <2> QED
    BY <1>5, <1>8, <2>1 DEF Strdup
<1> QED
  BY <1>1, <1>3, <1>4, <1>5, <1>6, <1>7, <1>8

\* Init changes nothing that the region sees; done and reset clear it, and a
\* client that fills a block overwrites it.
LEMMA LifeRefines ==
  ASSUME IInv, IInv', Life
  PROVE  Blocks!RegionNext \/ UNCHANGED ClientView
<1>1. ASSUME NEW size \in PageSizes, InitArena(size)
      PROVE  UNCHANGED ClientView
  BY <1>1 DEF InitArena, ClientView
<1>2. CASE Done
  BY <1>2, AsClear DEF Done
<1>3. ASSUME NEW k, Reset(k)
      PROVE  Blocks!RegionNext
  BY <1>3, AsClear DEF Reset
<1>4. ASSUME NEW percent, ResetKeepPercentage(percent)
      PROVE  Blocks!RegionNext
  BY <1>3, <1>4 DEF ResetKeepPercentage
<1>5. ASSUME NEW h \in Handle, Fill(h)
      PROVE  Blocks!RegionNext
  <2> DEFINE o == block[h]
             b == Block(o.kind, o.addr, o.size, o.align, o.size, Mark(h))
  <2>1. Give(h, b) /\ block[h] # NoBlock
    BY <1>5 DEF Fill, Give, Live
  <2>2. block[h].size # 0
    BY <2>1, FineNow, NativeBounds DEF Fine, NativeBlock
  <2>3. b.size = block[h].size /\ b.len = b.size /\ b.val = Mark(h)
    BY <2>2 DEF Block
  <2> HIDE DEF b
  <2> QED
    BY <2>1, <2>2, <2>3, TurnsWhenGiven, AsOverwrite
<1> QED
  BY <1>1, <1>2, <1>3, <1>4, <1>5 DEF Life

\* The native functions implement the abstract region: a block has contents
\* of its own that only its owner changes, a resize keeps the common part.
THEOREM NativeImplementsRegion ==
  ASSUME RequestsFit
  PROVE  NativeSpec => ImplementsRegion
<1>1. Init => Blocks!RegionInit
  BY AsInit DEF Init
<1>2. IInv /\ IInv' /\ [Life \/ Native]_vars => [Blocks!RegionNext]_ClientView
  <2>1. UNCHANGED vars => UNCHANGED ClientView
    BY DEF vars, ClientView
  <2> QED
    BY <2>1, NativeRefines, LifeRefines
<1> QED
  BY <1>1, <1>2, NativeInvariant, PTL DEF NativeSpec, ImplementsRegion, Blocks!RegionSpec
=============================================================================
