------------------------- MODULE VtableArenaProofs -------------------------
(***************************************************************************)
(* Theorems about a client of the mulle_allocator interface of an arena,   *)
(* for requests that leave room for the header of the next block and pages *)
(* that no reset keeps.  The runs of MCArenaHeaders, MCArenaPoison and     *)
(* MCArenaKeep show what happens to other clients.                         *)
(***************************************************************************)
EXTENDS ArenaRegion

\* The sizes of requests that do not fail.
Products == {r[1] * r[2] : r \in {q \in Requests : ~Fails(q[1], q[2])}}

\* A block ends where the next header begins.
Exact == \A n \in Products : n % MaxAlign = MaxAlign - SizeT

\* The clients that the theorems are about.
VtableClient ==
  /\ KeepCounts \subseteq {0} /\ Percents \subseteq {0}
  /\ \A n \in Products : n % MaxAlign \in 1 .. MaxAlign - SizeT
  /\ \A n \in Products : AddrMax + n + 2 * MaxAlign < SizeMax
  /\ Debug => Exact

VtableOK(b) ==
  /\ b.kind = "vtable"
  /\ b.size \in Products
  /\ b.len <= b.size
  /\ b.addr % MaxAlign = 0 /\ b.align = MaxAlign

\* The bump pointer is where a header goes so that the block is aligned; the
\* part of it that is past the sentinel is less than the alignment.
HeadReady(s) ==
  /\ s.pages # <<>> => (s.current + SizeT) % MaxAlign = 0
  /\ s.current <= s.sentinel + MaxAlign

Ready(s) == HeadReady(s) /\ (Exact => s.current <= s.sentinel)

\* The sums that are made of the size of a block do not wrap.
Fits(n) == n \in Nat \ {0} /\ AddrMax + n + 2 * MaxAlign < SizeMax

\* The first w bytes of a block of n bytes and its header are its own: the next
\* header follows them.
RoomFor(n, w) ==
  /\ w \in Nat /\ SizeT <= w /\ w <= SizeT + n
  /\ \A addr \in Nat : addr % MaxAlign = 0 /\ addr + n <= AddrMax + 1 =>
       LET next == NextHeader(Wrap(addr + n))
       IN  /\ next \in Nat /\ addr + w <= next + SizeT /\ next <= addr + n + MaxAlign
           /\ (next + SizeT) % MaxAlign = 0

\* What the vtable functions keep of the arena s and the client's blocks b.
VFine(s, ps, b) ==
  /\ s \in ArenaState
  /\ b \in [Handle -> BlockType]
  /\ Layout(s, ps, b)
  /\ Ready(s)
  /\ \A h \in Handle : b[h] # NoBlock => VtableOK(b[h])
  /\ AllIntact(s.mem, b)
  /\ Clean(s)

\* The inductive invariant.
VInv ==
  /\ phase \in {"raw", "up", "aborted"}
  /\ pageSize \in Nat
  /\ phase = "up" => pageSize # 0
  /\ phase = "raw" => pages = <<>> /\ block = NoBlocks
  /\ VFine(Now, pageSize, block)

-----------------------------------------------------------------------------
(***************************************************************************)
(* The operators.                                                          *)
(***************************************************************************)

\* The sizes of the requests are positive numbers that do not overflow.
LEMMA VtableBounds ==
  /\ Products \subseteq Nat \ {0} /\ \A n \in Products : n <= SizeMax
  /\ DefaultPageSize \in Nat \ {0} /\ PageSizes \subseteq Nat /\ Debug \in BOOLEAN
<1>1. Requests \subseteq Nat \X Nat
  BY ArenaAssumption DEF ArenaAssumption
<1>2. ASSUME NEW r \in Requests, ~Fails(r[1], r[2])
      PROVE  r[1] * r[2] \in Nat \ {0} /\ r[1] * r[2] <= SizeMax
  <2>1. r[1] \in Nat /\ r[2] \in Nat
    BY <1>1
  <2> DEFINE n == r[1]
             k == r[2]
  <2>2. n \in Nat /\ k \in Nat /\ n # 0 /\ k # 0 /\ ~(n * k > SizeMax)
    BY <1>2, <2>1 DEF Fails
  <2> HIDE DEF n, k
  <2>3. n * k \in Nat /\ n * k # 0
    BY <2>2
  <2>4. n * k <= SizeMax
    BY <2>2, <2>3, Bounds
  <2> QED
    BY <2>3, <2>4 DEF n, k
<1> QED
  BY <1>2, ArenaAssumption DEF ArenaAssumption, Products

\* The next header follows the block, and the block after it is aligned.
LEMMA NextHeaderOK ==
  ASSUME NEW n, Fits(n), n % MaxAlign \in 1 .. MaxAlign - SizeT,
         NEW addr \in Nat, addr % MaxAlign = 0, addr + n <= AddrMax + 1
  PROVE  LET next == NextHeader(Wrap(addr + n))
         IN  /\ next \in Nat /\ addr + n <= next /\ next <= addr + n + MaxAlign
             /\ (next + SizeT) % MaxAlign = 0
             /\ n % MaxAlign = MaxAlign - SizeT => next = addr + n
<1> DEFINE end == addr + n
           M == MaxAlign
           r == n % M
           m == end + (M - 1)
           k == addr \div M
           j == n \div M
<1>1. /\ n \in Nat /\ n # 0 /\ M \in Nat \ {0} /\ SizeT \in Nat \ {0} /\ SizeT <= M
      /\ AddrMax \in Nat /\ SizeMax \in Nat /\ AddrMax + n + 2 * M < SizeMax
      /\ r \in 1 .. M - SizeT
  BY Bounds DEF Fits
<1>2. end \in Nat /\ end <= SizeMax /\ m \in Nat /\ m <= SizeMax
  BY <1>1
<1>3. Wrap(end) = end /\ Wrap(m) = m
  BY <1>2, NoWrap
<1>4. k \in Nat /\ addr = M * k + 0 /\ j \in Nat /\ n = M * j + r /\ r \in Int
  <2>1. addr % M = 0
    OBVIOUS
  <2> HIDE DEF M
  <2>2. k \in Nat /\ addr = M * k + (addr % M)
    BY <1>1, Remainder
  <2>3. j \in Nat /\ r \in 0 .. M - 1 /\ n = M * j + r
    BY <1>1, Remainder
  <2> HIDE DEF r, k, j
  <2> QED
    BY <1>1, <2>1, <2>2, <2>3
<1>5. m = M * (k + j + 1) + (r - 1)
  <2> HIDE DEF r, k, j, M
  <2>1. M * (k + j + 1) = M * k + M * j + M
    BY <1>1, <1>4
  <2> QED
    BY <1>1, <1>4, <2>1
<1>6. m % M = r - 1
  <2>1. k + j + 1 \in Int /\ r - 1 \in 0 .. M - 1
    BY <1>1, <1>4
  <2> HIDE DEF m, M, r, k, j
  <2> QED
    BY <1>1, <1>5, <2>1, RemainderOfSum
<1>7. Align(end, M) = end + M - r
  <2>1. Align(end, M) = m - (r - 1)
    BY <1>3, <1>6 DEF Align
  <2> HIDE DEF r, M
  <2> QED
    BY <1>1, <1>2, <1>4, <2>1
<1>8. NextHeader(Wrap(end)) = end + (M - SizeT - r)
  <2>1. NextHeader(Wrap(end)) = Wrap(Align(end, M) - SizeT)
    BY <1>3 DEF NextHeader
  <2> HIDE DEF r
  <2>2. Align(end, M) - SizeT = end + (M - SizeT - r)
    BY <1>1, <1>2, <1>4, <1>7
  <2>3. end + (M - SizeT - r) \in Nat /\ end + (M - SizeT - r) <= SizeMax
    BY <1>1, <1>2
  <2> HIDE DEF end
  <2> QED
    BY <2>1, <2>2, <2>3, NoWrap
<1>9. (end + (M - SizeT - r) + SizeT) % M = 0
  <2> HIDE DEF r, k, j, M
  <2>1. end + (M - SizeT - r) + SizeT = M * (k + j + 1) + 0
    <3>1. M * (k + j + 1) = M * k + M * j + M
      BY <1>1, <1>4
    <3> QED
      BY <1>1, <1>4, <3>1
  <2>2. (M * (k + j + 1) + 0) % M = 0
    BY <1>1, <1>4, RemainderOfSum
  <2> HIDE DEF end
  <2> QED
    BY <2>1, <2>2
<1> HIDE DEF r, end
<1>10. /\ end + (M - SizeT - r) \in Nat /\ end <= end + (M - SizeT - r)
       /\ end + (M - SizeT - r) <= end + M
       /\ r = M - SizeT => end + (M - SizeT - r) = end
  BY <1>1, <1>2, <1>4
<1> QED
  BY <1>8, <1>9, <1>10 DEF end, r

\* _mulle_arena_alloc_with_size_header finds n bytes and the header in front
\* of them: after the last block, or behind the offset in a new page.
LEMMA HeaderPlaced ==
  ASSUME NEW s \in ArenaState, pageSize \in Nat \ {0}, PagesOK(s, pageSize),
         CursorOK(s), HeadReady(s), NEW n, Fits(n), NEW c \in HeaderAlloc(s, n)
  PROVE  \E d \in ArenaState, top \in Nat :
           /\ Placed(s, d, pageSize) /\ d.current <= top
           /\ (top + SizeT) % MaxAlign = 0 /\ top + SizeT + n <= d.sentinel
           /\ c = Bump(d, NextHeader(Wrap(top + SizeT + n)), top, WithHeader(d.mem, top, n))
<1>1. /\ n \in Nat \ {0} /\ MaxAlign \in Nat \ {0} /\ SizeT \in Nat \ {0} /\ SizeT <= MaxAlign
      /\ AddrMax \in Nat /\ SizeMax \in Nat /\ AddrMax + n + 2 * MaxAlign < SizeMax
      /\ pageSize \in Nat
  BY Bounds DEF Fits
<1>2. s.current \in Nat /\ s.sentinel \in Nat /\ s.sentinel <= AddrMax + 1
  BY StateType, CursorInMemory
<1>3. PICK e \in HeaderPlace(s, n) :
        c = Bump(e, NextHeader(Wrap(e.current + SizeT + n)), e.current,
                 WithHeader(e.mem, e.current, n))
  BY DEF HeaderAlloc
<1>4. CASE HeaderFits(s, n)
  <2>1. e = s
    BY <1>3, <1>4 DEF HeaderPlace
  <2>2. s.current + SizeT + n \in Nat /\ s.current + SizeT + n <= SizeMax
    <3>1. s.current <= s.sentinel + MaxAlign
      BY DEF HeadReady
    <3> QED
      BY <1>1, <1>2, <3>1
  <2>3. s.current + SizeT + n <= s.sentinel /\ s.sentinel # Null
    BY <1>4, <2>2, NoWrap DEF HeaderFits
  <2>4. s.pages # <<>>
    BY <2>3 DEF CursorOK
  <2>5. Placed(s, s, pageSize)
    BY <1>1, <2>4, PlacedHere
  <2>6. (s.current + SizeT) % MaxAlign = 0 /\ s.current <= s.current
    BY <1>2, <2>4 DEF HeadReady
  <2> QED
    BY <1>2, <1>3, <2>1, <2>3, <2>5, <2>6
<1>5. CASE ~HeaderFits(s, n)
  <2>1. Total(n) = n + MaxAlign
    <3>1. SizeT + n + (MaxAlign - SizeT) = n + MaxAlign
      BY <1>1
    <3>2. n + MaxAlign \in Nat /\ n + MaxAlign <= SizeMax
      BY <1>1
    <3> QED
      BY <3>1, <3>2, NoWrap DEF Total
  <2>2. PICK d \in NewPage(s, n + MaxAlign) : e = Offset(d)
    BY <1>3, <1>5, <2>1 DEF HeaderPlace
  <2>3. n + MaxAlign \in Nat
    BY <1>1
  <2>4. OnNewPage(s, d, pageSize, n + MaxAlign)
    BY <2>2, <2>3, NewPageOK DEF CursorOK
  <2>5. /\ d \in ArenaState /\ d.index < Len(d.pages) /\ d.current = Base(d)
        /\ d.current + (n + MaxAlign) <= d.sentinel
    BY <2>4 DEF OnNewPage
  <2>6. Placed(s, d, pageSize)
    BY <1>1, <2>3, <2>4, PlacedOnNewPage
  <2>7. /\ d.current \in Nat /\ d.sentinel \in Nat /\ d.current % MaxAlign = 0
    <3>1. d.index + 1 \in 1 .. Len(d.pages)
      BY <2>5, CurrentPage
    <3>2. d.pages[d.index + 1].base \in PageBases
      BY <2>5, <3>1, StateType DEF Page
    <3> QED
      BY <2>5, <3>2, Bounds, StateType DEF Base
  <2> DEFINE top == d.current + (MaxAlign - SizeT)
  <2>8. top \in Nat /\ d.current <= top /\ top + SizeT = d.current + MaxAlign
        /\ top + SizeT + n <= d.sentinel
    BY <1>1, <2>5, <2>7
  <2>9. (top + SizeT) % MaxAlign = 0
    <3>1. (d.current + MaxAlign) % MaxAlign = MaxAlign % MaxAlign
      <4> DEFINE x == d.current
                 M == MaxAlign
      <4>1. x \in Nat /\ M \in Nat /\ M \in Nat \ {0} /\ x % M = 0
        BY <1>1, <2>7
      <4> HIDE DEF x, M
      <4>2. (x + M) % M = M % M
        BY ONLY <4>1, AddMultiple
      <4> QED
        BY <4>2 DEF x, M
    <3>2. MaxAlign % MaxAlign = 0
      <4>1. (MaxAlign * 1 + 0) % MaxAlign = 0 /\ MaxAlign * 1 + 0 = MaxAlign
        BY <1>1, RemainderOfSum
      <4> QED
        BY <4>1
    <3> QED
      BY <2>8, <3>1, <3>2
  <2>10. /\ e.current = top /\ e.mem = d.mem /\ e.pages = d.pages /\ e.index = d.index
         /\ e.sentinel = d.sentinel
    BY <2>2 DEF Offset, Bump
  <2> HIDE DEF top
  <2>11. c = Bump(d, NextHeader(Wrap(top + SizeT + n)), top, WithHeader(d.mem, top, n))
    BY <1>3, <2>10 DEF Bump
  <2> QED
    BY <2>5, <2>6, <2>8, <2>9, <2>11
<1> QED
  BY <1>4, <1>5

\* If they are found in a new page, all that was reached stays as it is, the
\* bytes in front of the next header included.
LEMMA HeaderOnNewPage ==
  ASSUME NEW s \in ArenaState, pageSize \in Nat \ {0}, PagesOK(s, pageSize),
         CursorOK(s), NEW n, Fits(n), ~HeaderFits(s, n), NEW c \in HeaderAlloc(s, n),
         NEW lo \in Int, NEW hi \in Int, Reached(s, lo, hi)
  PROVE  \A x \in Addr : lo <= x /\ x < hi => c.mem[x] = s.mem[x]
<1>1. /\ n \in Nat \ {0} /\ MaxAlign \in Nat \ {0} /\ SizeT \in Nat \ {0} /\ SizeT <= MaxAlign
      /\ AddrMax \in Nat /\ SizeMax \in Nat /\ AddrMax + n + 2 * MaxAlign < SizeMax
      /\ pageSize \in Nat
  BY Bounds DEF Fits
<1>2. Total(n) = n + MaxAlign /\ n + MaxAlign \in Nat
  <2>1. SizeT + n + (MaxAlign - SizeT) = n + MaxAlign /\ n + MaxAlign \in Nat
        /\ n + MaxAlign <= SizeMax
    BY <1>1
  <2> QED
    BY <2>1, NoWrap DEF Total
<1>3. PICK d \in NewPage(s, n + MaxAlign) :
        c.mem = WithHeader(d.mem, d.current + (MaxAlign - SizeT), n)
  <2>1. PICK e \in HeaderPlace(s, n) : c.mem = WithHeader(e.mem, e.current, n)
    BY DEF HeaderAlloc, Bump
  <2>2. PICK d \in NewPage(s, n + MaxAlign) : e = Offset(d)
    BY <1>2, <2>1 DEF HeaderPlace
  <2>3. e.mem = d.mem /\ e.current = d.current + (MaxAlign - SizeT)
    BY <2>2 DEF Offset, Bump
  <2> QED
    BY <2>1, <2>2, <2>3
<1>4. OnNewPage(s, d, pageSize, n + MaxAlign)
  BY <1>2, <1>3, NewPageOK DEF CursorOK
<1>5. /\ hi <= Base(d) \/ Top(d) <= lo
      /\ \A x \in Addr : lo <= x /\ x < hi => d.mem[x] = s.mem[x]
  <2> DEFINE min == n + MaxAlign
  <2>1. /\ min \in Nat /\ OnNewPage(s, d, pageSize, min) /\ pageSize \in Nat
        /\ s \in ArenaState /\ lo \in Int /\ hi \in Int /\ Reached(s, lo, hi)
    BY <1>1, <1>2, <1>4
  <2> HIDE DEF min
  <2>2. /\ Holds(d, lo, hi)
        /\ hi <= Base(d) \/ Top(d) <= lo
        /\ \A x \in Addr : lo <= x /\ x < hi => d.mem[x] = s.mem[x]
    BY ONLY ZenonT(40), <2>1, HeldOnNewPage
  <2> QED
    BY <2>2
<1> DEFINE top == d.current + (MaxAlign - SizeT)
<1>6. /\ d \in ArenaState /\ d.mem \in [Addr -> Cell] /\ top \in Int
      /\ Base(d) \in Int /\ Top(d) \in Int
      /\ Base(d) <= top /\ top + SizeT <= Top(d)
  <2>1. /\ d \in ArenaState /\ d.index < Len(d.pages) /\ d.current = Base(d)
        /\ d.current + (n + MaxAlign) <= d.sentinel /\ d.sentinel <= Top(d)
    BY <1>4 DEF OnNewPage
  <2>2. d.sentinel \in Nat /\ d.mem \in [Addr -> Cell] /\ Base(d) \in Nat /\ Top(d) \in Nat
    BY <2>1, StateType, CurrentPage
  <2> DEFINE base == Base(d)
             end == Top(d)
             at == d.current
             stop == d.sentinel
  <2>3. /\ base \in Nat /\ end \in Nat /\ stop \in Nat /\ n \in Nat
        /\ MaxAlign \in Nat /\ SizeT \in Nat /\ SizeT <= MaxAlign
        /\ at = base /\ at + (n + MaxAlign) <= stop /\ stop <= end
    BY <1>1, <2>1, <2>2
  <2> HIDE DEF base, end, at, stop
  <2>4. /\ at + (MaxAlign - SizeT) \in Int /\ base <= at + (MaxAlign - SizeT)
        /\ at + (MaxAlign - SizeT) + SizeT <= end
    BY ONLY <2>3
  <2> QED
    BY <2>1, <2>2, <2>4 DEF base, end, at
<1>7. c.mem = Store(d.mem, top, SizeT, Header(n))
  BY <1>3 DEF WithHeader
<1> HIDE DEF top
<1>8. ASSUME NEW x \in Addr, lo <= x, x < hi
      PROVE  c.mem[x] = d.mem[x]
  <2>1. x \in Int
    BY Bounds DEF Addr
  <2>2. ~(top <= x /\ x < top + SizeT)
    BY <1>1, <1>5, <1>6, <1>8, <2>1
  <2> QED
    BY <1>7, <2>2 DEF Store
<1> QED
  BY <1>5, <1>8

\* The bytes of a header, which are in memory, hold the size.
LEMMA HeaderStored ==
  ASSUME NEW m \in [Addr -> Cell], NEW raw \in Nat \ {0}, raw + SizeT <= AddrMax + 1, NEW n \in Nat
  PROVE  /\ WithHeader(m, raw, n) \in [Addr -> Cell]
         /\ \A x \in Addr : WithHeader(m, raw, n)[x] # m[x] => raw <= x /\ x < raw + SizeT
         /\ Known(WithHeader(m, raw, n), raw, SizeT, Header(n))
<1>1. Header(n) \in Cell /\ raw \in Int /\ SizeT \in Int
  BY Bounds DEF Header, Cell
<1> DEFINE k == Store(m, raw, SizeT, Header(n))
<1>2. /\ k \in [Addr -> Cell]
      /\ \A x \in Addr : k[x] = IF raw <= x /\ x < raw + SizeT THEN Header(n) ELSE m[x]
  <2> DEFINE v == Header(n)
  <2> HIDE DEF v
  <2>1. m \in [Addr -> Cell] /\ v \in Cell /\ raw \in Int /\ SizeT \in Int
    BY <1>1 DEF v
  <2>2. /\ Store(m, raw, SizeT, v) \in [Addr -> Cell]
        /\ \A x \in Addr : Store(m, raw, SizeT, v)[x] =
             IF raw <= x /\ x < raw + SizeT THEN v ELSE m[x]
    BY ONLY <2>1, StoreProperties
  <2> QED
    BY <2>2 DEF v
<1>3. WithHeader(m, raw, n) = k
  BY DEF WithHeader
<1> HIDE DEF k
<1>4. \A x \in Span(raw, SizeT) : x \in Addr /\ raw <= x /\ x < raw + SizeT
  BY Bounds DEF Span, Addr
<1> QED
  BY <1>2, <1>3, <1>4 DEF Known

\* It hands out bytes that are nobody's, the header written and the cursor where
\* the next header goes.
LEMMA HeaderAllocGrows ==
  ASSUME NEW s \in ArenaState, pageSize \in Nat \ {0}, PagesOK(s, pageSize),
         CursorOK(s), HeadReady(s), NEW n, Fits(n), NEW w, RoomFor(n, w), NEW c \in HeaderAlloc(s, n)
  PROVE  /\ Grown(s, c, pageSize, w)
         /\ (c.last + SizeT) % MaxAlign = 0
         /\ HeadReady(c)
         /\ Known(c.mem, c.last, SizeT, Header(n))
         /\ c.last + SizeT + n <= c.sentinel
         /\ c.current = NextHeader(Wrap(c.last + SizeT + n))
<1>1. PICK d \in ArenaState, top \in Nat :
        /\ Placed(s, d, pageSize) /\ d.current <= top
        /\ (top + SizeT) % MaxAlign = 0 /\ top + SizeT + n <= d.sentinel
        /\ c = Bump(d, NextHeader(Wrap(top + SizeT + n)), top, WithHeader(d.mem, top, n))
  BY HeaderPlaced
<1>2. /\ d \in ArenaState /\ PagesOK(d, pageSize) /\ d.index < Len(d.pages)
      /\ Base(d) <= d.current /\ d.sentinel <= Top(d)
  BY <1>1 DEF Placed
<1>3. /\ n \in Nat \ {0} /\ SizeT \in Nat \ {0} /\ AddrMax \in Nat /\ pageSize \in Nat
      /\ MaxAlign \in Nat /\ w \in Nat /\ SizeT <= w /\ w <= SizeT + n
  BY Bounds DEF Fits, RoomFor
<1>4. /\ d.current \in Nat /\ d.sentinel \in Nat /\ d.mem \in [Addr -> Cell]
      /\ Base(d) \in Nat \ {0} /\ Top(d) \in Nat
  BY <1>2, StateType, CurrentPage
<1>5. d.sentinel <= AddrMax + 1
  <2>1. CursorOK(d)
    BY <1>2, <1>4, EmptySeq, StateType DEF CursorOK
  <2> QED
    BY <1>2, <2>1, CursorInMemory
<1>6. top \in Nat \ {0} /\ top + SizeT <= AddrMax + 1 /\ top + SizeT \in Nat
      /\ (top + SizeT) + n <= AddrMax + 1 /\ (top + SizeT) + n = top + SizeT + n
  <2>1. top \in Nat /\ d.current <= top /\ top + SizeT + n <= d.sentinel /\ Base(d) <= d.current
    BY <1>1, <1>2
  <2>2. top \in Nat \ {0}
    BY <1>4, <2>1
  <2>3. top + SizeT + n <= AddrMax + 1
    BY <1>3, <1>4, <1>5, <2>1
  <2> QED
    BY <1>3, <2>2, <2>3
<1> DEFINE end == top + SizeT + n
           to == NextHeader(Wrap(end))
           m == WithHeader(d.mem, top, n)
<1>7. /\ to \in Nat /\ top + w <= to /\ to <= end + MaxAlign /\ (to + SizeT) % MaxAlign = 0
  <2>1. /\ to \in Nat /\ (top + SizeT) + w <= to + SizeT /\ to <= end + MaxAlign
        /\ (to + SizeT) % MaxAlign = 0
    BY <1>1, <1>6 DEF RoomFor
  <2> HIDE DEF to
  <2> QED
    BY <1>3, <2>1
<1>8. /\ m \in [Addr -> Cell]
      /\ \A x \in Addr : m[x] # d.mem[x] => top <= x /\ x < top + SizeT
      /\ Known(m, top, SizeT, Header(n))
  BY <1>3, <1>4, <1>6, HeaderStored
<1>9. c = Bump(d, to, top, m)
  BY <1>1
<1>10. to = NextHeader(Wrap(top + SizeT + n))
  OBVIOUS
<1> HIDE DEF to, m
<1>11. c.last = top /\ c.current = to /\ c.mem = m /\ c.sentinel = d.sentinel /\ c.pages = d.pages
  BY <1>9 DEF Bump
<1>12. Grown(s, c, pageSize, w)
  <2>1. top + w <= Top(d)
    BY <1>1, <1>2, <1>3, <1>4
  <2>2. \A x \in Addr : m[x] # d.mem[x] => top <= x /\ x < top + w
    <3>1. Addr \subseteq Int
      BY Bounds DEF Addr
    <3> QED
      BY <1>3, <1>6, <1>8, <3>1
  <2>3. Grown(s, Bump(d, to, top, m), pageSize, w)
    BY <1>1, <1>3, <1>7, <1>8, <2>1, <2>2, Bumped
  <2> QED
    BY <1>9, <2>3
<1>13. HeadReady(c)
  <2>1. to <= d.sentinel + MaxAlign
    BY <1>1, <1>3, <1>4, <1>7
  <2> QED
    BY <1>7, <1>11, <2>1 DEF HeadReady
<1> QED
  BY <1>1, <1>8, <1>10, <1>11, <1>12, <1>13

\* All bytes of a block are its own if its size leaves room for the header.
LEMMA RoomBehind ==
  ASSUME NEW n, Fits(n), n % MaxAlign \in 1 .. MaxAlign - SizeT
  PROVE  RoomFor(n, SizeT + n)
<1>1. n \in Nat \ {0} /\ SizeT \in Nat /\ MaxAlign \in Nat
  BY Bounds DEF Fits
<1>2. ASSUME NEW addr \in Nat, addr % MaxAlign = 0, addr + n <= AddrMax + 1
      PROVE  LET next == NextHeader(Wrap(addr + n))
             IN  /\ next \in Nat /\ addr + (SizeT + n) <= next + SizeT
                 /\ next <= addr + n + MaxAlign /\ (next + SizeT) % MaxAlign = 0
  <2> DEFINE next == NextHeader(Wrap(addr + n))
  <2>1. /\ next \in Nat /\ addr + n <= next /\ next <= addr + n + MaxAlign
        /\ (next + SizeT) % MaxAlign = 0
    BY <1>2, NextHeaderOK
  <2> HIDE DEF next
  <2>2. addr + (SizeT + n) <= next + SizeT
    BY <1>1, <2>1
  <2> QED
    BY <2>1, <2>2 DEF next
<1> QED
  BY <1>1, <1>2 DEF RoomFor

\* The sizes of the client leave it.
LEMMA RoomForBlock ==
  ASSUME VtableClient, NEW n \in Products
  PROVE  Fits(n) /\ n % MaxAlign \in 1 .. MaxAlign - SizeT /\ RoomFor(n, SizeT + n)
<1>1. Fits(n) /\ n % MaxAlign \in 1 .. MaxAlign - SizeT
  BY VtableBounds DEF VtableClient, Fits
<1> QED
  BY <1>1, RoomBehind

\* It gets the bytes of the header and of the block.
LEMMA HeaderAllocOK ==
  ASSUME VtableClient, NEW s \in ArenaState, pageSize \in Nat \ {0}, PagesOK(s, pageSize),
         CursorOK(s), Ready(s), NEW n \in Products, NEW c \in HeaderAlloc(s, n)
  PROVE  /\ Grown(s, c, pageSize, SizeT + n)
         /\ (c.last + SizeT) % MaxAlign = 0
         /\ Ready(c)
         /\ Known(c.mem, c.last, SizeT, Header(n))
<1>1. Fits(n) /\ RoomFor(n, SizeT + n)
  BY RoomForBlock
<1>2. /\ Grown(s, c, pageSize, SizeT + n)
      /\ (c.last + SizeT) % MaxAlign = 0
      /\ HeadReady(c)
      /\ Known(c.mem, c.last, SizeT, Header(n))
      /\ c.last + SizeT + n <= c.sentinel
      /\ c.current = NextHeader(Wrap(c.last + SizeT + n))
  BY <1>1, HeaderAllocGrows DEF Ready
<1>3. Exact => c.current <= c.sentinel
  <2>1. SizeT \in Nat /\ n \in Nat /\ pageSize \in Nat /\ SizeT + n \in Nat
    BY VtableBounds, Bounds
  <2>2. c.last \in Nat /\ c.last + (SizeT + n) <= AddrMax + 1
    BY <1>2, <2>1, GrownInMemory
  <2>3. c.last + SizeT \in Nat /\ (c.last + SizeT) + n <= AddrMax + 1
        /\ (c.last + SizeT) + n = c.last + SizeT + n
    BY <2>1, <2>2
  <2>4. Exact => c.current = c.last + SizeT + n
    <3>1. Exact => n % MaxAlign = MaxAlign - SizeT
      BY DEF Exact
    <3>2. Fits(n) /\ n % MaxAlign \in 1 .. MaxAlign - SizeT
      BY RoomForBlock
    <3> QED
      BY <1>2, <2>3, <3>1, <3>2, NextHeaderOK
  <2> QED
    BY <1>2, <2>4
<1> QED
  BY <1>2, <1>3 DEF Ready

\* A block behind its header, len bytes of which are known.
LEMMA HeaderBlock ==
  ASSUME NEW raw \in Nat, (raw + SizeT) % MaxAlign = 0, NEW n \in Products,
         NEW len \in Nat, len <= n, NEW val \in Cell, NEW m,
         Known(m, raw, SizeT, Header(n)), len # 0 => Known(m, raw + SizeT, len, val)
  PROVE  LET b == Block("vtable", raw + SizeT, n, MaxAlign, len, val)
         IN  /\ b \in BlockType /\ VtableOK(b) /\ Intact(m, b)
             /\ Start(b) = raw /\ End(b) = raw + (SizeT + n)
<1> DEFINE b == Block("vtable", raw + SizeT, n, MaxAlign, len, val)
<1>1. Zero \in Cell /\ n \in Nat /\ SizeT \in Nat /\ MaxAlign \in Nat /\ raw + SizeT \in Nat
  BY VtableBounds, Bounds DEF Cell
<1>2. /\ b \in BlockType /\ b.kind = "vtable" /\ b.addr = raw + SizeT /\ b.size = n
      /\ b.align = MaxAlign /\ b.len = len /\ (len # 0 => b.val = val)
  BY <1>1 DEF Block, BlockType
<1> HIDE DEF b
<1>3. Start(b) = raw /\ End(b) = raw + (SizeT + n)
  BY <1>1, <1>2 DEF Start, End
<1>4. \A x \in Span(b.addr, b.len) : m[x] = b.val
  <2>1. CASE len = 0
    BY <1>1, <1>2, <2>1 DEF Span
  <2>2. CASE len # 0
    BY <1>2, <2>2 DEF Known
  <2> QED
    BY <2>1, <2>2
<1>5. \A x \in Span(b.addr - SizeT, SizeT) : m[x] = Header(b.size)
  <2>1. b.addr - SizeT = raw
    BY <1>1, <1>2
  <2> QED
    BY <1>2, <2>1 DEF Known
<1>6. VtableOK(b)
  BY <1>2 DEF VtableOK
<1> QED
  BY <1>2, <1>3, <1>4, <1>5, <1>6 DEF Intact, b

-----------------------------------------------------------------------------
(***************************************************************************)
(* The steps.                                                              *)
(***************************************************************************)

\* What the invariant says of the arena that a function is called on.
LEMMA VNow ==
  ASSUME VInv
  PROVE  /\ Now \in ArenaState /\ VFine(Now, pageSize, block) /\ mem = Now.mem
         /\ PagesOK(Now, pageSize) /\ CursorOK(Now) /\ BlocksOK(Now, block) /\ LastOK(Now, block)
         /\ Layout(Now, pageSize, block) /\ AllIntact(Now.mem, block) /\ Clean(Now)
         /\ Ready(Now) /\ block \in [Handle -> BlockType]
         /\ pageSize \in Nat
         /\ phase = "up" => pageSize \in Nat \ {0}
BY DEF VInv, VFine, Layout, Now

\* What it says of a block of the client.
LEMMA VBlock ==
  ASSUME VInv, NEW h \in Handle, block[h] # NoBlock
  PROVE  LET b == block[h]
         IN  /\ b \in BlockType /\ VtableOK(b) /\ Intact(mem, b) /\ b.kind = "vtable"
             /\ b.addr \in Nat /\ b.size \in Products /\ b.size \in Nat \ {0} /\ b.len \in Nat
             /\ b.len <= b.size /\ b.val \in Cell
             /\ Start(b) = b.addr - SizeT /\ Start(b) \in Nat \ {0} /\ b.addr = Start(b) + SizeT
             /\ End(b) = b.addr + b.size /\ End(b) = Start(b) + (SizeT + b.size)
             /\ End(b) <= AddrMax + 1 /\ Start(b) < End(b) /\ End(b) \in Nat
             /\ Holds(Now, Start(b), End(b))
<1> DEFINE b == block[h]
<1>1. /\ b \in BlockType /\ VtableOK(b) /\ Intact(mem, b) /\ b.kind = "vtable"
      /\ b.size \in Products /\ b.len <= b.size
  BY VNow DEF VFine, AllIntact, VtableOK
<1>2. /\ b.addr \in Nat /\ b.size \in Nat \ {0} /\ b.len \in Nat /\ b.val \in Cell
      /\ SizeT \in Nat \ {0}
  BY <1>1, VtableBounds, Bounds DEF BlockType
<1>3. Holds(Now, Start(b), End(b))
  BY VNow DEF BlocksOK
<1>4. Start(b) = b.addr - SizeT /\ End(b) = b.addr + b.size /\ Start(b) \in Int /\ End(b) \in Int
  BY <1>1, <1>2 DEF Start, End
<1>5. 1 <= Start(b) /\ End(b) <= AddrMax + 1
  BY <1>3, <1>4, VNow, HeldInMemory
<1> HIDE DEF b
<1>6. /\ Start(b) \in Nat \ {0} /\ b.addr = Start(b) + SizeT /\ Start(b) < End(b)
      /\ End(b) = Start(b) + (SizeT + b.size) /\ End(b) \in Nat
  BY <1>2, <1>4, <1>5
<1> QED
  BY <1>1, <1>2, <1>3, <1>4, <1>5, <1>6 DEF b

\* Every block has its header and a byte.
LEMMA VSolid ==
  ASSUME VInv
  PROVE  Solid(block) /\ \A g \in Handle : block[g] # NoBlock => block[g].len <= block[g].size
BY VBlock DEF Solid

\* A vtable function that leaves the arena as c and the blocks as b.
LEMMA VtableStep ==
  ASSUME VInv, phase = "up", NEW c, NEW b, Become(c), block' = b, UNCHANGED <<phase, pageSize>>,
         VFine(c, pageSize, b), \A x \in Addr : c.mem[x] # mem[x] => Paged(Now, x) \/ Paged(c, x)
  PROVE  VInv' /\ StaysInside
<1>1. Now' = c /\ mem' = c.mem
  BY Became DEF VFine, Become
<1>2. VFine(Now, pageSize, block)'
  BY <1>1
<1>3. VInv'
  BY <1>2 DEF VInv
<1> QED
  BY <1>1, <1>3 DEF StaysInside

\* An allocation that hands out the block nb.
LEMMA VHandedStep ==
  ASSUME VInv, phase = "up", NEW n \in Nat, NEW c, Grown(Now, c, pageSize, n), Ready(c),
         NEW h \in Handle, NEW nb \in BlockType, VtableOK(nb), Intact(c.mem, nb),
         Start(nb) = c.last, End(nb) = c.last + n,
         Become(c), Give(h, nb)
  PROVE  VInv' /\ StaysInside
<1> DEFINE d == [block EXCEPT ![h] = nb]
<1>1. c \in ArenaState /\ c.last \in Nat /\ End(nb) <= c.last + n
  BY StateType DEF Grown
<1>2. Layout(c, pageSize, d)
  BY <1>1, VNow, Allocated
<1>3. AllIntact(c.mem, d)
  BY <1>1, VNow, VSolid, GrownIntact
<1>4. Clean(c) /\ \A x \in Addr : c.mem[x] # Now.mem[x] => Paged(c, x)
  BY VNow, GrownClean
<1>5. d \in [Handle -> BlockType] /\ \A g \in Handle : d[g] # NoBlock => VtableOK(d[g])
  BY VNow DEF VFine
<1> HIDE DEF d
<1>6. VFine(c, pageSize, d)
  BY <1>1, <1>2, <1>3, <1>4, <1>5 DEF VFine
<1> QED
  BY <1>4, <1>6, VNow, VtableStep DEF Give, d

\* Some bytes of a new block behind its header are written.
LEMMA WrittenStep ==
  ASSUME VInv, phase = "up", NEW h \in Handle, NEW n \in Products,
         NEW c, Grown(Now, c, pageSize, SizeT + n), (c.last + SizeT) % MaxAlign = 0, Ready(c),
         Known(c.mem, c.last, SizeT, Header(n)),
         NEW m \in [Addr -> Cell],
         \A x \in Addr : m[x] # c.mem[x] => c.last + SizeT <= x /\ x < c.last + SizeT + n,
         NEW len \in Nat, len <= n, NEW val \in Cell,
         len # 0 => Known(m, c.last + SizeT, len, val),
         Become(WithMem(c, m)), Give(h, Block("vtable", c.last + SizeT, n, MaxAlign, len, val))
  PROVE  VInv' /\ StaysInside
<1> DEFINE d == WithMem(c, m)
           nb == Block("vtable", c.last + SizeT, n, MaxAlign, len, val)
<1>1. /\ n \in Nat /\ SizeT \in Nat /\ SizeT + n \in Nat /\ c \in ArenaState /\ c.last \in Nat
      /\ Addr \subseteq Int
  <2>1. n \in Nat /\ SizeT \in Nat /\ SizeT + n \in Nat
    BY VtableBounds, Bounds
  <2> QED
    BY <2>1, GrownInMemory, Bounds DEF Addr
<1>2. /\ d.mem = m /\ d.last = c.last /\ d.current = c.current /\ d.sentinel = c.sentinel
      /\ d.pages = c.pages
  BY <1>1, WithMemFields
<1>3. Grown(Now, d, pageSize, SizeT + n)
  <2>1. ASSUME NEW x \in Addr, m[x] # c.mem[x]
        PROVE  c.last <= x /\ x < c.last + (SizeT + n)
    <3>1. c.last + SizeT <= x /\ x < c.last + SizeT + n /\ x \in Int
      BY <1>1, <2>1
    <3> QED
      BY <1>1, <3>1
  <2> QED
    BY <1>1, <2>1, VNow, Filled
<1>4. Ready(d)
  BY <1>2 DEF HeadReady, Ready
<1>5. Known(m, c.last, SizeT, Header(n))
  <2>1. ASSUME NEW x \in Span(c.last, SizeT)
        PROVE  x \in Addr /\ m[x] = Header(n)
    <3>1. x \in Addr /\ c.mem[x] = Header(n)
      BY DEF Known
    <3>2. x \in Int /\ x < c.last + SizeT
      BY <1>1 DEF Span
    <3> QED
      BY <1>1, <3>1, <3>2
  <2> QED
    BY <2>1 DEF Known
<1>6. /\ nb \in BlockType /\ VtableOK(nb) /\ Intact(m, nb)
      /\ Start(nb) = c.last /\ End(nb) = c.last + (SizeT + n)
  BY <1>1, <1>5, HeaderBlock
<1> HIDE DEF d, nb
<1> QED
  BY <1>1, <1>2, <1>3, <1>4, <1>6, VHandedStep DEF d, nb

\* What a request that does not fail asks for.
LEMMA ProductOf ==
  ASSUME NEW r \in Requests, ~Fails(r[1], r[2])
  PROVE  r[1] * r[2] \in Products
BY DEF Products

\* AllocV hands out a block of which nothing is known.
LEMMA AllocVStep ==
  ASSUME VInv, VtableClient, NEW h \in Handle, NEW r \in Requests, AllocV(h, r[1], r[2])
  PROVE  VInv' /\ StaysInside
<1> DEFINE n == r[1] * r[2]
<1>1. n \in Products /\ phase = "up"
  BY ProductOf DEF AllocV, Available
<1>2. PICK c \in HeaderAlloc(Now, n) :
        Become(c) /\ Give(h, Block("vtable", c.last + SizeT, n, MaxAlign, 0, Zero))
  BY DEF AllocV, VtableBlock
<1> HIDE DEF n
<1>3. /\ Grown(Now, c, pageSize, SizeT + n) /\ (c.last + SizeT) % MaxAlign = 0 /\ Ready(c)
      /\ Known(c.mem, c.last, SizeT, Header(n))
  BY <1>1, <1>2, VNow, HeaderAllocOK
<1>4. n \in Nat /\ SizeT + n \in Nat /\ Zero \in Cell
  BY <1>1, VtableBounds, Bounds DEF Cell
<1>5. c.last \in Nat
  BY <1>3, <1>4, GrownInMemory
<1> DEFINE nb == Block("vtable", c.last + SizeT, n, MaxAlign, 0, Zero)
<1>6. /\ nb \in BlockType /\ VtableOK(nb) /\ Intact(c.mem, nb)
      /\ Start(nb) = c.last /\ End(nb) = c.last + (SizeT + n)
  BY <1>1, <1>3, <1>4, <1>5, HeaderBlock
<1> HIDE DEF nb
<1> QED
  BY <1>1, <1>2, <1>3, <1>4, <1>6, VHandedStep DEF nb

\* CallocV hands out zero bytes.
LEMMA CallocVStep ==
  ASSUME VInv, VtableClient, NEW h \in Handle, NEW r \in Requests, CallocV(h, r[1], r[2])
  PROVE  VInv' /\ StaysInside
<1> DEFINE n == r[1] * r[2]
<1>1. n \in Products /\ phase = "up"
  BY ProductOf DEF CallocV, Available
<1>2. PICK c \in HeaderAlloc(Now, n) :
        /\ Become(WithMem(c, Store(c.mem, c.last + SizeT, n, Zero)))
        /\ Give(h, Block("vtable", c.last + SizeT, n, MaxAlign, n, Zero))
  BY DEF CallocV, VtableBlock, WithMem
<1> HIDE DEF n
<1>3. /\ Grown(Now, c, pageSize, SizeT + n) /\ (c.last + SizeT) % MaxAlign = 0 /\ Ready(c)
      /\ Known(c.mem, c.last, SizeT, Header(n))
  BY <1>1, <1>2, VNow, HeaderAllocOK
<1>4. /\ n \in Nat /\ SizeT \in Nat /\ SizeT + n \in Nat /\ Zero \in Cell /\ n <= n
  BY <1>1, VtableBounds, Bounds DEF Cell
<1>5. /\ c \in ArenaState /\ c.last \in Nat /\ c.last + (SizeT + n) <= AddrMax + 1
      /\ \A x \in Int : c.last <= x /\ x < c.last + (SizeT + n) => x \in Addr
  BY <1>3, <1>4, GrownInMemory
<1> DEFINE raw == c.last + SizeT
           m == Store(c.mem, raw, n, Zero)
<1>6. /\ m \in [Addr -> Cell]
      /\ \A x \in Addr : m[x] = IF raw <= x /\ x < raw + n THEN Zero ELSE c.mem[x]
  <2>1. c.mem \in [Addr -> Cell] /\ raw \in Int /\ n \in Int
    BY <1>4, <1>5, StateType
  <2> QED
    BY <1>4, <2>1, StoreProperties
<1>7. Known(m, raw, n, Zero)
  <2>1. ASSUME NEW x \in Span(raw, n)
        PROVE  x \in Addr /\ raw <= x /\ x < raw + n
    BY <1>4, <1>5 DEF Span
  <2> QED
    BY <1>6, <2>1 DEF Known
<1>8. \A x \in Addr : m[x] # c.mem[x] => raw <= x /\ x < raw + n
  BY <1>6
<1>9. Become(WithMem(c, m)) /\ Give(h, Block("vtable", raw, n, MaxAlign, n, Zero))
  BY <1>2
<1> HIDE DEF m
<1> QED
  BY <1>1, <1>3, <1>4, <1>6, <1>7, <1>8, <1>9, WrittenStep

\* The header in front of a block says what size the block has.
LEMMA HeaderRead ==
  ASSUME NEW m, NEW p \in Nat, NEW size \in 0 .. SizeMax,
         \A x \in Span(p - SizeT, SizeT) : m[x] = Header(size), NEW total
  PROVE  HeaderSizes(m, p, total) = {size}
<1> DEFINE sizes == {n \in 0 .. SizeMax : \A x \in Span(p - SizeT, SizeT) : m[x] = Header(n)}
<1>1. p - SizeT \in Span(p - SizeT, SizeT)
  BY Bounds DEF Span
<1>2. \A n : Header(n) = Header(size) => n = size
  <2>1. \A n : Header(n).size = n
    BY DEF Header
  <2> QED
    BY <2>1
<1>3. sizes = {size}
  BY <1>1, <1>2
<1> HIDE DEF sizes
<1> QED
  BY <1>3 DEF HeaderSizes, sizes

\* That is how realloc finds the size of the client's block.
LEMMA SizeRead ==
  ASSUME VInv, NEW h \in Handle, block[h] # NoBlock, NEW total
  PROVE  HeaderSizes(mem, block[h].addr, total) = {block[h].size}
<1>1. \A x \in Span(block[h].addr - SizeT, SizeT) : mem[x] = Header(block[h].size)
  BY VBlock DEF Intact
<1>2. block[h].size \in 0 .. SizeMax /\ block[h].addr \in Nat
  <2>1. block[h].size \in Products /\ block[h].size \in Nat /\ block[h].addr \in Nat
    BY VBlock
  <2> QED
    BY <2>1, VtableBounds, Bounds
<1> QED
  BY <1>1, <1>2, HeaderRead

\* What grows leaves the bytes of the blocks as they are.
LEMMA KeptBytes ==
  ASSUME NEW s \in ArenaState, NEW c, NEW ps \in Nat, NEW n \in Nat, Grown(s, c, ps, n),
         NEW b \in [Handle -> BlockType], BlocksOK(s, b), NEW h \in Handle, b[h] # NoBlock
  PROVE  SameBytes(s.mem, c.mem, Start(b[h]), End(b[h]))
<1>1. Start(b[h]) \in Int /\ End(b[h]) \in Int
  BY EndsType
<1>2. Holds(s, Start(b[h]), End(b[h]))
  BY DEF BlocksOK
<1> QED
  BY <1>1, <1>2 DEF SameBytes, Grown

\* Of what is known of a block, its first bytes are known in what has grown.
LEMMA KnownOfBlock ==
  ASSUME VInv, NEW h \in Handle, block[h] # NoBlock,
         NEW c, NEW n \in Nat, Grown(Now, c, pageSize, n), NEW len \in Nat, len <= block[h].len
  PROVE  Known(c.mem, block[h].addr, len, block[h].val)
<1> DEFINE b == block[h]
<1>1. /\ b.addr \in Nat /\ b.len \in Nat /\ b.size \in Nat /\ b.len <= b.size
      /\ Start(b) \in Nat \ {0} /\ b.addr = Start(b) + SizeT /\ End(b) = b.addr + b.size
      /\ End(b) <= AddrMax + 1 /\ Intact(mem, b) /\ mem = Now.mem /\ len <= b.len
  BY VBlock, VNow
<1>2. SameBytes(Now.mem, c.mem, Start(b), End(b))
  BY VNow, KeptBytes
<1> HIDE DEF b
<1>3. ASSUME NEW x \in Span(b.addr, len)
      PROVE  x \in Addr /\ c.mem[x] = b.val
  <2>1. x \in Addr /\ Start(b) <= x /\ x < End(b) /\ x \in Span(b.addr, b.len)
    BY <1>1, Bounds DEF Span, Addr
  <2> QED
    BY <1>1, <1>2, <2>1 DEF Intact, SameBytes
<1> QED
  BY <1>3 DEF Known, b

\* A block at last that grows or shrinks in place, its header rewritten.
LEMMA ResizedInPlace ==
  ASSUME VInv, VtableClient, NEW h \in Handle, block[h] # NoBlock, NEW n \in Products,
         phase = "up", Start(block[h]) = last, Wrap(block[h].addr + n) <= sentinel,
         NEW len \in Nat, len <= n, len <= block[h].len,
         Become(Bump(Now, NextHeader(Wrap(block[h].addr + n)), last, WithHeader(mem, last, n))),
         Give(h, Block("vtable", last + SizeT, n, MaxAlign, len, block[h].val))
  PROVE  VInv' /\ StaysInside
<1> DEFINE b == block[h]
           to == NextHeader(Wrap(b.addr + n))
           m == WithHeader(mem, last, n)
           c == Bump(Now, to, last, m)
           nb == Block("vtable", last + SizeT, n, MaxAlign, len, b.val)
           d == [block EXCEPT ![h] = nb]
<1>1. /\ b.addr \in Nat /\ b.size \in Nat \ {0} /\ b.len \in Nat /\ b.len <= b.size
      /\ b.val \in Cell /\ b.addr = last + SizeT /\ last \in Nat \ {0} /\ len <= b.len
      /\ End(b) = last + (SizeT + b.size) /\ End(b) <= AddrMax + 1 /\ Intact(mem, b)
      /\ b.addr % MaxAlign = 0 /\ Holds(Now, last, End(b)) /\ Start(b) = last
  BY VBlock DEF VtableOK
<1>2. /\ Now \in ArenaState /\ Now.last = last /\ Now.sentinel = sentinel /\ Now.mem = mem
      /\ Now.current = current /\ mem \in [Addr -> Cell] /\ sentinel \in Nat
      /\ sentinel <= AddrMax + 1 /\ Now.pages # <<>> /\ Now.index < Len(Now.pages)
      /\ sentinel <= Top(Now) /\ Top(Now) \in Nat
  <2>1. /\ Now \in ArenaState /\ Now.last = last /\ Now.sentinel = sentinel /\ Now.mem = mem
        /\ Now.current = current /\ mem \in [Addr -> Cell] /\ sentinel \in Nat
    BY VNow, NowType
  <2>2. sentinel <= AddrMax + 1
    BY <2>1, VNow, CursorInMemory
  <2>3. Now.pages # <<>> /\ Now.index < Len(Now.pages) /\ sentinel <= Top(Now)
    BY <1>1, <2>1, VNow DEF CursorOK, Null
  <2> QED
    BY <2>1, <2>2, <2>3, CurrentPage
<1>3. /\ n \in Nat \ {0} /\ SizeT \in Nat \ {0} /\ AddrMax \in Nat /\ SizeMax \in Nat
      /\ MaxAlign \in Nat \ {0} /\ AddrMax + n + 2 * MaxAlign < SizeMax /\ SizeT <= MaxAlign
  BY VtableBounds, Bounds DEF VtableClient
<1> HIDE DEF b
<1>4. b.addr + n \in Nat /\ b.addr + n <= sentinel
  <2>1. b.addr + n \in Nat /\ b.addr + n <= SizeMax
    BY <1>1, <1>3
  <2> QED
    BY <2>1, NoWrap DEF b
<1>5. /\ to \in Nat /\ b.addr + n <= to /\ to <= b.addr + n + MaxAlign
      /\ (to + SizeT) % MaxAlign = 0 /\ (Exact => to = b.addr + n)
  <2>1. b.addr + n <= AddrMax + 1
    BY <1>2, <1>3, <1>4
  <2>2. Fits(n) /\ n % MaxAlign \in 1 .. MaxAlign - SizeT
    BY RoomForBlock
  <2>3. /\ to \in Nat /\ b.addr + n <= to /\ to <= b.addr + n + MaxAlign
        /\ (to + SizeT) % MaxAlign = 0
        /\ n % MaxAlign = MaxAlign - SizeT => to = b.addr + n
    BY <1>1, <2>1, <2>2, NextHeaderOK
  <2>4. Exact => n % MaxAlign = MaxAlign - SizeT
    BY DEF Exact
  <2> QED
    BY <2>3, <2>4
<1>6. /\ m \in [Addr -> Cell]
      /\ \A x \in Addr : m[x] # mem[x] => last <= x /\ x < last + SizeT
      /\ Known(m, last, SizeT, Header(n))
  <2>1. last + SizeT <= AddrMax + 1
    BY <1>1, <1>3
  <2> QED
    BY <1>1, <1>2, <1>3, <2>1, HeaderStored
<1> HIDE DEF to, m
<1>7. Known(m, last + SizeT, len, b.val)
  <2>1. ASSUME NEW x \in Span(last + SizeT, len)
        PROVE  x \in Addr /\ m[x] = b.val
    <3>1. x \in Int /\ last + SizeT <= x /\ x < b.addr + b.len
      BY <1>1, <1>3 DEF Span
    <3>2. x \in Span(b.addr, b.len) /\ x \in Addr
      BY <1>1, <1>3, <3>1 DEF Span, Addr
    <3>3. mem[x] = b.val
      BY <1>1, <3>2 DEF Intact
    <3> QED
      BY <1>1, <1>3, <1>6, <3>1, <3>2, <3>3
  <2> QED
    BY <2>1 DEF Known
<1>8. /\ nb \in BlockType /\ VtableOK(nb) /\ Intact(m, nb)
      /\ Start(nb) = last /\ End(nb) = last + (SizeT + n)
  <2>1. (last + SizeT) % MaxAlign = 0 /\ last \in Nat
    BY <1>1
  <2> HIDE DEF b
  <2> QED
    BY <1>1, <1>6, <1>7, <2>1, HeaderBlock
<1>9. Become(c) /\ Give(h, nb)
  BY DEF b, to, m
<1>10. /\ c.last = last /\ c.current = to /\ c.sentinel = sentinel /\ c.mem = m
       /\ c.pages = Now.pages /\ c.index = Now.index /\ c \in ArenaState
  BY <1>1, <1>2, <1>5, <1>6, StateType DEF Bump, ArenaState
<1> HIDE DEF nb
<1>11. End(nb) = b.addr + n /\ End(nb) <= to /\ last <= to /\ End(nb) <= Top(Now)
  <2>1. End(nb) = b.addr + n
    BY <1>1, <1>3, <1>8
  <2> QED
    BY SMTT(20), <1>1, <1>2, <1>3, <1>4, <1>5, <2>1
<1>12. Layout(c, pageSize, d)
  <2>1. /\ Start(block[h]) = Now.last /\ Start(nb) = Now.last /\ Now.last <= to
        /\ Now.last # Null
    BY <1>1, <1>2, <1>8, <1>11 DEF b, Null
  <2>2. Layout(Bump(Now, to, Now.last, m), pageSize, [block EXCEPT ![h] = nb])
    BY <1>5, <1>6, <1>8, <1>11, <2>1, VNow, VSolid, GrownInPlace
  <2> QED
    BY <1>2, <2>2
<1> HIDE DEF c
<1>13. AllIntact(m, d)
  <2>1. ASSUME NEW g \in Handle, g # h, block[g] # NoBlock
        PROVE  Intact(m, block[g])
    <3>1. End(block[g]) <= last \/ End(b) <= Start(block[g])
      BY <1>1, <2>1, VNow DEF BlocksOK, b
    <3>2. Start(block[g]) \in Int /\ End(block[g]) \in Int /\ block[g].len <= block[g].size
      BY <2>1, VBlock
    <3>3. SameBytes(mem, m, Start(block[g]), End(block[g]))
      <4>1. ASSUME NEW x \in Addr, Start(block[g]) <= x, x < End(block[g])
            PROVE  m[x] = mem[x]
        <5>1. x \in Int
          BY <1>3 DEF Addr
        <5> QED
          BY <1>1, <1>3, <1>6, <3>1, <3>2, <4>1, <5>1
      <4> QED
        BY <4>1 DEF SameBytes
    <3>4. SameBytes(Now.mem, m, Start(block[g]), End(block[g]))
      BY <1>2, <3>3
    <3> QED
      BY <2>1, <3>2, <3>4, VNow, OthersIntact
  <2> QED
    BY <1>8, <2>1, VNow DEF AllIntact
<1>14. ASSUME NEW x \in Addr, m[x] # mem[x]
       PROVE  Paged(Now, x)
  <2>1. x \in Int /\ last <= x /\ x < End(b)
    BY <1>1, <1>3, <1>6, <1>14 DEF Addr
  <2>2. PICK i \in 1 .. Len(Now.pages) :
          Now.pages[i].base <= last /\ End(b) <= Now.pages[i].base + Now.pages[i].size
    BY <1>1 DEF Holds
  <2>3. Now.pages[i].base \in Nat /\ Now.pages[i].size \in Nat
    BY <1>2, StateType
  <2>4. End(b) \in Int /\ last \in Int
    BY <1>1, <1>3
  <2>5. Now.pages[i].base <= x /\ x < Now.pages[i].base + Now.pages[i].size
    BY <2>1, <2>2, <2>3, <2>4
  <2> QED
    BY <2>5 DEF Paged
<1>15. Clean(c)
  <2>1. ASSUME NEW x \in Addr, m[x] # Junk
        PROVE  Paged(Now, x)
    BY <1>2, <1>14, <2>1, VNow DEF Clean
  <2>2. \A x : Paged(Now, x) => Paged(c, x)
    BY <1>10 DEF Paged
  <2> QED
    BY <1>10, <2>1, <2>2 DEF Clean
<1>16. Ready(c)
  <2>1. to <= sentinel + MaxAlign /\ (Exact => to <= sentinel)
    BY SMTT(30), <1>1, <1>2, <1>3, <1>4, <1>5
  <2> QED
    BY <1>5, <1>10, <2>1 DEF HeadReady, Ready
<1>17. /\ d \in [Handle -> BlockType]
       /\ \A g \in Handle : d[g] # NoBlock => VtableOK(d[g])
  BY <1>8, VNow DEF VFine
<1> HIDE DEF d
<1>18. VFine(c, pageSize, d)
  BY <1>10, <1>12, <1>13, <1>15, <1>16, <1>17 DEF VFine
<1>19. \A x \in Addr : c.mem[x] # mem[x] => Paged(Now, x) \/ Paged(c, x)
  BY <1>10, <1>14
<1>20. block' = d /\ UNCHANGED <<phase, pageSize>>
  BY <1>9 DEF Give, d
<1> QED
  BY <1>9, <1>18, <1>19, <1>20, VtableStep

\* A block that moves takes along what both sizes have room for.
LEMMA ResizedByCopy ==
  ASSUME VInv, VtableClient, NEW h \in Handle, block[h] # NoBlock, NEW n \in Products,
         phase = "up", NEW len \in Nat, len <= n, len <= block[h].len,
         NEW c \in HeaderAlloc(Now, n), NEW k \in Nat, k <= n, len <= k,
         Become(WithMem(c, CopyBytes(c.mem, c.last + SizeT, block[h].addr, k))),
         Give(h, Block("vtable", c.last + SizeT, n, MaxAlign, len, block[h].val))
  PROVE  VInv' /\ StaysInside
<1> DEFINE b == block[h]
           raw == c.last + SizeT
           m == CopyBytes(c.mem, raw, b.addr, k)
<1>1. /\ Grown(Now, c, pageSize, SizeT + n) /\ (c.last + SizeT) % MaxAlign = 0 /\ Ready(c)
      /\ Known(c.mem, c.last, SizeT, Header(n))
  BY VNow, HeaderAllocOK
<1>2. n \in Nat /\ SizeT \in Nat /\ SizeT + n \in Nat
  BY VtableBounds, Bounds
<1>3. /\ c \in ArenaState /\ c.last \in Nat
      /\ \A x \in Int : c.last <= x /\ x < c.last + (SizeT + n) => x \in Addr
  BY <1>1, <1>2, GrownInMemory
<1>4. /\ b.addr \in Int /\ b.val \in Cell /\ raw \in Int /\ c.mem \in [Addr -> Cell] /\ k \in Int
      /\ len \in Int
  <2>1. c.mem \in [Addr -> Cell]
    BY <1>3, StateType
  <2>2. b.addr \in Int /\ b.val \in Cell
    BY VBlock
  <2> QED
    BY <1>2, <1>3, <2>1, <2>2
<1>5. Known(c.mem, b.addr, len, b.val)
  BY <1>1, <1>2, KnownOfBlock
<1>6. m \in [Addr -> Cell] /\ \A x \in Addr : m[x] # c.mem[x] => raw <= x /\ x < raw + k
  BY <1>4, CopyBytesProperties
<1>7. Known(m, raw, len, b.val)
  <2>1. Span(raw, len) \subseteq Addr
    BY <1>2, <1>3 DEF Span
  <2> HIDE DEF raw, b
  <2> QED
    BY <1>4, <1>5, <2>1, CopyOfBytes
<1>8. \A x \in Addr : m[x] # c.mem[x] => raw <= x /\ x < raw + n
  <2>1. Addr \subseteq Int
    BY Bounds DEF Addr
  <2> HIDE DEF m, raw
  <2> QED
    BY <1>2, <1>4, <1>6, <2>1
<1>9. Become(WithMem(c, m)) /\ Give(h, Block("vtable", raw, n, MaxAlign, len, b.val))
  OBVIOUS
<1> HIDE DEF m, b
<1> QED
  BY <1>1, <1>4, <1>6, <1>7, <1>8, <1>9, WrittenStep

\* ReallocV keeps what both sizes of the block have room for.
LEMMA ReallocVStep ==
  ASSUME VInv, VtableClient, NEW h \in Handle, NEW r \in Requests, ReallocV(h, r[1], r[2])
  PROVE  VInv' /\ StaysInside
<1> DEFINE b == block[h]
           n == r[1] * r[2]
           len == Lesser(b.len, n)
<1>1. n \in Products /\ phase = "up" /\ b.kind = "vtable"
  BY ProductOf DEF ReallocV
<1>2. \E c \in Reallocarray(Now, b.addr, n) :
        Become(c) /\ Give(h, Block("vtable", c.last + SizeT, n, MaxAlign, len, b.val))
  BY DEF ReallocV, VtableBlock
<1> HIDE DEF n
<1>3. b # NoBlock
  BY <1>1 DEF NoBlock, Block
<1>4. /\ b.addr \in Nat /\ b.len \in Nat /\ b.size \in Nat /\ b.len <= b.size
      /\ Start(b) = b.addr - SizeT
  BY <1>3, VBlock
<1>5. Now.last = last /\ Now.sentinel = sentinel /\ Now.mem = mem
  BY DEF Now
<1>6. /\ n \in Nat /\ len \in Nat /\ len <= n /\ len <= b.len /\ Lesser(b.size, n) \in Nat
      /\ Lesser(b.size, n) <= n /\ len <= Lesser(b.size, n)
  BY <1>1, <1>4, VtableBounds DEF Lesser
<1>7. CASE b.addr - SizeT = last /\ Wrap(b.addr + n) <= sentinel
  <2> DEFINE c == Bump(Now, NextHeader(Wrap(b.addr + n)), last, WithHeader(mem, last, n))
  <2>1. Reallocarray(Now, b.addr, n) = {c}
    BY <1>5, <1>7 DEF Reallocarray
  <2>2. c.last = last
    BY DEF Bump
  <2>3. Become(c) /\ Give(h, Block("vtable", last + SizeT, n, MaxAlign, len, b.val))
    BY <1>2, <2>1, <2>2
  <2> HIDE DEF len
  <2> QED
    BY <1>1, <1>3, <1>4, <1>6, <1>7, <2>3, ResizedInPlace
<1>8. CASE ~(b.addr - SizeT = last /\ Wrap(b.addr + n) <= sentinel)
  <2> DEFINE Copy(c, old) == CopyBytes(c.mem, c.last + SizeT, b.addr, Lesser(old, n))
  <2>1. Reallocarray(Now, b.addr, n) =
          {WithMem(c, Copy(c, old)) : c \in HeaderAlloc(Now, n), old \in HeaderSizes(mem, b.addr, n)}
    BY <1>5, <1>8 DEF Reallocarray, WithMem
  <2>2. HeaderSizes(mem, b.addr, n) = {b.size}
    BY <1>3, SizeRead
  <2>3. PICK c \in HeaderAlloc(Now, n) :
          LET d == WithMem(c, Copy(c, b.size))
          IN  Become(d) /\ Give(h, Block("vtable", d.last + SizeT, n, MaxAlign, len, b.val))
    BY <1>2, <2>1, <2>2
  <2>4. WithMem(c, Copy(c, b.size)).last = c.last
    <3>1. Grown(Now, c, pageSize, SizeT + n)
      BY <1>1, VNow, HeaderAllocOK
    <3>2. c \in ArenaState /\ c.last \in Nat /\ SizeT \in Nat
      BY <3>1, StateType, Bounds DEF Grown
    <3>3. c.mem \in [Addr -> Cell] /\ c.last + SizeT \in Int /\ Lesser(b.size, n) \in Int
          /\ b.addr \in Int
      BY <1>4, <1>6, <3>2, StateType
    <3>4. Copy(c, b.size) \in [Addr -> Cell]
      BY <3>3, CopyBytesProperties
    <3> HIDE DEF Copy
    <3> QED
      BY <3>2, <3>4, WithMemFields
  <2>5. /\ Become(WithMem(c, Copy(c, b.size)))
        /\ Give(h, Block("vtable", c.last + SizeT, n, MaxAlign, len, b.val))
    BY <2>3, <2>4
  <2> HIDE DEF len
  <2> QED
    BY <1>1, <1>3, <1>6, <2>5, ResizedByCopy
<1> QED
  BY <1>7, <1>8

\* Free gives back the bytes from the last block's header on, or nothing.
LEMMA FreeVStep ==
  ASSUME VInv, VtableClient, NEW h \in Handle, FreeV(h)
  PROVE  VInv' /\ StaysInside
<1> DEFINE b == block[h]
           d == [block EXCEPT ![h] = NoBlock]
<1>1. phase = "up" /\ b.kind = "vtable" /\ Become(FreeBlock(Now, b.addr)) /\ Give(h, NoBlock)
  BY DEF FreeV
<1>2. b # NoBlock
  BY <1>1 DEF NoBlock, Block
<1>3. /\ b.addr \in Nat /\ Start(b) = b.addr - SizeT /\ Start(b) \in Nat \ {0}
      /\ b.addr = Start(b) + SizeT /\ b.addr % MaxAlign = 0
  BY <1>2, VBlock DEF VtableOK
<1>4. /\ Now \in ArenaState /\ Now.last = last /\ Now.mem = mem /\ Now.current = current
      /\ Now.sentinel = sentinel /\ current \in Nat /\ sentinel \in Nat /\ last \in Nat
      /\ mem \in [Addr -> Cell]
  BY VNow, NowType
<1>5. /\ d \in [Handle -> BlockType]
      /\ \A g \in Handle : d[g] # NoBlock => g # h /\ block[g] # NoBlock /\ d[g] = block[g]
      /\ \A g \in Handle : d[g] # NoBlock => VtableOK(d[g])
  <2>1. NoBlock \in BlockType
    BY NoBlocksFine DEF NoBlocks
  <2>2. /\ d \in [Handle -> BlockType]
        /\ \A g \in Handle : d[g] # NoBlock => g # h /\ block[g] # NoBlock /\ d[g] = block[g]
    BY <2>1, VNow
  <2> QED
    BY <2>2, VNow DEF VFine
<1>6. block' = d /\ UNCHANGED <<phase, pageSize>>
  BY <1>1 DEF Give
<1> HIDE DEF b
<1>7. CASE Start(b) # last
  <2>1. Become(Now)
    BY <1>1, <1>3, <1>4, <1>7 DEF FreeBlock
  <2>2. Layout(Now, pageSize, d)
    BY VNow, Dropped
  <2> HIDE DEF d
  <2>3. AllIntact(Now.mem, d)
    BY <1>5, VNow DEF AllIntact
  <2>4. VFine(Now, pageSize, d)
    BY <1>5, <2>2, <2>3, VNow DEF VFine
  <2>5. \A x \in Addr : Now.mem[x] # mem[x] => Paged(Now, x) \/ Paged(Now, x)
    BY <1>4
  <2> QED
    BY <1>1, <1>6, <2>1, <2>4, <2>5, VtableStep
<1>8. CASE Start(b) = last
  <2> DEFINE m == IF Debug THEN Store(mem, last, Wrap(current - last), Poison) ELSE mem
             c == Bump(Now, last, Null, m)
  <2>1. FreeBlock(Now, b.addr) = c
    BY <1>3, <1>4, <1>8 DEF FreeBlock
  <2>2. /\ last # Null /\ Now.index < Len(Now.pages) /\ Base(Now) <= last /\ last <= current
        /\ sentinel <= Top(Now) /\ sentinel <= AddrMax + 1 /\ Now.pages # <<>>
        /\ Base(Now) \in Nat /\ Top(Now) \in Nat
        /\ \A x \in Int : Base(Now) <= x /\ x < Top(Now) => Paged(Now, x)
    <3>1. last # Null
      BY <1>3, <1>8 DEF Null
    <3>2. Now.index < Len(Now.pages) /\ sentinel <= Top(Now) /\ Now.pages # <<>>
      BY <1>4, <3>1, VNow DEF CursorOK
    <3>3. Base(Now) <= last /\ last <= current
      BY <1>4, <3>1, VNow DEF LastOK
    <3>4. sentinel <= AddrMax + 1
      BY <1>4, VNow, CursorInMemory
    <3> QED
      BY <3>1, <3>2, <3>3, <3>4, VNow, CurrentPage
  <2>3. /\ m \in [Addr -> Cell]
        /\ \A x \in Addr : m[x] # mem[x] => last <= x /\ x < Top(Now)
    <3>1. CASE Debug
      <4>1. current <= sentinel
        BY <1>4, <3>1, VNow DEF VtableClient, Ready
      <4>2. Wrap(current - last) = current - last /\ current - last \in Nat
        <5>1. current - last \in Nat /\ current - last <= SizeMax
          BY SMTT(20), <1>3, <1>4, <1>8, <2>2, <4>1, Bounds
        <5> QED
          BY <5>1, NoWrap
      <4>3. Poison \in Cell /\ last \in Int /\ current - last \in Int
        BY <1>4, <4>2 DEF Cell
      <4>4. m = Store(mem, last, current - last, Poison)
        BY <3>1, <4>2
      <4>5. /\ m \in [Addr -> Cell]
            /\ \A x \in Addr : m[x] # mem[x] => last <= x /\ x < last + (current - last)
        BY <1>4, <4>3, <4>4, StoreProperties
      <4>6. Addr \subseteq Int
        BY Bounds DEF Addr
      <4> HIDE DEF m
      <4> QED
        BY <1>4, <2>2, <4>1, <4>5, <4>6
    <3>2. CASE ~Debug
      BY <1>4, <3>2
    <3> QED
      BY <3>1, <3>2
  <2> HIDE DEF m
  <2>4. /\ c.last = Null /\ c.current = last /\ c.sentinel = sentinel /\ c.mem = m
        /\ c.pages = Now.pages /\ c.index = Now.index /\ c \in ArenaState
    BY <1>4, <2>3, StateType DEF Bump, ArenaState, Null
  <2>5. Layout(c, pageSize, d)
    <3>1. Now.last # Null /\ Start(block[h]) = Now.last /\ block[h] # NoBlock
      BY <1>2, <1>4, <1>8, <2>2 DEF b
    <3>2. Layout(Bump(Now, Now.last, Null, m), pageSize, [block EXCEPT ![h] = NoBlock])
      BY <2>3, <3>1, VNow, VSolid, Returned
    <3> QED
      BY <1>4, <3>2
  <2> HIDE DEF c, d
  <2>6. AllIntact(m, d)
    <3>1. ASSUME NEW g \in Handle, g # h, block[g] # NoBlock
          PROVE  Intact(m, block[g])
      <4>1. End(block[g]) <= last \/ Top(Now) <= Start(block[g])
        <5>1. Now.last # Null /\ Start(block[h]) = Now.last /\ block[h] # NoBlock
          BY <1>2, <1>4, <1>8, <2>2 DEF b
        <5>2. Below(Now, Start(block[g]), End(block[g]))
          BY <3>1, <5>1, VNow, VSolid, OthersBelowLast
        <5> QED
          BY <1>4, <5>2 DEF Below
      <4>2. Start(block[g]) \in Int /\ End(block[g]) \in Int /\ block[g].len <= block[g].size
        BY <3>1, VBlock
      <4>3. ASSUME NEW x \in Addr, Start(block[g]) <= x, x < End(block[g])
            PROVE  m[x] = mem[x]
        <5>1. x \in Int
          BY Bounds DEF Addr
        <5> QED
          BY <1>4, <2>2, <2>3, <4>1, <4>2, <4>3, <5>1
      <4>4. SameBytes(Now.mem, m, Start(block[g]), End(block[g]))
        BY <1>4, <4>3 DEF SameBytes
      <4> QED
        BY <3>1, <4>2, <4>4, VNow, OthersIntact
    <3> QED
      BY <1>5, <3>1 DEF AllIntact
  <2>7. ASSUME NEW x \in Addr, m[x] # mem[x]
        PROVE  Paged(Now, x)
    <3>1. x \in Int
      BY Bounds DEF Addr
    <3> QED
      BY <1>4, <2>2, <2>3, <2>7, <3>1
  <2>8. Clean(c)
    <3>1. ASSUME NEW x \in Addr, m[x] # Junk
          PROVE  Paged(Now, x)
      BY <1>4, <2>7, <3>1, VNow DEF Clean
    <3>2. \A x : Paged(Now, x) => Paged(c, x)
      BY <2>4 DEF Paged
    <3> QED
      BY <2>4, <3>1, <3>2 DEF Clean
  <2>9. Ready(c)
    <3>1. (last + SizeT) % MaxAlign = 0
      BY <1>3, <1>8
    <3>2. last <= sentinel + MaxAlign
      <4>1. current <= sentinel + MaxAlign
        BY <1>4, VNow DEF HeadReady, Ready
      <4> QED
        BY <1>4, <2>2, <4>1, Bounds
    <3>3. Exact => last <= sentinel
      <4>1. Exact => current <= sentinel
        BY <1>4, VNow DEF HeadReady, Ready
      <4> QED
        BY <1>4, <2>2, <4>1
    <3> QED
      BY <2>4, <3>1, <3>2, <3>3 DEF HeadReady, Ready
  <2>10. VFine(c, pageSize, d)
    BY <1>5, <2>4, <2>5, <2>6, <2>8, <2>9 DEF VFine
  <2>11. \A x \in Addr : c.mem[x] # mem[x] => Paged(Now, x) \/ Paged(c, x)
    BY <2>4, <2>7
  <2> QED
    BY <1>1, <1>6, <2>1, <2>10, <2>11, VtableStep
<1> QED
  BY <1>7, <1>8

\* The client fills its block.
LEMMA VFillStep ==
  ASSUME VInv, NEW h \in Handle, Fill(h)
  PROVE  VInv' /\ StaysInside
<1> DEFINE b == block[h]
           nb == Block(b.kind, b.addr, b.size, b.align, b.size, Mark(h))
           m == Store(mem, b.addr, b.size, Mark(h))
           c == WithMem(Now, m)
           d == [block EXCEPT ![h] = nb]
<1>1. /\ phase = "up" /\ b # NoBlock /\ mem' = m /\ block' = d
      /\ UNCHANGED <<phase, pageSize, cursor>>
  BY DEF Fill, Live
<1>2. /\ b \in BlockType /\ VtableOK(b) /\ b.kind = "vtable"
      /\ b.addr \in Nat /\ b.size \in Nat \ {0} /\ b.align \in Nat /\ b.size \in Products
      /\ Mark(h) \in Cell
  BY <1>1, VBlock, MarkIsByte DEF BlockType
<1>3. /\ nb \in BlockType /\ nb.kind = b.kind /\ nb.addr = b.addr /\ nb.size = b.size
      /\ nb.len = nb.size /\ nb.val = Mark(h) /\ nb.align = b.align
  <2>1. Zero \in Cell
    BY DEF Cell
  <2> QED
    BY <1>2, <2>1 DEF Block, BlockType
<1>4. VtableOK(nb)
  BY <1>2, <1>3 DEF VtableOK
<1> HIDE DEF nb
<1>5. m = Store(Now.mem, nb.addr, nb.size, Mark(h))
  BY <1>3, VNow
<1> HIDE DEF m
<1>6. /\ c \in ArenaState /\ m \in [Addr -> Cell] /\ Layout(c, pageSize, d)
      /\ AllIntact(m, d) /\ Clean(c)
      /\ \A x \in Addr : m[x] # Now.mem[x] => Paged(c, x)
  <2>1. FilledWith(block[h], nb, Mark(h))
    BY <1>3 DEF FilledWith
  <2> HIDE DEF b
  <2>2. block[h] # NoBlock
    BY <1>1 DEF b
  <2>3. \A g \in Handle : block[g] # NoBlock => block[g].len <= block[g].size
    BY VSolid
  <2> QED
    BY <1>2, <1>3, <1>5, <2>1, <2>2, <2>3, VNow, FillKeeps
<1>7. /\ c.pages = Now.pages /\ c.index = Now.index /\ c.sentinel = Now.sentinel
      /\ c.last = Now.last /\ c.current = Now.current /\ c.mem = m
  BY <1>6, VNow, WithMemFields
<1>8. Become(c)
  BY <1>1, <1>7 DEF Become, Now, cursor
<1>9. d \in [Handle -> BlockType] /\ \A g \in Handle : d[g] # NoBlock => VtableOK(d[g])
  BY <1>3, <1>4, VNow DEF VFine
<1> HIDE DEF c, d
<1>10. Ready(c)
  BY <1>7, VNow DEF HeadReady, Ready
<1>11. VFine(c, pageSize, d)
  BY <1>6, <1>7, <1>9, <1>10 DEF VFine
<1>12. \A x \in Addr : c.mem[x] # mem[x] => Paged(Now, x) \/ Paged(c, x)
  BY <1>6, <1>7, VNow
<1> QED
  BY <1>1, <1>8, <1>11, <1>12, VtableStep

\* A reset that keeps no page ends all blocks.
LEMMA VResetStep ==
  ASSUME VInv, Reset(0)
  PROVE  VInv' /\ StaysInside
<1>1. /\ (Now \in ArenaState)' /\ Layout(Now, pageSize, block)' /\ (current <= sentinel)'
      /\ Clean(Now)' /\ block' = NoBlocks /\ phase = "up" /\ UNCHANGED <<phase, pageSize>>
      /\ pages' = <<>> /\ StaysInside
  BY VNow, ResetRewinds, ResetKeeps
<1>2. Ready(Now)'
  <2>1. /\ Now'.pages = <<>> /\ Now'.current = current' /\ Now'.sentinel = sentinel'
        /\ Now' \in ArenaState
    BY <1>1 DEF Now
  <2>2. current' \in Nat /\ sentinel' \in Nat
    BY <2>1, StateType
  <2>3. current' <= sentinel' /\ MaxAlign \in Nat
    BY <1>1, Bounds
  <2>4. current' <= sentinel' + MaxAlign
    <3>1. \A x, y, z \in Nat : x <= y => x <= y + z
      OBVIOUS
    <3> QED
      BY <2>2, <2>3, <3>1
  <2>5. Now'.current <= Now'.sentinel + MaxAlign /\ Now'.current <= Now'.sentinel
    BY <2>1, <2>3, <2>4
  <2> QED
    BY <2>1, <2>5 DEF HeadReady, Ready
<1>3. VFine(Now, pageSize, block)'
  BY <1>1, <1>2, NoBlocksFine DEF VFine, AllIntact
<1> QED
  BY <1>1, <1>3, VNow DEF VInv

\* An arena without pages is in order.
LEMMA VEmpty ==
  ASSUME NEW s \in ArenaState, s.pages = <<>>, NEW ps \in Nat,
         s.current = Null, s.sentinel = Null, s.last = Null, s.mem = [x \in Addr |-> Junk]
  PROVE  VFine(s, ps, NoBlocks)
<1>1. PagesOK(s, ps)
  <2>1. Len(s.pages) = 0
    BY EmptySeq
  <2> QED
    BY <2>1 DEF PagesOK
<1>2. Layout(s, ps, NoBlocks)
  BY <1>1, NoBlocksFine DEF Layout, CursorOK, BlocksOK, LastOK
<1>3. Clean(s)
  BY DEF Clean
<1>4. Ready(s)
  BY Bounds DEF HeadReady, Ready, Null
<1> QED
  BY <1>2, <1>3, <1>4, NoBlocksFine DEF VFine, AllIntact

\* An arena that is done is as it was before.
LEMMA VDoneStep ==
  ASSUME VInv, Done
  PROVE  VInv' /\ StaysInside
<1> DEFINE c == [pages |-> <<>>, index |-> 0, current |-> Null, sentinel |-> Null, last |-> Null,
                 mem |-> [x \in Addr |-> Junk]]
<1>1. c \in ArenaState
  <2>1. Junk \in Cell /\ <<>> \in Seq(Page)
    BY EmptySeq DEF Cell
  <2> QED
    BY <2>1 DEF ArenaState, Null
<1>2. Now' = c
  BY DEF Done, Now
<1>3. VFine(c, 0, NoBlocks)
  BY <1>1, VEmpty
<1> HIDE DEF c
<1>4. VFine(Now, pageSize, block)'
  BY <1>2, <1>3 DEF Done
<1>5. VInv'
  BY <1>4 DEF VInv, Done
<1>6. StaysInside
  BY VNow DEF Done, StaysInside, Clean
<1> QED
  BY <1>5, <1>6

\* Init sets the page size and nothing else.
LEMMA VInitArenaStep ==
  ASSUME VInv, NEW size \in PageSizes, InitArena(size)
  PROVE  VInv' /\ StaysInside
<1>1. /\ phase = "raw" /\ pages = <<>> /\ block = NoBlocks /\ phase' = "up"
      /\ pageSize' \in Nat \ {0} /\ Now' = Now /\ block' = block /\ mem' = mem
  <2>1. pageSize' \in Nat \ {0}
    BY VtableBounds DEF InitArena
  <2> QED
    BY <2>1 DEF VInv, InitArena, Now, cursor
<1>2. VFine(Now, pageSize', NoBlocks)
  <2>1. VFine(Now, pageSize, NoBlocks) /\ Now.pages = <<>>
    BY <1>1, VNow DEF Now
  <2>2. PagesOK(Now, pageSize')
    <3>1. Len(Now.pages) = 0
      BY <2>1, EmptySeq
    <3> QED
      BY <3>1 DEF PagesOK
  <2> QED
    BY <2>1, <2>2 DEF VFine, Layout
<1>3. VFine(Now, pageSize, block)'
  BY <1>1, <1>2
<1> QED
  BY <1>1, <1>3 DEF VInv, StaysInside

\* A request that fails leaves the arena as it is, for good.
LEMMA AbortStep ==
  ASSUME VInv, NEW n, NEW size, Abort(n, size)
  PROVE  VInv' /\ StaysInside
<1>1. /\ phase' = "aborted" /\ pageSize' = pageSize /\ Now' = Now /\ block' = block /\ mem' = mem
  BY DEF Abort, Now, cursor
<1> QED
  BY <1>1 DEF VInv, StaysInside

\* The arena before its init.
LEMMA VInitially == Init => VInv
<1> SUFFICES ASSUME Init PROVE VInv
  OBVIOUS
<1>1. Now \in ArenaState
  <2>1. Junk \in Cell /\ <<>> \in Seq(Page)
    BY EmptySeq DEF Cell
  <2> QED
    BY <2>1 DEF Init, Now, ArenaState, Null
<1>2. /\ Now.pages = <<>> /\ Now.current = Null /\ Now.sentinel = Null /\ Now.last = Null
      /\ Now.mem = [x \in Addr |-> Junk]
  BY DEF Init, Now
<1>3. VFine(Now, 0, NoBlocks)
  BY <1>1, <1>2, VEmpty
<1> QED
  BY <1>3 DEF Init, VInv

-----------------------------------------------------------------------------
(***************************************************************************)
(* The theorems.                                                           *)
(***************************************************************************)

\* Every step keeps the invariant, and writes to the arena's pages only.
LEMMA VStepwise ==
  ASSUME VInv, VtableClient, Life \/ Vtable \/ Free
  PROVE  VInv' /\ StaysInside
<1>1. CASE Life
  <2>1. ASSUME NEW size \in PageSizes, InitArena(size) PROVE VInv' /\ StaysInside
    BY <2>1, VInitArenaStep
  <2>2. CASE Done
    BY <2>2, VDoneStep
  <2>3. ASSUME NEW k \in KeepCounts, Reset(k) PROVE VInv' /\ StaysInside
    <3>1. k = 0
      BY DEF VtableClient
    <3> QED
      BY <2>3, <3>1, VResetStep
  <2>4. ASSUME NEW percent \in Percents, ResetKeepPercentage(percent)
        PROVE  VInv' /\ StaysInside
    <3>1. percent = 0 /\ Len(pages) \in Nat
      BY VNow, NowType DEF VtableClient
    <3>2. (Len(pages) * Lesser(percent, 100) + 99) \div 100 = 0
      <4>1. Lesser(percent, 100) = 0 /\ Len(pages) * 0 = 0
        BY <3>1 DEF Lesser
      <4> QED
        BY <4>1
    <3> QED
      BY <2>4, <3>2, VResetStep DEF ResetKeepPercentage
  <2>5. ASSUME NEW h \in Handle, Fill(h) PROVE VInv' /\ StaysInside
    BY <2>5, VFillStep
  <2> QED
    BY <1>1, <2>1, <2>2, <2>3, <2>4, <2>5 DEF Life
<1>2. CASE Vtable
  <2>1. PICK r \in Requests :
          \/ Abort(r[1], r[2])
          \/ \E h \in Handle :
               CallocV(h, r[1], r[2]) \/ AllocV(h, r[1], r[2]) \/ ReallocV(h, r[1], r[2])
    BY <1>2 DEF Vtable
  <2>2. ASSUME Abort(r[1], r[2]) PROVE VInv' /\ StaysInside
    BY <2>2, AbortStep
  <2>3. ASSUME NEW h \in Handle,
               CallocV(h, r[1], r[2]) \/ AllocV(h, r[1], r[2]) \/ ReallocV(h, r[1], r[2])
        PROVE  VInv' /\ StaysInside
    BY <2>3, CallocVStep, AllocVStep, ReallocVStep
  <2> QED
    BY <2>1, <2>2, <2>3
<1>3. CASE Free
  BY <1>3, FreeVStep DEF Free
<1> QED
  BY <1>1, <1>2, <1>3

\* A step that changes nothing keeps the invariant.
LEMMA VStuttering ==
  ASSUME VInv, UNCHANGED vars
  PROVE  VInv' /\ StaysInside
<1>1. /\ Now' = Now /\ phase' = phase /\ pageSize' = pageSize /\ block' = block
      /\ pages' = pages /\ mem' = mem
  BY DEF vars, cursor, Now
<1> QED
  BY <1>1 DEF VInv, StaysInside

\* The invariant holds in all runs of a client of the vtable.
THEOREM VtableInvariant ==
  ASSUME VtableClient
  PROVE  VtableSpec => []VInv
<1>1. Init => VInv
  BY VInitially
<1>2. VInv /\ [Life \/ Vtable \/ Free]_vars => VInv'
  BY VStepwise, VStuttering
<1> QED
  BY <1>1, <1>2, PTL DEF VtableSpec

\* The variables have their types.
THEOREM VtableTypeOK ==
  ASSUME VtableClient
  PROVE  VtableSpec => []TypeOK
<1>1. VInv => TypeOK
  BY TypesShown DEF VInv, VFine
<1> QED
  BY <1>1, VtableInvariant, PTL

\* Bump pointer and sentinel stay in the current page for a client whose
\* blocks end where the next header begins.  For other clients the bump
\* pointer runs past the sentinel, by less than an alignment (Ready).
THEOREM VtableCursorInPage ==
  ASSUME VtableClient, Exact
  PROVE  VtableSpec => []CursorInPage
<1>1. VInv => CursorInPage
  BY VNow, CursorShown DEF Ready, Now
<1> QED
  BY <1>1, VtableInvariant, PTL

\* The next header and the next block are no byte of a block, nor is anything
\* that free gave back.
THEOREM VtableBlocksBehindCursor ==
  ASSUME VtableClient
  PROVE  VtableSpec => []BlocksBehindCursor
<1>1. VInv => BlocksBehindCursor
  BY VNow, BehindShown
<1> QED
  BY <1>1, VtableInvariant, PTL

\* No two vtable blocks share a byte, nor a block and a header, whatever was
\* freed, reallocated in place or moved in between.
THEOREM VtableBlocksApart ==
  ASSUME VtableClient
  PROVE  VtableSpec => []BlocksApart
<1>1. VInv => BlocksApart
  BY VNow, ApartShown
<1> QED
  BY <1>1, VtableInvariant, PTL

\* The block that realloc extends in place and free takes back is on top.
THEOREM VtableLastIsOnTop ==
  ASSUME VtableClient
  PROVE  VtableSpec => []LastIsOnTop
<1>1. VInv => LastIsOnTop
  BY VNow, LastShown
<1> QED
  BY <1>1, VtableInvariant, PTL

\* Every block has the default alignment, behind a header of another size.
THEOREM VtableAligned ==
  ASSUME VtableClient
  PROVE  VtableSpec => []Aligned
<1>1. VInv => Aligned
  BY VBlock DEF VtableOK, Aligned, Live
<1> QED
  BY <1>1, VtableInvariant, PTL

\* A block holds what was last put into it until it is freed.
THEOREM VtableContentsKept ==
  ASSUME VtableClient
  PROVE  VtableSpec => []ContentsKept
<1>1. VInv => ContentsKept
  BY VNow, IntactShown
<1> QED
  BY <1>1, VtableInvariant, PTL

\* The header in front of a block says what size the block has, which is what
\* realloc copies by.
THEOREM VtableHeadersKept ==
  ASSUME VtableClient
  PROVE  VtableSpec => []HeadersKept
<1>1. VInv => HeadersKept
  BY VNow, IntactShown
<1> QED
  BY <1>1, VtableInvariant, PTL

\* The arena writes into its own pages and nowhere else, what free poisons
\* included.
THEOREM VtableWritesInsidePages ==
  ASSUME VtableClient
  PROVE  VtableSpec => WritesInsidePages
<1>1. VInv /\ VInv' /\ [Life \/ Vtable \/ Free]_vars =>
        [\A x \in Addr : mem'[x] # mem[x] =>
           \E p \in {pages[i] : i \in DOMAIN pages} \cup {pages'[i] : i \in DOMAIN pages'} :
             x \in Span(p.base, p.size)]_vars
  <2>1. VInv => Now \in ArenaState
    BY VNow
  <2>2. VInv' => (Now \in ArenaState)'
    BY DEF VInv, VFine
  <2>3. VInv /\ (Life \/ Vtable \/ Free) => StaysInside
    BY VStepwise
  <2> QED
    BY <2>1, <2>2, <2>3, InsideShown
<1> QED
  BY <1>1, VtableInvariant, PTL DEF VtableSpec, WritesInsidePages

-----------------------------------------------------------------------------
(***************************************************************************)
(* The abstract region.                                                    *)
(***************************************************************************)

\* What the invariant says before and after a step that gives h the block b.
LEMMA VTurnsWhenGiven ==
  ASSUME VInv, VInv', NEW h \in Handle, NEW b, Give(h, b)
  PROVE  Turns(h, b)
BY DEF VInv, VFine, Now, Give, Turns

\* The sizes of vtable blocks are sizes of the region.
LEMMA ProductsOfRegion == Products \subseteq BlockSizes
BY VtableBounds DEF BlockSizes, Products

\* A vtable function hands out, resizes or takes back a block of the region.
LEMMA VtableRefines ==
  ASSUME VInv, VInv', Vtable \/ Free
  PROVE  Blocks!RegionNext \/ UNCHANGED ClientView
<1>1. ASSUME NEW n \in Products, NEW h \in Handle, NEW b, Give(h, b), h \notin Live, b.size = n,
             b.len = 0 \/ (b.len = n /\ b.val = Zero)
      PROVE  Blocks!RegionNext
  <2>1. Turns(h, b) /\ block[h] = NoBlock /\ b.size \in BlockSizes
    BY <1>1, VTurnsWhenGiven, ProductsOfRegion DEF Live
  <2> QED
    BY <1>1, <2>1, AsObtain
<1>2. ASSUME NEW r \in Requests, NEW h \in Handle, CallocV(h, r[1], r[2])
      PROVE  Blocks!RegionNext
  <2> DEFINE n == r[1] * r[2]
             b(addr) == Block("vtable", addr, n, MaxAlign, n, Zero)
  <2>1. PICK c : Give(h, b(c.last + SizeT)) /\ h \notin Live
    BY <1>2 DEF CallocV, Available, VtableBlock
  <2>2. n \in Products
    BY <1>2, ProductOf DEF CallocV
  <2>3. \A addr : b(addr).size = n /\ b(addr).len = n /\ b(addr).val = Zero
    BY DEF Block
  <2> HIDE DEF n, b
  <2> QED
    BY <1>1, <2>1, <2>2, <2>3
<1>3. ASSUME NEW r \in Requests, NEW h \in Handle, AllocV(h, r[1], r[2])
      PROVE  Blocks!RegionNext
  <2> DEFINE n == r[1] * r[2]
             b(addr) == Block("vtable", addr, n, MaxAlign, 0, Zero)
  <2>1. PICK c : Give(h, b(c.last + SizeT)) /\ h \notin Live
    BY <1>3 DEF AllocV, Available, VtableBlock
  <2>2. n \in Products
    BY <1>3, ProductOf DEF AllocV
  <2>3. \A addr : b(addr).size = n /\ b(addr).len = 0
    BY DEF Block
  <2> HIDE DEF n, b
  <2> QED
    BY <1>1, <2>1, <2>2, <2>3
<1>4. ASSUME NEW r \in Requests, NEW h \in Handle, ReallocV(h, r[1], r[2])
      PROVE  Blocks!RegionNext
  <2> DEFINE n == r[1] * r[2]
             len == Lesser(block[h].len, n)
             b(addr) == Block("vtable", addr, n, MaxAlign, len, block[h].val)
  <2>1. PICK c : Give(h, b(c.last + SizeT)) /\ block[h].kind = "vtable"
    BY <1>4 DEF ReallocV, VtableBlock
  <2>2. n \in Products
    BY <1>4, ProductOf DEF ReallocV
  <2>3. \A addr : /\ b(addr).size = n /\ b(addr).len = len
                  /\ len # 0 => b(addr).val = block[h].val
    BY DEF Block
  <2>4. block[h].size # 0
    <3>1. block[h] # NoBlock
      BY <2>1 DEF NoBlock, Block
    <3> QED
      BY <3>1, VBlock
  <2> HIDE DEF n, b
  <2>5. Turns(h, b(c.last + SizeT)) /\ n \in BlockSizes
    BY <2>1, <2>2, VTurnsWhenGiven, ProductsOfRegion
  <2> QED
    BY <2>3, <2>4, <2>5, AsResize
<1>5. ASSUME NEW n, NEW size, Abort(n, size)
      PROVE  UNCHANGED ClientView
  BY <1>5 DEF Abort, ClientView
<1>6. ASSUME NEW h \in Handle, FreeV(h)
      PROVE  Blocks!RegionNext
  <2>1. Give(h, NoBlock)
    BY <1>6 DEF FreeV
  <2> QED
    BY <2>1, VTurnsWhenGiven, AsRelease
<1> QED
  BY <1>2, <1>3, <1>4, <1>5, <1>6 DEF Vtable, Free

\* Init changes nothing that the region sees; done and reset clear it, and a
\* client that fills a block overwrites it.
LEMMA VLifeRefines ==
  ASSUME VInv, VInv', Life
  PROVE  Blocks!RegionNext \/ UNCHANGED ClientView
<1>1. ASSUME NEW size \in PageSizes, InitArena(size)
      PROVE  UNCHANGED ClientView
  BY <1>1 DEF InitArena, ClientView
<1>2. CASE Done
  BY <1>2, AsClear DEF Done
<1>3. ASSUME NEW k, Reset(k)
      PROVE  Blocks!RegionNext
  BY <1>3, AsClear DEF Reset
<1>4. ASSUME NEW percent, ResetKeepPercentage(percent)
      PROVE  Blocks!RegionNext
  BY <1>3, <1>4 DEF ResetKeepPercentage
<1>5. ASSUME NEW h \in Handle, Fill(h)
      PROVE  Blocks!RegionNext
  <2> DEFINE o == block[h]
             b == Block(o.kind, o.addr, o.size, o.align, o.size, Mark(h))
  <2>1. Give(h, b) /\ block[h] # NoBlock
    BY <1>5 DEF Fill, Give, Live
  <2>2. block[h].size # 0
    BY <2>1, VBlock
  <2>3. b.size = block[h].size /\ b.len = b.size /\ b.val = Mark(h)
    BY <2>2 DEF Block
  <2> HIDE DEF b
  <2> QED
    BY <2>1, <2>2, <2>3, VTurnsWhenGiven, AsOverwrite
<1> QED
  BY <1>1, <1>2, <1>3, <1>4, <1>5 DEF Life

\* The vtable functions implement the abstract region: a block has contents of
\* its own that only its owner changes, until it is freed; a resize keeps the
\* common part.
THEOREM VtableImplementsRegion ==
  ASSUME VtableClient
  PROVE  VtableSpec => ImplementsRegion
<1>1. Init => Blocks!RegionInit
  BY AsInit DEF Init
<1>2. VInv /\ VInv' /\ [Life \/ Vtable \/ Free]_vars => [Blocks!RegionNext]_ClientView
  <2>1. UNCHANGED vars => UNCHANGED ClientView
    BY DEF vars, ClientView
  <2> QED
    BY <2>1, VtableRefines, VLifeRefines
<1> QED
  BY <1>1, <1>2, VtableInvariant, PTL DEF VtableSpec, ImplementsRegion, Blocks!RegionSpec
=============================================================================
