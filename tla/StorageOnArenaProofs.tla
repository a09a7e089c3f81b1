------------------------ MODULE StorageOnArenaProofs ------------------------
(***************************************************************************)
(* Theorems about a mulle_storage that has an arena as its allocator: its  *)
(* nodes and its freed pointers are in no other's way, although the arena  *)
(* puts the headers of other blocks into the freed array's last slot.      *)
(* What is read of it in memory is a mulle_storage as in module Storage.   *)
(***************************************************************************)
EXTENDS StorageOnArena, VtableArenaProofs, SequenceEnds, FiniteSetTheorems

\* The storages that the theorems are about: the next header has room between
\* two buckets, no page is kept, and the sums made of sizes do not wrap.
StorageFits ==
  /\ KeepCounts \subseteq {0}
  /\ BucketSize % MaxAlign \in 1 .. MaxAlign - SizeT
  /\ \A n \in {BucketSize, FirstSlots * SizeT, 2 * AddrMax}
            \cup {(Capacity \div share) * SizeT : share \in FreedShares} :
       AddrMax + n + 2 * MaxAlign < SizeMax

\* The blocks of the storage: an array of slots, and buckets.
StorageBlock(h, x) ==
  /\ x = Block("vtable", x.addr, x.size, MaxAlign, 0, Zero)
  /\ x.addr % MaxAlign = 0
  /\ IF h = FreedArray THEN x.size # 0 /\ x.size % SizeT = 0 ELSE x.size = BucketSize

Mine(b) ==
  /\ b \in [Handle -> BlockType]
  /\ \A h \in Handle : b[h] # NoBlock => StorageBlock(h, b[h])

\* What is a block's own, and nobody else's: of the freed array, all but its
\* last slot, where the next header may be.
Trim(x) == IF x = NoBlock THEN x ELSE Block("vtable", x.addr, x.size - SizeT, MaxAlign, 0, Zero)
Own(b) == [b EXCEPT ![FreedArray] = Trim(b[FreedArray])]

\* The arena and its blocks: the last slot of the array is in the array's page,
\* and if there is a block there is one at last.
Shape(s, ps, b) ==
  /\ s \in ArenaState
  /\ Mine(b)
  /\ Layout(s, ps, Own(b))
  /\ HeadReady(s)
  /\ b[FreedArray] # NoBlock => Reached(s, Start(b[FreedArray]), End(b[FreedArray]))
  /\ (\E h \in Handle : b[h] # NoBlock) => \E h \in Handle : b[h] # NoBlock /\ Start(b[h]) = s.last

\* Every reserved node is in a bucket, every freed one has a slot.
Counts(o) ==
  /\ o.structs \in 0 .. MaxBuckets * Capacity
  /\ o.freed \in Nat /\ o.freed * SizeT <= o.block[FreedArray].size
  /\ \A n \in 0 .. o.structs - 1 : o.block[BucketOf(n)] # NoBlock

\* The freed array's header says its size, its slots point to reserved nodes.
ArrayReads(o) ==
  LET array == o.block[FreedArray]
  IN  array # NoBlock =>
        /\ Known(o.arena.mem, array.addr - SizeT, SizeT, Header(array.size))
        /\ \A i \in 0 .. o.freed - 1 : \E n \in 0 .. o.structs - 1 :
             Known(o.arena.mem, array.addr + i * SizeT, SizeT, Pointer(n))

Sound(o, ps) == Shape(o.arena, ps, o.block) /\ Counts(o) /\ ArrayReads(o)

\* The inductive invariant.
SInv ==
  /\ phase \in {"raw", "up"}
  /\ pageSize \in Nat
  /\ phase = "up" => pageSize # 0
  /\ phase = "raw" => pages = <<>> /\ ~up
  /\ up \in BOOLEAN
  /\ ~up => block = NoBlocks /\ structs = 0 /\ freedCount = 0
  /\ held \in [Node -> Value \cup {Zero, Unset, NotHeld}]
  /\ \A n \in Node : held[n] # NotHeld => n < structs
  /\ Sound(System, pageSize)

-----------------------------------------------------------------------------
(***************************************************************************)
(* Numbers.                                                                *)
(***************************************************************************)

\* The constants of the storage.
LEMMA StorageBounds ==
  /\ MaxBuckets \in Nat /\ Capacity \in Nat \ {0} /\ HeadSize \in Nat /\ NodeSize \in Nat \ {0}
  /\ FirstSlots \in Nat \ {0}
  /\ BucketSize \in Nat \ {0} /\ BucketSize = HeadSize + Capacity * NodeSize
  /\ Handle = 0 .. MaxBuckets /\ FreedArray \in Handle
  /\ MaxBuckets * Capacity \in Nat
<1> DEFINE nodes == Capacity * NodeSize
           count == MaxBuckets * Capacity
<1>1. /\ MaxBuckets \in Nat /\ Capacity \in Nat \ {0} /\ HeadSize \in Nat /\ NodeSize \in Nat \ {0}
      /\ FirstSlots \in Nat \ {0} /\ Handle = 0 .. MaxBuckets
  BY StorageOnArenaAssumption DEF StorageOnArenaAssumption
<1>2. nodes \in Nat \ {0} /\ count \in Nat
  BY <1>1
<1> HIDE DEF nodes, count
<1>3. HeadSize + nodes \in Nat \ {0}
  BY <1>1, <1>2
<1> QED
  BY <1>1, <1>2, <1>3 DEF BucketSize, FreedArray, nodes, count

\* Nodes are numbers, below the number of those that are reserved or not.
LEMMA NodeNumbers ==
  /\ \A n \in Node : n \in Nat
  /\ \A k \in 0 .. MaxBuckets * Capacity : k \in Nat /\ \A n \in 0 .. k - 1 : n \in Node
<1> DEFINE all == MaxBuckets * Capacity
<1>1. all \in Nat /\ Node = 0 .. all - 1
  BY StorageBounds DEF Node
<1> HIDE DEF all
<1>2. /\ \A n \in Node : n \in Nat
      /\ \A k \in 0 .. all : k \in Nat /\ \A n \in 0 .. k - 1 : n \in Node
  BY <1>1
<1> QED
  BY <1>2 DEF all

\* What the storage writes are bytes.
LEMMA StorageBytes ==
  /\ Value \subseteq Cell /\ Zero \in Cell /\ Poison \in Cell /\ Junk \in Cell
  /\ \A n \in Node : Pointer(n) \in Cell
<1>1. Value \cup [node : 0 .. MaxBuckets * Capacity - 1] \subseteq Data
  BY StorageOnArenaAssumption DEF StorageOnArenaAssumption
<1>2. \A n \in Node : Pointer(n) \in [node : 0 .. MaxBuckets * Capacity - 1]
  BY DEF Node, Pointer
<1> QED
  BY <1>1, <1>2 DEF Cell

\* A product grows with its factors.
LEMMA Monotone ==
  ASSUME NEW i \in Nat, NEW k \in Nat, i <= k, NEW a \in Nat
  PROVE  i * a \in Nat /\ k * a \in Nat /\ i * a <= k * a
<1> DEFINE j == k - i
<1>1. j \in Nat /\ k = i + j
  OBVIOUS
<1> HIDE DEF j
<1>2. (i + j) * a = i * a + j * a /\ i * a \in Nat /\ j * a \in Nat
  BY <1>1
<1> QED
  BY <1>1, <1>2

\* A node is in one of the buckets, within its bytes.
LEMMA NodeInBucket ==
  ASSUME NEW n \in Node
  PROVE  /\ BucketOf(n) \in Handle /\ BucketOf(n) # FreedArray
         /\ (n % Capacity) * NodeSize \in Nat
         /\ HeadSize + (n % Capacity) * NodeSize + NodeSize <= BucketSize
<1> DEFINE q == n \div Capacity
           r == n % Capacity
<1>1. /\ n \in Nat /\ n < MaxBuckets * Capacity /\ MaxBuckets \in Nat /\ Capacity \in Nat \ {0}
      /\ NodeSize \in Nat \ {0} /\ HeadSize \in Nat
  BY StorageBounds DEF Node
<1>2. q \in Nat /\ r \in 0 .. Capacity - 1 /\ n = Capacity * q + r
  BY <1>1, Remainder
<1> HIDE DEF q, r
<1>3. q < MaxBuckets
  <2>1. SUFFICES ASSUME MaxBuckets <= q PROVE FALSE
    BY <1>1, <1>2
  <2>2. MaxBuckets * Capacity <= q * Capacity /\ q * Capacity = Capacity * q
    BY <1>1, <1>2, <2>1, Monotone
  <2> QED
    BY <1>1, <1>2, <2>2
<1>4. BucketOf(n) \in 1 .. MaxBuckets
  BY <1>1, <1>2, <1>3 DEF BucketOf, q
<1>5. r * NodeSize \in Nat /\ r * NodeSize + NodeSize <= Capacity * NodeSize
  <2>1. (r + 1) * NodeSize <= Capacity * NodeSize /\ (r + 1) * NodeSize = r * NodeSize + NodeSize
    BY <1>1, <1>2, Monotone
  <2> QED
    BY <1>1, <1>2, <2>1
<1>6. HeadSize + r * NodeSize + NodeSize <= BucketSize
  <2> DEFINE x == r * NodeSize
             y == Capacity * NodeSize
  <2>1. x \in Nat /\ y \in Nat /\ x + NodeSize <= y /\ BucketSize = HeadSize + y
    BY <1>1, <1>5, StorageBounds
  <2> HIDE DEF x, y
  <2>2. HeadSize + x + NodeSize <= BucketSize
    BY <1>1, <2>1
  <2> QED
    BY <2>2 DEF x
<1> QED
  BY <1>4, <1>5, <1>6, StorageBounds DEF FreedArray, r

\* A node that is not the first of a bucket is in the bucket of the one before.
LEMMA SameBucket ==
  ASSUME NEW n \in Nat, n % Capacity # 0
  PROVE  n # 0 /\ BucketOf(n) = BucketOf(n - 1)
<1> DEFINE q == n \div Capacity
           r == n % Capacity
<1>1. Capacity \in Nat \ {0}
  BY StorageBounds
<1>2. q \in Nat /\ r \in 0 .. Capacity - 1 /\ n = Capacity * q + r /\ r # 0
  BY <1>1, Remainder
<1>3. n # 0
  BY <1>1, <1>2
<1>4. (n - 1) \div Capacity = q
  <2> DEFINE p == (n - 1) \div Capacity
             t == (n - 1) % Capacity
  <2>1. p \in Nat /\ t \in 0 .. Capacity - 1 /\ n - 1 = Capacity * p + t
    <3> DEFINE m == n - 1
    <3>1. m \in Nat
      BY <1>3
    <3> HIDE DEF m
    <3>2. m \div Capacity \in Nat /\ m % Capacity \in 0 .. Capacity - 1
          /\ m = Capacity * (m \div Capacity) + (m % Capacity)
      BY <1>1, <3>1, Remainder
    <3> QED
      BY <3>2 DEF m
  <2> HIDE DEF q, r, p, t
  <2>2. Capacity * p + t = Capacity * q + (r - 1)
    BY <1>1, <1>2, <2>1
  <2>3. ASSUME p < q PROVE FALSE
    <3>1. (p + 1) * Capacity <= q * Capacity /\ (p + 1) * Capacity = Capacity * p + Capacity
          /\ q * Capacity = Capacity * q
      BY <1>1, <1>2, <2>1, <2>3, Monotone
    <3> QED
      BY <1>1, <1>2, <2>1, <2>2, <3>1
  <2>4. ASSUME q < p PROVE FALSE
    <3>1. (q + 1) * Capacity <= p * Capacity /\ (q + 1) * Capacity = Capacity * q + Capacity
          /\ p * Capacity = Capacity * p
      BY <1>1, <1>2, <2>1, <2>4, Monotone
    <3> QED
      BY <1>1, <1>2, <2>1, <2>2, <3>1
  <2>5. p = q
    BY <1>2, <2>1, <2>3, <2>4
  <2> QED
    BY <2>5 DEF p
<1> QED
  BY <1>3, <1>4 DEF BucketOf

-----------------------------------------------------------------------------
(***************************************************************************)
(* Blocks.                                                                 *)
(***************************************************************************)

\* The next header overlaps the end of an array by no more than one slot.
LEMMA RoomForArray ==
  ASSUME NEW n, Fits(n), SizeT <= n
  PROVE  RoomFor(n, n)
<1>1. /\ n \in Nat \ {0} /\ MaxAlign \in Nat \ {0} /\ SizeT \in Nat \ {0} /\ SizeT <= MaxAlign
      /\ AddrMax \in Nat /\ SizeMax \in Nat /\ AddrMax + n + 2 * MaxAlign < SizeMax
  BY Bounds DEF Fits
<1>2. ASSUME NEW addr \in Nat, addr % MaxAlign = 0, addr + n <= AddrMax + 1
      PROVE  LET next == NextHeader(Wrap(addr + n))
             IN  /\ next \in Nat /\ addr + n <= next + SizeT /\ next <= addr + n + MaxAlign
                 /\ (next + SizeT) % MaxAlign = 0
  <2> DEFINE end == addr + n
             to == Align(end, MaxAlign)
  <2>1. end \in Nat /\ end + (MaxAlign - 1) <= SizeMax /\ end <= SizeMax /\ SizeT <= end
    BY <1>1, <1>2
  <2>2. /\ to \in Nat /\ end <= to /\ to <= end + (MaxAlign - 1) /\ to % MaxAlign = 0
    BY <1>1, <2>1, AlignUp
  <2>3. NextHeader(Wrap(end)) = Wrap(to - SizeT)
    BY <2>1, NoWrap DEF NextHeader
  <2>4. end = addr + n
    OBVIOUS
  <2> HIDE DEF to, end
  <2>5. to - SizeT \in Nat /\ to - SizeT <= SizeMax /\ (to - SizeT) + SizeT = to
        /\ to - SizeT <= end + MaxAlign
    BY <1>1, <2>1, <2>2
  <2>6. NextHeader(Wrap(end)) = to - SizeT
    BY <2>3, <2>5, NoWrap
  <2> QED
    BY <2>2, <2>4, <2>5, <2>6
<1> QED
  BY <1>1, <1>2 DEF RoomFor

\* What the blocks of the storage are, and where they begin and end.
LEMMA StorageBlockFields ==
  ASSUME NEW h \in Handle, NEW x \in BlockType, StorageBlock(h, x)
  PROVE  /\ x # NoBlock /\ x.kind = "vtable" /\ x.align = MaxAlign
         /\ x.addr \in Nat /\ x.size \in Nat \ {0}
         /\ Start(x) = x.addr - SizeT /\ End(x) = x.addr + x.size
         /\ h = FreedArray => SizeT <= x.size
<1>1. /\ x.kind = "vtable" /\ x.align = MaxAlign /\ x.addr \in Nat /\ x.size \in Nat
  <2>1. \A addr, size : /\ Block("vtable", addr, size, MaxAlign, 0, Zero).kind = "vtable"
                        /\ Block("vtable", addr, size, MaxAlign, 0, Zero).align = MaxAlign
    BY DEF Block
  <2> QED
    BY <2>1 DEF StorageBlock, BlockType
<1>2. x # NoBlock
  BY <1>1 DEF NoBlock, Block
<1>3. Start(x) = x.addr - SizeT /\ End(x) = x.addr + x.size
  BY <1>1 DEF Start, End
<1>4. x.size \in Nat \ {0}
  BY <1>1, StorageBounds DEF StorageBlock
<1>5. ASSUME h = FreedArray PROVE SizeT <= x.size
  <2> DEFINE q == x.size \div SizeT
  <2>1. SizeT \in Nat \ {0} /\ x.size % SizeT = 0
    BY <1>5, Bounds DEF StorageBlock
  <2>2. q \in Nat /\ x.size = SizeT * q + 0
    BY <1>1, <2>1, Remainder
  <2> HIDE DEF q
  <2>3. q # 0
    BY <1>4, <2>1, <2>2
  <2>4. 1 * SizeT <= q * SizeT /\ q * SizeT = SizeT * q /\ 1 * SizeT = SizeT
    BY <2>1, <2>2, <2>3, Monotone
  <2> QED
    BY <2>1, <2>2, <2>4
<1> QED
  BY <1>1, <1>2, <1>3, <1>4, <1>5

\* The trimmed array is a block that ends a slot before.
LEMMA Trimmed ==
  ASSUME NEW x \in BlockType, StorageBlock(FreedArray, x)
  PROVE  /\ Trim(x) \in BlockType /\ Trim(x) # NoBlock
         /\ Start(Trim(x)) = Start(x) /\ End(Trim(x)) = End(x) - SizeT
<1>1. /\ x # NoBlock /\ x.addr \in Nat /\ x.size \in Nat \ {0}
      /\ Start(x) = x.addr - SizeT /\ End(x) = x.addr + x.size /\ SizeT <= x.size
      /\ SizeT \in Nat \ {0} /\ MaxAlign \in Nat
  BY StorageBlockFields, StorageBounds, Bounds
<1>2. Trim(x) = Block("vtable", x.addr, x.size - SizeT, MaxAlign, 0, Zero)
  BY <1>1 DEF Trim
<1>3. x.size - SizeT \in Nat /\ 0 \in Nat /\ Zero \in Cell
  BY <1>1, StorageBytes
<1>4. /\ Trim(x) \in BlockType /\ Trim(x).kind = "vtable" /\ Trim(x).addr = x.addr
      /\ Trim(x).size = x.size - SizeT
  <2> DEFINE a == x.addr
             z == x.size - SizeT
  <2>1. a \in Nat /\ z \in Nat /\ MaxAlign \in Nat /\ 0 \in Nat /\ Zero \in Cell
        /\ Trim(x) = Block("vtable", a, z, MaxAlign, 0, Zero)
    BY <1>1, <1>2, <1>3
  <2> HIDE DEF a, z
  <2>2. Trim(x) \in BlockType /\ Trim(x).kind = "vtable" /\ Trim(x).addr = a /\ Trim(x).size = z
    BY <2>1 DEF Block, BlockType
  <2> QED
    BY <2>2 DEF a, z
<1>5. Trim(x) # NoBlock
  BY <1>4 DEF NoBlock, Block
<1>6. Start(Trim(x)) = x.addr - SizeT /\ End(Trim(x)) = x.addr + (x.size - SizeT)
  BY <1>4 DEF Start, End
<1> QED
  BY <1>1, <1>4, <1>5, <1>6

\* What a storage owns of its blocks.
LEMMA Owned ==
  ASSUME NEW b, Mine(b)
  PROVE  /\ Own(b) \in [Handle -> BlockType]
         /\ Solid(Own(b))
         /\ \A h \in Handle :
              /\ Own(b)[h] # NoBlock <=> b[h] # NoBlock
              /\ Start(Own(b)[h]) = Start(b[h])
              /\ h # FreedArray => Own(b)[h] = b[h]
              /\ h = FreedArray /\ b[h] # NoBlock => End(Own(b)[h]) = End(b[h]) - SizeT
<1>1. FreedArray \in Handle /\ b \in [Handle -> BlockType]
  BY StorageBounds DEF Mine
<1>2. /\ Own(b)[FreedArray] = Trim(b[FreedArray])
      /\ \A h \in Handle : h # FreedArray => Own(b)[h] = b[h]
  BY <1>1 DEF Own
<1>3. CASE b[FreedArray] = NoBlock
  <2>1. Own(b)[FreedArray] = b[FreedArray]
    BY <1>2, <1>3 DEF Trim
  <2>2. Own(b) \in [Handle -> BlockType]
    BY <1>1, <2>1 DEF Own
  <2>3. ASSUME NEW h \in Handle, Own(b)[h] # NoBlock PROVE Start(Own(b)[h]) < End(Own(b)[h])
    <3>1. Own(b)[h] = b[h] /\ b[h] \in BlockType /\ StorageBlock(h, b[h])
      BY <1>1, <1>2, <1>3, <2>1, <2>3 DEF Mine
    <3>2. /\ Start(b[h]) = b[h].addr - SizeT /\ End(b[h]) = b[h].addr + b[h].size
          /\ b[h].addr \in Nat /\ b[h].size \in Nat \ {0} /\ SizeT \in Nat \ {0}
      BY <3>1, StorageBlockFields, Bounds
    <3> QED
      BY <3>1, <3>2
  <2> QED
    BY <1>2, <1>3, <2>1, <2>2, <2>3 DEF Solid
<1>4. CASE b[FreedArray] # NoBlock
  <2>1. b[FreedArray] \in BlockType /\ StorageBlock(FreedArray, b[FreedArray])
    BY <1>1, <1>4 DEF Mine
  <2>2. /\ Own(b)[FreedArray] \in BlockType /\ Own(b)[FreedArray] # NoBlock
        /\ Start(Own(b)[FreedArray]) = Start(b[FreedArray])
        /\ End(Own(b)[FreedArray]) = End(b[FreedArray]) - SizeT
    BY <1>2, <2>1, Trimmed
  <2>3. Own(b) \in [Handle -> BlockType]
    BY <1>1, <1>2, <2>2 DEF Own
  <2>4. ASSUME NEW h \in Handle, Own(b)[h] # NoBlock PROVE Start(Own(b)[h]) < End(Own(b)[h])
    <3>1. b[h] \in BlockType /\ StorageBlock(h, b[h])
      BY <1>1, <1>2, <1>4, <2>1, <2>4 DEF Mine
    <3>2. /\ Start(b[h]) = b[h].addr - SizeT /\ End(b[h]) = b[h].addr + b[h].size
          /\ b[h].addr \in Nat /\ b[h].size \in Nat \ {0} /\ SizeT \in Nat \ {0}
          /\ h = FreedArray => SizeT <= b[h].size
      BY <3>1, StorageBlockFields, Bounds
    <3> QED
      BY <1>2, <2>2, <3>2
  <2> QED
    BY <1>2, <1>4, <2>2, <2>3, <2>4 DEF Solid
<1> QED
  BY <1>3, <1>4

\* A storage without blocks owns none.
LEMMA NoBlocksMine == Mine(NoBlocks) /\ Own(NoBlocks) = NoBlocks
BY NoBlocksFine, StorageBounds DEF Mine, Own, Trim, NoBlocks

-----------------------------------------------------------------------------
(***************************************************************************)
(* Allocation.                                                             *)
(***************************************************************************)

\* What the shape of the arena and its blocks says.
LEMMA ShapeFacts ==
  ASSUME NEW s, NEW ps \in Nat, NEW b, Shape(s, ps, b)
  PROVE  /\ s \in ArenaState /\ Mine(b) /\ b \in [Handle -> BlockType]
         /\ Layout(s, ps, Own(b)) /\ HeadReady(s)
         /\ PagesOK(s, ps) /\ CursorOK(s) /\ BlocksOK(s, Own(b)) /\ LastOK(s, Own(b))
BY DEF Shape, Layout, Mine

\* A block that the storage asks for: n bytes for h.
Asked(h, n) ==
  /\ Fits(n)
  /\ IF h = FreedArray THEN n % SizeT = 0 /\ SizeT <= n ELSE n = BucketSize

\* It is handed out behind a header.
LEMMA AskedBlock ==
  ASSUME NEW c \in ArenaState, (c.last + SizeT) % MaxAlign = 0,
         NEW h \in Handle, NEW n, Asked(h, n)
  PROVE  LET nb == VtableBlock(c, n, 0, Zero)
         IN  /\ nb \in BlockType /\ StorageBlock(h, nb)
             /\ nb.addr = c.last + SizeT /\ nb.size = n
<1> DEFINE a == c.last + SizeT
           nb == VtableBlock(c, n, 0, Zero)
<1>1. /\ c.last \in Nat /\ SizeT \in Nat \ {0} /\ MaxAlign \in Nat /\ n \in Nat \ {0}
      /\ a \in Nat /\ a % MaxAlign = 0 /\ Zero \in Cell
  <2>1. c.last \in Nat /\ Zero \in Cell
    BY StateType, StorageBytes
  <2>2. SizeT \in Nat \ {0} /\ MaxAlign \in Nat
    BY Bounds
  <2>3. n \in Nat \ {0}
    BY DEF Asked, Fits
  <2>4. a \in Nat
    BY <2>1, <2>2
  <2> QED
    BY <2>1, <2>2, <2>3, <2>4
<1>2. nb = Block("vtable", a, n, MaxAlign, 0, Zero)
  BY DEF VtableBlock
<1> HIDE DEF a, nb
<1>3. nb \in BlockType /\ nb.addr = a /\ nb.size = n
  BY <1>1, <1>2 DEF Block, BlockType
<1>4. StorageBlock(h, nb)
  BY <1>1, <1>2, <1>3 DEF StorageBlock, Asked
<1> QED
  BY <1>3, <1>4 DEF a, nb

\* The last block of the storage is at last.
LEMMA LastIsMine ==
  ASSUME NEW s, NEW b \in [Handle -> BlockType], NEW h \in Handle, NEW nb,
         nb # NoBlock, Start(nb) = s.last
  PROVE  \E g \in Handle : [b EXCEPT ![h] = nb][g] # NoBlock
                           /\ Start([b EXCEPT ![h] = nb][g]) = s.last
OBVIOUS

\* An allocation of the storage gets bytes that are nobody's, but for the header
\* that may be in the last slot of the array.
LEMMA AllocShape ==
  ASSUME StorageFits, pageSize \in Nat \ {0}, NEW s, NEW b, Shape(s, pageSize, b),
         NEW h \in Handle, NEW n, Asked(h, n), NEW c \in HeaderAlloc(s, n),
         NEW nb, nb = VtableBlock(c, n, 0, Zero)
  PROVE  /\ Shape(c, pageSize, [b EXCEPT ![h] = nb])
         /\ nb \in BlockType /\ StorageBlock(h, nb)
         /\ nb.addr = c.last + SizeT /\ nb.size = n
         /\ Known(c.mem, c.last, SizeT, Header(n))
         /\ \A lo, hi \in Int : Holds(s, lo, hi) => SameBytes(s.mem, c.mem, lo, hi)
         /\ Grown(s, c, pageSize, IF h = FreedArray THEN n ELSE SizeT + n)
         /\ c.last + SizeT + n <= c.sentinel
<1> DEFINE w == IF h = FreedArray THEN n ELSE SizeT + n
           d == [b EXCEPT ![h] = nb]
           own == IF h = FreedArray THEN Trim(nb) ELSE nb
<1>0. pageSize \in Nat
  OBVIOUS
<1>1. /\ s \in ArenaState /\ Mine(b) /\ b \in [Handle -> BlockType] /\ HeadReady(s)
      /\ PagesOK(s, pageSize) /\ CursorOK(s) /\ BlocksOK(s, Own(b))
  BY <1>0, ShapeFacts
<1>2. n \in Nat \ {0} /\ SizeT \in Nat \ {0} /\ w \in Nat
  BY Bounds DEF Asked, Fits
<1>3. Fits(n) /\ RoomFor(n, w)
  <2>1. Fits(n)
    BY DEF Asked
  <2>2. CASE h = FreedArray
    BY <2>1, <2>2, RoomForArray DEF Asked
  <2>3. CASE h # FreedArray
    <3>1. n % MaxAlign \in 1 .. MaxAlign - SizeT
      BY <2>3 DEF Asked, StorageFits
    <3> QED
      BY <2>1, <2>3, <3>1, RoomBehind
  <2> QED
    BY <2>1, <2>2, <2>3
<1> HIDE DEF w
<1>4. /\ Grown(s, c, pageSize, w)
      /\ (c.last + SizeT) % MaxAlign = 0
      /\ HeadReady(c)
      /\ Known(c.mem, c.last, SizeT, Header(n))
      /\ c.last + SizeT + n <= c.sentinel
  BY <1>1, <1>3, HeaderAllocGrows
<1>5. /\ c \in ArenaState /\ c.last \in Nat /\ c.index < Len(c.pages) /\ c.sentinel <= Top(c)
      /\ Base(c) <= c.last /\ c.sentinel \in Nat /\ Base(c) \in Nat /\ Top(c) \in Nat
      /\ c.index + 1 \in 1 .. Len(c.pages)
  BY <1>4, StateType, CurrentPage DEF Grown
<1>6. nb \in BlockType /\ StorageBlock(h, nb) /\ nb.addr = c.last + SizeT /\ nb.size = n
  BY <1>4, <1>5, AskedBlock
<1>7. nb # NoBlock /\ Start(nb) = c.last /\ End(nb) = c.last + SizeT + n
  <2>1. nb # NoBlock /\ Start(nb) = nb.addr - SizeT /\ End(nb) = nb.addr + nb.size
    BY <1>6, StorageBlockFields
  <2> QED
    BY <1>2, <1>5, <1>6, <2>1
<1>8. own \in BlockType /\ Start(own) = c.last /\ End(own) = c.last + w
  <2>1. CASE h = FreedArray
    <3>1. Trim(nb) \in BlockType /\ Start(Trim(nb)) = Start(nb) /\ End(Trim(nb)) = End(nb) - SizeT
      BY <1>6, <2>1, Trimmed
    <3>2. End(nb) - SizeT = c.last + n
      BY <1>2, <1>5, <1>7
    <3> QED
      BY <1>7, <2>1, <3>1, <3>2 DEF w
  <2>2. CASE h # FreedArray
    <3>1. c.last + SizeT + n = c.last + (SizeT + n)
      BY <1>2, <1>5
    <3> QED
      BY <1>6, <1>7, <2>2, <3>1 DEF w
  <2> QED
    BY <2>1, <2>2
<1>9. Own(d) = [Own(b) EXCEPT ![h] = own]
  <2>1. /\ h = FreedArray => Own([b EXCEPT ![h] = nb]) = [Own(b) EXCEPT ![h] = Trim(nb)]
        /\ h # FreedArray => Own([b EXCEPT ![h] = nb]) = [Own(b) EXCEPT ![h] = nb]
    BY ONLY h \in Handle, <1>1, StorageBounds DEF Own
  <2> HIDE DEF d
  <2>2. CASE h = FreedArray
    BY <2>1, <2>2 DEF d, own
  <2>3. CASE h # FreedArray
    BY <2>1, <2>3 DEF d, own
  <2> QED
    BY <2>2, <2>3
<1> HIDE DEF own
<1>10. Layout(c, pageSize, Own(d))
  <2>1. End(own) <= c.last + w
    BY <1>2, <1>5, <1>8
  <2>2. Own(b) \in [Handle -> BlockType]
    BY <1>1, Owned
  <2>3. Layout(c, pageSize, [Own(b) EXCEPT ![h] = own])
    BY <1>0, <1>1, <1>2, <1>4, <1>8, <2>1, <2>2, Allocated
  <2> QED
    BY <1>9, <2>3
<1>11. Mine(d)
  BY <1>1, <1>6 DEF Mine
<1>12. d[FreedArray] # NoBlock => Reached(c, Start(d[FreedArray]), End(d[FreedArray]))
  <2>1. CASE h = FreedArray
    <3>1. d[FreedArray] = nb
      BY <1>1, <2>1
    <3>2. Base(c) <= Start(nb) /\ End(nb) <= Top(c)
      BY <1>2, <1>4, <1>5, <1>7
    <3>3. c.index + 1 <= c.index + 1
      BY <1>5
    <3> QED
      BY <1>5, <3>1, <3>2, <3>3 DEF Reached, Base, Top
  <2>2. CASE h # FreedArray
    <3>1. d[FreedArray] = b[FreedArray] /\ b[FreedArray] \in BlockType
      BY <1>1, <2>2, StorageBounds
    <3>2. Start(b[FreedArray]) \in Int /\ End(b[FreedArray]) \in Int
      BY <3>1, EndsType
    <3>3. b[FreedArray] # NoBlock => Reached(s, Start(b[FreedArray]), End(b[FreedArray]))
      BY DEF Shape
    <3> QED
      BY <1>4, <3>1, <3>2, <3>3 DEF Grown
  <2> QED
    BY <2>1, <2>2
<1>13. \E g \in Handle : d[g] # NoBlock /\ Start(d[g]) = c.last
  BY <1>1, <1>7, LastIsMine
<1>14. Shape(c, pageSize, d)
  BY <1>4, <1>5, <1>10, <1>11, <1>12, <1>13 DEF Shape
<1>15. \A lo, hi \in Int : Holds(s, lo, hi) => SameBytes(s.mem, c.mem, lo, hi)
  BY <1>4 DEF Grown, SameBytes
<1> QED
  BY <1>4, <1>6, <1>14, <1>15 DEF w

-----------------------------------------------------------------------------
(***************************************************************************)
(* Memory.                                                                 *)
(***************************************************************************)

\* Bytes that stay as they are stay known.
LEMMA KnownStays ==
  ASSUME NEW m, NEW k, NEW lo \in Int, NEW hi \in Int, SameBytes(m, k, lo, hi),
         NEW addr \in Int, NEW len \in Int, lo <= addr, addr + len <= hi,
         NEW v, Known(m, addr, len, v)
  PROVE  Known(k, addr, len, v)
<1> SUFFICES ASSUME NEW x \in Span(addr, len) PROVE x \in Addr /\ k[x] = v
  BY DEF Known
<1>1. x \in Addr /\ m[x] = v
  BY DEF Known
<1>2. lo <= x /\ x < hi
  BY DEF Span
<1> QED
  BY <1>1, <1>2 DEF SameBytes

\* What the fields of a storage's state are.
LEMMA StateFields ==
  ASSUME NEW s, NEW b, NEW n, NEW f
  PROVE  /\ State(s, b, n, f).arena = s /\ State(s, b, n, f).block = b
         /\ State(s, b, n, f).structs = n /\ State(s, b, n, f).freed = f
BY DEF State

\* An arena with other bytes is the same arena.
LEMMA WrittenFields ==
  ASSUME NEW s \in ArenaState, NEW m \in [Addr -> Cell]
  PROVE  LET c == Written(s, m)
         IN  /\ c \in ArenaState
             /\ c.pages = s.pages /\ c.index = s.index /\ c.current = s.current
             /\ c.sentinel = s.sentinel /\ c.last = s.last /\ c.mem = m
<1>1. /\ s.pages \in Seq(Page) /\ s.index \in Nat /\ s.current \in Nat /\ s.sentinel \in Nat
      /\ s.last \in Nat
  BY StateType
<1> QED
  BY <1>1, MadeState DEF Written, Bump

\* So its blocks are where they were.
LEMMA ShapeOfOther ==
  ASSUME NEW s, NEW ps \in Nat, NEW b, Shape(s, ps, b), NEW m \in [Addr -> Cell]
  PROVE  Shape(Written(s, m), ps, b)
<1> DEFINE c == Written(s, m)
<1>1. s \in ArenaState /\ Mine(b) /\ Layout(s, ps, Own(b)) /\ HeadReady(s)
  BY ShapeFacts
<1>2. /\ c \in ArenaState
      /\ c.pages = s.pages /\ c.index = s.index /\ c.current = s.current
      /\ c.sentinel = s.sentinel /\ c.last = s.last
  BY <1>1, WrittenFields
<1> HIDE DEF c
<1>3. Layout(c, ps, Own(b))
  BY <1>1, <1>2, LayoutOfOther
<1>4. HeadReady(c)
  BY <1>1, <1>2 DEF HeadReady
<1>5. \A lo, hi : Reached(s, lo, hi) => Reached(c, lo, hi)
  BY <1>2 DEF Reached
<1>6. Shape(c, ps, b)
  BY <1>1, <1>2, <1>3, <1>4, <1>5 DEF Shape
<1> QED
  BY <1>6 DEF c

\* The array's slots are of one size; those in use are no more than it has.
LEMMA SlotIn ==
  ASSUME NEW f \in Nat, NEW i \in 0 .. f - 1
  PROVE  i * SizeT \in Nat /\ f * SizeT \in Nat /\ i * SizeT + SizeT <= f * SizeT
<1>1. SizeT \in Nat /\ i \in Nat
  BY Bounds
<1>2. (i + 1) * SizeT <= f * SizeT /\ (i + 1) * SizeT = i * SizeT + SizeT /\ f * SizeT \in Nat
      /\ i * SizeT \in Nat
  BY <1>1, Monotone
<1> QED
  BY <1>2

\* The array of a storage is read as long as its header and its slots in use
\* stay as they are.
LEMMA ArrayStays ==
  ASSUME NEW o, NEW q, Mine(o.block), Counts(o), ArrayReads(o),
         q.block[FreedArray] = o.block[FreedArray], q.freed \in 0 .. o.freed,
         q.structs \in Nat, o.structs <= q.structs,
         LET array == o.block[FreedArray]
         IN  array # NoBlock =>
               SameBytes(o.arena.mem, q.arena.mem, array.addr - SizeT, array.addr + q.freed * SizeT)
  PROVE  ArrayReads(q)
<1> DEFINE array == o.block[FreedArray]
<1> SUFFICES ASSUME array # NoBlock
             PROVE  /\ Known(q.arena.mem, array.addr - SizeT, SizeT, Header(array.size))
                    /\ \A i \in 0 .. q.freed - 1 : \E n \in 0 .. q.structs - 1 :
                         Known(q.arena.mem, array.addr + i * SizeT, SizeT, Pointer(n))
  BY DEF ArrayReads
<1>1. array \in BlockType /\ StorageBlock(FreedArray, array) /\ FreedArray \in Handle
  BY StorageBounds DEF Mine
<1>2. array.addr \in Nat /\ SizeT \in Nat /\ o.freed \in Nat /\ q.freed \in Nat /\ o.structs \in Nat
  BY <1>1, StorageBlockFields, Bounds DEF Counts
<1>3. SameBytes(o.arena.mem, q.arena.mem, array.addr - SizeT, array.addr + q.freed * SizeT)
  OBVIOUS
<1>4. /\ Known(o.arena.mem, array.addr - SizeT, SizeT, Header(array.size))
      /\ \A i \in 0 .. o.freed - 1 : \E n \in 0 .. o.structs - 1 :
           Known(o.arena.mem, array.addr + i * SizeT, SizeT, Pointer(n))
  BY DEF ArrayReads
<1> DEFINE a == array.addr
           used == q.freed * SizeT
<1>5. used \in Nat
  BY <1>2, Monotone
<1>6. Known(q.arena.mem, a - SizeT, SizeT, Header(array.size))
  <2> DEFINE v == Header(array.size)
             m == o.arena.mem
             k == q.arena.mem
  <2>1. /\ a - SizeT \in Int /\ SizeT \in Int /\ a + used \in Int
        /\ a - SizeT <= a - SizeT /\ (a - SizeT) + SizeT <= a + used
    BY <1>2, <1>5
  <2>2. SameBytes(m, k, a - SizeT, a + used) /\ Known(m, a - SizeT, SizeT, v)
    BY <1>3, <1>4
  <2> HIDE DEF a, used, array, v, m, k
  <2>3. Known(k, a - SizeT, SizeT, v)
    BY ONLY <2>1, <2>2, KnownStays
  <2> QED
    BY <2>3 DEF v, k
<1>7. ASSUME NEW i \in 0 .. q.freed - 1
      PROVE  \E n \in 0 .. q.structs - 1 : Known(q.arena.mem, a + i * SizeT, SizeT, Pointer(n))
  <2>1. i \in 0 .. o.freed - 1
    BY <1>2
  <2>2. PICK n \in 0 .. o.structs - 1 : Known(o.arena.mem, a + i * SizeT, SizeT, Pointer(n))
    BY <1>4, <2>1
  <2> DEFINE v == Pointer(n)
             m == o.arena.mem
             k == q.arena.mem
             at == i * SizeT
  <2>3. at \in Nat /\ at + SizeT <= used
    BY <1>2, SlotIn
  <2> HIDE DEF at
  <2>4. /\ a - SizeT \in Int /\ SizeT \in Int /\ a + used \in Int /\ a + at \in Int
        /\ a - SizeT <= a + at /\ (a + at) + SizeT <= a + used
    BY <1>2, <1>5, <2>3
  <2>5. SameBytes(m, k, a - SizeT, a + used) /\ Known(m, a + at, SizeT, v)
    BY <1>3, <2>2 DEF at
  <2> HIDE DEF a, used, array, v, m, k
  <2>6. Known(k, a + at, SizeT, v)
    BY ONLY <2>4, <2>5, KnownStays
  <2>7. n \in 0 .. q.structs - 1
    BY <1>2
  <2> QED
    BY <2>6, <2>7 DEF v, k, at
<1> QED
  BY <1>6, <1>7

\* Writes that leave the array's header and its slots in use as they are.
ArrayKept(o, m) ==
  LET array == o.block[FreedArray]
  IN  array # NoBlock =>
        SameBytes(o.arena.mem, m, array.addr - SizeT, array.addr + o.freed * SizeT)

\* They leave the storage sound.
LEMMA MemoryKeeps ==
  ASSUME NEW ps \in Nat, NEW o, Sound(o, ps), NEW m \in [Addr -> Cell], ArrayKept(o, m)
  PROVE  /\ Sound(InMemory(o, m), ps)
         /\ InMemory(o, m).structs = o.structs
<1> DEFINE q == InMemory(o, m)
           c == Written(o.arena, m)
<1>1. /\ q.arena = c /\ q.block = o.block
      /\ q.structs = o.structs /\ q.freed = o.freed
  BY StateFields DEF InMemory
<1>2. Shape(o.arena, ps, o.block) /\ Counts(o) /\ ArrayReads(o)
  BY DEF Sound
<1>3. o.arena \in ArenaState /\ Mine(o.block)
  BY <1>2, ShapeFacts
<1>4. c.mem = m
  BY <1>3, WrittenFields
<1>5. Shape(c, ps, o.block)
  BY <1>2, ShapeOfOther
<1> HIDE DEF c, q
<1>6. Counts(q)
  BY <1>1, <1>2 DEF Counts
<1>7. o.structs \in Nat /\ o.structs <= q.structs /\ q.freed \in 0 .. o.freed /\ q.structs \in Nat
  <2>1. o.structs \in Nat /\ o.freed \in Nat
    BY <1>2, StorageBounds DEF Counts
  <2> QED
    BY <1>1, <2>1
<1>8. ArrayReads(q)
  <2>1. LET array == o.block[FreedArray]
        IN  array # NoBlock =>
              SameBytes(o.arena.mem, q.arena.mem, array.addr - SizeT, array.addr + q.freed * SizeT)
    BY <1>1, <1>4 DEF ArrayKept
  <2>2. q.block[FreedArray] = o.block[FreedArray]
    BY <1>1
  <2> QED
    BY ONLY <1>2, <1>3, <1>7, <2>1, <2>2, ArrayStays
<1> QED
  BY <1>1, <1>5, <1>6, <1>8 DEF Sound, q

\* What nobody reads becomes indeterminate, and the storage stays sound.
LEMMA CommitKeeps ==
  ASSUME NEW ps \in Nat, NEW o, Sound(o, ps)
  PROVE  Kept(o) \in [Addr -> Cell] /\ Sound(InMemory(o, Kept(o)), ps) /\ ArrayKept(o, Kept(o))
<1> DEFINE array == o.block[FreedArray]
           m == o.arena.mem
<1>1. m \in [Addr -> Cell]
  BY ShapeFacts, StateType DEF Sound
<1>2. /\ Kept(o) \in [Addr -> Cell]
      /\ \A x \in Addr : x \in InUse(o) => Kept(o)[x] = m[x]
  BY <1>1, StorageBytes DEF Kept
<1>3. ASSUME array # NoBlock
      PROVE  SameBytes(m, Kept(o), array.addr - SizeT, array.addr + o.freed * SizeT)
  <2>1. array \in BlockType /\ StorageBlock(FreedArray, array) /\ o.freed \in Nat
    <3>1. Mine(o.block) /\ FreedArray \in Handle /\ o.freed \in Nat
      BY ShapeFacts, StorageBounds DEF Sound, Counts
    <3> QED
      BY <1>3, <3>1 DEF Mine
  <2>2. array.addr \in Nat /\ SizeT \in Nat /\ o.freed * SizeT \in Nat
    <3>1. array.addr \in Nat /\ SizeT \in Nat
      BY <2>1, Bounds DEF BlockType
    <3> QED
      BY <2>1, <3>1, Monotone
  <2>3. /\ Span(array.addr, o.freed * SizeT) \subseteq InUse(o)
        /\ Span(array.addr - SizeT, SizeT) \subseteq InUse(o)
    <3> DEFINE nodes == UNION {Span(NodeAt(o.block, n), NodeSize) : n \in 0 .. o.structs - 1}
               slots == Span(array.addr, o.freed * SizeT)
               head == Span(array.addr - SizeT, SizeT)
    <3>1. InUse(o) = nodes \cup slots \cup IF array = NoBlock THEN {} ELSE head
      BY DEF InUse
    <3> HIDE DEF nodes, array
    <3> QED
      BY <1>3, <3>1 DEF array
  <2> DEFINE a == array.addr
             used == o.freed * SizeT
  <2>4. ASSUME NEW x \in Addr, a - SizeT <= x, x < a + used
        PROVE  x \in Span(a, used) \/ x \in Span(a - SizeT, SizeT)
    <3>1. x \in Int /\ a \in Int /\ used \in Int /\ SizeT \in Int
      BY <2>2, Bounds DEF Addr
    <3> HIDE DEF a, used
    <3> QED
      BY <2>4, <3>1 DEF Span
  <2> QED
    BY <1>2, <2>3, <2>4 DEF SameBytes
<1>4. ArrayKept(o, Kept(o))
  BY <1>3 DEF ArrayKept
<1> QED
  BY <1>2, <1>4, MemoryKeeps

\* One more element is counted, in a bucket that is there.
LEMMA OneMore ==
  ASSUME NEW ps \in Nat, NEW o, Sound(o, ps), o.structs < MaxBuckets * Capacity,
         o.block[BucketOf(o.structs)] # NoBlock
  PROVE  Sound(State(o.arena, o.block, o.structs + 1, o.freed), ps)
<1> DEFINE q == State(o.arena, o.block, o.structs + 1, o.freed)
<1>1. /\ q.arena = o.arena /\ q.block = o.block
      /\ q.structs = o.structs + 1 /\ q.freed = o.freed
  BY StateFields
<1>2. Shape(o.arena, ps, o.block) /\ Counts(o) /\ ArrayReads(o) /\ Mine(o.block)
  BY ShapeFacts DEF Sound
<1> HIDE DEF q
<1>3. o.structs \in Nat /\ o.freed \in Nat /\ MaxBuckets * Capacity \in Nat
  BY <1>2, StorageBounds DEF Counts
<1>4. Counts(q)
  <2>1. q.structs \in 0 .. MaxBuckets * Capacity
    BY <1>1, <1>3
  <2>2. ASSUME NEW n \in 0 .. q.structs - 1 PROVE q.block[BucketOf(n)] # NoBlock
    <3>1. n \in 0 .. o.structs - 1 \/ n = o.structs
      BY <1>1, <1>3
    <3> QED
      BY <1>1, <1>2, <3>1 DEF Counts
  <2> QED
    BY <1>1, <1>2, <2>1, <2>2 DEF Counts
<1>5. ArrayReads(q)
  <2>1. \A n \in 0 .. o.structs - 1 : n \in 0 .. q.structs - 1
    BY <1>1, <1>3
  <2> QED
    BY <1>1, <1>2, <2>1 DEF ArrayReads
<1>6. Shape(q.arena, ps, q.block)
  BY <1>1, <1>2
<1>7. Sound(q, ps)
  BY <1>4, <1>5, <1>6 DEF Sound
<1> QED
  BY <1>7 DEF q

\* The last slot is taken from the array.
LEMMA OneLess ==
  ASSUME NEW ps \in Nat, NEW o, Sound(o, ps), o.freed # 0
  PROVE  Sound(State(o.arena, o.block, o.structs, o.freed - 1), ps)
<1> DEFINE q == State(o.arena, o.block, o.structs, o.freed - 1)
<1>1. /\ q.arena = o.arena /\ q.block = o.block
      /\ q.structs = o.structs /\ q.freed = o.freed - 1
  BY StateFields
<1>2. Shape(o.arena, ps, o.block) /\ Counts(o) /\ ArrayReads(o) /\ Mine(o.block)
  BY ShapeFacts DEF Sound
<1> HIDE DEF q
<1>3. /\ o.freed \in Nat \ {0} /\ q.freed \in Nat /\ q.freed <= o.freed /\ SizeT \in Nat
      /\ o.block[FreedArray].size \in Nat
  <2>1. o.block[FreedArray] \in BlockType
    BY <1>2, StorageBounds DEF Mine
  <2> QED
    BY <1>1, <1>2, <2>1, Bounds DEF Counts, BlockType
<1>4. q.freed * SizeT <= o.block[FreedArray].size
  <2>1. q.freed * SizeT <= o.freed * SizeT /\ q.freed * SizeT \in Nat /\ o.freed * SizeT \in Nat
    BY <1>3, Monotone
  <2>2. o.freed * SizeT <= o.block[FreedArray].size
    BY <1>2 DEF Counts
  <2> QED
    BY <1>3, <2>1, <2>2
<1>5. Counts(q)
  BY <1>1, <1>2, <1>3, <1>4 DEF Counts
<1>6. ArrayReads(q)
  <2>1. \A i \in 0 .. q.freed - 1 : i \in 0 .. o.freed - 1
    BY <1>1, <1>3
  <2> QED
    BY <1>1, <1>2, <2>1 DEF ArrayReads
<1>7. Shape(q.arena, ps, q.block)
  BY <1>1, <1>2
<1>8. Sound(q, ps)
  BY <1>5, <1>6, <1>7 DEF Sound
<1> QED
  BY <1>8 DEF q

-----------------------------------------------------------------------------
(***************************************************************************)
(* Buckets and nodes.                                                      *)
(***************************************************************************)

\* No slot in use, nor the array's header, is in a bucket.
LEMMA BucketApart ==
  ASSUME NEW ps \in Nat, NEW o, Sound(o, ps), o.block[FreedArray] # NoBlock,
         NEW h \in Handle, h # FreedArray, o.block[h] # NoBlock
  PROVE  LET array == o.block[FreedArray]
             bucket == o.block[h]
         IN  \/ array.addr + o.freed * SizeT <= bucket.addr
             \/ bucket.addr + BucketSize <= array.addr - SizeT
<1> DEFINE array == o.block[FreedArray]
           bucket == o.block[h]
           used == o.freed * SizeT
<1>1. /\ Mine(o.block) /\ BlocksOK(o.arena, Own(o.block)) /\ FreedArray \in Handle
      /\ o.freed \in Nat /\ used <= array.size
  BY ShapeFacts, StorageBounds DEF Sound, Counts
<1>2. /\ array \in BlockType /\ StorageBlock(FreedArray, array)
      /\ bucket \in BlockType /\ StorageBlock(h, bucket)
  BY <1>1 DEF Mine
<1>3. /\ array.addr \in Nat /\ array.size \in Nat /\ bucket.addr \in Nat /\ bucket.size \in Nat
      /\ Start(array) = array.addr - SizeT /\ End(array) = array.addr + array.size
      /\ Start(bucket) = bucket.addr - SizeT /\ End(bucket) = bucket.addr + bucket.size
  <2> HIDE DEF array, bucket
  <2> QED
    BY <1>1, <1>2, StorageBlockFields
<1>4. bucket.size = BucketSize
  BY <1>2 DEF StorageBlock
<1>5. /\ Own(o.block)[FreedArray] # NoBlock /\ Own(o.block)[h] # NoBlock
      /\ Start(Own(o.block)[FreedArray]) = Start(array)
      /\ End(Own(o.block)[FreedArray]) = End(array) - SizeT
      /\ Own(o.block)[h] = bucket
  BY <1>1, Owned
<1>6. End(array) - SizeT <= Start(bucket) \/ End(bucket) <= Start(array)
  BY <1>1, <1>5 DEF BlocksOK
<1>7. used \in Nat /\ SizeT \in Nat
  BY <1>1, Bounds, Monotone
<1> HIDE DEF array, bucket, used
<1>8. \/ array.addr + used <= bucket.addr
      \/ bucket.addr + BucketSize <= array.addr - SizeT
  BY <1>1, <1>3, <1>4, <1>6, <1>7
<1> QED
  BY <1>8 DEF array, bucket, used

\* Writes to the bytes of a bucket leave the array as it is.
LEMMA BucketWrites ==
  ASSUME NEW ps \in Nat, NEW o, Sound(o, ps),
         NEW h \in Handle, h # FreedArray, o.block[h] # NoBlock,
         NEW m \in [Addr -> Cell],
         \A x \in Addr : m[x] # o.arena.mem[x] =>
           o.block[h].addr <= x /\ x < o.block[h].addr + BucketSize
  PROVE  ArrayKept(o, m)
<1> DEFINE array == o.block[FreedArray]
           bucket == o.block[h]
           used == o.freed * SizeT
<1> SUFFICES ASSUME array # NoBlock, NEW x \in Addr, array.addr - SizeT <= x, x < array.addr + used
             PROVE  m[x] = o.arena.mem[x]
  BY DEF ArrayKept, SameBytes
<1>1. Mine(o.block) /\ FreedArray \in Handle /\ o.freed \in Nat
  BY ShapeFacts, StorageBounds DEF Sound, Counts
<1>2. array.addr \in Nat /\ bucket.addr \in Nat
  BY <1>1 DEF Mine, BlockType
<1>3. used \in Nat /\ SizeT \in Nat /\ BucketSize \in Nat /\ x \in Int
  <2>1. SizeT \in Nat /\ BucketSize \in Nat /\ x \in Int
    BY Bounds, StorageBounds DEF Addr
  <2> QED
    BY <1>1, <2>1, Monotone
<1>4. \/ array.addr + used <= bucket.addr
      \/ bucket.addr + BucketSize <= array.addr - SizeT
  BY BucketApart
<1> HIDE DEF array, used
<1>5. ~(bucket.addr <= x /\ x < bucket.addr + BucketSize)
  BY <1>2, <1>3, <1>4
<1> QED
  BY <1>5

\* A reserved node has its bytes in its bucket.
LEMMA NodeBytes ==
  ASSUME NEW ps \in Nat, NEW o, Sound(o, ps), NEW n \in 0 .. o.structs - 1
  PROVE  /\ NodeAt(o.block, n) \in Nat
         /\ BucketOf(n) \in Handle /\ BucketOf(n) # FreedArray /\ o.block[BucketOf(n)] # NoBlock
         /\ o.block[BucketOf(n)].addr <= NodeAt(o.block, n)
         /\ NodeAt(o.block, n) + NodeSize <= o.block[BucketOf(n)].addr + BucketSize
<1> DEFINE h == BucketOf(n)
           addr == o.block[h].addr
           off == (n % Capacity) * NodeSize
<1>1. Mine(o.block) /\ Counts(o) /\ o.structs \in 0 .. MaxBuckets * Capacity
  BY ShapeFacts DEF Sound, Counts
<1>2. n \in Node
  BY <1>1, StorageBounds DEF Node
<1>3. /\ h \in Handle /\ h # FreedArray
      /\ off \in Nat /\ HeadSize + off + NodeSize <= BucketSize
  BY <1>2, NodeInBucket
<1>4. o.block[h] # NoBlock
  BY <1>1 DEF Counts
<1>5. addr \in Nat
  BY <1>1, <1>3 DEF Mine, BlockType
<1>6. NodeAt(o.block, n) = addr + HeadSize + off
  BY DEF NodeAt
<1>7. HeadSize \in Nat /\ NodeSize \in Nat /\ BucketSize \in Nat
  BY StorageBounds
<1> HIDE DEF off, addr
<1>8. /\ addr + HeadSize + off \in Nat /\ addr <= addr + HeadSize + off
      /\ addr + HeadSize + off + NodeSize <= addr + BucketSize
  BY <1>3, <1>5, <1>7
<1> QED
  BY <1>3, <1>4, <1>6, <1>8 DEF addr

\* Writes to the bytes of a reserved node leave the storage sound.
LEMMA NodeWrites ==
  ASSUME NEW ps \in Nat, NEW o, Sound(o, ps), NEW n \in 0 .. o.structs - 1,
         NEW m \in [Addr -> Cell],
         \A x \in Addr : m[x] # o.arena.mem[x] =>
           NodeAt(o.block, n) <= x /\ x < NodeAt(o.block, n) + NodeSize
  PROVE  Sound(InMemory(o, m), ps) /\ InMemory(o, m).structs = o.structs /\ ArrayKept(o, m)
<1> DEFINE at == NodeAt(o.block, n)
           h == BucketOf(n)
           addr == o.block[h].addr
<1>1. /\ at \in Nat /\ h \in Handle /\ h # FreedArray /\ o.block[h] # NoBlock
      /\ addr <= at /\ at + NodeSize <= addr + BucketSize
  BY NodeBytes
<1>2. addr \in Nat /\ NodeSize \in Nat /\ BucketSize \in Nat
  <2>1. Mine(o.block)
    BY ShapeFacts DEF Sound
  <2> QED
    BY <1>1, <2>1, StorageBounds DEF Mine, BlockType
<1>3. ASSUME NEW x \in Addr, m[x] # o.arena.mem[x] PROVE addr <= x /\ x < addr + BucketSize
  <2>1. at <= x /\ x < at + NodeSize /\ x \in Int
    BY <1>3, Bounds DEF Addr
  <2> HIDE DEF at, addr
  <2> QED
    BY <1>1, <1>2, <2>1
<1> HIDE DEF h
<1>4. ArrayKept(o, m)
  BY <1>1, <1>3, BucketWrites
<1> QED
  BY <1>4, MemoryKeeps

\* A node may be filled, or get the bytes of another one.
LEMMA NodeFilled ==
  ASSUME NEW ps \in Nat, NEW o, Sound(o, ps), NEW n \in 0 .. o.structs - 1
  PROVE  /\ \A v \in Cell : Sound(WithNode(o, n, v), ps) /\ WithNode(o, n, v).structs = o.structs
         /\ \A p \in 0 .. o.structs - 1 : Sound(WithCopy(o, n, p), ps)
                                          /\ WithCopy(o, n, p).structs = o.structs
<1> DEFINE at == NodeAt(o.block, n)
           m == o.arena.mem
<1>1. at \in Int /\ NodeSize \in Int /\ m \in [Addr -> Cell]
  <2>1. at \in Nat
    BY NodeBytes
  <2>2. m \in [Addr -> Cell]
    BY ShapeFacts, StateType DEF Sound
  <2> QED
    BY <2>1, <2>2, StorageBounds
<1>2. ASSUME NEW v \in Cell
      PROVE  Sound(WithNode(o, n, v), ps) /\ WithNode(o, n, v).structs = o.structs
  <2> DEFINE k == Store(m, at, NodeSize, v)
  <2>1. /\ k \in [Addr -> Cell]
        /\ \A x \in Addr : k[x] # m[x] => at <= x /\ x < at + NodeSize
    <3> HIDE DEF at, m
    <3>1. /\ k \in [Addr -> Cell]
          /\ \A x \in Addr : k[x] = IF at <= x /\ x < at + NodeSize THEN v ELSE m[x]
      BY <1>1, StoreProperties
    <3> HIDE DEF k
    <3> QED
      BY <3>1
  <2>2. WithNode(o, n, v) = InMemory(o, k)
    BY DEF WithNode
  <2> HIDE DEF k
  <2> QED
    BY <2>1, <2>2, NodeWrites
<1>3. ASSUME NEW p \in 0 .. o.structs - 1
      PROVE  Sound(WithCopy(o, n, p), ps) /\ WithCopy(o, n, p).structs = o.structs
  <2> DEFINE from == NodeAt(o.block, p)
             k == CopyBytes(m, at, from, NodeSize)
  <2>1. from \in Int
    <3>1. from \in Nat
      BY NodeBytes
    <3> QED
      BY <3>1
  <2>2. /\ k \in [Addr -> Cell]
        /\ \A x \in Addr : k[x] # m[x] => at <= x /\ x < at + NodeSize
    <3> HIDE DEF at, m, from
    <3> QED
      BY <1>1, <2>1, CopyBytesProperties
  <2>3. WithCopy(o, n, p) = InMemory(o, k)
    BY DEF WithCopy
  <2> HIDE DEF k
  <2> QED
    BY <2>2, <2>3, NodeWrites
<1> QED
  BY <1>2, <1>3

\* What is known of the array: its last slot may be behind the cursor.
LEMMA ArrayFacts ==
  ASSUME NEW ps \in Nat, NEW o, Sound(o, ps), o.block[FreedArray] # NoBlock
  PROVE  LET array == o.block[FreedArray]
         IN  /\ array \in BlockType /\ StorageBlock(FreedArray, array)
             /\ array.addr \in Nat /\ array.size \in Nat \ {0} /\ SizeT <= array.size
             /\ Start(array) = array.addr - SizeT /\ End(array) = array.addr + array.size
             /\ o.freed \in Nat /\ o.freed * SizeT \in Nat /\ o.freed * SizeT <= array.size
             /\ Holds(o.arena, array.addr - SizeT, array.addr + array.size - SizeT)
             /\ Reached(o.arena, array.addr - SizeT, array.addr + array.size)
             /\ 1 <= array.addr - SizeT
<1> DEFINE array == o.block[FreedArray]
<1>1. /\ Shape(o.arena, ps, o.block) /\ Mine(o.block) /\ BlocksOK(o.arena, Own(o.block))
      /\ PagesOK(o.arena, ps) /\ o.arena \in ArenaState
      /\ FreedArray \in Handle /\ o.freed \in Nat /\ o.freed * SizeT <= array.size
  BY ShapeFacts, StorageBounds DEF Sound, Counts
<1>2. array \in BlockType /\ StorageBlock(FreedArray, array)
  BY <1>1 DEF Mine
<1>3. /\ array.addr \in Nat /\ array.size \in Nat \ {0} /\ SizeT <= array.size
      /\ Start(array) = array.addr - SizeT /\ End(array) = array.addr + array.size
  <2> HIDE DEF array
  <2> QED
    BY <1>1, <1>2, StorageBlockFields
<1>4. SizeT \in Nat /\ o.freed * SizeT \in Nat
  BY <1>1, Bounds, Monotone
<1>5. Reached(o.arena, array.addr - SizeT, array.addr + array.size)
  <2>1. Reached(o.arena, Start(array), End(array))
    BY <1>1 DEF Shape
  <2> QED
    BY <1>3, <2>1
<1>6. Holds(o.arena, array.addr - SizeT, array.addr + array.size - SizeT)
  <2>1. /\ Own(o.block)[FreedArray] # NoBlock
        /\ Start(Own(o.block)[FreedArray]) = Start(array)
        /\ End(Own(o.block)[FreedArray]) = End(array) - SizeT
    BY <1>1, Owned
  <2>2. Holds(o.arena, Start(array), End(array) - SizeT)
    BY <1>1, <2>1 DEF BlocksOK
  <2>3. Start(array) = array.addr - SizeT /\ End(array) - SizeT = array.addr + array.size - SizeT
    <3> HIDE DEF array
    <3> QED
      BY <1>3, <1>4
  <2> HIDE DEF array
  <2> QED
    BY <2>2, <2>3
<1> HIDE DEF array
<1>7. 1 <= array.addr - SizeT
  <2>1. array.addr - SizeT \in Int /\ array.addr + array.size - SizeT \in Int
    BY <1>3, <1>4
  <2> QED
    BY <1>1, <1>6, <2>1, HeldInMemory
<1> QED
  BY <1>1, <1>2, <1>3, <1>4, <1>5, <1>6, <1>7 DEF array

\* A bucket for the next node, from the allocator.
LEMMA NewBucketSound ==
  ASSUME StorageFits, pageSize \in Nat \ {0}, NEW o, Sound(o, pageSize), o.freed = 0,
         NEW h \in Handle, h # FreedArray, NEW r \in NewBucket(o, h)
  PROVE  /\ Sound(r, pageSize)
         /\ r.structs = o.structs /\ r.freed = o.freed /\ r.block[h] # NoBlock
         /\ \A g \in Handle : g # h => r.block[g] = o.block[g]
         /\ \A x \in Addr : r.block[h].addr <= x /\ x < r.block[h].addr + BucketSize =>
              r.arena.mem[x] = Junk
         /\ \A lo, hi \in Int :
              /\ Holds(o.arena, lo, hi)
              /\ hi <= r.block[h].addr \/ r.block[h].addr + BucketSize <= lo
              => SameBytes(o.arena.mem, r.arena.mem, lo, hi)
<1> DEFINE size == BucketSize
<1>0. pageSize \in Nat
  OBVIOUS
<1>1. PICK c \in HeaderAlloc(o.arena, size) :
        r = Obtain(o, h, Written(c, Store(c.mem, c.last + SizeT, size, Junk)), size)
  BY DEF NewBucket
<1> DEFINE nb == VtableBlock(c, size, 0, Zero)
           d == [o.block EXCEPT ![h] = nb]
           q == State(c, d, o.structs, o.freed)
           k == Store(c.mem, c.last + SizeT, size, Junk)
           array == o.block[FreedArray]
<1>2. /\ Shape(o.arena, pageSize, o.block) /\ Mine(o.block) /\ Counts(o) /\ ArrayReads(o)
      /\ o.block \in [Handle -> BlockType]
  BY <1>0, ShapeFacts DEF Sound
<1>3. Asked(h, size)
  <2>1. size \in Nat \ {0} /\ AddrMax + size + 2 * MaxAlign < SizeMax
    BY StorageBounds DEF StorageFits
  <2> QED
    BY <2>1 DEF Asked, Fits
<1>4. /\ Shape(c, pageSize, d)
      /\ nb \in BlockType /\ StorageBlock(h, nb)
      /\ nb.addr = c.last + SizeT /\ nb.size = size
      /\ \A lo, hi \in Int : Holds(o.arena, lo, hi) => SameBytes(o.arena.mem, c.mem, lo, hi)
  <2>1. nb = VtableBlock(c, size, 0, Zero)
    OBVIOUS
  <2> HIDE DEF nb, size, q, k, array
  <2> QED
    BY <1>1, <1>2, <1>3, <2>1, AllocShape
<1>5. nb # NoBlock /\ nb.addr \in Nat
  <2> HIDE DEF nb
  <2> QED
    BY <1>4, StorageBlockFields
<1>6. d[h] = nb /\ \A g \in Handle : g # h => d[g] = o.block[g]
  BY <1>2
<1>7. /\ q.arena = c /\ q.block = d /\ q.structs = o.structs /\ q.freed = o.freed
  BY StateFields
<1>8. r = InMemory(q, k) /\ c \in ArenaState /\ k \in [Addr -> Cell]
      /\ \A x \in Addr : k[x] = IF nb.addr <= x /\ x < nb.addr + size THEN Junk ELSE c.mem[x]
  <2>1. c \in ArenaState /\ c.mem \in [Addr -> Cell] /\ c.last \in Nat
    BY <1>0, <1>4, ShapeFacts, StateType
  <2>2. VtableBlock(Written(c, k), size, 0, Zero) = nb
    BY DEF VtableBlock, Written, Bump
  <2>3. r = State(Written(c, k), d, o.structs, o.freed)
    <3> HIDE DEF nb, k
    <3> QED
      BY <1>1, <2>2 DEF Obtain, k
  <2>4. InMemory(q, k) = State(Written(c, k), d, o.structs, o.freed)
    BY <1>7 DEF InMemory
  <2>5. c.last + SizeT \in Int /\ size \in Int /\ Junk \in Cell
    BY <2>1, Bounds, StorageBounds, StorageBytes
  <2>6. /\ k \in [Addr -> Cell]
        /\ \A x \in Addr : k[x] = IF c.last + SizeT <= x /\ x < c.last + SizeT + size
                                    THEN Junk ELSE c.mem[x]
    <3> HIDE DEF size
    <3> QED
      BY <2>1, <2>5, StoreProperties
  <2> HIDE DEF nb, k
  <2> QED
    BY <1>4, <2>1, <2>3, <2>4, <2>6
<1> HIDE DEF nb, d, q, k, size
<1>9. d[FreedArray] = array
  BY <1>6, StorageBounds
<1>10. Counts(q)
  <2>1. \A n \in 0 .. o.structs - 1 : d[BucketOf(n)] # NoBlock
    <3> SUFFICES ASSUME NEW n \in 0 .. o.structs - 1 PROVE d[BucketOf(n)] # NoBlock
      OBVIOUS
    <3>1. o.block[BucketOf(n)] # NoBlock /\ BucketOf(n) \in Handle
      BY <1>0, NodeBytes
    <3> QED
      BY <1>5, <1>6, <3>1
  <2> QED
    BY <1>2, <1>7, <1>9, <2>1 DEF Counts
<1>11. ArrayReads(q)
  <2>1. ASSUME array # NoBlock
        PROVE  SameBytes(o.arena.mem, q.arena.mem, array.addr - SizeT, array.addr + q.freed * SizeT)
    <3>1. /\ array.addr \in Nat /\ array.size \in Nat /\ SizeT <= array.size
          /\ Holds(o.arena, array.addr - SizeT, array.addr + array.size - SizeT)
      BY <1>0, <2>1, ArrayFacts
    <3>2. SizeT \in Nat /\ q.freed * SizeT = 0
      BY <1>7, Bounds
    <3>3. SameBytes(o.arena.mem, c.mem, array.addr - SizeT, array.addr + array.size - SizeT)
      BY <1>4, <3>1, <3>2
    <3>4. \A x \in Addr : x \in Int
      BY Bounds DEF Addr
    <3> HIDE DEF array
    <3> QED
      BY <1>7, <3>1, <3>2, <3>3, <3>4 DEF SameBytes
  <2>2. q.freed \in 0 .. o.freed /\ q.structs \in Nat /\ o.structs <= q.structs
    BY <1>2, <1>7, StorageBounds DEF Counts
  <2>3. q.block[FreedArray] = o.block[FreedArray]
    BY <1>7, <1>9
  <2> QED
    BY <1>2, <2>1, <2>2, <2>3, ArrayStays
<1>12. Sound(q, pageSize)
  BY <1>4, <1>7, <1>10, <1>11 DEF Sound
<1>13. Sound(InMemory(q, k), pageSize)
  <2>1. /\ q.block[h] # NoBlock
        /\ \A x \in Addr : k[x] # q.arena.mem[x] =>
             q.block[h].addr <= x /\ x < q.block[h].addr + BucketSize
    BY <1>5, <1>6, <1>7, <1>8 DEF size
  <2>2. ArrayKept(q, k)
    BY <1>0, <1>8, <1>12, <2>1, BucketWrites
  <2> QED
    BY <1>0, <1>8, <1>12, <2>2, MemoryKeeps
<1>14. r.structs = o.structs /\ r.freed = o.freed /\ r.block = d
  BY <1>7, <1>8, StateFields DEF InMemory
<1>15. r.arena.mem = k
  BY <1>7, <1>8, StateFields, WrittenFields DEF InMemory
<1>16. \A g \in Handle : g # h => r.block[g] = o.block[g]
  BY <1>6, <1>14
<1>17. r.block[h] = nb
  BY <1>6, <1>14
<1>18. \A x \in Addr : r.block[h].addr <= x /\ x < r.block[h].addr + BucketSize =>
         r.arena.mem[x] = Junk
  BY <1>8, <1>15, <1>17 DEF size
<1>19. ASSUME NEW lo \in Int, NEW hi \in Int, Holds(o.arena, lo, hi),
              hi <= r.block[h].addr \/ r.block[h].addr + BucketSize <= lo
       PROVE  SameBytes(o.arena.mem, r.arena.mem, lo, hi)
  <2> DEFINE a == nb.addr
  <2>1. a \in Nat /\ size \in Nat /\ \A x \in Addr : x \in Int
    BY <1>5, StorageBounds, Bounds DEF Addr, size
  <2>2. hi <= a \/ a + size <= lo
    BY <1>17, <1>19 DEF size
  <2>3. \A x \in Addr : k[x] = IF a <= x /\ x < a + size THEN Junk ELSE c.mem[x]
    BY <1>8
  <2>4. SameBytes(o.arena.mem, c.mem, lo, hi)
    BY <1>4, <1>19
  <2> HIDE DEF a
  <2>5. SameBytes(o.arena.mem, k, lo, hi)
    BY <2>1, <2>2, <2>3, <2>4 DEF SameBytes
  <2> QED
    BY <1>15, <2>5
<1> QED
  BY <1>5, <1>8, <1>13, <1>14, <1>16, <1>17, <1>18, <1>19

\* The state of the storage.
LEMMA SystemFields ==
  /\ System.arena = Now /\ System.block = block
  /\ System.structs = structs /\ System.freed = freedCount
BY StateFields DEF System

\* What the invariant says of a storage that is up.
LEMMA SInvFacts ==
  ASSUME SInv
  PROVE  /\ Sound(System, pageSize) /\ pageSize \in Nat
         /\ Now \in ArenaState /\ Mine(block) /\ Counts(System) /\ ArrayReads(System)
         /\ structs \in Nat /\ structs <= MaxBuckets * Capacity
         /\ freedCount \in Nat
         /\ up => phase = "up" /\ pageSize \in Nat \ {0}
<1>1. Sound(System, pageSize) /\ pageSize \in Nat
  BY DEF SInv
<1>2. Shape(Now, pageSize, block) /\ Counts(System) /\ ArrayReads(System)
  BY <1>1, SystemFields DEF Sound
<1>3. structs \in Nat /\ structs <= MaxBuckets * Capacity /\ freedCount \in Nat
  BY <1>2, SystemFields, StorageBounds DEF Counts
<1>4. up => phase = "up" /\ pageSize \in Nat \ {0}
  BY DEF SInv
<1> QED
  BY <1>1, <1>2, <1>3, <1>4, ShapeFacts

\* mulle_structqueue_reserve counts one more element.
LEMMA ReserveSound ==
  ASSUME StorageFits, pageSize \in Nat \ {0}, NEW o, Sound(o, pageSize), o.freed = 0,
         o.structs < MaxBuckets * Capacity, NEW r \in Reserve(o)
  PROVE  Sound(r, pageSize) /\ r.structs = o.structs + 1
<1> DEFINE n == o.structs
<1>0. pageSize \in Nat /\ n \in Nat /\ n \in Node
  <2>1. n \in 0 .. MaxBuckets * Capacity
    BY DEF Sound, Counts
  <2> QED
    BY <2>1, StorageBounds DEF Node
<1>1. PICK e \in IF n % Capacity # 0 THEN {o} ELSE NewBucket(o, BucketOf(n)) :
        r = State(e.arena, e.block, e.structs + 1, e.freed)
  BY DEF Reserve
<1>2. Sound(e, pageSize) /\ e.structs = n /\ e.block[BucketOf(n)] # NoBlock
  <2>1. CASE n % Capacity # 0
    <3>1. e = o
      BY <1>1, <2>1
    <3>2. n # 0 /\ BucketOf(n) = BucketOf(n - 1)
      BY <1>0, <2>1, SameBucket
    <3>3. n - 1 \in 0 .. n - 1
      BY <1>0, <3>2
    <3>4. o.block[BucketOf(n - 1)] # NoBlock
      BY <3>3 DEF Sound, Counts
    <3> QED
      BY <3>1, <3>2, <3>4
  <2>2. CASE n % Capacity = 0
    <3>1. e \in NewBucket(o, BucketOf(n))
      BY <1>1, <2>2
    <3>2. BucketOf(n) \in Handle /\ BucketOf(n) # FreedArray
      BY <1>0, NodeInBucket
    <3> QED
      BY <3>1, <3>2, NewBucketSound
  <2> QED
    BY <2>1, <2>2
<1>3. r.structs = n + 1
  BY <1>1, <1>2, StateFields
<1>4. Sound(State(e.arena, e.block, e.structs + 1, e.freed), pageSize)
  BY <1>0, <1>2, OneMore
<1> QED
  BY <1>1, <1>3, <1>4

\* The last slot in use points to one node, which is reserved.
LEMMA SlotRead ==
  ASSUME SInv, freedCount # 0
  PROVE  \E n \in 0 .. structs - 1 : Pointed(System, freedCount - 1) = {n}
<1> DEFINE i == freedCount - 1
           array == block[FreedArray]
<1>1. /\ freedCount \in Nat \ {0} /\ i \in 0 .. freedCount - 1 /\ SizeT \in Nat \ {0}
      /\ structs \in Nat /\ structs <= MaxBuckets * Capacity
  BY SInvFacts, Bounds
<1>2. array # NoBlock
  <2>1. freedCount * SizeT <= array.size
    BY SInvFacts, SystemFields DEF Counts
  <2>2. 1 * SizeT <= freedCount * SizeT /\ 1 * SizeT = SizeT /\ freedCount * SizeT \in Nat
    BY <1>1, Monotone
  <2>3. NoBlock.size = 0
    BY DEF NoBlock, Block
  <2> QED
    BY <1>1, <2>1, <2>2, <2>3
<1>3. PICK n \in 0 .. structs - 1 : Known(mem, array.addr + i * SizeT, SizeT, Pointer(n))
  <2>1. \A j \in 0 .. freedCount - 1 : \E n \in 0 .. structs - 1 :
          Known(Now.mem, array.addr + j * SizeT, SizeT, Pointer(n))
    BY <1>2, SInvFacts, SystemFields DEF ArrayReads
  <2> QED
    BY <1>1, <2>1 DEF Now
<1> DEFINE at == SlotAt(block, i)
<1>4. at = array.addr + i * SizeT
  BY DEF SlotAt
<1>5. at \in Int
  <2>1. array.addr \in Nat
    <3>1. Mine(block) /\ FreedArray \in Handle
      BY SInvFacts, StorageBounds
    <3> QED
      BY <3>1 DEF Mine, BlockType
  <2>2. i * SizeT \in Nat
    BY <1>1, SlotIn
  <2> QED
    BY <1>4, <2>1, <2>2
<1> HIDE DEF at, i, array
<1>6. \A x \in Span(at, SizeT) : mem[x] = Pointer(n)
  BY <1>3, <1>4 DEF Known
<1>7. at \in Span(at, SizeT)
  BY <1>1, <1>5 DEF Span
<1>8. n \in Node
  BY <1>1, StorageBounds DEF Node
<1>9. \A k : Pointer(k) = Pointer(n) => k = n
  <2>1. \A k : Pointer(k).node = k
    BY DEF Pointer
  <2> QED
    BY <2>1
<1>10. {k \in Node : \A x \in Span(at, SizeT) : mem[x] = Pointer(k)} = {n}
  BY <1>6, <1>7, <1>8, <1>9
<1>11. Pointed(System, i) = {n}
  <2>1. System.arena.mem = mem /\ System.block = block
    BY SystemFields DEF Now
  <2> QED
    BY <1>10, <2>1 DEF Pointed, at
<1> QED
  BY <1>11 DEF i

\* _mulle_storage_malloc returns a node that is reserved.
LEMMA MallocSound ==
  ASSUME StorageFits, SInv, up, NEW p \in Node, NEW o \in MallocNode(p)
  PROVE  /\ Sound(o, pageSize) /\ o.structs \in Nat
         /\ p \in 0 .. o.structs - 1 /\ structs <= o.structs
<1>1. /\ pageSize \in Nat \ {0} /\ pageSize \in Nat /\ Sound(System, pageSize)
      /\ structs \in Nat /\ freedCount \in Nat
  BY SInvFacts
<1>2. CASE freedCount = 0
  <2>1. p = structs /\ o \in Reserve(System)
    BY <1>2 DEF MallocNode
  <2>2. structs < MaxBuckets * Capacity
    BY <1>1, <2>1, StorageBounds DEF Node
  <2>3. Sound(o, pageSize) /\ o.structs = structs + 1
    BY <1>1, <1>2, <2>1, <2>2, SystemFields, ReserveSound
  <2> QED
    BY <1>1, <2>1, <2>3
<1>3. CASE freedCount # 0
  <2>1. Pointed(System, freedCount - 1) \in {{}, {p}} /\ o = State(Now, block, structs, freedCount - 1)
    BY <1>3 DEF MallocNode
  <2>2. PICK n \in 0 .. structs - 1 : Pointed(System, freedCount - 1) = {n}
    BY <1>3, SlotRead
  <2>3. p = n
    BY <2>1, <2>2
  <2>4. Sound(o, pageSize)
    BY <1>1, <1>3, <2>1, SystemFields, OneLess
  <2>5. o.structs = structs
    BY <2>1, StateFields
  <2> QED
    BY <1>1, <2>2, <2>3, <2>4, <2>5
<1> QED
  BY <1>2, <1>3

-----------------------------------------------------------------------------
(***************************************************************************)
(* The freed array.                                                        *)
(***************************************************************************)

\* There is a slot that is not in use.
HasRoom(o) ==
  o.block[FreedArray] # NoBlock /\ (o.freed + 1) * SizeT <= o.block[FreedArray].size

\* The slots in use say at the address to of k what they said before.
SlotsCopied(o, k, to) ==
  \A i \in 0 .. o.freed - 1 : \A n \in Node :
    Known(o.arena.mem, o.block[FreedArray].addr + i * SizeT, SizeT, Pointer(n)) =>
      Known(k, to + i * SizeT, SizeT, Pointer(n))

\* Without an array nothing was freed.
LEMMA NothingFreed ==
  ASSUME NEW o, Counts(o), o.block[FreedArray] = NoBlock
  PROVE  o.freed = 0
<1>1. o.freed \in Nat /\ o.freed * SizeT <= 0 /\ SizeT \in Nat \ {0}
  <2>1. NoBlock.size = 0
    BY DEF NoBlock, Block
  <2> QED
    BY <2>1, Bounds DEF Counts
<1>2. ASSUME 1 <= o.freed PROVE FALSE
  <2>1. 1 * SizeT <= o.freed * SizeT /\ 1 * SizeT = SizeT /\ o.freed * SizeT \in Nat
    BY <1>1, <1>2, Monotone
  <2> QED
    BY <1>1, <2>1
<1> QED
  BY <1>1, <1>2

\* An array in the place of another, or the first one, that has what was in use.
LEMMA NewArray ==
  ASSUME NEW ps \in Nat, NEW o, Sound(o, ps), NEW c, NEW nb \in BlockType,
         StorageBlock(FreedArray, nb), Shape(c, ps, [o.block EXCEPT ![FreedArray] = nb]),
         Known(c.mem, nb.addr - SizeT, SizeT, Header(nb.size)),
         SlotsCopied(o, c.mem, nb.addr), (o.freed + 1) * SizeT <= nb.size,
         NEW r, r = State(c, [o.block EXCEPT ![FreedArray] = nb], o.structs, o.freed)
  PROVE  Sound(r, ps) /\ HasRoom(r) /\ r.structs = o.structs /\ r.freed = o.freed
         /\ SlotsCopied(o, r.arena.mem, r.block[FreedArray].addr)
<1> DEFINE d == [o.block EXCEPT ![FreedArray] = nb]
<1>1. r.arena = c /\ r.block = d /\ r.structs = o.structs /\ r.freed = o.freed
  BY StateFields
<1>2. /\ Mine(o.block) /\ Counts(o) /\ ArrayReads(o) /\ o.block \in [Handle -> BlockType]
      /\ FreedArray \in Handle
  BY ShapeFacts, StorageBounds DEF Sound
<1>3. d[FreedArray] = nb /\ \A g \in Handle : g # FreedArray => d[g] = o.block[g]
  BY <1>2
<1> HIDE DEF d
<1>4. nb # NoBlock /\ nb.size \in Nat
  BY <1>2, StorageBlockFields
<1>5. /\ o.structs \in Nat /\ o.structs <= MaxBuckets * Capacity /\ o.freed \in Nat
  BY <1>2, StorageBounds DEF Counts
<1>6. Counts(r)
  <2>1. o.freed * SizeT <= nb.size
    <3>1. o.freed * SizeT <= (o.freed + 1) * SizeT /\ o.freed * SizeT \in Nat
          /\ (o.freed + 1) * SizeT \in Nat
      <4>1. o.freed <= o.freed + 1 /\ o.freed + 1 \in Nat /\ SizeT \in Nat
        BY <1>5, Bounds
      <4> QED
        BY <1>5, <4>1, Monotone
    <3> QED
      BY <1>4, <3>1
  <2>2. ASSUME NEW n \in 0 .. o.structs - 1 PROVE d[BucketOf(n)] # NoBlock
    <3>1. BucketOf(n) \in Handle /\ BucketOf(n) # FreedArray /\ o.block[BucketOf(n)] # NoBlock
      BY NodeBytes
    <3> QED
      BY <1>3, <3>1
  <2>3. r.structs \in 0 .. MaxBuckets * Capacity
    BY <1>1, <1>2 DEF Counts
  <2>4. r.block[FreedArray] = nb
    BY <1>1, <1>3
  <2> QED
    BY <1>1, <1>5, <2>1, <2>2, <2>3, <2>4 DEF Counts
<1>7. ArrayReads(r)
  <2>1. ASSUME NEW i \in 0 .. o.freed - 1
        PROVE  \E n \in 0 .. o.structs - 1 : Known(c.mem, nb.addr + i * SizeT, SizeT, Pointer(n))
    <3>1. o.block[FreedArray] # NoBlock
      BY <1>2, <1>5, NothingFreed
    <3>2. \A n \in 0 .. o.structs - 1 : n \in Node
      BY <1>5, StorageBounds DEF Node
    <3>3. PICK n \in 0 .. o.structs - 1 :
            Known(o.arena.mem, o.block[FreedArray].addr + i * SizeT, SizeT, Pointer(n))
      BY <1>2, <3>1 DEF ArrayReads
    <3> QED
      BY <3>2, <3>3 DEF SlotsCopied
  <2>2. r.block[FreedArray] = nb
    BY <1>1, <1>3
  <2> QED
    BY <1>1, <2>1, <2>2 DEF ArrayReads
<1>8. Shape(r.arena, ps, r.block)
  BY <1>1 DEF d
<1>9. HasRoom(r)
  BY <1>1, <1>3, <1>4 DEF HasRoom
<1>10. SlotsCopied(o, r.arena.mem, r.block[FreedArray].addr)
  <2>1. r.block[FreedArray] = nb /\ r.arena.mem = c.mem
    BY <1>1, <1>3
  <2> QED
    BY <2>1
<1> QED
  BY <1>1, <1>6, <1>7, <1>8, <1>9, <1>10 DEF Sound

\* The size of k slots is one to ask for.
LEMMA SlotsAsked ==
  ASSUME NEW k \in Nat \ {0}, AddrMax + k * SizeT + 2 * MaxAlign < SizeMax
  PROVE  Asked(FreedArray, k * SizeT)
<1> DEFINE total == k * SizeT
<1>1. SizeT \in Nat \ {0}
  BY Bounds
<1>2. total \in Nat \ {0} /\ SizeT <= total /\ total % SizeT = 0
  <2>1. 1 * SizeT <= k * SizeT /\ k * SizeT \in Nat /\ 1 * SizeT = SizeT
    BY <1>1, Monotone
  <2>2. (SizeT * k + 0) % SizeT = 0 /\ SizeT * k + 0 = k * SizeT
    BY <1>1, RemainderOfSum
  <2> QED
    BY <1>1, <2>1, <2>2
<1> QED
  BY <1>2 DEF Asked, Fits

\* So is that of the first slots.
LEMMA FirstAsked ==
  ASSUME StorageFits
  PROVE  Asked(FreedArray, FirstSlots * SizeT)
<1>1. FirstSlots \in Nat \ {0} /\ AddrMax + FirstSlots * SizeT + 2 * MaxAlign < SizeMax
  BY StorageBounds DEF StorageFits
<1> QED
  BY <1>1, SlotsAsked

\* The array gets its first slots from the allocator.
LEMMA FirstArray ==
  ASSUME StorageFits, pageSize \in Nat \ {0}, NEW o, Sound(o, pageSize),
         o.block[FreedArray] = NoBlock, NEW total, Asked(FreedArray, total),
         NEW c \in HeaderAlloc(o.arena, total), NEW r, r = Obtain(o, FreedArray, c, total)
  PROVE  Sound(r, pageSize) /\ HasRoom(r) /\ r.structs = o.structs /\ r.freed = o.freed
         /\ SlotsCopied(o, r.arena.mem, r.block[FreedArray].addr)
<1> DEFINE nb == VtableBlock(c, total, 0, Zero)
<1>0. pageSize \in Nat /\ FreedArray \in Handle
  BY StorageBounds
<1>1. SizeT \in Nat \ {0}
  BY Bounds
<1>2. Asked(FreedArray, total)
  OBVIOUS
<1>3. total \in Nat \ {0} /\ SizeT <= total
  BY <1>2 DEF Asked, Fits
<1>4. Shape(o.arena, pageSize, o.block)
  BY DEF Sound
<1>5. nb = VtableBlock(c, total, 0, Zero) /\ c \in HeaderAlloc(o.arena, total)
  OBVIOUS
<1>6. r = State(c, [o.block EXCEPT ![FreedArray] = nb], o.structs, o.freed)
  BY DEF Obtain
<1> HIDE DEF nb
<1>7. /\ Shape(c, pageSize, [o.block EXCEPT ![FreedArray] = nb])
      /\ nb \in BlockType /\ StorageBlock(FreedArray, nb)
      /\ nb.addr = c.last + SizeT /\ nb.size = total
      /\ Known(c.mem, c.last, SizeT, Header(total))
  BY <1>0, <1>2, <1>4, <1>5, AllocShape
<1>8. nb.addr - SizeT = c.last
  <2>1. c.last \in Nat
    BY <1>0, <1>7, ShapeFacts, StateType
  <2> QED
    BY <1>1, <1>7, <2>1
<1>9. o.freed = 0
  BY NothingFreed DEF Sound
<1>10. SlotsCopied(o, c.mem, nb.addr)
  BY <1>9 DEF SlotsCopied
<1>11. (o.freed + 1) * SizeT <= nb.size
  BY <1>1, <1>3, <1>7, <1>9
<1>12. Known(c.mem, nb.addr - SizeT, SizeT, Header(nb.size))
  BY <1>7, <1>8
<1> QED
  BY <1>0, <1>6, <1>7, <1>10, <1>11, <1>12, NewArray

\* The array grows in place as long as the page has the room.
LEMMA ArrayInPlace ==
  ASSUME StorageFits, pageSize \in Nat \ {0}, NEW o, Sound(o, pageSize),
         NEW array, array = o.block[FreedArray], array # NoBlock,
         NEW total, Asked(FreedArray, total), (o.freed + 1) * SizeT <= total,
         array.addr - SizeT = o.arena.last, Wrap(array.addr + total) <= o.arena.sentinel,
         NEW c, c = Bump(o.arena, NextHeader(Wrap(array.addr + total)), o.arena.last,
                         WithHeader(o.arena.mem, array.addr - SizeT, total)),
         NEW r, r = Obtain(o, FreedArray, c, total)
  PROVE  Sound(r, pageSize) /\ HasRoom(r) /\ r.structs = o.structs /\ r.freed = o.freed
         /\ SlotsCopied(o, r.arena.mem, r.block[FreedArray].addr)
<1> DEFINE s == o.arena
           b == o.block
           a == array.addr
           to == NextHeader(Wrap(a + total))
           m == WithHeader(s.mem, s.last, total)
           nb == VtableBlock(c, total, 0, Zero)
           d == [b EXCEPT ![FreedArray] = nb]
<1>0. /\ pageSize \in Nat /\ FreedArray \in Handle
      /\ SizeT \in Nat \ {0} /\ MaxAlign \in Nat \ {0} /\ SizeT <= MaxAlign /\ AddrMax \in Nat
      /\ SizeMax \in Nat
  BY StorageBounds, Bounds
<1>1. /\ Shape(s, pageSize, b) /\ s \in ArenaState /\ Mine(b) /\ b \in [Handle -> BlockType]
      /\ Layout(s, pageSize, Own(b)) /\ PagesOK(s, pageSize) /\ CursorOK(s)
      /\ LastOK(s, Own(b)) /\ Own(b) \in [Handle -> BlockType] /\ Solid(Own(b))
  BY <1>0, ShapeFacts, Owned DEF Sound
<1>2. /\ a \in Nat /\ array.size \in Nat \ {0} /\ SizeT <= array.size
      /\ Start(array) = a - SizeT /\ StorageBlock(FreedArray, array)
      /\ Holds(s, a - SizeT, a + array.size - SizeT) /\ 1 <= a - SizeT
      /\ o.freed \in Nat /\ o.freed * SizeT \in Nat /\ o.freed * SizeT <= array.size
  BY <1>0, ArrayFacts
<1>3. /\ total \in Nat \ {0} /\ SizeT <= total /\ Fits(total)
      /\ AddrMax + total + 2 * MaxAlign < SizeMax
  BY DEF Asked, Fits
<1>4. /\ s.last = a - SizeT /\ s.last \in Nat /\ s.last # Null /\ s.current \in Nat
      /\ s.sentinel \in Nat /\ s.sentinel <= AddrMax + 1 /\ s.mem \in [Addr -> Cell]
      /\ s.pages \in Seq(Page) /\ s.index \in Nat
  <2>1. s.last = a - SizeT
    OBVIOUS
  <2>2. s.sentinel <= AddrMax + 1
    BY <1>0, <1>1, CursorInMemory
  <2>3. /\ s.last \in Nat /\ s.current \in Nat /\ s.sentinel \in Nat /\ s.mem \in [Addr -> Cell]
        /\ s.pages \in Seq(Page) /\ s.index \in Nat
    BY <1>1, StateType
  <2> HIDE DEF s, a
  <2> QED
    BY <1>2, <2>1, <2>2, <2>3 DEF Null
<1>5. a <= AddrMax + 1
  <2>1. a - SizeT \in Int /\ a + array.size - SizeT \in Int
    BY <1>0, <1>2
  <2>2. a + array.size - SizeT <= AddrMax + 1
    BY <1>1, <1>2, <2>1, HeldInMemory
  <2> HIDE DEF a
  <2> QED
    BY <1>0, <1>2, <2>2
<1>6. Wrap(a + total) = a + total /\ a + total <= s.sentinel /\ a + total <= AddrMax + 1
  <2>1. a + total \in Nat /\ a + total <= SizeMax
    BY <1>0, <1>2, <1>3, <1>5
  <2>2. Wrap(a + total) = a + total
    BY <2>1, NoWrap
  <2> QED
    BY <1>0, <1>4, <2>1, <2>2
<1>7. /\ to \in Nat /\ a + total <= to + SizeT /\ to <= a + total + MaxAlign
      /\ (to + SizeT) % MaxAlign = 0
  <2>1. RoomFor(total, total)
    BY <1>3, RoomForArray
  <2>2. a % MaxAlign = 0
    BY <1>2 DEF StorageBlock
  <2> HIDE DEF a
  <2> QED
    BY <1>2, <1>6, <2>1, <2>2 DEF RoomFor
<1>8. s.pages # <<>> /\ s.index < Len(s.pages) /\ Base(s) <= s.last /\ s.sentinel <= Top(s)
      /\ Base(s) \in Nat /\ Top(s) \in Nat /\ s.index + 1 \in 1 .. Len(s.pages)
  <2>1. s.pages # <<>> /\ s.index < Len(s.pages) /\ s.sentinel <= Top(s)
    BY <1>1, <1>4 DEF CursorOK
  <2>2. Base(s) <= s.last
    BY <1>1, <1>4 DEF LastOK
  <2> QED
    BY <1>1, <2>1, <2>2, CurrentPage
<1>9. /\ m \in [Addr -> Cell]
      /\ \A x \in Addr : m[x] # s.mem[x] => s.last <= x /\ x < s.last + SizeT
      /\ Known(m, s.last, SizeT, Header(total))
  <2>1. s.last \in Nat \ {0} /\ s.last + SizeT <= AddrMax + 1 /\ total \in Nat
    <3>1. s.last = a - SizeT /\ a \in Nat /\ a <= AddrMax + 1 /\ 1 <= a - SizeT
      BY <1>2, <1>4, <1>5
    <3> HIDE DEF s, a
    <3> QED
      BY <1>0, <1>3, <3>1
  <2> QED
    BY <1>4, <2>1, HeaderStored
<1>10. c = Bump(s, to, s.last, m)
  BY <1>4
<1> HIDE DEF s, b, a, to, m, d
<1>11. /\ c \in ArenaState /\ c.pages = s.pages /\ c.index = s.index /\ c.current = to
       /\ c.sentinel = s.sentinel /\ c.last = s.last /\ c.mem = m
  <2>1. /\ s.pages \in Seq(Page) /\ s.index \in Nat /\ to \in Nat /\ s.sentinel \in Nat
        /\ s.last \in Nat /\ m \in [Addr -> Cell]
    BY <1>4, <1>7, <1>9
  <2>2. Bump(s, to, s.last, m) \in ArenaState
    BY ONLY <2>1, MadeState DEF Bump
  <2> QED
    BY ONLY <1>10, <2>2 DEF Bump
<1>12. nb \in BlockType /\ StorageBlock(FreedArray, nb) /\ nb.addr = a /\ nb.size = total
  <2>1. c.last + SizeT = a
    <3>1. a \in Nat /\ SizeT \in Nat /\ s.last = a - SizeT /\ c.last = s.last
      BY <1>0, <1>2, <1>4, <1>11
    <3> QED
      BY ONLY <3>1
  <2>2. (c.last + SizeT) % MaxAlign = 0
    BY <1>2, <2>1 DEF StorageBlock, a
  <2>3. c \in ArenaState /\ FreedArray \in Handle /\ Asked(FreedArray, total)
    BY <1>0, <1>11
  <2>4. /\ nb \in BlockType /\ StorageBlock(FreedArray, nb)
        /\ nb.addr = c.last + SizeT /\ nb.size = total
    BY ONLY <2>2, <2>3, AskedBlock
  <2> HIDE DEF nb
  <2> QED
    BY <2>1, <2>4
<1> HIDE DEF nb
<1>13. /\ nb # NoBlock /\ Start(nb) = s.last /\ End(nb) = a + total
       /\ Trim(nb) \in BlockType /\ Start(Trim(nb)) = s.last /\ End(Trim(nb)) = a + total - SizeT
  <2>1. nb # NoBlock /\ Start(nb) = a - SizeT /\ End(nb) = a + total
    BY <1>0, <1>12, StorageBlockFields
  <2>2. Trim(nb) \in BlockType /\ Start(Trim(nb)) = Start(nb) /\ End(Trim(nb)) = End(nb) - SizeT
    BY <1>12, Trimmed
  <2>3. s.last = a - SizeT
    BY <1>4
  <2>4. End(Trim(nb)) = a + total - SizeT
    BY <1>0, <1>2, <1>3, <2>1, <2>2
  <2> QED
    BY <2>1, <2>2, <2>3, <2>4
<1>14. Layout(c, pageSize, Own(d))
  <2>1. Own(d) = [Own(b) EXCEPT ![FreedArray] = Trim(nb)]
    BY <1>0, <1>1 DEF Own, d
  <2>2. Own(b)[FreedArray] # NoBlock /\ Start(Own(b)[FreedArray]) = s.last
    BY <1>0, <1>1, <1>2, <1>4, Owned DEF b
  <2>3. End(Trim(nb)) <= to /\ s.last <= to /\ End(Trim(nb)) <= Top(s)
    BY <1>0, <1>2, <1>3, <1>4, <1>6, <1>7, <1>8, <1>13
  <2> DEFINE t == Trim(nb)
  <2>4. t \in BlockType /\ Start(t) = s.last /\ End(t) <= to /\ End(t) <= Top(s)
    BY <1>13, <2>3
  <2> HIDE DEF t
  <2>5. Layout(Bump(s, to, s.last, m), pageSize, [Own(b) EXCEPT ![FreedArray] = t])
    <3> DEFINE e == Own(b)
    <3>1. /\ s \in ArenaState /\ pageSize \in Nat /\ e \in [Handle -> BlockType]
          /\ Layout(s, pageSize, e) /\ Solid(e) /\ s.last # Null
          /\ FreedArray \in Handle /\ e[FreedArray] # NoBlock /\ Start(e[FreedArray]) = s.last
          /\ to \in Nat /\ m \in [Addr -> Cell] /\ s.last <= to
      BY <1>0, <1>1, <1>4, <1>7, <1>9, <2>2, <2>3
    <3> HIDE DEF e
    <3>2. Layout(Bump(s, to, s.last, m), pageSize, [e EXCEPT ![FreedArray] = t])
      BY ONLY <2>4, <3>1, GrownInPlace
    <3> QED
      BY <3>2 DEF e
  <2> QED
    BY <1>10, <2>1, <2>5 DEF t
<1>15. Shape(c, pageSize, d)
  <2>1. d[FreedArray] = nb /\ \A g \in Handle : g # FreedArray => d[g] = b[g]
    BY <1>0, <1>1 DEF d
  <2>2. Mine(d)
    BY <1>1, <1>12 DEF Mine, d
  <2>3. HeadReady(c)
    <3>1. to <= s.sentinel + MaxAlign
      <4>1. /\ a + total <= s.sentinel /\ to <= a + total + MaxAlign
            /\ a \in Nat /\ total \in Nat /\ s.sentinel \in Nat /\ to \in Nat /\ MaxAlign \in Nat
        BY <1>0, <1>2, <1>3, <1>4, <1>6, <1>7
      <4> QED
        BY ONLY <4>1
    <3> QED
      BY <1>7, <1>11, <3>1 DEF HeadReady
  <2>4. Reached(c, Start(nb), End(nb))
    <3>1. Base(s) <= Start(nb) /\ End(nb) <= Top(s)
      BY <1>2, <1>3, <1>4, <1>6, <1>8, <1>13
    <3>2. s.index + 1 <= s.index + 1
      BY <1>4
    <3> QED
      BY <1>8, <1>11, <3>1, <3>2 DEF Reached, Base, Top
  <2>5. \E g \in Handle : d[g] # NoBlock /\ Start(d[g]) = c.last
    BY <1>0, <1>11, <1>13, <2>1
  <2> QED
    BY <1>11, <1>14, <2>1, <2>2, <2>3, <2>4, <2>5 DEF Shape
<1>16. Known(c.mem, nb.addr - SizeT, SizeT, Header(nb.size))
  BY <1>4, <1>9, <1>11, <1>12
<1>17. SlotsCopied(o, c.mem, nb.addr)
  <2> SUFFICES ASSUME NEW i \in 0 .. o.freed - 1, NEW n \in Node,
                      Known(s.mem, a + i * SizeT, SizeT, Pointer(n))
               PROVE  Known(m, a + i * SizeT, SizeT, Pointer(n))
    BY <1>11, <1>12 DEF SlotsCopied, s, a
  <2> DEFINE at == a + i * SizeT
             v == Pointer(n)
             hi == at + SizeT
  <2>1. at \in Int /\ hi \in Int /\ a <= at /\ a \in Int
    BY <1>0, <1>2, SlotIn
  <2>2. SameBytes(s.mem, m, a, hi)
    <3> HIDE DEF hi
    <3>1. \A x \in Addr : x \in Int
      BY Bounds DEF Addr
    <3> QED
      BY <1>0, <1>4, <1>9, <2>1, <3>1 DEF SameBytes
  <2>3. at + SizeT <= hi /\ SizeT \in Int /\ Known(s.mem, at, SizeT, v)
    BY <1>0, <2>1
  <2> HIDE DEF at, v, hi
  <2>4. Known(m, at, SizeT, v)
    BY <2>1, <2>2, <2>3, KnownStays
  <2> QED
    BY <2>4 DEF at, v
<1>18. r = State(c, [o.block EXCEPT ![FreedArray] = nb], o.structs, o.freed)
  BY DEF Obtain, nb
<1>19. Shape(c, pageSize, [o.block EXCEPT ![FreedArray] = nb]) /\ (o.freed + 1) * SizeT <= nb.size
  BY <1>12, <1>15 DEF d, b
<1>20. Sound(o, pageSize) /\ nb \in BlockType /\ StorageBlock(FreedArray, nb)
  BY <1>12
<1> QED
  BY ONLY <1>0, <1>16, <1>17, <1>18, <1>19, <1>20, NewArray

\* An array that moves loses none of its bytes to the header of its new block:
\* the header goes to a new page, or behind the bucket that follows the array.
LEMMA ArrayBytesStay ==
  ASSUME StorageFits, pageSize \in Nat \ {0}, NEW o, Sound(o, pageSize),
         NEW array, array = o.block[FreedArray], array # NoBlock,
         NEW total, Asked(FreedArray, total),
         ~(array.addr - SizeT = o.arena.last /\ Wrap(array.addr + total) <= o.arena.sentinel),
         NEW c \in HeaderAlloc(o.arena, total)
  PROVE  SameBytes(o.arena.mem, c.mem, array.addr - SizeT, array.addr + array.size)
<1> DEFINE s == o.arena
           b == o.block
           lo == array.addr - SizeT
           hi == array.addr + array.size
<1>0. /\ pageSize \in Nat /\ FreedArray \in Handle
      /\ SizeT \in Nat \ {0} /\ MaxAlign \in Nat \ {0} /\ SizeT <= MaxAlign /\ AddrMax \in Nat
      /\ SizeMax \in Nat
  BY StorageBounds, Bounds
<1>1. /\ Shape(s, pageSize, b) /\ s \in ArenaState /\ Mine(b) /\ b \in [Handle -> BlockType]
      /\ PagesOK(s, pageSize) /\ CursorOK(s) /\ HeadReady(s)
      /\ LastOK(s, Own(b)) /\ BlocksOK(s, Own(b))
  BY <1>0, ShapeFacts DEF Sound
<1>2. /\ array.addr \in Nat /\ array.size \in Nat \ {0} /\ SizeT <= array.size
      /\ Start(array) = lo /\ StorageBlock(FreedArray, array)
      /\ Holds(s, lo, hi - SizeT) /\ Reached(s, lo, hi) /\ 1 <= lo
  BY <1>0, ArrayFacts
<1>3. lo \in Int /\ hi \in Int /\ hi - SizeT \in Int /\ lo < hi
  BY <1>0, <1>2
<1>4. /\ total \in Nat \ {0} /\ SizeT <= total /\ Fits(total)
      /\ AddrMax + total + 2 * MaxAlign < SizeMax
  BY DEF Asked, Fits
<1>5. /\ s.last \in Nat /\ s.current \in Nat /\ s.sentinel \in Nat /\ s.index \in Nat
      /\ s.sentinel <= AddrMax + 1
  <2>1. s.sentinel <= AddrMax + 1
    BY <1>0, <1>1, CursorInMemory
  <2> QED
    BY <1>1, <2>1, StateType
<1>6. ~(lo = s.last /\ Wrap(array.addr + total) <= s.sentinel)
  OBVIOUS
<1>7. c \in HeaderAlloc(s, total) /\ array = b[FreedArray]
  OBVIOUS
<1> HIDE DEF s, b
<1>8. CASE ~HeaderFits(s, total)
  <2>1. \A x \in Addr : lo <= x /\ x < hi => c.mem[x] = s.mem[x]
    <3> HIDE DEF lo, hi
    <3> QED
      BY <1>1, <1>2, <1>3, <1>4, <1>7, <1>8, HeaderOnNewPage
  <2> QED
    BY <2>1 DEF SameBytes, s
<1>9. CASE HeaderFits(s, total)
  <2> DEFINE end == s.current + SizeT + total
  <2>1. end \in Nat /\ end <= s.sentinel /\ s.sentinel # Null /\ end <= SizeMax
    <3>1. s.current <= s.sentinel + MaxAlign
      BY <1>1 DEF HeadReady
    <3>2. end \in Nat /\ end <= SizeMax
      BY <1>0, <1>4, <1>5, <3>1
    <3>3. Wrap(end) <= s.sentinel /\ s.sentinel # Null
      BY <1>9 DEF HeaderFits
    <3> QED
      BY <3>2, <3>3, NoWrap
  <2>2. /\ s.index < Len(s.pages) /\ Base(s) <= s.current /\ s.sentinel <= Top(s)
        /\ s.index + 1 \in 1 .. Len(s.pages) /\ Base(s) \in Nat /\ Top(s) \in Nat
    <3>1. s.pages # <<>> /\ s.index < Len(s.pages) /\ Base(s) <= s.current /\ s.sentinel <= Top(s)
      BY <1>1, <2>1 DEF CursorOK
    <3> QED
      BY <1>1, <3>1, CurrentPage
  <2>3. PICK h \in Handle : b[h] # NoBlock /\ Start(b[h]) = s.last
    BY <1>0, <1>1, <1>7 DEF Shape, s, b
  <2> DEFINE x == b[h]
  <2>4. x \in BlockType /\ StorageBlock(h, x)
    BY <1>1, <2>3 DEF Mine
  <2>5. x.addr \in Nat /\ x.size \in Nat /\ Start(x) = x.addr - SizeT /\ End(x) = x.addr + x.size
    <3> HIDE DEF x
    <3> QED
      BY <2>4, StorageBlockFields
  <2>6. Holds(s, Start(Own(b)[h]), End(Own(b)[h])) /\ Start(Own(b)[h]) = s.last
    BY <1>1, <2>3, Owned DEF BlocksOK
  <2>7. s.last # Null /\ Base(s) <= s.last /\ s.last <= s.current
    <3>1. Own(b)[h] \in BlockType
      BY <1>1, Owned
    <3>2. Start(Own(b)[h]) \in Int /\ End(Own(b)[h]) \in Int
      BY <3>1, EndsType
    <3>3. 1 <= s.last
      BY <1>1, <2>6, <3>2, HeldInMemory
    <3> QED
      BY <1>1, <3>3 DEF LastOK, Null
  <2>8. ASSUME lo = s.last PROVE FALSE
    <3>1. array.addr + total \in Nat /\ array.addr + total <= end
      BY <1>0, <1>2, <1>4, <1>5, <2>7, <2>8
    <3>2. array.addr + total <= s.sentinel /\ array.addr + total <= SizeMax
      <4> HIDE DEF end
      <4> QED
        BY <1>0, <1>5, <2>1, <3>1
    <3>3. Wrap(array.addr + total) = array.addr + total
      BY <3>1, <3>2, NoWrap
    <3> QED
      BY <1>6, <2>8, <3>2, <3>3
  <2>9. h # FreedArray
    BY <1>2, <1>7, <2>3, <2>8
  <2>10. End(x) <= s.current
    <3>1. Own(b)[h] = x
      BY <1>1, <2>9, Owned
    <3>2. Start(x) \in Int /\ End(x) \in Int /\ Holds(s, s.last, End(x)) /\ s.last \in Int
      BY <1>5, <2>4, <2>6, <3>1, EndsType
    <3> HIDE DEF x
    <3>3. End(x) <= s.current \/ Top(s) <= s.last
      BY <1>0, <1>1, <2>2, <3>2, HeldBehindCursor
    <3>4. s.current < end
      BY <1>0, <1>4, <1>5
    <3>5. s.last < Top(s)
      <4> HIDE DEF end
      <4> QED
        BY <1>5, <2>1, <2>2, <2>7, <3>4
    <3> HIDE DEF end
    <3> QED
      BY <1>5, <2>2, <3>3, <3>5
  <2>11. s.last + SizeT <= End(x)
    <3>1. s.last = x.addr - SizeT
      BY <2>3, <2>5
    <3> HIDE DEF x
    <3> QED
      BY <1>0, <1>5, <2>5, <3>1
  <2>12. hi - SizeT <= s.last \/ Top(s) <= lo
    <3>1. Own(b)[FreedArray] # NoBlock /\ Start(Own(b)[FreedArray]) = lo
          /\ End(Own(b)[FreedArray]) = End(array) - SizeT
      BY <1>0, <1>1, <1>2, <1>7, Owned
    <3>2. End(array) = hi
      BY <1>0, <1>1, <1>2, <1>7, StorageBlockFields
    <3>3. Below(s, lo, End(array) - SizeT)
      BY <1>0, <1>1, <2>7, <2>8, <3>1 DEF LastOK
    <3> QED
      BY <3>2, <3>3 DEF Below
  <2>13. Holds(s, lo, hi)
    <3>1. PICK i \in 1 .. Len(s.pages) :
            /\ s.pages[i].base <= lo /\ hi <= s.pages[i].base + s.pages[i].size /\ i <= s.index + 1
      BY <1>2 DEF Reached
    <3>2. ASSUME i = s.index + 1 PROVE hi <= s.current
      <4>1. hi <= Top(s)
        BY <3>1, <3>2 DEF Top
      <4>2. End(x) \in Int
        BY <2>4, EndsType
      <4> DEFINE top == Top(s)
                 stop == End(x)
                 at == s.current
      <4>3. /\ lo \in Int /\ hi \in Int /\ top \in Int /\ stop \in Int /\ at \in Int
            /\ s.last \in Int /\ SizeT \in Int
            /\ hi <= top /\ stop <= at /\ s.last + SizeT <= stop /\ lo < hi
            /\ hi - SizeT <= s.last \/ top <= lo
        BY <1>0, <1>3, <1>5, <2>2, <2>10, <2>11, <2>12, <4>1, <4>2
      <4> HIDE DEF lo, hi, x, top, stop, at
      <4>4. hi <= at
        BY ONLY <4>3
      <4> QED
        BY <4>4 DEF at
    <3> HIDE DEF lo, hi
    <3> QED
      BY <3>1, <3>2 DEF Holds
  <2>14. \A l, g \in Int : Holds(s, l, g) => SameBytes(s.mem, c.mem, l, g)
    <3> DEFINE nb == VtableBlock(c, total, 0, Zero)
    <3>1. /\ StorageFits /\ pageSize \in Nat \ {0} /\ Shape(s, pageSize, b) /\ FreedArray \in Handle
          /\ Asked(FreedArray, total) /\ c \in HeaderAlloc(s, total)
          /\ nb = VtableBlock(c, total, 0, Zero)
      BY <1>0, <1>1, <1>7
    <3> HIDE DEF nb
    <3>2. /\ Shape(c, pageSize, [b EXCEPT ![FreedArray] = nb])
          /\ \A l, g \in Int : Holds(s, l, g) => SameBytes(s.mem, c.mem, l, g)
      BY ONLY <3>1, AllocShape
    <3> QED
      BY <3>2
  <2>15. SameBytes(s.mem, c.mem, lo, hi)
    <3> HIDE DEF lo, hi
    <3> QED
      BY <1>3, <2>13, <2>14
  <2> QED
    BY <2>15 DEF s
<1> QED
  BY <1>8, <1>9

\* Known bytes within what is copied are known in the copy.
LEMMA CopyOfSlot ==
  ASSUME NEW m, NEW to \in Int, NEW from \in Int, NEW n \in Int, NEW off \in Nat, NEW len \in Nat,
         off + len <= n, NEW v, Known(m, from + off, len, v), Span(to + off, len) \subseteq Addr
  PROVE  Known(CopyBytes(m, to, from, n), to + off, len, v)
<1> SUFFICES ASSUME NEW x \in Span(to + off, len)
             PROVE  x \in Addr /\ CopyBytes(m, to, from, n)[x] = v
  BY DEF Known
<1>1. x \in Addr /\ x \in Int /\ to + off <= x /\ x < to + off + len
  BY DEF Span
<1>2. from + (x - to) \in Span(from + off, len)
  BY <1>1 DEF Span
<1>3. from + (x - to) \in Addr /\ m[from + (x - to)] = v
  BY <1>2 DEF Known
<1>4. to <= x /\ x < to + n
  BY <1>1
<1> QED
  BY <1>1, <1>3, <1>4 DEF CopyBytes

\* The array moves, with all its slots.
LEMMA ArrayMoved ==
  ASSUME StorageFits, pageSize \in Nat \ {0}, NEW o, Sound(o, pageSize),
         NEW array, array = o.block[FreedArray], array # NoBlock,
         NEW total, Asked(FreedArray, total), (o.freed + 1) * SizeT <= total, array.size <= total,
         ~(array.addr - SizeT = o.arena.last /\ Wrap(array.addr + total) <= o.arena.sentinel),
         NEW e \in Reallocarray(o.arena, array.addr, total),
         NEW r, r = Obtain(o, FreedArray, e, total)
  PROVE  Sound(r, pageSize) /\ HasRoom(r) /\ r.structs = o.structs /\ r.freed = o.freed
         /\ SlotsCopied(o, r.arena.mem, r.block[FreedArray].addr)
<1> PICK c \in HeaderAlloc(o.arena, total), old \in HeaderSizes(o.arena.mem, array.addr, total) :
       e = [c EXCEPT !.mem = CopyBytes(@, c.last + SizeT, array.addr, Lesser(old, total))]
  BY DEF Reallocarray
<1> DEFINE s == o.arena
           b == o.block
           k == CopyBytes(c.mem, c.last + SizeT, array.addr, array.size)
           nb == VtableBlock(c, total, 0, Zero)
           d == [b EXCEPT ![FreedArray] = nb]
<1>0. /\ pageSize \in Nat /\ FreedArray \in Handle /\ SizeT \in Nat \ {0}
      /\ AddrMax \in Nat /\ SizeMax \in Nat /\ AddrMax <= SizeMax
  BY StorageBounds, Bounds
<1>1. /\ Shape(s, pageSize, b) /\ s \in ArenaState /\ Mine(b) /\ PagesOK(s, pageSize)
      /\ ArrayReads(o)
  BY <1>0, ShapeFacts DEF Sound
<1>2. /\ array.addr \in Nat /\ array.size \in Nat \ {0}
      /\ Holds(s, array.addr - SizeT, array.addr + array.size - SizeT) /\ 1 <= array.addr - SizeT
      /\ o.freed \in Nat /\ o.freed * SizeT \in Nat /\ o.freed * SizeT <= array.size
  BY <1>0, ArrayFacts
<1>3. total \in Nat \ {0}
  BY DEF Asked, Fits
<1>4. old = array.size
  <2>1. array.size <= AddrMax
    <3>1. array.addr - SizeT \in Int /\ array.addr + array.size - SizeT \in Int
      BY <1>0, <1>2
    <3>2. array.addr + array.size - SizeT <= AddrMax + 1
      BY <1>1, <1>2, <3>1, HeldInMemory
    <3> QED
      BY <1>0, <1>2, <3>2
  <2>2. array.size \in 0 .. SizeMax
    BY <1>0, <1>2, <2>1
  <2>3. \A x \in Span(array.addr - SizeT, SizeT) : s.mem[x] = Header(array.size)
    BY <1>1 DEF ArrayReads, Known
  <2>4. HeaderSizes(s.mem, array.addr, total) = {array.size}
    BY <1>2, <2>2, <2>3, HeaderRead
  <2> QED
    BY <2>4
<1>5. Lesser(old, total) = array.size
  BY <1>2, <1>3, <1>4 DEF Lesser
<1>6. SameBytes(s.mem, c.mem, array.addr - SizeT, array.addr + array.size)
  BY ArrayBytesStay
<1>7. /\ Shape(c, pageSize, d)
      /\ nb \in BlockType /\ StorageBlock(FreedArray, nb)
      /\ nb.addr = c.last + SizeT /\ nb.size = total
      /\ Known(c.mem, c.last, SizeT, Header(total))
      /\ c.last + SizeT + total <= c.sentinel
  <2>1. /\ StorageFits /\ pageSize \in Nat \ {0} /\ Shape(s, pageSize, b) /\ FreedArray \in Handle
        /\ Asked(FreedArray, total) /\ c \in HeaderAlloc(s, total)
        /\ nb = VtableBlock(c, total, 0, Zero)
    BY <1>0, <1>1
  <2> HIDE DEF nb, s, b
  <2> QED
    BY ONLY <2>1, AllocShape DEF d
<1>8. /\ c \in ArenaState /\ c.last \in Nat /\ c.sentinel \in Nat /\ c.mem \in [Addr -> Cell]
      /\ c.sentinel <= AddrMax + 1 /\ 1 <= c.last
  <2>1. c \in ArenaState /\ PagesOK(c, pageSize) /\ CursorOK(c) /\ LastOK(c, Own(d))
    BY <1>0, <1>7, ShapeFacts
  <2>2. c.last \in Nat /\ c.sentinel \in Nat /\ c.mem \in [Addr -> Cell] /\ c.sentinel <= AddrMax + 1
    BY <1>0, <2>1, StateType, CursorInMemory
  <2>3. Known(c.mem, c.last, SizeT, Header(total)) /\ c.last \in Span(c.last, SizeT)
    BY <1>0, <1>7, <2>2 DEF Span
  <2>4. c.last \in Addr
    BY <2>3 DEF Known
  <2> QED
    BY <2>1, <2>2, <2>4, Bounds DEF Addr
<1>9. /\ k \in [Addr -> Cell]
      /\ \A x \in Addr : k[x] # c.mem[x] =>
           c.last + SizeT <= x /\ x < c.last + SizeT + array.size
  <2>1. c.last + SizeT \in Int /\ array.addr \in Int /\ array.size \in Int
    BY <1>0, <1>2, <1>8
  <2> QED
    BY <1>8, <2>1, CopyBytesProperties
<1>10. e = Written(c, k)
  <2>1. e = [c EXCEPT !.mem = k]
    BY <1>5
  <2> HIDE DEF k
  <2> QED
    BY <1>8, <2>1 DEF Written, Bump, ArenaState
<1> HIDE DEF s, b, k, nb, d
<1>11. Shape(e, pageSize, d) /\ e.mem = k /\ e.last = c.last
  <2>1. Shape(e, pageSize, d)
    BY <1>0, <1>7, <1>9, <1>10, ShapeOfOther
  <2>2. e.mem = k /\ e.last = c.last
    BY <1>10 DEF Written, Bump
  <2> QED
    BY <2>1, <2>2
<1>12. nb = VtableBlock(e, total, 0, Zero)
  BY <1>11 DEF nb, VtableBlock
<1>13. nb.addr - SizeT = c.last
  BY <1>0, <1>7, <1>8
<1>14. Known(k, c.last, SizeT, Header(total))
  <2> DEFINE hi == c.last + SizeT
             v == Header(total)
  <2>1. SameBytes(c.mem, k, c.last, hi)
    <3>1. \A x \in Addr : x \in Int
      BY Bounds DEF Addr
    <3> QED
      BY <1>0, <1>8, <1>9, <3>1 DEF SameBytes
  <2>2. /\ c.last \in Int /\ hi \in Int /\ SizeT \in Int /\ c.last <= c.last
        /\ c.last + SizeT <= hi /\ Known(c.mem, c.last, SizeT, v)
    BY <1>0, <1>7, <1>8
  <2> HIDE DEF hi, v
  <2>3. Known(k, c.last, SizeT, v)
    BY ONLY <2>1, <2>2, KnownStays
  <2> QED
    BY <2>3 DEF v
<1>15. SlotsCopied(o, k, c.last + SizeT)
  <2> SUFFICES ASSUME NEW i \in 0 .. o.freed - 1, NEW n \in Node,
                      Known(s.mem, array.addr + i * SizeT, SizeT, Pointer(n))
               PROVE  Known(k, c.last + SizeT + i * SizeT, SizeT, Pointer(n))
    BY DEF SlotsCopied, s
  <2> DEFINE off == i * SizeT
             v == Pointer(n)
             to == c.last + SizeT
             from == array.addr
             lo == from - SizeT
             hi == from + array.size
  <2>1. off \in Nat /\ off + SizeT <= array.size
    <3>1. off \in Nat /\ off + SizeT <= o.freed * SizeT
      BY <1>2, SlotIn
    <3> HIDE DEF off
    <3> QED
      BY <1>0, <1>2, <3>1
  <2> HIDE DEF off
  <2>2. /\ lo \in Int /\ hi \in Int /\ lo <= from + off /\ (from + off) + SizeT <= hi
        /\ from + off \in Int /\ SizeT \in Int /\ from \in Int
    BY <1>0, <1>2, <2>1
  <2>3. Known(c.mem, from + off, SizeT, v)
    <3>1. Known(s.mem, from + off, SizeT, v) /\ SameBytes(s.mem, c.mem, lo, hi)
      BY <1>6 DEF off
    <3> HIDE DEF lo, hi, from, v
    <3> QED
      BY ONLY <2>2, <3>1, KnownStays
  <2>4. Span(to + off, SizeT) \subseteq Addr
    <3>1. to + off \in Nat /\ 1 <= to + off /\ to + off + SizeT <= AddrMax + 1
      BY <1>0, <1>2, <1>3, <1>7, <1>8, <2>1
    <3> HIDE DEF to
    <3> QED
      BY <1>0, <3>1 DEF Span, Addr
  <2>5. to \in Int /\ SizeT \in Nat /\ array.size \in Int
    BY <1>0, <1>2, <1>8
  <2> DEFINE size == array.size
  <2>6. /\ to \in Int /\ from \in Int /\ size \in Int /\ off \in Nat /\ SizeT \in Nat
        /\ off + SizeT <= size /\ Known(c.mem, from + off, SizeT, v)
        /\ Span(to + off, SizeT) \subseteq Addr /\ k = CopyBytes(c.mem, to, from, size)
    BY <2>1, <2>2, <2>3, <2>4, <2>5 DEF k
  <2> HIDE DEF to, from, v, size
  <2>7. Known(k, to + off, SizeT, v)
    BY ONLY <2>6, CopyOfSlot
  <2> QED
    BY <2>7 DEF to, v, off
<1>16. r = State(e, [o.block EXCEPT ![FreedArray] = nb], o.structs, o.freed)
  BY <1>12 DEF Obtain
<1>17. /\ Shape(e, pageSize, [o.block EXCEPT ![FreedArray] = nb])
       /\ Known(e.mem, nb.addr - SizeT, SizeT, Header(nb.size))
       /\ SlotsCopied(o, e.mem, nb.addr) /\ (o.freed + 1) * SizeT <= nb.size
  BY <1>7, <1>11, <1>13, <1>14, <1>15 DEF d, b
<1>18. nb \in BlockType /\ StorageBlock(FreedArray, nb) /\ Sound(o, pageSize)
  BY <1>7
<1> QED
  BY ONLY <1>0, <1>16, <1>17, <1>18, NewArray

\* Twice the size of an array that is full is a size to ask for.
LEMMA TwiceTheSize ==
  ASSUME StorageFits, NEW ps \in Nat, NEW o, Sound(o, ps),
         NEW array, array = o.block[FreedArray], array # NoBlock, ~(o.freed * SizeT < array.size)
  PROVE  /\ Asked(FreedArray, 2 * array.size) /\ (o.freed + 1) * SizeT <= 2 * array.size
         /\ array.size <= 2 * array.size
<1> DEFINE size == array.size
           q == size \div SizeT
           used == o.freed * SizeT
<1>1. /\ size \in Nat \ {0} /\ SizeT <= size /\ StorageBlock(FreedArray, array)
      /\ o.freed \in Nat /\ used \in Nat /\ used <= size /\ array.addr \in Nat
      /\ Holds(o.arena, array.addr - SizeT, array.addr + size - SizeT) /\ 1 <= array.addr - SizeT
  BY ArrayFacts
<1>2. SizeT \in Nat \ {0} /\ AddrMax \in Nat /\ SizeMax \in Nat /\ MaxAlign \in Nat
  BY Bounds
<1>3. used = size
  <2> HIDE DEF size, used
  <2>1. ~(used < size)
    BY DEF size, used
  <2> QED
    BY <1>1, <2>1
<1>4. size <= AddrMax
  <2>1. o.arena \in ArenaState /\ PagesOK(o.arena, ps)
    BY ShapeFacts DEF Sound
  <2>2. array.addr - SizeT \in Int /\ array.addr + size - SizeT \in Int
    BY <1>1, <1>2
  <2>3. array.addr + size - SizeT <= AddrMax + 1
    BY <1>1, <2>1, <2>2, HeldInMemory
  <2> HIDE DEF size
  <2> QED
    BY <1>1, <1>2, <2>3
<1>5. size % SizeT = 0
  BY <1>1 DEF StorageBlock
<1>6. q \in Nat /\ size = SizeT * q
  <2> HIDE DEF size
  <2>1. q \in Nat /\ size = SizeT * q + (size % SizeT)
    BY <1>1, <1>2, Remainder
  <2>2. SizeT * q \in Nat
    BY <1>2, <2>1
  <2> HIDE DEF q
  <2> QED
    BY <1>5, <2>1, <2>2
<1>7. (2 * size) % SizeT = 0
  <2> HIDE DEF size, q
  <2>1. (SizeT * (2 * q) + 0) % SizeT = 0 /\ SizeT * (2 * q) + 0 = 2 * (SizeT * q)
    BY <1>2, <1>6, RemainderOfSum
  <2> QED
    BY <1>6, <2>1
<1>8. Asked(FreedArray, 2 * size)
  <2>1. AddrMax + 2 * AddrMax + 2 * MaxAlign < SizeMax
    BY DEF StorageFits
  <2> HIDE DEF size
  <2>2. 2 * size \in Nat \ {0} /\ AddrMax + 2 * size + 2 * MaxAlign < SizeMax /\ SizeT <= 2 * size
    BY <1>1, <1>2, <1>4, <2>1
  <2> QED
    BY <1>7, <2>2 DEF Asked, Fits
<1>9. (o.freed + 1) * SizeT <= 2 * size
  <2>1. (o.freed + 1) * SizeT = used + SizeT
    BY <1>1, <1>2
  <2> HIDE DEF used, size
  <2> QED
    BY <1>1, <1>2, <1>3, <2>1
<1>10. size <= 2 * size
  <2> HIDE DEF size
  <2> QED
    BY <1>1
<1> QED
  BY <1>8, <1>9, <1>10

\* An array that is not full has a slot that is not in use.
LEMMA SpareSlot ==
  ASSUME NEW ps \in Nat, NEW o, Sound(o, ps), o.freed * SizeT < o.block[FreedArray].size
  PROVE  HasRoom(o)
<1> DEFINE size == o.block[FreedArray].size
           q == size \div SizeT
           used == o.freed * SizeT
<1>1. o.freed \in Nat /\ SizeT \in Nat \ {0} /\ used \in Nat
  <2>1. o.freed \in Nat /\ SizeT \in Nat \ {0}
    BY Bounds DEF Sound, Counts
  <2> QED
    BY <2>1, Monotone
<1>2. o.block[FreedArray] # NoBlock
  <2>1. NoBlock.size = 0
    BY DEF NoBlock, Block
  <2> HIDE DEF used
  <2>2. used < size
    BY DEF used
  <2> QED
    BY <1>1, <2>1, <2>2
<1>3. size \in Nat \ {0} /\ StorageBlock(FreedArray, o.block[FreedArray])
  BY <1>2, ArrayFacts
<1>4. size % SizeT = 0
  BY <1>3 DEF StorageBlock
<1>5. q \in Nat /\ size = SizeT * q
  <2> HIDE DEF size
  <2>1. q \in Nat /\ size = SizeT * q + (size % SizeT)
    BY <1>1, <1>3, Remainder
  <2>2. SizeT * q \in Nat
    BY <1>1, <2>1
  <2> HIDE DEF q
  <2> QED
    BY <1>4, <2>1, <2>2
<1>6. used < size
  OBVIOUS
<1> HIDE DEF size, q
<1>7. ASSUME q <= o.freed PROVE FALSE
  <2>1. q * SizeT <= used /\ q * SizeT = SizeT * q
    BY <1>1, <1>5, <1>7, Monotone
  <2> HIDE DEF used
  <2> QED
    BY <1>1, <1>3, <1>5, <1>6, <2>1
<1>8. (o.freed + 1) * SizeT <= size
  <2>1. o.freed + 1 <= q /\ o.freed + 1 \in Nat
    BY <1>1, <1>5, <1>7
  <2>2. (o.freed + 1) * SizeT <= q * SizeT /\ q * SizeT = SizeT * q
    BY <1>1, <1>5, <2>1, Monotone
  <2> QED
    BY <1>5, <2>2
<1> QED
  BY <1>2, <1>8 DEF HasRoom, size

\* There is room for one more pointer, whatever the array had to do for it.
LEMMA RoomSound ==
  ASSUME StorageFits, pageSize \in Nat \ {0}, NEW o, Sound(o, pageSize), NEW r \in Room(o)
  PROVE  Sound(r, pageSize) /\ HasRoom(r) /\ r.structs = o.structs /\ r.freed = o.freed
         /\ SlotsCopied(o, r.arena.mem, r.block[FreedArray].addr)
<1> DEFINE array == o.block[FreedArray]
           total == IF array = NoBlock THEN FirstSlots * SizeT ELSE 2 * array.size
<1>0. pageSize \in Nat
  OBVIOUS
<1>1. CASE o.freed * SizeT < array.size
  <2>1. r = o
    BY <1>1 DEF Room
  <2>2. SlotsCopied(o, o.arena.mem, array.addr)
    BY DEF SlotsCopied
  <2> QED
    BY <1>0, <1>1, <2>1, <2>2, SpareSlot
<1>2. CASE ~(o.freed * SizeT < array.size) /\ array = NoBlock
  <2>1. PICK c \in HeaderAlloc(o.arena, FirstSlots * SizeT) :
          r = Obtain(o, FreedArray, c, FirstSlots * SizeT)
    BY <1>2 DEF Room
  <2> QED
    BY <1>2, <2>1, FirstAsked, FirstArray
<1>3. CASE ~(o.freed * SizeT < array.size) /\ array # NoBlock
  <2> DEFINE size == 2 * array.size
  <2>1. PICK e \in Reallocarray(o.arena, array.addr, size) : r = Obtain(o, FreedArray, e, size)
    BY <1>3 DEF Room
  <2>2. Asked(FreedArray, size) /\ (o.freed + 1) * SizeT <= size /\ array.size <= size
    BY <1>0, <1>3, TwiceTheSize
  <2> HIDE DEF size
  <2>3. array = o.block[FreedArray] /\ array # NoBlock
    BY <1>3
  <2> HIDE DEF array
  <2>4. CASE array.addr - SizeT = o.arena.last /\ Wrap(array.addr + size) <= o.arena.sentinel
    <3>1. e = Bump(o.arena, NextHeader(Wrap(array.addr + size)), o.arena.last,
                   WithHeader(o.arena.mem, array.addr - SizeT, size))
      BY <2>1, <2>4 DEF Reallocarray
    <3> QED
      BY <2>1, <2>2, <2>3, <2>4, <3>1, ArrayInPlace
  <2>5. CASE ~(array.addr - SizeT = o.arena.last /\ Wrap(array.addr + size) <= o.arena.sentinel)
    <3>1. /\ StorageFits /\ pageSize \in Nat \ {0} /\ Sound(o, pageSize)
          /\ array = o.block[FreedArray] /\ array # NoBlock
          /\ Asked(FreedArray, size) /\ (o.freed + 1) * SizeT <= size /\ array.size <= size
          /\ ~(array.addr - SizeT = o.arena.last /\ Wrap(array.addr + size) <= o.arena.sentinel)
          /\ e \in Reallocarray(o.arena, array.addr, size) /\ r = Obtain(o, FreedArray, e, size)
      BY <2>1, <2>2, <2>3, <2>5
    <3> QED
      BY ONLY <3>1, ArrayMoved
  <2> QED
    BY <2>4, <2>5
<1> QED
  BY <1>1, <1>2, <1>3

\* A spare slot that points to a reserved node is counted.
LEMMA OneFreed ==
  ASSUME NEW ps \in Nat, NEW o, Sound(o, ps), HasRoom(o), NEW p \in 0 .. o.structs - 1,
         Known(o.arena.mem, SlotAt(o.block, o.freed), SizeT, Pointer(p))
  PROVE  Sound(State(o.arena, o.block, o.structs, o.freed + 1), ps)
<1> DEFINE q == State(o.arena, o.block, o.structs, o.freed + 1)
           array == o.block[FreedArray]
<1>1. /\ q.arena = o.arena /\ q.block = o.block
      /\ q.structs = o.structs /\ q.freed = o.freed + 1
  BY StateFields
<1>2. Shape(o.arena, ps, o.block) /\ Counts(o) /\ ArrayReads(o) /\ o.freed \in Nat
  BY DEF Sound, Counts
<1>3. array # NoBlock /\ (o.freed + 1) * SizeT <= array.size
  BY DEF HasRoom
<1> HIDE DEF q
<1>4. Counts(q)
  BY <1>1, <1>2, <1>3 DEF Counts
<1>5. ASSUME NEW i \in 0 .. q.freed - 1
      PROVE  \E n \in 0 .. q.structs - 1 :
               Known(q.arena.mem, array.addr + i * SizeT, SizeT, Pointer(n))
  <2>1. CASE i = o.freed
    BY <1>1, <2>1 DEF SlotAt
  <2>2. CASE i # o.freed
    <3>1. i \in 0 .. o.freed - 1
      BY <1>1, <1>2, <2>2
    <3>2. \E n \in 0 .. o.structs - 1 :
            Known(o.arena.mem, array.addr + i * SizeT, SizeT, Pointer(n))
      BY <1>2, <1>3, <3>1 DEF ArrayReads
    <3> QED
      BY <1>1, <3>2
  <2> QED
    BY <2>1, <2>2
<1>6. ArrayReads(q)
  <2>1. Known(q.arena.mem, array.addr - SizeT, SizeT, Header(array.size))
    BY <1>1, <1>2, <1>3 DEF ArrayReads
  <2>2. q.block[FreedArray] = array
    BY <1>1
  <2> HIDE DEF array
  <2> QED
    BY <1>5, <2>1, <2>2 DEF ArrayReads
<1>7. Shape(q.arena, ps, q.block)
  BY <1>1, <1>2
<1>8. Sound(q, ps)
  BY <1>4, <1>6, <1>7 DEF Sound
<1> QED
  BY <1>8 DEF q

\* The slot that is not in use is in memory, behind those in use.
LEMMA SpareSlotBytes ==
  ASSUME NEW ps \in Nat, NEW o, Sound(o, ps), HasRoom(o)
  PROVE  /\ SlotAt(o.block, o.freed) \in Nat
         /\ SlotAt(o.block, o.freed) = o.block[FreedArray].addr + o.freed * SizeT
         /\ Span(SlotAt(o.block, o.freed), SizeT) \subseteq Addr
<1> DEFINE array == o.block[FreedArray]
           used == o.freed * SizeT
           at == SlotAt(o.block, o.freed)
<1>1. /\ array.addr \in Nat /\ array.size \in Nat /\ used \in Nat /\ o.freed \in Nat
      /\ Reached(o.arena, array.addr - SizeT, array.addr + array.size) /\ 1 <= array.addr - SizeT
  BY ArrayFacts DEF HasRoom
<1>2. used + SizeT <= array.size
  <2>1. (o.freed + 1) * SizeT = used + SizeT
    BY <1>1, Bounds
  <2> QED
    BY <2>1 DEF HasRoom
<1>3. at = array.addr + used
  BY DEF SlotAt
<1>4. array.addr + array.size <= AddrMax + 1
  <2>1. o.arena \in ArenaState /\ PagesOK(o.arena, ps)
    BY ShapeFacts DEF Sound
  <2> DEFINE end == array.addr + array.size
  <2>2. PICK i \in 1 .. Len(o.arena.pages) :
          end <= o.arena.pages[i].base + o.arena.pages[i].size
    BY <1>1 DEF Reached
  <2>3. o.arena.pages[i].base + o.arena.pages[i].size <= AddrMax + 1
    BY <2>1 DEF PagesOK
  <2>4. end \in Nat
    BY <1>1
  <2> HIDE DEF end
  <2>5. o.arena.pages[i].base \in Nat /\ o.arena.pages[i].size \in Nat
    BY <2>1, StateType
  <2>6. end <= AddrMax + 1
    BY ONLY <2>2, <2>3, <2>4, <2>5, Bounds
  <2> QED
    BY <2>6 DEF end
<1> HIDE DEF used, at, array
<1>5. at \in Nat /\ Span(at, SizeT) \subseteq Addr
  <2>1. SizeT \in Nat \ {0} /\ AddrMax \in Nat
    BY Bounds
  <2>2. at \in Nat /\ 1 <= at /\ at + SizeT <= AddrMax + 1
    BY <1>1, <1>2, <1>3, <1>4, <2>1
  <2> QED
    BY <2>1, <2>2 DEF Span, Addr
<1> QED
  BY <1>3, <1>5 DEF at, array, used

\* The pointer to a node is put into that slot.
LEMMA PointerAdded ==
  ASSUME NEW ps \in Nat, NEW o, Sound(o, ps), HasRoom(o), NEW p \in 0 .. o.structs - 1,
         NEW m, m = Store(o.arena.mem, SlotAt(o.block, o.freed), SizeT, Pointer(p))
  PROVE  Sound(State(Written(o.arena, m), o.block, o.structs, o.freed + 1), ps)
<1> DEFINE q == InMemory(o, m)
           at == SlotAt(o.block, o.freed)
           array == o.block[FreedArray]
<1>1. /\ at \in Nat /\ at = array.addr + o.freed * SizeT /\ Span(at, SizeT) \subseteq Addr
  BY SpareSlotBytes
<1>2. o.arena \in ArenaState /\ o.arena.mem \in [Addr -> Cell] /\ SizeT \in Nat
  BY ShapeFacts, StateType, Bounds DEF Sound
<1>3. Pointer(p) \in Cell
  <2>1. p \in Node
    BY StorageBounds DEF Node, Sound, Counts
  <2> QED
    BY <2>1, StorageBytes
<1>4. /\ m \in [Addr -> Cell]
      /\ \A x \in Addr : m[x] = IF at <= x /\ x < at + SizeT THEN Pointer(p) ELSE o.arena.mem[x]
  <2> DEFINE v == Pointer(p)
             k == o.arena.mem
  <2>1. at \in Int /\ SizeT \in Int /\ v \in Cell /\ k \in [Addr -> Cell] /\ m = Store(k, at, SizeT, v)
    BY <1>1, <1>2, <1>3
  <2> HIDE DEF v, k, at
  <2>2. /\ m \in [Addr -> Cell]
        /\ \A x \in Addr : m[x] = IF at <= x /\ x < at + SizeT THEN v ELSE k[x]
    BY ONLY <2>1, StoreProperties
  <2> QED
    BY <2>2 DEF v, k
<1>5. ArrayKept(o, m)
  <2>1. \A x \in Addr : x < at => m[x] = o.arena.mem[x]
    <3>1. \A x \in Addr : x \in Int
      BY Bounds DEF Addr
    <3> HIDE DEF at
    <3> QED
      BY <1>1, <1>4, <3>1
  <2> QED
    BY <1>1, <2>1 DEF ArrayKept, SameBytes
<1>6. Sound(q, ps)
  BY <1>4, <1>5, MemoryKeeps
<1>7. /\ q.arena = Written(o.arena, m) /\ q.block = o.block
      /\ q.structs = o.structs /\ q.freed = o.freed /\ q.arena.mem = m
  BY <1>2, <1>4, StateFields, WrittenFields DEF InMemory
<1> HIDE DEF q
<1>8. HasRoom(q) /\ p \in 0 .. q.structs - 1
  BY <1>7 DEF HasRoom
<1>9. Known(q.arena.mem, SlotAt(q.block, q.freed), SizeT, Pointer(p))
  <2>1. Known(m, at, SizeT, Pointer(p))
    <3> HIDE DEF at
    <3> QED
      BY <1>1, <1>2, <1>4 DEF Known, Span
  <2> QED
    BY <1>7, <2>1
<1>10. Sound(State(q.arena, q.block, q.structs, q.freed + 1), ps)
  BY ONLY <1>6, <1>8, <1>9, OneFreed, ps \in Nat
<1> QED
  BY <1>7, <1>10

\* mulle__pointerarray_add: one more slot in use, for a node that is reserved.
LEMMA AddFreedSound ==
  ASSUME StorageFits, pageSize \in Nat \ {0}, NEW o, Sound(o, pageSize),
         NEW p \in 0 .. o.structs - 1, NEW r \in AddFreed(o, p)
  PROVE  Sound(r, pageSize) /\ r.structs = o.structs
<1>1. PICK c \in Room(o) :
        r = State(Written(c.arena, Store(c.arena.mem, SlotAt(c.block, c.freed), SizeT, Pointer(p))),
                  c.block, c.structs, c.freed + 1)
  BY DEF AddFreed
<1>2. Sound(c, pageSize) /\ HasRoom(c) /\ c.structs = o.structs
  BY RoomSound
<1>3. p \in 0 .. c.structs - 1 /\ pageSize \in Nat
  BY <1>2
<1>4. Sound(r, pageSize)
  BY <1>1, <1>2, <1>3, PointerAdded
<1> QED
  BY <1>1, <1>2, <1>4, StateFields

-----------------------------------------------------------------------------
(***************************************************************************)
(* The steps.                                                              *)
(***************************************************************************)

\* What the client relies on.
Relied == Value \cup {Zero, Unset, NotHeld}

\* What a step makes of the storage it left behind.
LEMMA CommittedSystem ==
  ASSUME NEW ps \in Nat, NEW o, Sound(o, ps), Adopt(o)
  PROVE  System' = InMemory(o, Kept(o))
<1>1. /\ Become(Written(o.arena, Kept(o)))
      /\ block' = o.block /\ structs' = o.structs /\ freedCount' = o.freed
  BY DEF Adopt
<1>2. Kept(o) \in [Addr -> Cell] /\ o.arena \in ArenaState
  BY CommitKeeps, ShapeFacts DEF Sound
<1>3. Written(o.arena, Kept(o)) \in ArenaState
  BY <1>2, WrittenFields
<1>4. Now' = Written(o.arena, Kept(o))
  BY <1>1, <1>3, Became
<1> QED
  BY <1>1, <1>4 DEF System, InMemory

\* A storage that is up stays so with the state o, in which p is reserved.
LEMMA Committed ==
  ASSUME SInv, up, NEW o, Sound(o, pageSize), o.structs \in Nat, structs <= o.structs, Commit(o),
         NEW p \in 0 .. o.structs - 1, NEW c \in Relied, Hold(p, c)
  PROVE  SInv'
<1>1. /\ pageSize \in Nat /\ pageSize # 0 /\ phase = "up" /\ structs \in Nat
      /\ held \in [Node -> Relied] /\ \A n \in Node : held[n] # NotHeld => n < structs
  BY SInvFacts DEF SInv, Relied
<1>2. Kept(o) \in [Addr -> Cell] /\ Sound(InMemory(o, Kept(o)), pageSize)
  BY <1>1, CommitKeeps
<1>3. /\ structs' = o.structs /\ phase' = "up" /\ pageSize' = pageSize /\ up'
  BY <1>1 DEF Commit, Adopt
<1>4. System' = InMemory(o, Kept(o))
  BY <1>1, CommittedSystem DEF Commit
<1>5. Sound(System, pageSize)'
  BY <1>2, <1>3, <1>4
<1>6. held' \in [Node -> Relied] /\ \A n \in Node : held'[n] # NotHeld => n < structs'
  <2>1. held' = [held EXCEPT ![p] = c]
    BY DEF Hold
  <2>2. \A n \in Node : n \in Nat
    BY StorageBounds DEF Node
  <2>3. p \in Nat /\ p < o.structs
    OBVIOUS
  <2>4. held' \in [Node -> Relied]
    BY <1>1, <2>1
  <2>5. ASSUME NEW n \in Node, held'[n] # NotHeld PROVE n < structs'
    <3>1. CASE n = p
      BY <1>3, <2>3, <3>1
    <3>2. CASE n # p
      <4>1. held[n] # NotHeld
        BY <1>1, <2>1, <2>5, <3>2
      <4> QED
        BY <1>1, <1>3, <2>2, <4>1
    <3> QED
      BY <3>1, <3>2
  <2> QED
    BY <2>4, <2>5
<1>7. up' \in BOOLEAN
  BY <1>3 DEF SInv
<1> QED
  BY <1>1, <1>3, <1>5, <1>6, <1>7 DEF SInv, Relied

\* What the client holds is reserved, and what it relies on is one of those things.
LEMMA HeldFacts ==
  ASSUME SInv
  PROVE  \A n \in HeldNodes : n \in Node /\ n \in 0 .. structs - 1 /\ up /\ held[n] \in Relied
<1>1. /\ structs \in Nat /\ (~up => structs = 0)
      /\ held \in [Node -> Relied] /\ \A n \in Node : held[n] # NotHeld => n < structs
  BY SInvFacts DEF SInv, Relied
<1>2. \A n \in Node : n \in Nat
  BY StorageBounds DEF Node
<1> QED
  BY <1>1, <1>2 DEF HeldNodes

\* Malloc returns the node as it is.
LEMMA MallocStep ==
  ASSUME StorageFits, SInv, NEW p \in Node, Malloc(p)
  PROVE  SInv'
<1>1. PICK o \in MallocNode(p) : Commit(o)
  BY DEF Malloc
<1>2. up /\ Hold(p, Unset) /\ Unset \in Relied
  BY DEF Malloc, Relied
<1>3. Sound(o, pageSize) /\ o.structs \in Nat /\ p \in 0 .. o.structs - 1 /\ structs <= o.structs
  BY <1>2, MallocSound
<1> QED
  BY <1>1, <1>2, <1>3, Committed

\* A node that is filled with bytes: zeros, a struct from outside.
LEMMA FilledStep ==
  ASSUME StorageFits, SInv, up, NEW p \in Node, NEW v \in Cell \cap Relied,
         NEW o \in MallocNode(p), Commit(WithNode(o, p, v)), Hold(p, v)
  PROVE  SInv'
<1>1. Sound(o, pageSize) /\ o.structs \in Nat /\ p \in 0 .. o.structs - 1 /\ structs <= o.structs
      /\ pageSize \in Nat
  BY MallocSound, SInvFacts
<1> DEFINE q == WithNode(o, p, v)
<1>2. Sound(q, pageSize) /\ q.structs = o.structs
  BY <1>1, NodeFilled
<1>3. Commit(q)
  OBVIOUS
<1> HIDE DEF q
<1> QED
  BY <1>1, <1>2, <1>3, Committed

\* Calloc returns the node with zeros in it.
LEMMA CallocNodeStep ==
  ASSUME StorageFits, SInv, NEW p \in Node, CallocNode(p)
  PROVE  SInv'
<1>1. PICK o \in MallocNode(p) : Commit(WithNode(o, p, Zero))
  BY DEF CallocNode
<1>2. up /\ Hold(p, Zero) /\ Zero \in Cell \cap Relied
  BY StorageBytes DEF CallocNode, Relied
<1> QED
  BY <1>1, <1>2, FilledStep

\* A copy of a struct from outside.
LEMMA CopyForeignStep ==
  ASSUME StorageFits, SInv, NEW p \in Node, NEW v \in Value, CopyForeign(p, v)
  PROVE  SInv'
<1>1. PICK o \in MallocNode(p) : Commit(WithNode(o, p, v))
  BY DEF CopyForeign
<1>2. up /\ Hold(p, v) /\ v \in Cell \cap Relied
  BY StorageBytes DEF CopyForeign, Relied
<1> QED
  BY <1>1, <1>2, FilledStep

\* A copy of a node that the client holds.
LEMMA CopyNodeStep ==
  ASSUME StorageFits, SInv, NEW p \in Node, NEW q \in Node, CopyNode(p, q)
  PROVE  SInv'
<1>1. PICK o \in MallocNode(p) : Commit(WithCopy(o, p, q))
  BY DEF CopyNode
<1>2. up /\ Hold(p, held[q]) /\ q \in HeldNodes
  BY DEF CopyNode
<1>3. Sound(o, pageSize) /\ o.structs \in Nat /\ p \in 0 .. o.structs - 1 /\ structs <= o.structs
      /\ pageSize \in Nat
  BY <1>2, MallocSound, SInvFacts
<1>4. held[q] \in Relied /\ q \in 0 .. o.structs - 1
  <2>1. held[q] \in Relied /\ q \in 0 .. structs - 1 /\ structs \in Nat
    BY <1>2, HeldFacts, SInvFacts
  <2> QED
    BY <1>3, <2>1
<1> DEFINE r == WithCopy(o, p, q)
<1>5. Sound(r, pageSize) /\ r.structs = o.structs
  BY <1>3, <1>4, NodeFilled
<1>6. Commit(r)
  BY <1>1
<1> HIDE DEF r
<1> QED
  BY <1>2, <1>3, <1>4, <1>5, <1>6, Committed

\* A node that is freed gets a slot.
LEMMA FreeNodeStep ==
  ASSUME StorageFits, SInv, NEW p \in Node, FreeNode(p)
  PROVE  SInv'
<1> DEFINE q == IF Debug THEN WithNode(System, p, Poison) ELSE System
<1>1. PICK o \in AddFreed(q, p) : Commit(o)
  BY DEF FreeNode
<1>2. up /\ p \in HeldNodes /\ Hold(p, NotHeld) /\ NotHeld \in Relied
  BY DEF FreeNode, Relied
<1>3. p \in 0 .. structs - 1 /\ structs \in Nat /\ pageSize \in Nat \ {0} /\ pageSize \in Nat
      /\ Sound(System, pageSize) /\ System.structs = structs
  BY <1>2, HeldFacts, SInvFacts, SystemFields
<1>4. Sound(q, pageSize) /\ q.structs = structs
  <2>1. /\ Sound(WithNode(System, p, Poison), pageSize)
        /\ WithNode(System, p, Poison).structs = structs
    BY <1>3, StorageBytes, NodeFilled
  <2> QED
    BY <1>3, <2>1
<1> HIDE DEF q
<1>5. Sound(o, pageSize) /\ o.structs = structs
  BY <1>1, <1>3, <1>4, AddFreedSound
<1> QED
  BY <1>1, <1>2, <1>3, <1>5, Committed

\* The client writes into a node that it holds.
LEMMA WriteNodeStep ==
  ASSUME SInv, NEW p \in Node, NEW v \in Value, WriteNode(p, v)
  PROVE  SInv'
<1> DEFINE o == WithNode(System, p, v)
<1>1. p \in HeldNodes /\ Commit(o) /\ Hold(p, v) /\ v \in Relied /\ v \in Cell
  BY StorageBytes DEF WriteNode, Relied
<1>2. p \in 0 .. structs - 1 /\ structs \in Nat /\ pageSize \in Nat /\ up
      /\ Sound(System, pageSize) /\ System.structs = structs
  BY <1>1, HeldFacts, SInvFacts, SystemFields
<1>3. Sound(o, pageSize) /\ o.structs = structs
  BY <1>1, <1>2, NodeFilled
<1> HIDE DEF o
<1> QED
  BY <1>1, <1>2, <1>3, Committed

\* An arena has its shape without its blocks, too.
LEMMA WithoutBlocks ==
  ASSUME NEW s \in ArenaState, NEW ps \in Nat, PagesOK(s, ps), CursorOK(s), HeadReady(s),
         s.last # Null => Base(s) <= s.last /\ s.last <= s.current
  PROVE  Shape(s, ps, NoBlocks)
<1>1. \A h \in Handle : NoBlocks[h] = NoBlock
  BY NoBlocksFine
<1>2. Layout(s, ps, NoBlocks)
  BY <1>1 DEF Layout, BlocksOK, LastOK
<1>3. NoBlocks[FreedArray] = NoBlock
  BY <1>1, StorageBounds
<1> QED
  BY <1>1, <1>2, <1>3, NoBlocksMine DEF Shape

\* So has one without pages.
LEMMA WithoutPages ==
  ASSUME NEW s \in ArenaState, s.pages = <<>>, CursorOK(s), NEW ps \in Nat
  PROVE  Shape(s, ps, NoBlocks)
<1>1. s.current = Null /\ s.sentinel = Null /\ s.last = Null
  BY DEF CursorOK
<1>2. PagesOK(s, ps)
  <2>1. Len(s.pages) = 0
    BY EmptySeq
  <2> QED
    BY <2>1 DEF PagesOK
<1>3. HeadReady(s)
  BY <1>1, Bounds DEF HeadReady, Null
<1> QED
  BY <1>1, <1>2, <1>3, WithoutBlocks

\* A storage that holds nothing, on any arena.
LEMMA Cleared ==
  ASSUME NEW c, Now' = c, NEW ps \in Nat, pageSize' = ps, Shape(c, ps, NoBlocks),
         block' = NoBlocks, structs' = 0, freedCount' = 0, held' = [n \in Node |-> NotHeld],
         up' \in BOOLEAN, phase' \in {"raw", "up"}, phase' = "up" => ps # 0,
         phase' = "raw" => pages' = <<>> /\ ~up'
  PROVE  SInv'
<1> DEFINE q == State(c, NoBlocks, 0, 0)
<1>1. q.arena = c /\ q.block = NoBlocks /\ q.structs = 0 /\ q.freed = 0
  BY StateFields
<1>2. System' = q
  BY DEF System
<1> HIDE DEF q
<1>3. NoBlocks[FreedArray] = NoBlock /\ NoBlock.size = 0
  BY NoBlocksFine, StorageBounds DEF NoBlock, Block
<1>4. Counts(q)
  <2>1. 0 * SizeT = 0
    BY Bounds
  <2>2. 0 .. q.structs - 1 = {}
    BY <1>1
  <2>3. q.structs \in 0 .. MaxBuckets * Capacity
    BY <1>1, StorageBounds
  <2> QED
    BY <1>1, <1>3, <2>1, <2>2, <2>3 DEF Counts
<1>5. ArrayReads(q)
  BY <1>1, <1>3 DEF ArrayReads
<1>6. Sound(q, ps)
  BY <1>1, <1>4, <1>5 DEF Sound
<1>7. Sound(System, pageSize)'
  BY <1>2, <1>6
<1>8. held' \in [Node -> Value \cup {Zero, Unset, NotHeld}] /\ \A n \in Node : held'[n] = NotHeld
  OBVIOUS
<1> QED
  BY <1>7, <1>8 DEF SInv

\* The freed array that init leaves behind has no pointers in it, or is none.
LEMMA InitFreedSound ==
  ASSUME StorageFits, pageSize \in Nat \ {0}, NEW o, Sound(o, pageSize),
         o.block[FreedArray] = NoBlock, NEW share \in FreedShares,
         NEW r \in InitFreed(o, Capacity \div share)
  PROVE  /\ Sound(r, pageSize) /\ r.structs = o.structs /\ r.freed = o.freed
         /\ \A h \in Handle \ {FreedArray} : r.block[h] = o.block[h]
<1> DEFINE k == Capacity \div share
           total == k * SizeT
<1>1. k \in Nat
  <2>1. share \in Nat \ {0} /\ Capacity \in Nat
    BY StorageBounds, StorageOnArenaAssumption DEF StorageOnArenaAssumption
  <2> QED
    BY <2>1, Remainder
<1>2. AddrMax + total + 2 * MaxAlign < SizeMax
  BY DEF StorageFits
<1>3. r \in InitFreed(o, k)
  OBVIOUS
<1> HIDE DEF k
<1>4. CASE k = 0
  <2>1. r = o
    BY <1>3, <1>4 DEF InitFreed
  <2> QED
    BY <2>1
<1>5. CASE k # 0
  <2>1. PICK c \in HeaderAlloc(o.arena, total) : r = Obtain(o, FreedArray, c, total)
    BY <1>3, <1>5 DEF InitFreed
  <2>2. Asked(FreedArray, total)
    BY <1>1, <1>2, <1>5, SlotsAsked
  <2> HIDE DEF total
  <2>3. Sound(r, pageSize) /\ r.structs = o.structs /\ r.freed = o.freed
    BY <2>1, <2>2, FirstArray
  <2>4. r.block = [o.block EXCEPT ![FreedArray] = VtableBlock(c, total, 0, Zero)]
    BY <2>1, StateFields DEF Obtain
  <2>5. o.block \in [Handle -> BlockType]
    BY ShapeFacts DEF Sound
  <2> QED
    BY <2>3, <2>4, <2>5
<1> QED
  BY <1>4, <1>5

\* Init of the storage: it reserves no node, and at most takes its freed array.
LEMMA OpenStorageStep ==
  ASSUME StorageFits, SInv, OpenStorage
  PROVE  /\ SInv' /\ ~up /\ up' = TRUE /\ held' = held /\ structs' = 0 /\ freedCount' = 0
         /\ \A h \in Handle \ {FreedArray} : block'[h] = NoBlock
<1>0. PICK share \in FreedShares : \E o \in InitFreed(System, Capacity \div share) : Adopt(o)
  BY DEF OpenStorage
<1>1. PICK o \in InitFreed(System, Capacity \div share) : Adopt(o)
  BY <1>0
<1>2. /\ phase = "up" /\ ~up /\ up' = TRUE /\ held' = held
      /\ phase' = phase /\ pageSize' = pageSize
      /\ block' = o.block /\ structs' = o.structs /\ freedCount' = o.freed
  BY <1>1 DEF OpenStorage, Adopt
<1>3. /\ pageSize \in Nat \ {0} /\ pageSize \in Nat /\ Sound(System, pageSize)
      /\ System.structs = 0 /\ System.freed = 0 /\ System.block = NoBlocks
      /\ structs = 0
  BY <1>2, SystemFields DEF SInv
<1>4. \A h \in Handle : System.block[h] = NoBlock
  BY <1>3, NoBlocksFine
<1>5. /\ Sound(o, pageSize) /\ o.structs = 0 /\ o.freed = 0
      /\ \A h \in Handle \ {FreedArray} : o.block[h] = NoBlock
  <2>1. System.block[FreedArray] = NoBlock
    BY <1>4, StorageBounds
  <2> QED
    BY <1>1, <1>3, <1>4, <2>1, InitFreedSound
<1>6. System' = InMemory(o, Kept(o)) /\ Sound(InMemory(o, Kept(o)), pageSize)
  BY <1>1, <1>3, <1>5, CommittedSystem, CommitKeeps
<1>7. Sound(System, pageSize)'
  BY <1>2, <1>6
<1>8. SInv'
  BY <1>2, <1>3, <1>5, <1>7 DEF SInv
<1> QED
  BY <1>2, <1>5, <1>8

\* Where the blocks of a storage start.
LEMMA StartsInMemory ==
  ASSUME NEW s, NEW ps \in Nat, NEW b, Shape(s, ps, b), NEW h \in Handle, b[h] # NoBlock
  PROVE  /\ Start(b[h]) \in Nat \ {0} /\ b[h].addr \in Nat /\ b[h].addr - SizeT = Start(b[h])
         /\ (Start(b[h]) + SizeT) % MaxAlign = 0
<1>1. /\ s \in ArenaState /\ PagesOK(s, ps) /\ BlocksOK(s, Own(b)) /\ Mine(b)
      /\ Own(b) \in [Handle -> BlockType]
  BY ShapeFacts, Owned
<1>2. b[h] \in BlockType /\ StorageBlock(h, b[h])
  BY <1>1 DEF Mine
<1>3. b[h].addr \in Nat /\ Start(b[h]) = b[h].addr - SizeT /\ b[h].addr % MaxAlign = 0
  BY <1>2, StorageBlockFields DEF StorageBlock
<1>4. 1 <= Start(b[h])
  <2>1. Own(b)[h] # NoBlock /\ Start(Own(b)[h]) = Start(b[h])
    BY <1>1, Owned
  <2>2. Holds(s, Start(b[h]), End(Own(b)[h]))
    BY <1>1, <2>1 DEF BlocksOK
  <2>3. Start(b[h]) \in Int /\ End(Own(b)[h]) \in Int
    BY <1>1, <1>2, EndsType
  <2> QED
    BY <1>1, <2>2, <2>3, HeldInMemory
<1>5. SizeT \in Nat
  BY Bounds
<1>6. Start(b[h]) \in Nat \ {0} /\ Start(b[h]) + SizeT = b[h].addr
  BY <1>3, <1>4, <1>5
<1> QED
  BY <1>3, <1>6

\* The arena after all blocks of the storage were freed.
LEMMA AllFreed ==
  ASSUME SInv, up, NEW m \in [Addr -> Cell],
         NEW s, s = IF \E h \in Live : block[h].addr - SizeT = last
                      THEN FreeBlock(Now, last + SizeT)
                      ELSE Now
  PROVE  Written(s, m) \in ArenaState /\ Shape(Written(s, m), pageSize, NoBlocks)
<1>1. /\ Now \in ArenaState /\ Shape(Now, pageSize, block) /\ pageSize \in Nat
      /\ PagesOK(Now, pageSize) /\ CursorOK(Now) /\ HeadReady(Now) /\ LastOK(Now, Own(block))
  <2>1. Now \in ArenaState /\ Shape(Now, pageSize, block) /\ pageSize \in Nat
    BY SInvFacts, SystemFields DEF Sound
  <2> QED
    BY <2>1, ShapeFacts
<1>2. /\ Now.last = last /\ Now.current = current /\ Now.sentinel = sentinel
      /\ last \in Nat /\ current \in Nat /\ sentinel \in Nat
      /\ Now.pages \in Seq(Page) /\ Now.index \in Nat /\ SizeT \in Nat /\ MaxAlign \in Nat
  BY <1>1, NowType, Bounds
<1>3. last # Null => Base(Now) <= last /\ last <= current
  BY <1>1, <1>2 DEF LastOK
<1>4. CASE ~\E h \in Live : block[h].addr - SizeT = last
  <2>1. s = Now
    BY <1>4
  <2>2. Shape(Now, pageSize, NoBlocks)
    BY <1>1, <1>2, <1>3, WithoutBlocks
  <2> QED
    BY <1>1, <2>1, <2>2, ShapeOfOther, WrittenFields
<1>5. CASE \E h \in Live : block[h].addr - SizeT = last
  <2>1. PICK h \in Handle : block[h] # NoBlock /\ block[h].addr - SizeT = last
    BY <1>5 DEF Live
  <2>2. last # Null /\ (last + SizeT) % MaxAlign = 0
    <3>1. /\ Start(block[h]) \in Nat \ {0} /\ block[h].addr - SizeT = Start(block[h])
          /\ (Start(block[h]) + SizeT) % MaxAlign = 0
      BY <1>1, <2>1, StartsInMemory
    <3>2. Start(block[h]) = last
      BY <2>1, <3>1
    <3> QED
      BY <3>1, <3>2 DEF Null
  <2> DEFINE c == Written(s, m)
  <2>3. c = Bump(Now, last, Null, m)
    <3>1. last + SizeT - SizeT = last
      BY <1>2
    <3>2. s = Bump(Now, last, Null,
                   IF Debug THEN Store(mem, last, Wrap(current - last), Poison) ELSE mem)
      BY <1>1, <1>2, <1>5, <3>1, NowType DEF FreeBlock
    <3> DEFINE k == IF Debug THEN Store(mem, last, Wrap(current - last), Poison) ELSE mem
    <3> HIDE DEF k
    <3>3. s = Bump(Now, last, Null, k)
      BY <3>2 DEF k
    <3> QED
      BY <3>3 DEF Bump, Written
  <2>4. /\ c \in ArenaState /\ c.pages = Now.pages /\ c.index = Now.index /\ c.current = last
        /\ c.sentinel = sentinel /\ c.last = Null
    <3>1. 0 \in Nat /\ Null = 0
      BY DEF Null
    <3>2. Bump(Now, last, 0, m) \in ArenaState
      BY <1>2, <3>1, MadeState DEF Bump
    <3> QED
      BY <1>2, <2>3, <3>1, <3>2 DEF Bump
  <2> HIDE DEF c
  <2>5. PagesOK(c, pageSize)
    BY <1>1, <2>4 DEF PagesOK
  <2>6. Now.pages # <<>> /\ CursorOK(c)
    <3>1. Now.pages # <<>>
      BY <1>1, <1>2, <2>2 DEF CursorOK
    <3>2. Now.index < Len(Now.pages) /\ sentinel <= Top(Now)
      BY <1>1, <1>2, <3>1 DEF CursorOK
    <3>3. Base(c) = Base(Now) /\ Top(c) = Top(Now)
      BY <2>4 DEF Base, Top
    <3> QED
      BY <1>3, <2>2, <2>4, <3>1, <3>2, <3>3 DEF CursorOK
  <2>7. HeadReady(c)
    <3>1. last <= current /\ current <= sentinel + MaxAlign
      BY <1>1, <1>2, <1>3, <2>2 DEF HeadReady
    <3>2. last <= sentinel + MaxAlign
      BY <1>2, <3>1
    <3> QED
      BY <2>2, <2>4, <3>2 DEF HeadReady
  <2>8. Shape(c, pageSize, NoBlocks)
    BY <1>1, <2>4, <2>5, <2>6, <2>7, WithoutBlocks
  <2> QED
    BY <2>4, <2>8 DEF c
<1> QED
  BY <1>4, <1>5

\* Done of the storage: it frees the freed array and the buckets.
LEMMA CloseStorageStep ==
  ASSUME SInv, CloseStorage
  PROVE  SInv'
<1> DEFINE m == [x \in Addr |-> Junk]
           s == IF \E h \in Live : block[h].addr - SizeT = last
                  THEN FreeBlock(Now, last + SizeT)
                  ELSE Now
<1>1. /\ up /\ Become(Written(s, m)) /\ block' = NoBlocks
      /\ UNCHANGED <<phase, pageSize>>
      /\ up' = FALSE /\ structs' = 0 /\ freedCount' = 0 /\ held' = [n \in Node |-> NotHeld]
  BY DEF CloseStorage, Forget
<1>2. m \in [Addr -> Cell]
  BY StorageBytes
<1>3. Written(s, m) \in ArenaState /\ Shape(Written(s, m), pageSize, NoBlocks)
  <2> HIDE DEF m
  <2>1. s = IF \E h \in Live : block[h].addr - SizeT = last
              THEN FreeBlock(Now, last + SizeT)
              ELSE Now
    OBVIOUS
  <2> HIDE DEF s
  <2> QED
    BY <1>1, <1>2, <2>1, AllFreed
<1> DEFINE c == Written(s, m)
<1>4. c \in ArenaState /\ Become(c) /\ Shape(c, pageSize, NoBlocks)
  BY <1>1, <1>3
<1> HIDE DEF c
<1>5. Now' = c
  BY <1>4, Became
<1>6. /\ pageSize \in Nat /\ pageSize' = pageSize /\ pageSize # 0 /\ phase' = "up"
      /\ phase' \in {"raw", "up"} /\ up' \in BOOLEAN
  BY <1>1, SInvFacts
<1> QED
  BY <1>1, <1>4, <1>5, <1>6, Cleared

\* Init of the arena sets the page size and nothing else.
LEMMA OpenArenaStep ==
  ASSUME SInv, NEW size \in PageSizes, InitArena(size), UNCHANGED storageVars
  PROVE  SInv'
<1>1. /\ phase = "raw" /\ pages = <<>> /\ ~up /\ phase' = "up"
      /\ pageSize' \in Nat \ {0} /\ Now' = Now /\ block' = block /\ block = NoBlocks
      /\ structs' = 0 /\ freedCount' = 0 /\ up' = up /\ up' \in BOOLEAN /\ held' = held
      /\ structs = 0
  <2>1. pageSize' \in Nat \ {0}
    BY ArenaAssumption DEF ArenaAssumption, InitArena
  <2> QED
    BY <2>1 DEF SInv, InitArena, Now, cursor, storageVars
<1>2. held' = [n \in Node |-> NotHeld]
  <2>1. \A n \in Node : n \in Nat /\ ~(n < 0)
    BY StorageBounds DEF Node
  <2>2. held \in [Node -> Value \cup {Zero, Unset, NotHeld}] /\ \A n \in Node : held[n] = NotHeld
    BY <1>1, <2>1 DEF SInv
  <2> QED
    BY <1>1, <2>2
<1>3. Now \in ArenaState /\ CursorOK(Now) /\ Now.pages = <<>>
  <2>1. Shape(Now, pageSize, block) /\ pageSize \in Nat
    BY SInvFacts, SystemFields DEF Sound
  <2> QED
    BY <1>1, <2>1, ShapeFacts DEF Now
<1>4. Shape(Now, pageSize', NoBlocks)
  BY <1>1, <1>3, WithoutPages
<1>5. pageSize' \in Nat /\ pageSize' # 0 /\ phase' \in {"raw", "up"}
  BY <1>1
<1> QED
  BY <1>1, <1>2, <1>4, <1>5, Cleared

\* Done and reset of the arena end the storage on it.
LEMMA EndOfScopeStep ==
  ASSUME StorageFits, SInv, EndOfScope
  PROVE  SInv'
<1>1. /\ up' = FALSE /\ structs' = 0 /\ freedCount' = 0 /\ held' = [n \in Node |-> NotHeld]
      /\ up' \in BOOLEAN
  BY DEF EndOfScope, Forget
<1>2. CASE Done
  <2> DEFINE c == [pages |-> <<>>, index |-> 0, current |-> Null, sentinel |-> Null, last |-> Null,
                   mem |-> [x \in Addr |-> Junk]]
  <2>1. c \in ArenaState /\ c.pages = <<>> /\ CursorOK(c)
    <3>1. Junk \in Cell /\ <<>> \in Seq(Page)
      BY EmptySeq DEF Cell
    <3> QED
      BY <3>1 DEF ArenaState, CursorOK, Null
  <2>2. Now' = c
    BY <1>2 DEF Done, Now
  <2> HIDE DEF c
  <2>3. Shape(c, 0, NoBlocks)
    BY <2>1, WithoutPages
  <2>4. /\ pageSize' = 0 /\ 0 \in Nat /\ block' = NoBlocks /\ phase' \in {"raw", "up"}
        /\ phase' = "raw" /\ pages' = <<>> /\ ~up'
    BY <1>1, <1>2 DEF Done
  <2> QED
    BY <1>1, <2>2, <2>3, <2>4, Cleared
<1>3. CASE \E k \in KeepCounts : Reset(k)
  <2>1. Reset(0)
    BY <1>3 DEF StorageFits
  <2>2. Now \in ArenaState /\ pageSize \in Nat /\ PagesOK(Now, pageSize)
    <3>1. Shape(Now, pageSize, block) /\ pageSize \in Nat
      BY SInvFacts, SystemFields DEF Sound
    <3> QED
      BY <3>1, ShapeFacts
  <2>3. /\ (Now \in ArenaState)' /\ Layout(Now, pageSize, block)'
        /\ block' = NoBlocks /\ phase = "up" /\ UNCHANGED <<phase, pageSize>> /\ pages' = <<>>
    <3>1. 0 \in Nat
      OBVIOUS
    <3> QED
      BY <2>1, <2>2, <3>1, ResetRewinds
  <2>4. Now'.pages = <<>> /\ Now' \in ArenaState /\ CursorOK(Now')
    BY <2>3 DEF Now, Layout
  <2>5. Shape(Now', pageSize, NoBlocks)
    BY <2>2, <2>4, WithoutPages
  <2>6. pageSize' = pageSize /\ pageSize # 0 /\ phase' = "up" /\ phase' \in {"raw", "up"}
    BY <2>3 DEF SInv
  <2> QED
    BY <1>1, <2>2, <2>3, <2>5, <2>6, Cleared
<1> QED
  BY <1>2, <1>3 DEF EndOfScope

\* Before all inits.
LEMMA SystemInitially == SystemInit => SInv
<1> SUFFICES ASSUME SystemInit PROVE SInv
  OBVIOUS
<1>1. Now \in ArenaState /\ Now.pages = <<>> /\ CursorOK(Now)
  <2>1. Junk \in Cell /\ <<>> \in Seq(Page)
    BY EmptySeq DEF Cell
  <2> QED
    BY <2>1 DEF SystemInit, Init, Now, ArenaState, CursorOK, Null
<1>2. Shape(Now, 0, NoBlocks)
  BY <1>1, WithoutPages
<1>3. /\ System.arena = Now /\ System.block = NoBlocks /\ System.structs = 0 /\ System.freed = 0
  BY SystemFields DEF SystemInit, Init
<1>4. NoBlocks[FreedArray] = NoBlock /\ NoBlock.size = 0
  BY NoBlocksFine, StorageBounds DEF NoBlock, Block
<1>5. Counts(System)
  <2>1. 0 * SizeT = 0
    BY Bounds
  <2>2. 0 .. System.structs - 1 = {}
    BY <1>3
  <2>3. System.structs \in 0 .. MaxBuckets * Capacity
    BY <1>3, StorageBounds
  <2> QED
    BY <1>3, <1>4, <2>1, <2>2, <2>3 DEF Counts
<1>6. ArrayReads(System)
  BY <1>3, <1>4 DEF ArrayReads
<1>7. Sound(System, 0)
  BY <1>2, <1>3, <1>5, <1>6 DEF Sound
<1> QED
  BY <1>7 DEF SystemInit, Init, SInv

\* Every step keeps the invariant.
LEMMA SystemStepwise ==
  ASSUME StorageFits, SInv, SystemNext
  PROVE  SInv'
<1>1. CASE (\E size \in PageSizes : InitArena(size)) /\ UNCHANGED storageVars
  BY <1>1, OpenArenaStep
<1>2. CASE EndOfScope
  BY <1>2, EndOfScopeStep
<1>3. CASE OpenStorage
  BY <1>3, OpenStorageStep
<1>4. CASE CloseStorage
  BY <1>4, CloseStorageStep
<1>5. ASSUME NEW p \in Node, Malloc(p) PROVE SInv'
  BY <1>5, MallocStep
<1>6. ASSUME NEW p \in Node, CallocNode(p) PROVE SInv'
  BY <1>6, CallocNodeStep
<1>7. ASSUME NEW p \in Node, NEW v \in Value, CopyForeign(p, v) PROVE SInv'
  BY <1>7, CopyForeignStep
<1>8. ASSUME NEW p \in Node, NEW v \in Value, WriteNode(p, v) PROVE SInv'
  BY <1>8, WriteNodeStep
<1>9. ASSUME NEW p \in Node, NEW q \in Node, CopyNode(p, q) PROVE SInv'
  BY <1>9, CopyNodeStep
<1>10. ASSUME NEW p \in Node, FreeNode(p) PROVE SInv'
  BY <1>10, FreeNodeStep
<1> QED
  BY <1>1, <1>2, <1>3, <1>4, <1>5, <1>6, <1>7, <1>8, <1>9, <1>10 DEF SystemNext

\* A step that changes nothing keeps the invariant.
LEMMA SystemStuttering ==
  ASSUME SInv, UNCHANGED <<vars, storageVars>>
  PROVE  SInv'
<1>1. UNCHANGED <<phase, pageSize, pages, pageIndex, current, sentinel, last, mem, block,
                  up, structs, freedCount, held>>
  BY DEF vars, cursor, storageVars
<1>2. System' = System
  BY <1>1 DEF System, Now
<1>3. Sound(System, pageSize)'
  BY <1>1, <1>2 DEF SInv
<1> QED
  BY <1>1, <1>3 DEF SInv

-----------------------------------------------------------------------------
(***************************************************************************)
(* What is read from memory.                                               *)
(***************************************************************************)

\* Node q of r has the bytes that node n of o has; node n of o has bytes v.
SameNode(o, n, r, q) ==
  \A i \in 0 .. NodeSize - 1 :
    r.arena.mem[NodeAt(r.block, q) + i] = o.arena.mem[NodeAt(o.block, n) + i]
NodeIs(o, n, v) == \A i \in 0 .. NodeSize - 1 : o.arena.mem[NodeAt(o.block, n) + i] = v

\* Nodes of the same bytes have the same contents.
LEMMA ContentsOfSame ==
  ASSUME NEW o, NEW n, NEW r, NEW q, SameNode(o, n, r, q),
         NodeAt(o.block, n) \in Int, NodeAt(r.block, q) \in Int
  PROVE  Contents(r, q) = Contents(o, n)
<1> DEFINE at == NodeAt(o.block, n)
           to == NodeAt(r.block, q)
           m == o.arena.mem
           k == r.arena.mem
           Alike(f, x) == \A y \in Span(x, NodeSize) : f[y] = f[x]
<1>1. NodeSize \in Nat \ {0} /\ at \in Int /\ to \in Int
  BY StorageBounds
<1>2. \A i \in 0 .. NodeSize - 1 : k[to + i] = m[at + i]
  BY DEF SameNode
<1> HIDE DEF at, to, m, k
<1>3. k[to] = m[at]
  <2>1. 0 \in 0 .. NodeSize - 1 /\ to + 0 = to /\ at + 0 = at
    BY <1>1
  <2> QED
    BY <1>2, <2>1
<1>4. ASSUME Alike(m, at) PROVE Alike(k, to)
  <2> SUFFICES ASSUME NEW y \in Span(to, NodeSize) PROVE k[y] = k[to]
    OBVIOUS
  <2>1. y - to \in 0 .. NodeSize - 1 /\ to + (y - to) = y /\ at + (y - to) \in Span(at, NodeSize)
    BY <1>1 DEF Span
  <2> QED
    BY <1>2, <1>3, <1>4, <2>1
<1>5. ASSUME Alike(k, to) PROVE Alike(m, at)
  <2> SUFFICES ASSUME NEW y \in Span(at, NodeSize) PROVE m[y] = m[at]
    OBVIOUS
  <2>1. y - at \in 0 .. NodeSize - 1 /\ at + (y - at) = y /\ to + (y - at) \in Span(to, NodeSize)
    BY <1>1 DEF Span
  <2> QED
    BY <1>2, <1>3, <1>5, <2>1
<1>6. /\ Contents(r, q) = IF Alike(k, to) THEN k[to] ELSE Junk
      /\ Contents(o, n) = IF Alike(m, at) THEN m[at] ELSE Junk
  BY DEF Contents, at, to, m, k
<1> HIDE DEF Alike
<1> QED
  BY <1>3, <1>4, <1>5, <1>6

\* A node of equal bytes has that byte as its contents.
LEMMA ContentsOfFilled ==
  ASSUME NEW o, NEW n, NEW v, NodeIs(o, n, v), NodeAt(o.block, n) \in Int
  PROVE  Contents(o, n) = v
<1> DEFINE at == NodeAt(o.block, n)
           m == o.arena.mem
<1>1. NodeSize \in Nat \ {0} /\ at \in Int
  BY StorageBounds
<1>2. \A i \in 0 .. NodeSize - 1 : m[at + i] = v
  BY DEF NodeIs
<1>3. Contents(o, n) = IF \A y \in Span(at, NodeSize) : m[y] = m[at] THEN m[at] ELSE Junk
  BY DEF Contents
<1> HIDE DEF at, m
<1>4. ASSUME NEW y \in Span(at, NodeSize) PROVE m[y] = v
  <2>1. y - at \in 0 .. NodeSize - 1 /\ at + (y - at) = y
    BY <1>1 DEF Span
  <2> QED
    BY <1>2, <2>1
<1>5. m[at] = v
  <2>1. at \in Span(at, NodeSize)
    BY <1>1 DEF Span
  <2> QED
    BY <1>4, <2>1
<1> QED
  BY <1>3, <1>4, <1>5

\* A bucket is in memory.
LEMMA BucketFacts ==
  ASSUME NEW ps \in Nat, NEW o, Sound(o, ps),
         NEW h \in Handle, h # FreedArray, o.block[h] # NoBlock
  PROVE  LET bucket == o.block[h]
         IN  /\ bucket.addr \in Nat /\ 1 <= bucket.addr /\ bucket.addr + BucketSize <= AddrMax + 1
             /\ Start(bucket) = bucket.addr - SizeT /\ End(bucket) = bucket.addr + BucketSize
             /\ Holds(o.arena, Start(bucket), End(bucket))
<1> DEFINE bucket == o.block[h]
<1>1. /\ Mine(o.block) /\ BlocksOK(o.arena, Own(o.block)) /\ o.arena \in ArenaState
      /\ PagesOK(o.arena, ps)
  BY ShapeFacts DEF Sound
<1>2. bucket \in BlockType /\ StorageBlock(h, bucket)
  BY <1>1 DEF Mine
<1>3. bucket.size = BucketSize
  BY <1>2 DEF StorageBlock
<1>4. Own(o.block)[h] = bucket
  BY <1>1, Owned
<1>5. Holds(o.arena, Start(bucket), End(bucket))
  BY <1>1, <1>4 DEF BlocksOK
<1> HIDE DEF bucket
<1>6. /\ bucket.addr \in Nat
      /\ Start(bucket) = bucket.addr - SizeT /\ End(bucket) = bucket.addr + BucketSize
  BY <1>2, <1>3, StorageBlockFields
<1>7. 1 <= Start(bucket) /\ End(bucket) <= AddrMax + 1
  <2>1. Start(bucket) \in Int /\ End(bucket) \in Int
    BY <1>6, StorageBounds, Bounds
  <2> QED
    BY <1>1, <1>5, <2>1, HeldInMemory
<1>8. 1 <= bucket.addr
  BY <1>6, <1>7, Bounds
<1> QED
  BY <1>5, <1>6, <1>7, <1>8 DEF bucket

\* Two buckets share no byte.
LEMMA BucketsApart ==
  ASSUME NEW ps \in Nat, NEW o, Sound(o, ps),
         NEW g \in Handle, g # FreedArray, o.block[g] # NoBlock,
         NEW h \in Handle, h # FreedArray, o.block[h] # NoBlock, g # h
  PROVE  \/ o.block[g].addr + BucketSize <= o.block[h].addr
         \/ o.block[h].addr + BucketSize <= o.block[g].addr
<1>1. BlocksOK(o.arena, Own(o.block)) /\ Mine(o.block)
  BY ShapeFacts DEF Sound
<1>2. Own(o.block)[g] = o.block[g] /\ Own(o.block)[h] = o.block[h]
  BY <1>1, Owned
<1>3. End(o.block[g]) <= Start(o.block[h]) \/ End(o.block[h]) <= Start(o.block[g])
  BY <1>1, <1>2 DEF BlocksOK
<1>4. \A i \in {g, h} : /\ o.block[i].addr \in Nat
                        /\ Start(o.block[i]) = o.block[i].addr - SizeT
                        /\ End(o.block[i]) = o.block[i].addr + BucketSize
  BY BucketFacts
<1>5. SizeT \in Nat /\ BucketSize \in Nat
  BY StorageBounds, Bounds
<1> QED
  BY <1>3, <1>4, <1>5

-----------------------------------------------------------------------------
(***************************************************************************)
(* Where nodes are: of two nodes with memory, no byte is shared.           *)
(***************************************************************************)

\* Nodes with memory: reserved ones, and those that come next in their bucket.
HasPlace(o, n) == n \in Node /\ o.block[BucketOf(n)] # NoBlock

\* They are in their bucket.
LEMMA NodePlace ==
  ASSUME NEW ps \in Nat, NEW o, Sound(o, ps), NEW n, HasPlace(o, n)
  PROVE  /\ BucketOf(n) \in Handle /\ BucketOf(n) # FreedArray
         /\ NodeAt(o.block, n) \in Nat
         /\ 1 <= NodeAt(o.block, n) /\ NodeAt(o.block, n) + NodeSize <= AddrMax + 1
         /\ o.block[BucketOf(n)].addr <= NodeAt(o.block, n)
         /\ NodeAt(o.block, n) + NodeSize <= o.block[BucketOf(n)].addr + BucketSize
<1> DEFINE h == BucketOf(n)
           addr == o.block[h].addr
           off == (n % Capacity) * NodeSize
<1>1. /\ h \in Handle /\ h # FreedArray /\ o.block[h] # NoBlock
      /\ off \in Nat /\ HeadSize + off + NodeSize <= BucketSize
  BY NodeInBucket DEF HasPlace
<1>2. addr \in Nat /\ 1 <= addr /\ addr + BucketSize <= AddrMax + 1
  BY <1>1, BucketFacts
<1>3. NodeAt(o.block, n) = addr + HeadSize + off
  BY DEF NodeAt
<1>4. HeadSize \in Nat /\ NodeSize \in Nat /\ BucketSize \in Nat /\ AddrMax \in Nat
  BY StorageBounds, Bounds
<1> DEFINE at == addr + HeadSize + off
<1> HIDE DEF off, addr
<1>5. /\ at \in Nat /\ addr <= at /\ at + NodeSize <= addr + BucketSize
      /\ 1 <= at /\ at + NodeSize <= AddrMax + 1
  BY <1>1, <1>2, <1>4
<1> QED
  BY <1>1, <1>3, <1>5 DEF addr

\* A reserved node has one.
LEMMA ReservedHasPlace ==
  ASSUME NEW ps \in Nat, NEW o, Sound(o, ps), NEW n \in 0 .. o.structs - 1
  PROVE  HasPlace(o, n)
<1>1. n \in Node
  BY StorageBounds DEF Node, Sound, Counts
<1> QED
  BY <1>1, NodeBytes DEF HasPlace

\* Two nodes share no byte.
LEMMA NodesApart ==
  ASSUME NEW ps \in Nat, NEW o, Sound(o, ps), NEW n, HasPlace(o, n), NEW k, HasPlace(o, k), n # k
  PROVE  \/ NodeAt(o.block, n) + NodeSize <= NodeAt(o.block, k)
         \/ NodeAt(o.block, k) + NodeSize <= NodeAt(o.block, n)
<1> DEFINE at(x) == NodeAt(o.block, x)
<1>1. NodeSize \in Nat /\ BucketSize \in Nat /\ HeadSize \in Nat /\ Capacity \in Nat \ {0}
  BY StorageBounds
<1>2. \A x \in {n, k} :
        /\ BucketOf(x) \in Handle /\ BucketOf(x) # FreedArray /\ o.block[BucketOf(x)] # NoBlock
        /\ at(x) \in Nat /\ o.block[BucketOf(x)].addr <= at(x)
        /\ at(x) + NodeSize <= o.block[BucketOf(x)].addr + BucketSize
        /\ x \in Nat
  <2> SUFFICES ASSUME NEW x \in {n, k}
               PROVE  /\ BucketOf(x) \in Handle /\ BucketOf(x) # FreedArray
                      /\ o.block[BucketOf(x)] # NoBlock
                      /\ at(x) \in Nat /\ o.block[BucketOf(x)].addr <= at(x)
                      /\ at(x) + NodeSize <= o.block[BucketOf(x)].addr + BucketSize
                      /\ x \in Nat
    OBVIOUS
  <2>1. HasPlace(o, x)
    OBVIOUS
  <2>2. x \in Nat /\ o.block[BucketOf(x)] # NoBlock
    BY <2>1, NodeNumbers DEF HasPlace
  <2> QED
    BY <2>1, <2>2, NodePlace
<1>3. CASE BucketOf(n) # BucketOf(k)
  <2> DEFINE a == o.block[BucketOf(n)].addr
             b == o.block[BucketOf(k)].addr
  <2>1. a + BucketSize <= b \/ b + BucketSize <= a
    BY <1>2, <1>3, BucketsApart
  <2>2. a \in Nat /\ b \in Nat
    BY <1>2, BucketFacts
  <2>3. /\ at(n) \in Nat /\ a <= at(n) /\ at(n) + NodeSize <= a + BucketSize
        /\ at(k) \in Nat /\ b <= at(k) /\ at(k) + NodeSize <= b + BucketSize
    BY <1>2
  <2> HIDE DEF a, b, at
  <2>4. at(n) + NodeSize <= at(k) \/ at(k) + NodeSize <= at(n)
    BY <1>1, <2>1, <2>2, <2>3
  <2> QED
    BY <2>4 DEF at
<1>4. ASSUME NEW x \in {n, k}, NEW y \in {n, k}, BucketOf(x) = BucketOf(y), x % Capacity < y % Capacity
      PROVE  at(x) + NodeSize <= at(y)
  <2> DEFINE i == x % Capacity
             j == y % Capacity
             from == i * NodeSize
             to == j * NodeSize
             a == o.block[BucketOf(x)].addr
  <2>1. i \in Nat /\ j \in Nat /\ i + 1 <= j /\ i + 1 \in Nat
    <3>1. x \in Nat /\ y \in Nat
      BY <1>2
    <3>2. i \in Nat /\ j \in Nat
      BY <1>1, <3>1, Remainder
    <3>3. i < j
      BY <1>4
    <3> HIDE DEF i, j
    <3> QED
      BY <3>2, <3>3
  <2>2. from \in Nat /\ to \in Nat /\ from + NodeSize <= to
    <3> HIDE DEF i, j
    <3>1. (i + 1) * NodeSize <= j * NodeSize /\ (i + 1) * NodeSize = i * NodeSize + NodeSize
          /\ i * NodeSize \in Nat /\ j * NodeSize \in Nat
      BY <1>1, <2>1, Monotone
    <3> QED
      BY <3>1
  <2>3. at(x) = a + HeadSize + from /\ at(y) = a + HeadSize + to
    BY <1>4 DEF NodeAt
  <2>4. a \in Nat
    BY <1>2, BucketFacts
  <2> HIDE DEF from, to, a, at
  <2> QED
    BY <1>1, <2>2, <2>3, <2>4
<1>5. CASE BucketOf(n) = BucketOf(k)
  <2> DEFINE i == n % Capacity
             j == k % Capacity
             q == n \div Capacity
             r == k \div Capacity
  <2>1. /\ q \in Nat /\ i \in Nat /\ n = Capacity * q + i
        /\ r \in Nat /\ j \in Nat /\ k = Capacity * r + j
    <3>1. n \in Nat /\ k \in Nat
      BY <1>2
    <3>2. /\ n \div Capacity \in Nat /\ n % Capacity \in 0 .. Capacity - 1
          /\ n = Capacity * (n \div Capacity) + (n % Capacity)
      BY <1>1, <3>1, Remainder
    <3>3. /\ k \div Capacity \in Nat /\ k % Capacity \in 0 .. Capacity - 1
          /\ k = Capacity * (k \div Capacity) + (k % Capacity)
      BY <1>1, <3>1, Remainder
    <3>4. i \in Nat /\ j \in Nat
      <4>1. \A x : x \in 0 .. Capacity - 1 => x \in Nat
        BY <1>1
      <4> QED
        BY <3>2, <3>3, <4>1
    <3> QED
      BY <3>2, <3>3, <3>4
  <2>2. q = r
    <3>1. q + 1 = r + 1
      BY <1>5 DEF BucketOf
    <3> HIDE DEF q, r
    <3> QED
      BY <2>1, <3>1
  <2>3. i # j
    <3> HIDE DEF q, r, i, j
    <3> QED
      BY <2>1, <2>2
  <2>4. i < j \/ j < i
    <3> HIDE DEF i, j
    <3> QED
      BY <2>1, <2>3
  <2> QED
    BY <1>4, <1>5, <2>4
<1> QED
  BY <1>3, <1>5

\* A node whose bucket stays, with its bytes, is the same node.
LEMMA NodeStays ==
  ASSUME NEW ps \in Nat, NEW o, Sound(o, ps), NEW n, HasPlace(o, n),
         NEW r, r.block[BucketOf(n)] = o.block[BucketOf(n)],
         SameBytes(o.arena.mem, r.arena.mem, NodeAt(o.block, n), NodeAt(o.block, n) + NodeSize)
  PROVE  SameNode(o, n, r, n)
<1> DEFINE at == NodeAt(o.block, n)
<1>1. /\ at \in Nat /\ 1 <= at /\ at + NodeSize <= AddrMax + 1
      /\ NodeSize \in Nat /\ AddrMax \in Nat
  BY NodePlace, StorageBounds, Bounds
<1>2. NodeAt(r.block, n) = at
  BY DEF NodeAt
<1> HIDE DEF at
<1>3. \A i \in 0 .. NodeSize - 1 : at + i \in Addr /\ at <= at + i /\ at + i < at + NodeSize
  BY <1>1 DEF Addr
<1>4. \A i \in 0 .. NodeSize - 1 : r.arena.mem[at + i] = o.arena.mem[at + i]
  BY <1>3 DEF SameBytes, at
<1> QED
  BY <1>2, <1>4 DEF SameNode, at

-----------------------------------------------------------------------------
(***************************************************************************)
(* The freed array as it is read from its slots.                           *)
(***************************************************************************)

\* Slot i points to node n.
PointsTo(o, i, n) == Known(o.arena.mem, SlotAt(o.block, i), SizeT, Pointer(n))

\* It points to no other one.
LEMMA OnePointer ==
  ASSUME NEW o, NEW i, NEW n \in Node, PointsTo(o, i, n), SlotAt(o.block, i) \in Int
  PROVE  Pointed(o, i) = {n}
<1> DEFINE at == SlotAt(o.block, i)
           m == o.arena.mem
<1>1. \A x \in Span(at, SizeT) : m[x] = Pointer(n)
  BY DEF PointsTo, Known
<1>2. at \in Span(at, SizeT)
  BY Bounds DEF Span
<1>3. \A k : Pointer(k) = Pointer(n) => k = n
  <2>1. \A k : Pointer(k).node = k
    BY DEF Pointer
  <2> QED
    BY <2>1
<1>4. Pointed(o, i) = {k \in Node : \A x \in Span(at, SizeT) : m[x] = Pointer(k)}
  BY DEF Pointed
<1> HIDE DEF at, m
<1> QED
  BY <1>1, <1>2, <1>3, <1>4

\* Every slot in use points to a reserved node.
LEMMA SlotNode ==
  ASSUME NEW ps \in Nat, NEW o, Sound(o, ps), NEW i \in 0 .. o.freed - 1
  PROVE  /\ o.block[FreedArray] # NoBlock /\ SlotAt(o.block, i) \in Int
         /\ \E n \in 0 .. o.structs - 1 : n \in Node /\ PointsTo(o, i, n)
<1> DEFINE array == o.block[FreedArray]
<1>1. Counts(o) /\ ArrayReads(o) /\ o.freed \in Nat /\ o.structs \in 0 .. MaxBuckets * Capacity
  BY DEF Sound, Counts
<1>2. array # NoBlock
  <2>1. o.freed # 0
    BY <1>1
  <2> QED
    BY <1>1, <2>1, NothingFreed
<1>3. SlotAt(o.block, i) = array.addr + i * SizeT
  BY DEF SlotAt
<1>4. array.addr \in Nat /\ i * SizeT \in Nat
  BY <1>1, <1>2, ArrayFacts, SlotIn
<1>5. PICK n \in 0 .. o.structs - 1 : Known(o.arena.mem, array.addr + i * SizeT, SizeT, Pointer(n))
  BY <1>1, <1>2 DEF ArrayReads
<1>6. n \in Node
  BY <1>1, StorageBounds DEF Node
<1> HIDE DEF array
<1>7. SlotAt(o.block, i) \in Int
  BY <1>3, <1>4
<1> QED
  BY <1>2, <1>3, <1>5, <1>6, <1>7 DEF PointsTo, array

\* What is read of the freed array.
LEMMA FreedRead ==
  ASSUME NEW ps \in Nat, NEW o, Sound(o, ps)
  PROVE  /\ o.freed \in Nat
         /\ FreedNodes(o) = [i \in 1 .. o.freed |-> FreedNodes(o)[i]]
         /\ \A i \in 1 .. o.freed : /\ FreedNodes(o)[i] \in 0 .. o.structs - 1
                                    /\ PointsTo(o, i - 1, FreedNodes(o)[i])
         /\ \A i \in 1 .. o.freed, n \in Node : PointsTo(o, i - 1, n) => FreedNodes(o)[i] = n
<1>1. o.freed \in Nat
  BY DEF Sound, Counts
<1>2. ASSUME NEW i \in 1 .. o.freed
      PROVE  FreedNodes(o)[i] = IF Pointed(o, i - 1) = {} THEN Junk
                                ELSE CHOOSE n \in Pointed(o, i - 1) : TRUE
  BY DEF FreedNodes
<1>3. ASSUME NEW i \in 1 .. o.freed, NEW n \in Node, PointsTo(o, i - 1, n)
      PROVE  FreedNodes(o)[i] = n
  <2>1. i - 1 \in 0 .. o.freed - 1
    BY <1>1
  <2>2. SlotAt(o.block, i - 1) \in Int
    BY <2>1, SlotNode
  <2>3. Pointed(o, i - 1) = {n}
    BY <1>3, <2>2, OnePointer
  <2> QED
    BY <1>2, <2>3
<1>4. ASSUME NEW i \in 1 .. o.freed
      PROVE  FreedNodes(o)[i] \in 0 .. o.structs - 1 /\ PointsTo(o, i - 1, FreedNodes(o)[i])
  <2>1. i - 1 \in 0 .. o.freed - 1
    BY <1>1
  <2>2. PICK n \in 0 .. o.structs - 1 : n \in Node /\ PointsTo(o, i - 1, n)
    BY <2>1, SlotNode
  <2> QED
    BY <1>3, <2>2
<1>5. FreedNodes(o) = [i \in 1 .. o.freed |-> FreedNodes(o)[i]]
  BY DEF FreedNodes
<1> QED
  BY <1>1, <1>3, <1>4, <1>5

\* Slots that say the same are read as the same nodes.
LEMMA SameFreed ==
  ASSUME NEW ps \in Nat, NEW o, Sound(o, ps), NEW qs \in Nat, NEW r, Sound(r, qs),
         r.freed = o.freed, SlotsCopied(o, r.arena.mem, r.block[FreedArray].addr)
  PROVE  FreedNodes(r) = FreedNodes(o)
<1>1. ASSUME NEW i \in 1 .. o.freed PROVE FreedNodes(r)[i] = FreedNodes(o)[i]
  <2> DEFINE n == FreedNodes(o)[i]
  <2>1. n \in 0 .. o.structs - 1 /\ PointsTo(o, i - 1, n) /\ o.freed \in Nat
    BY FreedRead
  <2>2. n \in Node /\ i - 1 \in 0 .. o.freed - 1
    <3>1. o.structs \in 0 .. MaxBuckets * Capacity
      BY DEF Sound, Counts
    <3> HIDE DEF n
    <3> QED
      BY <2>1, <3>1, NodeNumbers
  <2> HIDE DEF n
  <2>3. PointsTo(r, i - 1, n)
    BY <2>1, <2>2 DEF SlotsCopied, PointsTo, SlotAt
  <2>4. FreedNodes(r)[i] = n
    BY <2>2, <2>3, FreedRead
  <2> QED
    BY <2>4 DEF n
<1>2. /\ FreedNodes(o) = [i \in 1 .. o.freed |-> FreedNodes(o)[i]]
      /\ FreedNodes(r) = [i \in 1 .. o.freed |-> FreedNodes(r)[i]]
  BY FreedRead
<1> QED
  BY <1>1, <1>2

\* Writes that keep the freed array keep the freed nodes.
LEMMA KeptIsCopied ==
  ASSUME NEW ps \in Nat, NEW o, Sound(o, ps), NEW m \in [Addr -> Cell], ArrayKept(o, m)
  PROVE  SlotsCopied(o, m, o.block[FreedArray].addr)
<1> DEFINE array == o.block[FreedArray]
           a == array.addr
           used == o.freed * SizeT
           k == o.arena.mem
<1> SUFFICES ASSUME NEW i \in 0 .. o.freed - 1, NEW n \in Node,
                    Known(k, a + i * SizeT, SizeT, Pointer(n))
             PROVE  Known(m, a + i * SizeT, SizeT, Pointer(n))
  BY DEF SlotsCopied
<1>1. array # NoBlock
  BY SlotNode
<1>2. a \in Nat /\ used \in Nat /\ SizeT \in Nat /\ o.freed \in Nat
  BY <1>1, ArrayFacts, Bounds
<1>3. SameBytes(k, m, a - SizeT, a + used)
  BY <1>1 DEF ArrayKept
<1> DEFINE at == i * SizeT
           v == Pointer(n)
<1>4. at \in Nat /\ at + SizeT <= used
  BY <1>2, SlotIn
<1>5. Known(k, a + at, SizeT, v)
  OBVIOUS
<1> HIDE DEF a, used, array, at, v, k
<1>6. /\ a - SizeT \in Int /\ SizeT \in Int /\ a + used \in Int /\ a + at \in Int
      /\ a - SizeT <= a + at /\ (a + at) + SizeT <= a + used
  BY <1>2, <1>4
<1>7. Known(m, a + at, SizeT, v)
  BY ONLY <1>3, <1>5, <1>6, KnownStays
<1> QED
  BY <1>7 DEF at, a, array, v

\* The last pointer is taken from the array.
LEMMA LessFreed ==
  ASSUME NEW ps \in Nat, NEW o, Sound(o, ps), o.freed # 0,
         NEW r, r = State(o.arena, o.block, o.structs, o.freed - 1)
  PROVE  /\ FreedNodes(r) = [i \in 1 .. o.freed - 1 |-> FreedNodes(o)[i]]
         /\ Pointed(o, o.freed - 1) = {FreedNodes(o)[o.freed]}
<1>1. r.arena = o.arena /\ r.block = o.block /\ r.freed = o.freed - 1 /\ o.freed \in Nat \ {0}
  BY StateFields DEF Sound, Counts
<1>2. \A i : Pointed(r, i) = Pointed(o, i)
  BY <1>1 DEF Pointed
<1>3. FreedNodes(r) = [i \in 1 .. o.freed - 1 |-> FreedNodes(o)[i]]
  <2> DEFINE Only(S) == IF S = {} THEN Junk ELSE CHOOSE n \in S : TRUE
  <2>1. /\ FreedNodes(r) = [i \in 1 .. o.freed - 1 |-> Only(Pointed(r, i - 1))]
        /\ FreedNodes(o) = [i \in 1 .. o.freed |-> Only(Pointed(o, i - 1))]
    BY <1>1 DEF FreedNodes
  <2> HIDE DEF Only
  <2>2. \A i \in 1 .. o.freed - 1 : i \in 1 .. o.freed
    BY <1>1
  <2>3. \A i \in 1 .. o.freed - 1 : FreedNodes(o)[i] = Only(Pointed(r, i - 1))
    BY <1>2, <2>1, <2>2
  <2> QED
    BY <2>1, <2>3
<1>4. Pointed(o, o.freed - 1) = {FreedNodes(o)[o.freed]}
  <2> DEFINE n == FreedNodes(o)[o.freed]
  <2>1. o.freed \in 1 .. o.freed /\ o.freed - 1 \in 0 .. o.freed - 1
    BY <1>1
  <2>2. PointsTo(o, o.freed - 1, n) /\ n \in 0 .. o.structs - 1
    BY <2>1, FreedRead
  <2>3. n \in Node
    <3>1. o.structs \in 0 .. MaxBuckets * Capacity
      BY DEF Sound, Counts
    <3> HIDE DEF n
    <3> QED
      BY <2>2, <3>1, StorageBounds DEF Node
  <2>4. SlotAt(o.block, o.freed - 1) \in Int
    BY <2>1, SlotNode
  <2> HIDE DEF n
  <2>5. Pointed(o, o.freed - 1) = {n}
    BY <2>2, <2>3, <2>4, OnePointer
  <2> QED
    BY <2>5 DEF n
<1> QED
  BY <1>3, <1>4

\* A pointer is added to the array.
LEMMA MoreFreed ==
  ASSUME NEW ps \in Nat, NEW o, Sound(o, ps), NEW r, Sound(r, ps),
         r.freed = o.freed + 1, SlotsCopied(o, r.arena.mem, r.block[FreedArray].addr),
         NEW p \in Node, PointsTo(r, o.freed, p)
  PROVE  FreedNodes(r) = [i \in 1 .. o.freed + 1 |-> IF i = o.freed + 1 THEN p ELSE FreedNodes(o)[i]]
<1>1. o.freed \in Nat
  BY FreedRead
<1>2. ASSUME NEW i \in 1 .. o.freed + 1, i # o.freed + 1 PROVE FreedNodes(r)[i] = FreedNodes(o)[i]
  <2> DEFINE n == FreedNodes(o)[i]
  <2>0. i \in 1 .. o.freed /\ i \in 1 .. r.freed /\ i - 1 \in 0 .. o.freed - 1
    BY <1>1, <1>2
  <2>1. n \in 0 .. o.structs - 1 /\ PointsTo(o, i - 1, n)
    BY <2>0, FreedRead
  <2>2. n \in Node
    <3>1. o.structs \in 0 .. MaxBuckets * Capacity
      BY DEF Sound, Counts
    <3> HIDE DEF n
    <3> QED
      BY <2>1, <3>1, NodeNumbers
  <2> HIDE DEF n
  <2>3. PointsTo(r, i - 1, n)
    BY <2>0, <2>1, <2>2 DEF SlotsCopied, PointsTo, SlotAt
  <2>4. FreedNodes(r)[i] = n
    BY <2>0, <2>2, <2>3, FreedRead
  <2> QED
    BY <2>4 DEF n
<1>3. FreedNodes(r)[o.freed + 1] = p
  <2>1. o.freed + 1 \in 1 .. r.freed /\ o.freed + 1 - 1 = o.freed
    BY <1>1
  <2> QED
    BY <2>1, FreedRead
<1>4. FreedNodes(r) = [i \in 1 .. o.freed + 1 |-> FreedNodes(r)[i]]
  <2>1. FreedNodes(r) = [i \in 1 .. r.freed |-> FreedNodes(r)[i]]
    BY FreedRead
  <2> QED
    BY <2>1
<1> QED
  BY <1>2, <1>3, <1>4

-----------------------------------------------------------------------------
(***************************************************************************)
(* The buckets that there are, and the nodes that a write leaves alone.    *)
(***************************************************************************)

\* The buckets that hold n nodes; there are no others.
FullBuckets(n) == IF n % Capacity = 0 THEN n \div Capacity ELSE BucketOf(n)
BucketsFilled(o) ==
  \A h \in Handle \ {FreedArray} : o.block[h] # NoBlock <=> h <= FullBuckets(o.structs)
SameBuckets(o, r) == \A h \in Handle \ {FreedArray} : r.block[h] = o.block[h]

\* Nodes that have memory but are not reserved yet are indeterminate.
SpareJunk(o) == \A n \in Node : HasPlace(o, n) /\ o.structs <= n => NodeIs(o, n, Junk)

\* Where the buckets stay, the nodes do.
LEMMA NodesStay ==
  ASSUME NEW o, NEW r, SameBuckets(o, r)
  PROVE  /\ Buckets(r) = Buckets(o)
         /\ \A n \in Node : /\ NodeAt(r.block, n) = NodeAt(o.block, n)
                            /\ HasPlace(r, n) <=> HasPlace(o, n)
                            /\ r.block[BucketOf(n)] = o.block[BucketOf(n)]
         /\ r.structs = o.structs /\ BucketsFilled(o) => BucketsFilled(r)
<1>1. ASSUME NEW n \in Node PROVE r.block[BucketOf(n)] = o.block[BucketOf(n)]
  BY NodeInBucket DEF SameBuckets
<1>2. \A n \in Node : /\ NodeAt(r.block, n) = NodeAt(o.block, n)
                      /\ HasPlace(r, n) <=> HasPlace(o, n)
  BY <1>1 DEF NodeAt, HasPlace
<1>3. {h \in Handle \ {FreedArray} : r.block[h] # NoBlock}
        = {h \in Handle \ {FreedArray} : o.block[h] # NoBlock}
  BY DEF SameBuckets
<1>4. Buckets(r) = Buckets(o)
  BY <1>3 DEF Buckets
<1>5. r.structs = o.structs /\ BucketsFilled(o) => BucketsFilled(r)
  BY DEF BucketsFilled, SameBuckets
<1> QED
  BY <1>1, <1>2, <1>4, <1>5

\* A node whose bucket and bytes stay has the contents it had.
LEMMA ContentsStay ==
  ASSUME NEW ps \in Nat, NEW o, Sound(o, ps), NEW n, HasPlace(o, n),
         NEW r, r.block[BucketOf(n)] = o.block[BucketOf(n)],
         SameBytes(o.arena.mem, r.arena.mem, NodeAt(o.block, n), NodeAt(o.block, n) + NodeSize)
  PROVE  Contents(r, n) = Contents(o, n)
<1>1. NodeAt(r.block, n) = NodeAt(o.block, n)
  BY DEF NodeAt
<1>2. NodeAt(o.block, n) \in Int
  BY NodePlace
<1>3. SameNode(o, n, r, n)
  BY NodeStays
<1> QED
  BY <1>1, <1>2, <1>3, ContentsOfSame

\* What a storage is when its memory changes.
LEMMA InMemoryFields ==
  ASSUME NEW ps \in Nat, NEW o, Sound(o, ps), NEW m \in [Addr -> Cell],
         NEW r, r = InMemory(o, m)
  PROVE  /\ r.arena.mem = m /\ r.block = o.block /\ r.structs = o.structs /\ r.freed = o.freed
         /\ SameBuckets(o, r) /\ o.arena.mem \in [Addr -> Cell]
<1>1. o.arena \in ArenaState /\ o.arena.mem \in [Addr -> Cell]
  BY ShapeFacts, StateType DEF Sound
<1>2. /\ r.arena = Written(o.arena, m) /\ r.block = o.block /\ r.structs = o.structs
      /\ r.freed = o.freed
  BY StateFields DEF InMemory
<1>3. r.arena.mem = m
  BY <1>1, <1>2, WrittenFields
<1> QED
  BY <1>1, <1>2, <1>3 DEF SameBuckets

\* What is written into a node changes no other one, and no freed pointer.
LEMMA NodeWritten ==
  ASSUME NEW ps \in Nat, NEW o, Sound(o, ps), NEW n \in 0 .. o.structs - 1,
         NEW m \in [Addr -> Cell],
         \A x \in Addr : m[x] # o.arena.mem[x] =>
           NodeAt(o.block, n) <= x /\ x < NodeAt(o.block, n) + NodeSize,
         NEW r, r = InMemory(o, m)
  PROVE  /\ FreedNodes(r) = FreedNodes(o)
         /\ \A k : HasPlace(o, k) /\ k # n => Contents(r, k) = Contents(o, k)
<1>1. /\ r.arena.mem = m /\ r.block = o.block /\ r.structs = o.structs /\ r.freed = o.freed
      /\ SameBuckets(o, r)
  BY InMemoryFields
<1>2. Sound(r, ps) /\ ArrayKept(o, m)
  BY NodeWrites
<1>3. FreedNodes(r) = FreedNodes(o)
  <2>1. SlotsCopied(o, r.arena.mem, r.block[FreedArray].addr)
    BY <1>1, <1>2, KeptIsCopied
  <2> QED
    BY <1>1, <1>2, <2>1, SameFreed
<1>4. ASSUME NEW k, HasPlace(o, k), k # n PROVE Contents(r, k) = Contents(o, k)
  <2> DEFINE at == NodeAt(o.block, n)
             to == NodeAt(o.block, k)
  <2>1. HasPlace(o, n)
    BY ReservedHasPlace
  <2>2. at \in Nat /\ to \in Nat /\ NodeSize \in Nat
    BY <1>4, <2>1, NodePlace, StorageBounds
  <2>3. at + NodeSize <= to \/ to + NodeSize <= at
    BY <1>4, <2>1, NodesApart
  <2>4. \A x \in Addr : m[x] # o.arena.mem[x] => at <= x /\ x < at + NodeSize
    OBVIOUS
  <2>5. SameBytes(o.arena.mem, m, to, to + NodeSize)
    <3>1. \A x \in Addr : x \in Int
      BY Bounds DEF Addr
    <3> HIDE DEF at, to
    <3> QED
      BY <2>2, <2>3, <2>4, <3>1 DEF SameBytes
  <2> QED
    BY <1>1, <1>4, <2>5, ContentsStay
<1> QED
  BY <1>3, <1>4

\* What a storage reads when one of its nodes changes.
LEMMA NodeChanged ==
  ASSUME NEW ps \in Nat, NEW o, Sound(o, ps), NEW n \in 0 .. o.structs - 1,
         NEW r, r.structs = o.structs, NEW v, Contents(r, n) = v,
         \A k : HasPlace(o, k) /\ k # n => Contents(r, k) = Contents(o, k)
  PROVE  NodeContents(r) = [NodeContents(o) EXCEPT ![n] = v]
<1>1. n \in Node /\ n < o.structs /\ o.structs \in Int
  <2>1. HasPlace(o, n) /\ o.structs \in 0 .. MaxBuckets * Capacity
    BY ReservedHasPlace DEF Sound, Counts
  <2> QED
    BY <2>1, StorageBounds DEF HasPlace
<1>2. ASSUME NEW k \in Node, k # n, k < o.structs PROVE Contents(r, k) = Contents(o, k)
  <2>1. k \in 0 .. o.structs - 1
    BY <1>1, <1>2, StorageBounds DEF Node
  <2> QED
    BY <1>2, <2>1, ReservedHasPlace
<1>3. /\ NodeContents(r) = [k \in Node |-> IF k < o.structs THEN Contents(r, k) ELSE Junk]
      /\ NodeContents(o) = [k \in Node |-> IF k < o.structs THEN Contents(o, k) ELSE Junk]
  BY DEF NodeContents
<1> QED
  BY <1>1, <1>2, <1>3

\* A node is filled with a byte.
LEMMA NodeSet ==
  ASSUME NEW ps \in Nat, NEW o, Sound(o, ps), NEW n \in 0 .. o.structs - 1, NEW v \in Cell,
         NEW r, r = WithNode(o, n, v)
  PROVE  /\ Sound(r, ps) /\ r.structs = o.structs /\ r.freed = o.freed /\ SameBuckets(o, r)
         /\ FreedNodes(r) = FreedNodes(o)
         /\ NodeContents(r) = [NodeContents(o) EXCEPT ![n] = v]
<1> DEFINE at == NodeAt(o.block, n)
           m == o.arena.mem
           k == Store(m, at, NodeSize, v)
<1>1. at \in Nat /\ 1 <= at /\ at + NodeSize <= AddrMax + 1 /\ NodeSize \in Nat /\ AddrMax \in Nat
  BY ReservedHasPlace, NodePlace, StorageBounds, Bounds
<1>2. m \in [Addr -> Cell]
  BY ShapeFacts, StateType DEF Sound
<1>3. /\ k \in [Addr -> Cell]
      /\ \A x \in Addr : k[x] = IF at <= x /\ x < at + NodeSize THEN v ELSE m[x]
  <2>1. at \in Int /\ NodeSize \in Int
    BY <1>1
  <2> HIDE DEF at, m
  <2> QED
    BY <1>2, <2>1, StoreProperties
<1>4. r = InMemory(o, k)
  BY DEF WithNode
<1> HIDE DEF k
<1>5. \A x \in Addr : k[x] # o.arena.mem[x] => at <= x /\ x < at + NodeSize
  BY <1>3
<1>6. /\ r.arena.mem = k /\ r.block = o.block /\ r.structs = o.structs /\ r.freed = o.freed
      /\ SameBuckets(o, r)
  BY <1>3, <1>4, InMemoryFields
<1>7. /\ FreedNodes(r) = FreedNodes(o)
      /\ \A j : HasPlace(o, j) /\ j # n => Contents(r, j) = Contents(o, j)
  BY <1>3, <1>4, <1>5, NodeWritten
<1>8. Contents(r, n) = v
  <2>1. NodeAt(r.block, n) = at
    BY <1>6
  <2> HIDE DEF at
  <2>2. \A i \in 0 .. NodeSize - 1 : at + i \in Addr /\ at <= at + i /\ at + i < at + NodeSize
    BY <1>1 DEF Addr
  <2>3. NodeIs(r, n, v)
    BY <1>3, <1>6, <2>1, <2>2 DEF NodeIs
  <2> QED
    BY <1>1, <2>1, <2>3, ContentsOfFilled
<1>9. Sound(r, ps)
  BY NodeFilled
<1> QED
  BY <1>6, <1>7, <1>8, <1>9, NodeChanged

\* A node gets the bytes of another one.
LEMMA NodeCopied ==
  ASSUME NEW ps \in Nat, NEW o, Sound(o, ps), NEW n \in 0 .. o.structs - 1,
         NEW q \in 0 .. o.structs - 1, NEW r, r = WithCopy(o, n, q)
  PROVE  /\ Sound(r, ps) /\ r.structs = o.structs /\ r.freed = o.freed /\ SameBuckets(o, r)
         /\ FreedNodes(r) = FreedNodes(o)
         /\ NodeContents(r) = [NodeContents(o) EXCEPT ![n] = NodeContents(o)[q]]
<1> DEFINE at == NodeAt(o.block, n)
           from == NodeAt(o.block, q)
           m == o.arena.mem
           k == CopyBytes(m, at, from, NodeSize)
<1>1. at \in Nat /\ 1 <= at /\ at + NodeSize <= AddrMax + 1 /\ NodeSize \in Nat /\ AddrMax \in Nat
  BY ReservedHasPlace, NodePlace, StorageBounds, Bounds
<1>2. from \in Nat /\ 1 <= from /\ from + NodeSize <= AddrMax + 1
  BY ReservedHasPlace, NodePlace
<1>3. m \in [Addr -> Cell]
  BY ShapeFacts, StateType DEF Sound
<1>4. /\ k \in [Addr -> Cell]
      /\ \A x \in Addr : k[x] # m[x] => at <= x /\ x < at + NodeSize
  <2> HIDE DEF at, from, m
  <2> QED
    BY <1>1, <1>2, <1>3, CopyBytesProperties
<1>5. \A i \in 0 .. NodeSize - 1 : k[at + i] = m[from + i]
  <2> HIDE DEF at, from, m
  <2> SUFFICES ASSUME NEW i \in 0 .. NodeSize - 1 PROVE k[at + i] = m[from + i]
    OBVIOUS
  <2>1. /\ at + i \in Addr /\ at <= at + i /\ at + i < at + NodeSize
        /\ from + ((at + i) - at) = from + i /\ from + i \in Addr
    BY <1>1, <1>2 DEF Addr
  <2> QED
    BY <2>1 DEF CopyBytes
<1>6. r = InMemory(o, k)
  BY DEF WithCopy
<1> HIDE DEF k
<1>7. /\ r.arena.mem = k /\ r.block = o.block /\ r.structs = o.structs /\ r.freed = o.freed
      /\ SameBuckets(o, r)
  BY <1>4, <1>6, InMemoryFields
<1>8. /\ FreedNodes(r) = FreedNodes(o)
      /\ \A j : HasPlace(o, j) /\ j # n => Contents(r, j) = Contents(o, j)
  BY <1>4, <1>6, NodeWritten
<1>9. Contents(r, n) = NodeContents(o)[q]
  <2>1. SameNode(o, q, r, n)
    BY <1>5, <1>7 DEF SameNode
  <2>2. NodeAt(o.block, q) \in Int /\ NodeAt(r.block, n) \in Int
    BY <1>1, <1>2, <1>7
  <2>3. q \in Node /\ q < o.structs
    <3>1. HasPlace(o, q) /\ o.structs \in 0 .. MaxBuckets * Capacity
      BY ReservedHasPlace DEF Sound, Counts
    <3> QED
      BY <3>1, StorageBounds DEF HasPlace
  <2>4. Contents(r, n) = Contents(o, q)
    BY <2>1, <2>2, ContentsOfSame
  <2> QED
    BY <2>3, <2>4 DEF NodeContents
<1>10. Sound(r, ps)
  BY NodeFilled
<1> QED
  BY <1>7, <1>8, <1>9, <1>10, NodeChanged

-----------------------------------------------------------------------------
(***************************************************************************)
(* What a step reads and what it leaves indeterminate.                     *)
(***************************************************************************)

\* No byte of a node that is not reserved is one that somebody reads.
LEMMA SpareNotInUse ==
  ASSUME NEW ps \in Nat, NEW o, Sound(o, ps), NEW n, HasPlace(o, n), o.structs <= n
  PROVE  \A x \in InUse(o) : ~(NodeAt(o.block, n) <= x /\ x < NodeAt(o.block, n) + NodeSize)
<1> DEFINE at == NodeAt(o.block, n)
           h == BucketOf(n)
           array == o.block[FreedArray]
           nodes == UNION {Span(NodeAt(o.block, k), NodeSize) : k \in 0 .. o.structs - 1}
           slots == Span(array.addr, o.freed * SizeT)
           head == Span(array.addr - SizeT, SizeT)
<1>1. /\ at \in Nat /\ NodeSize \in Nat /\ SizeT \in Nat /\ BucketSize \in Nat /\ o.structs \in Nat
      /\ n \in Nat
  <2>1. o.structs \in 0 .. MaxBuckets * Capacity
    BY DEF Sound, Counts
  <2> QED
    BY <2>1, NodePlace, StorageBounds, Bounds DEF HasPlace, Node
<1>2. ASSUME NEW x \in nodes PROVE ~(at <= x /\ x < at + NodeSize)
  <2>1. PICK k \in 0 .. o.structs - 1 : x \in Span(NodeAt(o.block, k), NodeSize)
    OBVIOUS
  <2> DEFINE to == NodeAt(o.block, k)
  <2>2. HasPlace(o, k) /\ k # n
    BY <1>1, ReservedHasPlace
  <2>3. to \in Nat
    BY <2>2, NodePlace
  <2>4. at + NodeSize <= to \/ to + NodeSize <= at
    BY <2>2, NodesApart
  <2> HIDE DEF at, to
  <2>5. x \in Int /\ to <= x /\ x < to + NodeSize
    BY <1>1, <2>1, <2>3 DEF Span, to
  <2> QED
    BY <1>1, <2>3, <2>4, <2>5
<1>3. ASSUME array # NoBlock, NEW x \in slots \cup head PROVE ~(at <= x /\ x < at + NodeSize)
  <2> DEFINE a == array.addr
             used == o.freed * SizeT
             b == o.block[h].addr
  <2>1. a \in Nat /\ used \in Nat
    BY <1>3, ArrayFacts
  <2>2. h \in Handle /\ h # FreedArray /\ o.block[h] # NoBlock /\ b <= at /\ at + NodeSize <= b + BucketSize
    BY NodePlace DEF HasPlace
  <2>3. b \in Nat
    BY <2>2, BucketFacts
  <2>4. a + used <= b \/ b + BucketSize <= a - SizeT
    <3> HIDE DEF h
    <3> QED
      BY <1>3, <2>2, BucketApart
  <2> HIDE DEF a, used, b, at
  <2>5. x \in Int /\ a - SizeT <= x /\ x < a + used
    BY <1>1, <1>3, <2>1 DEF Span, a, used
  <2> QED
    BY <1>1, <2>1, <2>2, <2>3, <2>4, <2>5
<1>4. CASE array # NoBlock
  <2>1. InUse(o) = nodes \cup slots \cup head
    BY <1>4 DEF InUse
  <2> HIDE DEF nodes, slots, head, array, at
  <2> QED
    BY <1>2, <1>3, <1>4, <2>1 DEF at
<1>5. CASE array = NoBlock
  <2>1. InUse(o) = nodes \cup slots \cup {}
    BY <1>5 DEF InUse
  <2>2. slots = {}
    <3>1. o.freed = 0
      BY <1>5, NothingFreed DEF Sound
    <3>2. o.freed * SizeT = 0
      BY <1>1, <3>1
    <3>3. array.addr = 0
      BY <1>5 DEF NoBlock, Block, Null
    <3> QED
      BY <3>2, <3>3 DEF Span
  <2> HIDE DEF nodes, slots, head, array, at
  <2> QED
    BY <1>2, <2>1, <2>2 DEF at
<1> QED
  BY <1>4, <1>5

\* What nobody reads becomes indeterminate: what is read stays, what is spare
\* has no contents.
LEMMA CommitReads ==
  ASSUME NEW ps \in Nat, NEW o, Sound(o, ps), NEW r, r = InMemory(o, Kept(o))
  PROVE  /\ r.structs = o.structs /\ r.freed = o.freed /\ SameBuckets(o, r)
         /\ FreedNodes(r) = FreedNodes(o)
         /\ NodeContents(r) = NodeContents(o)
         /\ SpareJunk(r)
<1> DEFINE m == o.arena.mem
           k == Kept(o)
<1>1. k \in [Addr -> Cell] /\ Sound(r, ps) /\ ArrayKept(o, k)
  BY CommitKeeps
<1>2. /\ r.arena.mem = k /\ r.block = o.block /\ r.structs = o.structs /\ r.freed = o.freed
      /\ SameBuckets(o, r)
  BY <1>1, InMemoryFields
<1>3. \A x \in Addr : k[x] = IF x \in InUse(o) THEN m[x] ELSE Junk
  BY DEF Kept
<1> HIDE DEF k
<1>4. FreedNodes(r) = FreedNodes(o)
  <2>1. SlotsCopied(o, r.arena.mem, r.block[FreedArray].addr)
    BY <1>1, <1>2, KeptIsCopied
  <2> QED
    BY <1>1, <1>2, <2>1, SameFreed
<1>5. ASSUME NEW n \in 0 .. o.structs - 1 PROVE Contents(r, n) = Contents(o, n)
  <2> DEFINE at == NodeAt(o.block, n)
  <2>1. HasPlace(o, n)
    BY ReservedHasPlace
  <2>2. Span(at, NodeSize) \subseteq InUse(o)
    BY DEF InUse
  <2>3. at \in Nat /\ NodeSize \in Nat /\ \A x \in Addr : x \in Int
    BY <2>1, NodePlace, StorageBounds, Bounds DEF Addr
  <2> HIDE DEF at
  <2>4. SameBytes(m, k, at, at + NodeSize)
    BY <1>3, <2>2, <2>3 DEF SameBytes, Span
  <2> QED
    BY <1>2, <2>1, <2>4, ContentsStay DEF at
<1>6. NodeContents(r) = NodeContents(o)
  <2>1. o.structs \in Nat /\ \A n \in Node : n \in Nat
    BY StorageBounds DEF Sound, Counts, Node
  <2>2. \A n \in Node : n < o.structs => Contents(r, n) = Contents(o, n)
    BY <1>5, <2>1
  <2> QED
    BY <1>2, <2>2 DEF NodeContents
<1>7. ASSUME NEW n \in Node, HasPlace(r, n), r.structs <= n PROVE NodeIs(r, n, Junk)
  <2> DEFINE at == NodeAt(o.block, n)
  <2>1. HasPlace(o, n) /\ o.structs <= n /\ NodeAt(r.block, n) = at
    BY <1>2, <1>7, NodesStay
  <2>2. at \in Nat /\ 1 <= at /\ at + NodeSize <= AddrMax + 1 /\ NodeSize \in Nat /\ AddrMax \in Nat
    BY <2>1, NodePlace, StorageBounds, Bounds
  <2>3. \A x \in InUse(o) : ~(at <= x /\ x < at + NodeSize)
    BY <2>1, SpareNotInUse
  <2> HIDE DEF at
  <2>4. \A i \in 0 .. NodeSize - 1 : at + i \in Addr /\ at <= at + i /\ at + i < at + NodeSize
    BY <2>2 DEF Addr
  <2> QED
    BY <1>2, <1>3, <2>1, <2>3, <2>4 DEF NodeIs
<1> QED
  BY <1>2, <1>4, <1>6, <1>7 DEF SpareJunk

\* One node more, in the bucket of the next one.
LEMMA NextBucket ==
  ASSUME NEW n \in Nat
  PROVE  /\ FullBuckets(n) \in Nat /\ FullBuckets(n + 1) = BucketOf(n)
         /\ n % Capacity = 0 => FullBuckets(n) + 1 = BucketOf(n) /\ n = FullBuckets(n) * Capacity
         /\ n % Capacity # 0 => FullBuckets(n) = BucketOf(n) /\ n # FullBuckets(n) * Capacity
<1> DEFINE q == n \div Capacity
           r == n % Capacity
           p == (n + 1) \div Capacity
           t == (n + 1) % Capacity
<1>1. Capacity \in Nat \ {0} /\ n + 1 \in Nat
  BY StorageBounds
<1>2. q \in Nat /\ r \in 0 .. Capacity - 1 /\ n = Capacity * q + r
  BY <1>1, Remainder
<1>3. p \in Nat /\ t \in 0 .. Capacity - 1 /\ n + 1 = Capacity * p + t
  <2> DEFINE m == n + 1
  <2>1. m \in Nat
    OBVIOUS
  <2> HIDE DEF m
  <2>2. m \div Capacity \in Nat /\ m % Capacity \in 0 .. Capacity - 1
        /\ m = Capacity * (m \div Capacity) + (m % Capacity)
    BY <1>1, <2>1, Remainder
  <2> QED
    BY <2>2 DEF m
<1>4. BucketOf(n) = q + 1
  BY DEF BucketOf
<1>5. ASSUME r = 0 PROVE FullBuckets(n) = q /\ n = q * Capacity
  <2>1. FullBuckets(n) = q
    BY <1>5 DEF FullBuckets
  <2> HIDE DEF q, r, p, t
  <2>2. n = q * Capacity
    BY <1>1, <1>2, <1>5
  <2> QED
    BY <2>1, <2>2 DEF q
<1>6. ASSUME r # 0 PROVE FullBuckets(n) = q + 1 /\ n # (q + 1) * Capacity
  <2>1. FullBuckets(n) = q + 1
    BY <1>4, <1>6 DEF FullBuckets
  <2> HIDE DEF q, r, p, t
  <2>2. n # (q + 1) * Capacity
    <3>1. (q + 1) * Capacity = Capacity * q + Capacity
      BY <1>1, <1>2
    <3> DEFINE x == Capacity * q
    <3>2. x \in Nat
      BY <1>1, <1>2
    <3>3. n = x + r /\ (q + 1) * Capacity = x + Capacity
      BY <1>2, <3>1
    <3> HIDE DEF x
    <3> QED
      BY <1>1, <1>2, <3>2, <3>3
  <2> QED
    BY <2>1, <2>2 DEF q
<1>7. FullBuckets(n + 1) = q + 1
  <2>1. CASE t # 0
    <3>1. FullBuckets(n + 1) = BucketOf(n + 1)
      BY <2>1 DEF FullBuckets
    <3> DEFINE m == n + 1
    <3>2. m \in Nat /\ m % Capacity # 0
      BY <2>1
    <3>3. m - 1 = n
      OBVIOUS
    <3> HIDE DEF m
    <3>4. BucketOf(m) = BucketOf(m - 1)
      BY <3>2, SameBucket
    <3> QED
      BY <1>4, <3>1, <3>3, <3>4 DEF m
  <2>2. CASE t = 0
    <3>1. FullBuckets(n + 1) = p
      BY <2>2 DEF FullBuckets
    <3> HIDE DEF q, r, p, t
    <3>2. Capacity * p = Capacity * q + (r + 1)
      BY <1>1, <1>2, <1>3, <2>2
    <3>3. ASSUME p < q + 1 PROVE FALSE
      <4>1. p * Capacity <= q * Capacity /\ p * Capacity = Capacity * p /\ q * Capacity = Capacity * q
        BY <1>1, <1>2, <1>3, <3>3, Monotone
      <4> QED
        BY <1>1, <1>2, <1>3, <3>2, <4>1
    <3>4. ASSUME q + 1 < p PROVE FALSE
      <4>1. (q + 2) * Capacity <= p * Capacity /\ p * Capacity = Capacity * p
            /\ (q + 2) * Capacity = Capacity * q + 2 * Capacity
        BY <1>1, <1>2, <1>3, <3>4, Monotone
      <4> QED
        BY <1>1, <1>2, <1>3, <3>2, <4>1
    <3>5. p = q + 1
      BY <1>2, <1>3, <3>3, <3>4
    <3> QED
      BY <3>1, <3>5
  <2> QED
    BY <2>1, <2>2
<1> HIDE DEF q
<1>8. r = 0 \/ r # 0
  OBVIOUS
<1>9. FullBuckets(n) \in Nat
  BY <1>2, <1>5, <1>6, <1>8
<1> QED
  BY <1>4, <1>5, <1>6, <1>7, <1>9

-----------------------------------------------------------------------------
(***************************************************************************)
(* One more bucket, one more node.                                         *)
(***************************************************************************)

\* A storage has as many buckets as its nodes fill.
LEMMA BucketCount ==
  ASSUME NEW o, o.structs \in 0 .. MaxBuckets * Capacity, BucketsFilled(o)
  PROVE  Buckets(o) = FullBuckets(o.structs)
<1> DEFINE n == o.structs
           full == FullBuckets(n)
<1>1. n \in Nat /\ MaxBuckets \in Nat /\ Handle = 0 .. MaxBuckets /\ FreedArray = 0
  BY StorageBounds DEF FreedArray
<1>2. full \in 0 .. MaxBuckets
  <2>1. CASE n = 0
    <3>1. n % Capacity = 0
      BY <2>1, StorageBounds
    <3>2. n \div Capacity = 0
      BY <2>1, StorageBounds
    <3>3. full = n \div Capacity
      BY <3>1 DEF FullBuckets
    <3> HIDE DEF full
    <3> QED
      BY <1>1, <3>2, <3>3
  <2>2. CASE n # 0
    <3> DEFINE k == n - 1
    <3>1. k \in Nat /\ k \in Node /\ k + 1 = n
      BY <1>1, <2>2, StorageBounds DEF Node
    <3> HIDE DEF k
    <3>2. BucketOf(k) \in Handle /\ FullBuckets(k + 1) = BucketOf(k)
      BY <3>1, NodeInBucket, NextBucket
    <3> QED
      BY <1>1, <3>1, <3>2
  <2> QED
    BY <2>1, <2>2
<1> HIDE DEF full
<1>3. {h \in Handle \ {FreedArray} : o.block[h] # NoBlock} = 1 .. full
  BY <1>1, <1>2 DEF BucketsFilled, full
<1>4. Cardinality(1 .. full) = full
  <2>1. 1 \in Int /\ full \in Int
    BY <1>2
  <2>2. Cardinality(1 .. full) = IF 1 > full THEN 0 ELSE full - 1 + 1
    BY <2>1, FS_Interval
  <2> QED
    BY <1>2, <2>2
<1> QED
  BY <1>3, <1>4 DEF Buckets, full

\* mulle_structqueue_reserve: the queue has one element more, indeterminate as
\* it was, in a new bucket when the last one is full.
LEMMA ReserveReads ==
  ASSUME StorageFits, pageSize \in Nat \ {0}, NEW o, Sound(o, pageSize), o.freed = 0,
         o.structs < MaxBuckets * Capacity, BucketsFilled(o), SpareJunk(o), NEW r \in Reserve(o)
  PROVE  /\ Sound(r, pageSize) /\ r.structs = o.structs + 1 /\ r.freed = 0
         /\ NodeContents(r) = NodeContents(o)
         /\ BucketsFilled(r)
         /\ Buckets(r) = IF o.structs = Buckets(o) * Capacity THEN Buckets(o) + 1 ELSE Buckets(o)
<1> DEFINE n == o.structs
           h == BucketOf(n)
<1>0. pageSize \in Nat /\ n \in Nat /\ n \in Node /\ n \in 0 .. MaxBuckets * Capacity
      /\ MaxBuckets * Capacity \in Nat
  <2>1. n \in 0 .. MaxBuckets * Capacity
    BY DEF Sound, Counts
  <2> QED
    BY <2>1, StorageBounds DEF Node
<1>1. PICK e \in IF n % Capacity # 0 THEN {o} ELSE NewBucket(o, h) :
        r = State(e.arena, e.block, e.structs + 1, e.freed)
  BY DEF Reserve
<1>2. r.arena = e.arena /\ r.block = e.block /\ r.structs = e.structs + 1 /\ r.freed = e.freed
  BY <1>1, StateFields
<1>3. Sound(r, pageSize) /\ r.structs = n + 1
  BY ReserveSound
<1>4. h \in Handle /\ h # FreedArray
  BY <1>0, NodeInBucket
<1>5. /\ FullBuckets(n) \in Nat /\ FullBuckets(n + 1) = h
      /\ n % Capacity = 0 => FullBuckets(n) + 1 = h /\ n = FullBuckets(n) * Capacity
      /\ n % Capacity # 0 => FullBuckets(n) = h /\ n # FullBuckets(n) * Capacity
  BY <1>0, NextBucket
<1> HIDE DEF h
<1>6. /\ e.freed = 0
      /\ \A k \in 0 .. n - 1 : Contents(e, k) = Contents(o, k)
      /\ Contents(e, n) = Junk
      /\ \A g \in Handle \ {FreedArray} : e.block[g] # NoBlock <=> g <= h
  <2>1. CASE n % Capacity # 0
    <3>1. e = o
      BY <1>1, <2>1
    <3>2. HasPlace(o, n)
      <4>1. o.block[h] # NoBlock
        <5>1. h <= FullBuckets(n) /\ h \in Int
          BY <1>4, <1>5, <2>1, StorageBounds
        <5> QED
          BY <1>4, <5>1 DEF BucketsFilled
      <4> QED
        BY <1>0, <4>1 DEF HasPlace, h
    <3>3. NodeAt(o.block, n) \in Int
      BY <1>0, <3>2, NodePlace
    <3>4. NodeIs(o, n, Junk)
      BY <1>0, <3>2 DEF SpareJunk
    <3>5. Contents(o, n) = Junk
      BY <3>3, <3>4, ContentsOfFilled
    <3> QED
      BY <1>5, <2>1, <3>1, <3>5 DEF BucketsFilled
  <2>2. CASE n % Capacity = 0
    <3>1. e \in NewBucket(o, h)
      BY <1>1, <2>2
    <3>2. /\ Sound(e, pageSize) /\ e.structs = n /\ e.freed = 0 /\ e.block[h] # NoBlock
          /\ \A g \in Handle : g # h => e.block[g] = o.block[g]
          /\ \A x \in Addr : e.block[h].addr <= x /\ x < e.block[h].addr + BucketSize =>
               e.arena.mem[x] = Junk
          /\ \A lo, hi \in Int :
               /\ Holds(o.arena, lo, hi)
               /\ hi <= e.block[h].addr \/ e.block[h].addr + BucketSize <= lo
               => SameBytes(o.arena.mem, e.arena.mem, lo, hi)
      BY <1>4, <3>1, NewBucketSound
    <3>3. o.block[h] = NoBlock
      <4>1. ~(h <= FullBuckets(n))
        BY <1>4, <1>5, <2>2, StorageBounds
      <4> QED
        BY <1>4, <4>1 DEF BucketsFilled
    <3>4. ASSUME NEW k \in 0 .. n - 1 PROVE Contents(e, k) = Contents(o, k)
      <4> DEFINE g == BucketOf(k)
                 at == NodeAt(o.block, k)
                 a == o.block[g].addr
                 b == e.block[h].addr
      <4>1. HasPlace(o, k)
        BY <1>0, ReservedHasPlace
      <4>2. /\ g \in Handle /\ g # FreedArray /\ o.block[g] # NoBlock /\ g # h
            /\ at \in Nat /\ a <= at /\ at + NodeSize <= a + BucketSize
        BY <1>0, <3>3, <4>1, NodePlace DEF HasPlace
      <4>3. e.block[g] = o.block[g]
        BY <3>2, <4>2
      <4>4. /\ a \in Nat /\ Start(o.block[g]) = a - SizeT /\ End(o.block[g]) = a + BucketSize
            /\ Holds(o.arena, Start(o.block[g]), End(o.block[g]))
        BY <1>0, <4>2, BucketFacts
      <4>5. a + BucketSize <= b \/ b + BucketSize <= a
        BY <1>0, <1>4, <3>2, <4>2, <4>3, BucketsApart
      <4>6. b \in Nat /\ Start(e.block[h]) = b - SizeT /\ End(e.block[h]) = b + BucketSize
        BY <1>0, <1>4, <3>2, BucketFacts
      <4>7. End(o.block[g]) <= Start(e.block[h]) \/ End(e.block[h]) <= Start(o.block[g])
        <5>1. BlocksOK(e.arena, Own(e.block)) /\ Mine(e.block)
          BY <1>0, <3>2, ShapeFacts DEF Sound
        <5>2. Own(e.block)[g] = o.block[g] /\ Own(e.block)[h] = e.block[h]
          BY <1>4, <4>2, <4>3, <5>1, Owned
        <5> QED
          BY <1>4, <3>2, <4>2, <5>1, <5>2 DEF BlocksOK
      <4>8. SameBytes(o.arena.mem, e.arena.mem, at, at + NodeSize)
        <5>1. SizeT \in Nat /\ BucketSize \in Nat /\ NodeSize \in Nat /\ \A x \in Addr : x \in Int
          BY Bounds, StorageBounds DEF Addr
        <5> DEFINE lo == a - SizeT
                   hi == a + BucketSize
        <5>2. lo \in Int /\ hi \in Int /\ (hi <= b \/ b + BucketSize <= lo)
          <6> HIDE DEF a, b, g
          <6> QED
            BY <4>4, <4>6, <4>7, <5>1
        <5>3. Holds(o.arena, lo, hi)
          BY <4>4
        <5> HIDE DEF lo, hi
        <5>4. SameBytes(o.arena.mem, e.arena.mem, lo, hi)
          BY <3>2, <5>2, <5>3
        <5> HIDE DEF a, b, at
        <5>5. lo <= at /\ at + NodeSize <= hi
          BY <4>2, <4>4, <5>1 DEF lo, hi
        <5> QED
          BY <4>2, <5>1, <5>2, <5>4, <5>5 DEF SameBytes
      <4> QED
        BY <1>0, <4>1, <4>3, <4>8, ContentsStay
    <3>5. Contents(e, n) = Junk
      <4> DEFINE at == NodeAt(e.block, n)
      <4>1. HasPlace(e, n)
        BY <1>0, <3>2 DEF HasPlace, h
      <4>2. /\ at \in Nat /\ 1 <= at /\ at + NodeSize <= AddrMax + 1
            /\ e.block[h].addr <= at /\ at + NodeSize <= e.block[h].addr + BucketSize
        BY <1>0, <3>2, <4>1, NodePlace DEF h
      <4>3. e.block[h].addr \in Nat /\ NodeSize \in Nat /\ BucketSize \in Nat /\ AddrMax \in Nat
        BY <1>0, <1>4, <3>2, BucketFacts, StorageBounds, Bounds
      <4> HIDE DEF at
      <4>4. \A i \in 0 .. NodeSize - 1 :
              /\ at + i \in Addr /\ e.block[h].addr <= at + i
              /\ at + i < e.block[h].addr + BucketSize
        BY <4>2, <4>3 DEF Addr
      <4>5. NodeIs(e, n, Junk)
        BY <3>2, <4>4 DEF NodeIs, at
      <4> QED
        BY <4>2, <4>5, ContentsOfFilled DEF at
    <3>6. ASSUME NEW g \in Handle \ {FreedArray} PROVE e.block[g] # NoBlock <=> g <= h
      <4>1. g \in Nat /\ h \in Nat /\ FullBuckets(n) + 1 = h /\ FullBuckets(n) \in Nat
        BY <1>4, <1>5, <2>2, StorageBounds
      <4>2. CASE g = h
        BY <3>2, <4>1, <4>2
      <4>3. CASE g # h
        <5>1. e.block[g] # NoBlock <=> g <= FullBuckets(n)
          BY <3>2, <4>3 DEF BucketsFilled
        <5> QED
          BY <4>1, <4>3, <5>1
      <4> QED
        BY <4>2, <4>3
    <3> QED
      BY <3>2, <3>4, <3>5, <3>6
  <2> QED
    BY <2>1, <2>2
<1>7. BucketsFilled(r)
  BY <1>2, <1>3, <1>5, <1>6 DEF BucketsFilled
<1>8. NodeContents(r) = NodeContents(o)
  <2>1. \A k : Contents(r, k) = Contents(e, k)
    BY <1>2 DEF Contents
  <2>2. ASSUME NEW k \in Node
        PROVE  (IF k < n + 1 THEN Contents(r, k) ELSE Junk) = IF k < n THEN Contents(o, k) ELSE Junk
    <3>1. k \in Nat
      BY StorageBounds DEF Node
    <3>2. CASE k < n
      <4>1. k \in 0 .. n - 1 /\ k < n + 1
        BY <1>0, <3>1, <3>2
      <4> QED
        BY <1>6, <2>1, <3>2, <4>1
    <3>3. CASE k = n
      <4>1. k < n + 1 /\ ~(k < n)
        BY <1>0, <3>3
      <4> QED
        BY <1>6, <2>1, <3>3, <4>1
    <3>4. CASE k > n
      <4>1. ~(k < n + 1) /\ ~(k < n)
        BY <1>0, <3>1, <3>4
      <4> QED
        BY <4>1
    <3> QED
      BY <1>0, <3>1, <3>2, <3>3, <3>4
  <2>3. /\ NodeContents(r) = [k \in Node |-> IF k < n + 1 THEN Contents(r, k) ELSE Junk]
        /\ NodeContents(o) = [k \in Node |-> IF k < n THEN Contents(o, k) ELSE Junk]
    BY <1>3 DEF NodeContents
  <2> QED
    BY <2>2, <2>3
<1>9. Buckets(r) = IF n = Buckets(o) * Capacity THEN Buckets(o) + 1 ELSE Buckets(o)
  <2>1. Buckets(o) = FullBuckets(n)
    BY <1>0, BucketCount
  <2>2. n + 1 \in 0 .. MaxBuckets * Capacity
    BY <1>0
  <2>3. Buckets(r) = FullBuckets(n + 1)
    BY <1>3, <1>7, <2>2, BucketCount
  <2>4. CASE n % Capacity = 0
    BY <1>5, <2>1, <2>3, <2>4
  <2>5. CASE n % Capacity # 0
    BY <1>5, <2>1, <2>3, <2>5
  <2> QED
    BY <2>4, <2>5
<1> QED
  BY <1>2, <1>3, <1>6, <1>7, <1>8, <1>9

-----------------------------------------------------------------------------
(***************************************************************************)
(* Room for the freed array leaves the buckets alone.                      *)
(***************************************************************************)

\* The freed array and a bucket share no byte, spare slots included.
LEMMA ArrayApart ==
  ASSUME NEW ps \in Nat, NEW o, Sound(o, ps), o.block[FreedArray] # NoBlock,
         NEW h \in Handle, h # FreedArray, o.block[h] # NoBlock
  PROVE  LET array == o.block[FreedArray]
             bucket == o.block[h]
         IN  \/ array.addr + array.size <= bucket.addr
             \/ bucket.addr + BucketSize <= array.addr - SizeT
<1> DEFINE array == o.block[FreedArray]
           bucket == o.block[h]
           own == Own(o.block)
<1>1. Mine(o.block) /\ BlocksOK(o.arena, own) /\ FreedArray \in Handle
  BY ShapeFacts, StorageBounds DEF Sound
<1>2. /\ own[h] = bucket /\ own[FreedArray] # NoBlock
      /\ Start(own[FreedArray]) = Start(array) /\ End(own[FreedArray]) = End(array) - SizeT
  BY <1>1, Owned
<1>3. End(own[FreedArray]) <= Start(bucket) \/ End(bucket) <= Start(own[FreedArray])
  BY <1>1, <1>2 DEF BlocksOK
<1>4. /\ array.addr \in Nat /\ array.size \in Nat
      /\ Start(array) = array.addr - SizeT /\ End(array) = array.addr + array.size
  BY ArrayFacts
<1>5. /\ bucket.addr \in Nat /\ Start(bucket) = bucket.addr - SizeT
      /\ End(bucket) = bucket.addr + BucketSize
  BY BucketFacts
<1>6. SizeT \in Nat /\ BucketSize \in Nat
  BY StorageBounds, Bounds
<1> HIDE DEF array, bucket, own
<1>7. array.addr + array.size <= bucket.addr \/ bucket.addr + BucketSize <= array.addr - SizeT
  BY <1>2, <1>3, <1>4, <1>5, <1>6
<1> QED
  BY <1>7 DEF array, bucket

\* Whatever the freed array does for one more slot, the buckets stay.
LEMMA RoomKeepsBuckets ==
  ASSUME StorageFits, pageSize \in Nat \ {0}, NEW o, Sound(o, pageSize), NEW r \in Room(o),
         NEW h \in Handle, h # FreedArray
  PROVE  /\ r.block[h] = o.block[h]
         /\ o.block[h] # NoBlock =>
              SameBytes(o.arena.mem, r.arena.mem, o.block[h].addr, o.block[h].addr + BucketSize)
<1> DEFINE array == o.block[FreedArray]
           total == IF array = NoBlock THEN FirstSlots * SizeT ELSE 2 * array.size
           a == o.block[h].addr
           s == o.arena
<1>0. pageSize \in Nat /\ FreedArray \in Handle /\ o.block \in [Handle -> BlockType]
      /\ Shape(s, pageSize, o.block) /\ s.last \in Nat /\ s.mem \in [Addr -> Cell]
  <2>1. Shape(s, pageSize, o.block)
    BY DEF Sound
  <2>2. pageSize \in Nat
    OBVIOUS
  <2> QED
    BY <2>1, <2>2, ShapeFacts, StorageBounds, StateType DEF Mine
<1>1. CASE o.freed * SizeT < array.size
  <2>1. r = o
    BY <1>1 DEF Room
  <2> QED
    BY <2>1 DEF SameBytes
<1>2. ASSUME NEW t, NEW n, r = Obtain(o, FreedArray, t, n)
      PROVE  /\ r.block[h] = o.block[h] /\ r.arena = t
             /\ r.block[FreedArray] = VtableBlock(t, n, 0, Zero)
  BY <1>0, <1>2, StateFields DEF Obtain
<1>3. ASSUME NEW n, Asked(FreedArray, n), NEW c \in HeaderAlloc(s, n), o.block[h] # NoBlock
      PROVE  /\ SameBytes(s.mem, c.mem, a, a + BucketSize)
             /\ c \in ArenaState /\ c.last \in Nat /\ c.mem \in [Addr -> Cell] /\ n \in Nat
  <2> DEFINE nb == VtableBlock(c, n, 0, Zero)
             d == [o.block EXCEPT ![FreedArray] = nb]
  <2>1. /\ \A lo, hi \in Int : Holds(s, lo, hi) => SameBytes(s.mem, c.mem, lo, hi)
        /\ Shape(c, pageSize, d)
    <3>1. nb = VtableBlock(c, n, 0, Zero)
      OBVIOUS
    <3> HIDE DEF nb, s
    <3> QED
      BY <1>0, <1>3, <3>1, AllocShape DEF s
  <2>2. /\ a \in Nat /\ Start(o.block[h]) = a - SizeT /\ End(o.block[h]) = a + BucketSize
        /\ Holds(s, Start(o.block[h]), End(o.block[h]))
    BY <1>0, <1>3, BucketFacts
  <2> DEFINE lo == a - SizeT
             hi == a + BucketSize
  <2>3. lo \in Int /\ hi \in Int /\ lo <= a /\ \A x \in Addr : x \in Int
    <3> HIDE DEF a
    <3> QED
      BY <2>2, Bounds, StorageBounds DEF Addr
  <2>4. Holds(s, lo, hi)
    BY <2>2
  <2> HIDE DEF lo
  <2>5. SameBytes(s.mem, c.mem, lo, hi)
    BY <2>1, <2>3, <2>4
  <2>6. SameBytes(s.mem, c.mem, a, hi)
    <3> HIDE DEF a, hi
    <3> QED
      BY <2>2, <2>3, <2>5 DEF SameBytes
  <2>7. c \in ArenaState /\ c.last \in Nat /\ c.mem \in [Addr -> Cell]
    BY <1>0, <2>1, ShapeFacts, StateType
  <2> QED
    BY <1>3, <2>6, <2>7 DEF Asked, Fits
<1>4. ASSUME ~(o.freed * SizeT < array.size), array = NoBlock
      PROVE  /\ r.block[h] = o.block[h]
             /\ o.block[h] # NoBlock => SameBytes(s.mem, r.arena.mem, a, a + BucketSize)
  <2> DEFINE n == FirstSlots * SizeT
  <2>1. PICK c \in HeaderAlloc(s, n) : r = Obtain(o, FreedArray, c, n)
    BY <1>4 DEF Room
  <2>2. Asked(FreedArray, n)
    BY FirstAsked
  <2> HIDE DEF n, s
  <2> QED
    BY <1>2, <1>3, <2>1, <2>2
<1>5. ASSUME ~(o.freed * SizeT < array.size), array # NoBlock
      PROVE  /\ r.block[h] = o.block[h]
             /\ o.block[h] # NoBlock => SameBytes(s.mem, r.arena.mem, a, a + BucketSize)
  <2> DEFINE n == 2 * array.size
  <2>1. PICK e \in Reallocarray(s, array.addr, n) : r = Obtain(o, FreedArray, e, n)
    BY <1>5 DEF Room
  <2>2. Asked(FreedArray, n)
    BY <1>0, <1>5, TwiceTheSize
  <2> HIDE DEF n
  <2>3. r.block[h] = o.block[h] /\ r.arena = e /\ r.block[FreedArray] = VtableBlock(e, n, 0, Zero)
    BY <1>2, <2>1
  <2>4. Sound(r, pageSize) /\ HasRoom(r)
    BY RoomSound
  <2>5. SizeT \in Nat /\ BucketSize \in Nat /\ \A x \in Addr : x \in Int
    BY Bounds, StorageBounds DEF Addr
  <2>6. SUFFICES ASSUME o.block[h] # NoBlock PROVE SameBytes(s.mem, e.mem, a, a + BucketSize)
    BY <2>3
  <2>7. a \in Nat
    BY <1>0, <2>6, BucketFacts
  <2>8. CASE array.addr - SizeT = s.last /\ Wrap(array.addr + n) <= s.sentinel
    <3> DEFINE b == array.addr
    <3>1. b + array.size <= a \/ a + BucketSize <= b - SizeT
      BY <1>0, <1>5, <2>6, ArrayApart
    <3>2. b \in Nat /\ array.size \in Nat
      BY <1>0, <1>5, ArrayFacts
    <3>3. e = Bump(s, NextHeader(Wrap(b + n)), s.last, WithHeader(s.mem, b - SizeT, n))
      BY <2>1, <2>8 DEF Reallocarray
    <3>4. e.mem = Store(s.mem, b - SizeT, SizeT, Header(n))
      BY <3>3 DEF Bump, WithHeader
    <3> DEFINE size == array.size
               m == s.mem
               k == e.mem
    <3>5. /\ m \in [Addr -> Cell] /\ k = Store(m, b - SizeT, SizeT, Header(n)) /\ size \in Nat
          /\ b + size <= a \/ a + BucketSize <= b - SizeT
      BY <1>0, <3>1, <3>2, <3>4
    <3> HIDE DEF b, a, size, m, k
    <3>6. \A x \in Addr : k[x] = IF b - SizeT <= x /\ x < b - SizeT + SizeT THEN Header(n) ELSE m[x]
      BY <3>5 DEF Store
    <3>7. SameBytes(m, k, a, a + BucketSize)
      BY <2>5, <2>7, <3>2, <3>5, <3>6 DEF SameBytes
    <3> QED
      BY <3>7 DEF m, k
  <2>9. CASE ~(array.addr - SizeT = s.last /\ Wrap(array.addr + n) <= s.sentinel)
    <3>1. PICK c \in HeaderAlloc(s, n), old \in HeaderSizes(s.mem, array.addr, n) :
            e = [c EXCEPT !.mem = CopyBytes(@, c.last + SizeT, array.addr, Lesser(old, n))]
      BY <2>1, <2>9 DEF Reallocarray
    <3>2. /\ SameBytes(s.mem, c.mem, a, a + BucketSize)
          /\ c \in ArenaState /\ c.last \in Nat /\ c.mem \in [Addr -> Cell] /\ n \in Nat
      BY <1>3, <2>2, <2>6, <3>1
    <3> DEFINE len == Lesser(old, n)
               b == c.last + SizeT
               from == array.addr
               k == CopyBytes(c.mem, b, from, len)
    <3>3. e.mem = k /\ e.last = c.last
      <4>1. e = [c EXCEPT !.mem = k]
        BY <3>1
      <4>2. c \in ArenaState
        BY <3>2
      <4> HIDE DEF k
      <4> QED
        BY <4>1, <4>2 DEF ArenaState
    <3>4. len <= n /\ len \in Int
      <4>1. old \in Nat
        BY <3>1, <3>2, Bounds DEF HeaderSizes
      <4> QED
        BY <3>2, <4>1 DEF Lesser
    <3>5. /\ r.block[FreedArray].addr = b /\ r.block[FreedArray].size = n
          /\ r.block[FreedArray] # NoBlock
      BY <2>3, <2>4, <3>3 DEF VtableBlock, Block, HasRoom
    <3>6. b + n <= a \/ a + BucketSize <= b - SizeT
      BY <1>0, <2>3, <2>4, <2>6, <3>5, ArrayApart
    <3>7. b \in Nat /\ from \in Int
      BY <1>0, <1>5, <2>5, <3>2, ArrayFacts
    <3>8. \A x \in Addr : k[x] # c.mem[x] => b <= x /\ x < b + len
      <4> HIDE DEF b, len, from
      <4> QED
        BY <3>2, <3>4, <3>7, CopyBytesProperties
    <3> DEFINE m == s.mem
               l == c.mem
    <3>9. SameBytes(m, l, a, a + BucketSize) /\ \A x \in Addr : k[x] # l[x] => b <= x /\ x < b + len
      BY <3>2, <3>8
    <3> HIDE DEF b, a, len, m, l, k
    <3>10. SameBytes(m, k, a, a + BucketSize)
      BY <2>5, <2>7, <3>2, <3>4, <3>6, <3>7, <3>9 DEF SameBytes
    <3> QED
      BY <3>3, <3>10 DEF m
  <2> QED
    BY <2>8, <2>9
<1> QED
  BY <1>1, <1>4, <1>5

-----------------------------------------------------------------------------
(***************************************************************************)
(* One more freed node.                                                    *)
(***************************************************************************)

\* mulle__pointerarray_add: one more freed node, the others and the contents of
\* all nodes as they were.
LEMMA AddFreedReads ==
  ASSUME StorageFits, pageSize \in Nat \ {0}, NEW o, Sound(o, pageSize),
         NEW p \in 0 .. o.structs - 1, NEW r \in AddFreed(o, p)
  PROVE  /\ Sound(r, pageSize) /\ r.structs = o.structs /\ r.freed = o.freed + 1
         /\ SameBuckets(o, r)
         /\ NodeContents(r) = NodeContents(o)
         /\ FreedNodes(r) =
              [i \in 1 .. o.freed + 1 |-> IF i = o.freed + 1 THEN p ELSE FreedNodes(o)[i]]
<1>0. pageSize \in Nat
  OBVIOUS
<1> PICK e \in Room(o) :
      r = State(Written(e.arena, Store(e.arena.mem, SlotAt(e.block, e.freed), SizeT, Pointer(p))),
                e.block, e.structs, e.freed + 1)
  BY DEF AddFreed
<1> DEFINE m == e.arena.mem
           slot == SlotAt(e.block, e.freed)
           k == Store(m, slot, SizeT, Pointer(p))
           array == e.block[FreedArray]
           a == array.addr
           used == e.freed * SizeT
<1>1. /\ Sound(e, pageSize) /\ HasRoom(e) /\ e.structs = o.structs /\ e.freed = o.freed
      /\ SlotsCopied(o, m, a)
  BY RoomSound
<1>2. Sound(r, pageSize) /\ r.structs = o.structs
  BY AddFreedSound
<1>3. /\ p \in Node /\ Pointer(p) \in Cell /\ o.freed \in Nat
      /\ SizeT \in Nat \ {0} /\ NodeSize \in Nat /\ \A x \in Addr : x \in Int
  <2>1. o.structs \in 0 .. MaxBuckets * Capacity /\ o.freed \in Nat
    BY DEF Sound, Counts
  <2>2. p \in Node
    BY <2>1, StorageBounds DEF Node
  <2> QED
    BY <2>1, <2>2, StorageBytes, StorageBounds, Bounds DEF Addr
<1>4. slot \in Nat /\ slot = a + used /\ Span(slot, SizeT) \subseteq Addr
  BY <1>0, <1>1, SpareSlotBytes
<1>5. e.arena \in ArenaState /\ m \in [Addr -> Cell]
  BY <1>0, <1>1, ShapeFacts, StateType DEF Sound
<1>6. /\ k \in [Addr -> Cell]
      /\ \A x \in Addr : k[x] = IF slot <= x /\ x < slot + SizeT THEN Pointer(p) ELSE m[x]
  <2>1. slot \in Int /\ SizeT \in Int
    BY <1>3, <1>4
  <2> HIDE DEF slot, m
  <2> QED
    BY <1>3, <1>5, <2>1, StoreProperties
<1>7. /\ r.arena.mem = k /\ r.block = e.block /\ r.structs = e.structs /\ r.freed = e.freed + 1
  <2>1. r = State(Written(e.arena, k), e.block, e.structs, e.freed + 1)
    OBVIOUS
  <2> HIDE DEF k
  <2> QED
    BY <1>5, <1>6, <2>1, StateFields, WrittenFields
<1> HIDE DEF k, slot
<1>8. /\ array # NoBlock /\ a \in Nat /\ used \in Nat /\ array.size \in Nat
      /\ used + SizeT <= array.size
  <2>1. array # NoBlock /\ (e.freed + 1) * SizeT <= array.size
    BY <1>1 DEF HasRoom
  <2>2. used + SizeT <= (e.freed + 1) * SizeT /\ used \in Nat /\ (e.freed + 1) * SizeT \in Nat
    <3>1. e.freed + 1 \in Nat /\ e.freed \in 0 .. (e.freed + 1) - 1
      BY <1>1, <1>3
    <3> QED
      BY <3>1, SlotIn
  <2>3. a \in Nat /\ array.size \in Nat
    BY <1>0, <1>1, <2>1, ArrayFacts
  <2> QED
    BY <1>3, <2>1, <2>2, <2>3
<1>9. SameBuckets(o, r)
  BY <1>7, RoomKeepsBuckets DEF SameBuckets
<1>10. SlotsCopied(o, k, a)
  <2> SUFFICES ASSUME NEW i \in 0 .. o.freed - 1, NEW n \in Node,
                      Known(o.arena.mem, o.block[FreedArray].addr + i * SizeT, SizeT, Pointer(n))
               PROVE  Known(k, a + i * SizeT, SizeT, Pointer(n))
    BY DEF SlotsCopied
  <2> DEFINE off == i * SizeT
             at == a + off
             v == Pointer(n)
             hi == a + used
  <2>1. Known(m, at, SizeT, v)
    BY <1>1 DEF SlotsCopied
  <2>2. off \in Nat /\ off + SizeT <= used
    BY <1>1, <1>3, SlotIn
  <2> HIDE DEF off, used, a
  <2>3. at \in Int /\ hi \in Int /\ a \in Int /\ SizeT \in Int /\ a <= at /\ at + SizeT <= hi
    BY <1>3, <1>8, <2>2
  <2>4. SameBytes(m, k, a, hi)
    BY <1>3, <1>4, <1>6, <1>8 DEF SameBytes
  <2> HIDE DEF at, v, hi, m
  <2>5. Known(k, at, SizeT, v)
    BY ONLY <2>1, <2>3, <2>4, KnownStays
  <2> QED
    BY <2>5 DEF at, v, off
<1>11. PointsTo(r, o.freed, p)
  <2>1. SlotAt(r.block, o.freed) = slot
    BY <1>1, <1>7 DEF slot
  <2>2. \A x \in Span(slot, SizeT) : x \in Addr /\ slot <= x /\ x < slot + SizeT
    BY <1>3, <1>4 DEF Span
  <2> QED
    BY <1>6, <1>7, <2>1, <2>2 DEF PointsTo, Known
<1>12. FreedNodes(r) =
         [i \in 1 .. o.freed + 1 |-> IF i = o.freed + 1 THEN p ELSE FreedNodes(o)[i]]
  BY <1>0, <1>1, <1>2, <1>3, <1>7, <1>10, <1>11, MoreFreed
<1>13. ASSUME NEW n \in 0 .. o.structs - 1 PROVE Contents(r, n) = Contents(o, n)
  <2> DEFINE at == NodeAt(o.block, n)
             h == BucketOf(n)
             b == o.block[h].addr
             w == o.arena.mem
  <2>1. HasPlace(o, n)
    BY <1>0, ReservedHasPlace
  <2>2. /\ h \in Handle /\ h # FreedArray /\ o.block[h] # NoBlock
        /\ at \in Nat /\ b <= at /\ at + NodeSize <= b + BucketSize
    BY <1>0, <2>1, NodePlace DEF HasPlace
  <2>3. e.block[h] = o.block[h] /\ SameBytes(w, m, b, b + BucketSize)
    BY <2>2, RoomKeepsBuckets
  <2>4. a + array.size <= b \/ b + BucketSize <= a - SizeT
    BY <1>0, <1>1, <1>8, <2>2, <2>3, ArrayApart
  <2>5. b \in Nat /\ BucketSize \in Nat
    BY <1>0, <2>2, BucketFacts, StorageBounds
  <2> DEFINE size == array.size
  <2>6. size \in Nat /\ used + SizeT <= size /\ (a + size <= b \/ b + BucketSize <= a - SizeT)
    BY <1>8, <2>4
  <2> HIDE DEF at, b, w, m, size, a, used
  <2>7. SameBytes(w, k, at, at + NodeSize)
    BY <1>3, <1>4, <1>6, <1>8, <2>2, <2>3, <2>5, <2>6 DEF SameBytes
  <2> QED
    BY <1>0, <1>7, <2>1, <2>3, <2>7, ContentsStay DEF at, w
<1>14. NodeContents(r) = NodeContents(o)
  <2>1. o.structs \in Nat /\ \A n \in Node : n \in Nat
    BY StorageBounds DEF Sound, Counts, Node
  <2>2. \A n \in Node : n < o.structs => Contents(r, n) = Contents(o, n)
    BY <1>13, <2>1
  <2> QED
    BY <1>2, <2>2 DEF NodeContents
<1> QED
  BY <1>1, <1>2, <1>7, <1>9, <1>12, <1>14

-----------------------------------------------------------------------------
(***************************************************************************)
(* A node that is handed out.                                              *)
(***************************************************************************)

\* A reserved node that the client does not hold is in the freed array.
Recorded ==
  \A n \in 0 .. structs - 1 :
    held[n] = NotHeld => \E i \in 1 .. freedCount : FreedNodes(System)[i] = n

\* The inductive invariant of the refinement.
RInv == SInv /\ Recorded /\ BucketsFilled(System) /\ SpareJunk(System)

\* The freed array as a sequence of nodes.
LEMMA FreedSeq ==
  ASSUME NEW ps \in Nat, NEW o, Sound(o, ps)
  PROVE  /\ o.structs \in Nat /\ o.structs \in 0 .. MaxBuckets * Capacity /\ o.freed \in Nat
         /\ FreedNodes(o) = [i \in 1 .. o.freed |-> FreedNodes(o)[i]]
         /\ \A i \in 1 .. o.freed : FreedNodes(o)[i] \in 0 .. o.structs - 1
         /\ FreedNodes(o) \in Seq(Node) /\ Len(FreedNodes(o)) = o.freed
<1>1. /\ FreedNodes(o) = [i \in 1 .. o.freed |-> FreedNodes(o)[i]]
      /\ \A i \in 1 .. o.freed : FreedNodes(o)[i] \in 0 .. o.structs - 1
      /\ o.freed \in Nat
  BY FreedRead
<1>2. o.structs \in 0 .. MaxBuckets * Capacity
  BY DEF Sound, Counts
<1> DEFINE f == FreedNodes(o)
           n == o.freed
           k == o.structs
           all == MaxBuckets * Capacity
<1>3. all \in Nat
  BY StorageBounds
<1>4. /\ n \in Nat /\ k \in 0 .. all /\ \A i \in 1 .. n : f[i] \in 0 .. k - 1
      /\ f = [i \in 1 .. n |-> f[i]] /\ Node = 0 .. all - 1
  BY <1>1, <1>2 DEF Node
<1> HIDE DEF f, n, k, all
<1>5. f \in [1 .. n -> Node] /\ n \in Nat /\ k \in Nat
  <2>1. \A i \in 1 .. n : f[i] \in Node
    BY <1>3, <1>4
  <2> QED
    BY <1>3, <1>4, <2>1
<1>6. f \in Seq(Node) /\ DOMAIN f = 1 .. n
  BY <1>5
<1>7. Len(f) \in Nat /\ DOMAIN f = 1 .. Len(f)
  BY <1>6, LenProperties
<1>8. Len(f) = n
  BY <1>5, <1>6, <1>7
<1> QED
  BY <1>1, <1>2, <1>5, <1>6, <1>8 DEF f, n, k

\* What is read of a storage that is up, before a step.
LEMMA SystemReads ==
  ASSUME SInv
  PROVE  /\ pageSize \in Nat /\ Sound(System, pageSize)
         /\ System.structs = structs /\ System.freed = freedCount
         /\ structs \in Nat /\ structs \in 0 .. MaxBuckets * Capacity /\ freedCount \in Nat
         /\ FreedNodes(System) = [i \in 1 .. freedCount |-> FreedNodes(System)[i]]
         /\ \A i \in 1 .. freedCount : FreedNodes(System)[i] \in 0 .. structs - 1
         /\ FreedNodes(System) \in Seq(Node) /\ Len(FreedNodes(System)) = freedCount
<1>1. /\ pageSize \in Nat /\ Sound(System, pageSize)
      /\ System.structs = structs /\ System.freed = freedCount
  BY SInvFacts, SystemFields
<1> QED
  BY <1>1, FreedSeq

\* What is read after a step.
LEMMA CommittedReads ==
  ASSUME SInv, NEW o, Sound(o, pageSize), Commit(o), BucketsFilled(o)
  PROVE  /\ structs' = o.structs /\ freedCount' = o.freed /\ up' = up
         /\ NodeContents(System)' = NodeContents(o)
         /\ FreedNodes(System)' = FreedNodes(o)
         /\ Buckets(System)' = Buckets(o)
         /\ BucketsFilled(System)' /\ SpareJunk(System)'
<1> DEFINE r == InMemory(o, Kept(o))
<1>1. pageSize \in Nat /\ structs' = o.structs /\ freedCount' = o.freed /\ up' = up
  BY SInvFacts DEF Commit, Adopt
<1>2. System' = r
  BY <1>1, CommittedSystem DEF Commit
<1>3. /\ r.structs = o.structs /\ r.freed = o.freed /\ SameBuckets(o, r)
      /\ FreedNodes(r) = FreedNodes(o)
      /\ NodeContents(r) = NodeContents(o)
      /\ SpareJunk(r)
  <2>1. r = InMemory(o, Kept(o))
    OBVIOUS
  <2> HIDE DEF r
  <2> QED
    BY <1>1, <2>1, CommitReads
<1> HIDE DEF r
<1>4. Buckets(r) = Buckets(o) /\ BucketsFilled(r)
  BY <1>3, NodesStay
<1> QED
  BY <1>1, <1>2, <1>3, <1>4

\* _mulle_storage_malloc: the node added last to the freed array, or one more
\* of the queue.
LEMMA MallocReads ==
  ASSUME StorageFits, RInv, up, NEW p \in Node, NEW o \in MallocNode(p)
  PROVE  /\ Sound(o, pageSize) /\ p \in 0 .. o.structs - 1
         /\ BucketsFilled(o) /\ NodeContents(o) = NodeContents(System)
         /\ \/ /\ freedCount # 0 /\ o.structs = structs /\ o.freed = freedCount - 1
               /\ Buckets(o) = Buckets(System)
               /\ p = FreedNodes(System)[freedCount]
               /\ FreedNodes(o) = [i \in 1 .. freedCount - 1 |-> FreedNodes(System)[i]]
            \/ /\ freedCount = 0 /\ o.freed = 0
               /\ p = structs /\ structs < MaxBuckets * Capacity /\ o.structs = structs + 1
               /\ Buckets(o) = IF structs = Buckets(System) * Capacity
                                 THEN Buckets(System) + 1 ELSE Buckets(System)
<1>1. /\ pageSize \in Nat \ {0} /\ pageSize \in Nat /\ Sound(System, pageSize)
      /\ System.structs = structs /\ System.freed = freedCount /\ structs \in Nat
      /\ BucketsFilled(System) /\ SpareJunk(System) /\ SInv
  BY SInvFacts, SystemFields DEF RInv
<1>2. Sound(o, pageSize) /\ p \in 0 .. o.structs - 1
  BY <1>1, MallocSound
<1>3. CASE freedCount = 0
  <2>1. p = structs /\ o \in Reserve(System)
    BY <1>3 DEF MallocNode
  <2>2. structs < MaxBuckets * Capacity
    BY <1>1, <2>1, StorageBounds DEF Node
  <2> QED
    BY <1>1, <1>2, <1>3, <2>1, <2>2, ReserveReads
<1>4. CASE freedCount # 0
  <2>1. Pointed(System, freedCount - 1) \in {{}, {p}} /\ o = State(Now, block, structs, freedCount - 1)
    BY <1>4 DEF MallocNode
  <2>2. /\ FreedNodes(o) = [i \in 1 .. freedCount - 1 |-> FreedNodes(System)[i]]
        /\ Pointed(System, freedCount - 1) = {FreedNodes(System)[freedCount]}
    <3>1. /\ System.freed = freedCount /\ System.freed # 0
          /\ o = State(System.arena, System.block, System.structs, System.freed - 1)
      BY <1>4, <2>1, SystemFields
    <3>2. /\ FreedNodes(o) = [i \in 1 .. System.freed - 1 |-> FreedNodes(System)[i]]
          /\ Pointed(System, System.freed - 1) = {FreedNodes(System)[System.freed]}
      BY <1>1, <3>1, LessFreed
    <3> QED
      BY <3>1, <3>2
  <2>3. p = FreedNodes(System)[freedCount]
    BY <2>1, <2>2
  <2>4. /\ o.arena = System.arena /\ o.block = System.block /\ o.structs = structs
        /\ o.freed = freedCount - 1
    BY <2>1, StateFields, SystemFields
  <2>5. NodeContents(o) = NodeContents(System)
    <3>1. \A k : Contents(o, k) = Contents(System, k)
      BY <2>4 DEF Contents
    <3> QED
      BY <1>1, <2>4, <3>1 DEF NodeContents
  <2>6. SameBuckets(System, o)
    BY <2>4 DEF SameBuckets
  <2>7. Buckets(o) = Buckets(System) /\ BucketsFilled(o)
    BY <1>1, <2>4, <2>6, NodesStay
  <2> QED
    BY <1>2, <1>4, <2>2, <2>3, <2>4, <2>5, <2>7
<1> QED
  BY <1>3, <1>4

\* The nodes held are reserved ones, all of them if there is none to reuse.
LEMMA HeldCount ==
  ASSUME NEW h, NEW k \in 0 .. MaxBuckets * Capacity, \A n \in Node : h[n] # NotHeld => n < k
  PROVE  LET L == {n \in Node : h[n] # NotHeld}
         IN  /\ Cardinality(L) \in Nat /\ Cardinality(L) <= k
             /\ (\A n \in 0 .. k - 1 : h[n] # NotHeld) => Cardinality(L) = k
<1> DEFINE L == {n \in Node : h[n] # NotHeld}
           all == MaxBuckets * Capacity
<1>1. all \in Nat /\ Node = 0 .. all - 1 /\ k \in 0 .. all
  BY StorageBounds DEF Node
<1> HIDE DEF all
<1>2. IsFiniteSet(0 .. k - 1) /\ Cardinality(0 .. k - 1) = k
  <2>1. k \in Nat /\ 0 \in Int /\ k - 1 \in Int
    BY <1>1
  <2>2. IsFiniteSet(0 .. k - 1) /\ Cardinality(0 .. k - 1) = IF 0 > k - 1 THEN 0 ELSE (k - 1) - 0 + 1
    BY <2>1, FS_Interval
  <2> QED
    BY <2>1, <2>2
<1>3. L \subseteq 0 .. k - 1
  BY <1>1
<1>4. (\A n \in 0 .. k - 1 : h[n] # NotHeld) => L = 0 .. k - 1
  BY <1>1
<1>5. IsFiniteSet(L) /\ Cardinality(L) <= Cardinality(0 .. k - 1)
  BY <1>2, <1>3, FS_Subset
<1>6. Cardinality(L) \in Nat
  BY <1>5, FS_CardinalityType
<1> QED
  BY <1>2, <1>4, <1>5, <1>6

\* The client holds one node more: one that was freed, or one more than ever.
LEMMA TakenStep ==
  ASSUME StorageFits, RInv, up, NEW p \in Node, NEW o \in MallocNode(p),
         NEW r, Sound(r, pageSize), r.structs = o.structs, r.freed = o.freed,
         SameBuckets(o, r), FreedNodes(r) = FreedNodes(o), Commit(r),
         NEW c \in Relied \ {NotHeld}, Hold(p, c)
  PROVE  /\ RInv' /\ up' = up /\ NodeContents(System)' = NodeContents(r)
         /\ Plain!MallocNode(p) /\ Plain!Hold(p, c)
<1> DEFINE f == FreedNodes(System)
           g == FreedNodes(r)
           n == freedCount
           b == Buckets(System)
<1>1. /\ SInv /\ Sound(o, pageSize) /\ p \in 0 .. o.structs - 1
      /\ BucketsFilled(o) /\ NodeContents(o) = NodeContents(System)
  BY MallocReads DEF RInv
<1>2. \/ /\ n # 0 /\ o.structs = structs /\ o.freed = n - 1
         /\ Buckets(o) = b
         /\ p = f[n]
         /\ FreedNodes(o) = [i \in 1 .. n - 1 |-> f[i]]
      \/ /\ n = 0 /\ o.freed = 0
         /\ p = structs /\ structs < MaxBuckets * Capacity /\ o.structs = structs + 1
         /\ Buckets(o) = IF structs = b * Capacity THEN b + 1 ELSE b
  BY MallocReads
<1>3. Buckets(r) = Buckets(o) /\ BucketsFilled(r)
  BY <1>1, NodesStay
<1>4. /\ structs' = o.structs /\ freedCount' = o.freed /\ up' = up
      /\ NodeContents(System)' = NodeContents(r)
      /\ FreedNodes(System)' = g
      /\ Buckets(System)' = Buckets(o)
      /\ BucketsFilled(System)' /\ SpareJunk(System)'
  BY <1>1, <1>3, CommittedReads
<1>5. SInv'
  <2>1. p \in 0 .. r.structs - 1 /\ r.structs \in Nat /\ structs <= r.structs
    <3>1. structs \in Nat
      BY <1>1, SystemReads
    <3> QED
      BY <1>1, <1>2, <3>1
  <2>2. c \in Relied
    OBVIOUS
  <2> QED
    BY <1>1, <2>1, <2>2, Committed
<1>6. /\ structs \in Nat /\ n \in Nat /\ f \in Seq(Node) /\ Len(f) = n
      /\ structs <= MaxBuckets * Capacity
      /\ f = [i \in 1 .. n |-> f[i]]
      /\ o.structs \in Nat /\ o.structs \in 0 .. MaxBuckets * Capacity /\ o.freed \in Nat
      /\ g = [i \in 1 .. o.freed |-> g[i]]
      /\ g \in Seq(Node) /\ Len(g) = o.freed
  <2>1. pageSize \in Nat
    BY <1>1, SystemReads
  <2>2. /\ r.structs \in Nat /\ r.structs \in 0 .. MaxBuckets * Capacity /\ r.freed \in Nat
        /\ g = [i \in 1 .. r.freed |-> g[i]]
        /\ g \in Seq(Node) /\ Len(g) = r.freed
    BY <2>1, FreedSeq
  <2>3. /\ structs \in Nat /\ n \in Nat /\ f \in Seq(Node) /\ Len(f) = n
        /\ structs \in 0 .. MaxBuckets * Capacity
        /\ f = [i \in 1 .. n |-> f[i]]
    BY <1>1, SystemReads
  <2>4. MaxBuckets * Capacity \in Nat
    BY StorageBounds
  <2> QED
    BY <2>2, <2>3, <2>4
<1>7. /\ held \in [Node -> Relied] /\ held' = [held EXCEPT ![p] = c] /\ c # NotHeld
      /\ \A k \in Node : held[k] # NotHeld => k < structs
      /\ held' \in [Node -> Relied]
      /\ \A k \in Node : held'[k] # NotHeld => k < o.structs
  <2>1. /\ held' \in [Node -> Relied]
        /\ \A k \in Node : held'[k] # NotHeld => k < structs'
    BY <1>5 DEF SInv, Relied
  <2> QED
    BY <1>1, <1>4, <2>1 DEF SInv, Relied, Hold
<1>8. \A k \in 0 .. structs - 1 : held[k] = NotHeld => \E i \in 1 .. n : f[i] = k
  BY DEF RInv, Recorded
<1>9. Recorded'
  <2>1. ASSUME NEW k \in 0 .. o.structs - 1, held'[k] = NotHeld
        PROVE  \E i \in 1 .. o.freed : g[i] = k
    <3>1. k # p
      BY <1>1, <1>6, <1>7, <2>1, StorageBounds DEF Node
    <3>2. CASE n = 0
      <4>1. k \in 0 .. structs - 1
        BY <1>2, <1>6, <2>1, <3>1, <3>2
      <4>2. held[k] = NotHeld
        BY <1>7, <2>1, <3>1
      <4> QED
        BY <1>8, <3>2, <4>1, <4>2
    <3>3. CASE n # 0
      <4>1. k \in 0 .. structs - 1 /\ p = f[n] /\ o.freed = n - 1
            /\ g = [i \in 1 .. n - 1 |-> f[i]]
        BY <1>2, <2>1, <3>3
      <4>2. held[k] = NotHeld
        BY <1>7, <2>1, <3>1
      <4>3. PICK i \in 1 .. n : f[i] = k
        BY <1>8, <4>1, <4>2
      <4>4. i \in 1 .. n - 1
        BY <1>6, <3>1, <4>1, <4>3
      <4> QED
        BY <4>1, <4>3, <4>4
    <3> QED
      BY <3>2, <3>3
  <2>2. FreedNodes(System)' = g /\ structs' = o.structs /\ freedCount' = o.freed
    BY <1>4
  <2> QED
    BY <2>1, <2>2 DEF Recorded
<1>10. Plain!MallocNode(p)
  <2>1. CASE n = 0
    <3>1. f = <<>>
      BY <1>6, <2>1, EmptySeq
    <3>2. Plain!Reserve(p)
      BY <1>2, <1>4, <2>1 DEF Plain!Reserve
    <3>3. g = <<>>
      BY <1>2, <1>6, <2>1, EmptySeq
    <3> QED
      BY <1>4, <3>1, <3>2, <3>3 DEF Plain!MallocNode
  <2>2. CASE n # 0
    <3>1. f # <<>>
      BY <1>6, <2>2, EmptySeq
    <3>2. p = Last(f) /\ g = Front(f)
      <4>1. /\ Front(f) \in Seq(Node) /\ Len(Front(f)) = Len(f) - 1 /\ Last(f) = f[Len(f)]
            /\ \A i \in 1 .. Len(f) - 1 : Front(f)[i] = f[i]
        <5> HIDE DEF f
        <5> QED
          BY <1>6, <3>1, FrontLast
      <4>2. p = f[n] /\ o.freed = n - 1 /\ g = [i \in 1 .. n - 1 |-> f[i]]
        BY <1>2, <2>2
      <4>3. \A i \in 1 .. Len(g) : g[i] = Front(f)[i]
        BY <1>6, <4>1, <4>2
      <4> DEFINE h == Front(f)
      <4>4. h \in Seq(Node) /\ g \in Seq(Node) /\ Len(g) = Len(h)
            /\ \A i \in 1 .. Len(g) : g[i] = h[i]
        BY <1>6, <4>1, <4>2, <4>3
      <4> HIDE DEF f, g, h
      <4>5. g = h
        BY <4>4, SeqEqual
      <4> QED
        BY <1>6, <4>1, <4>2, <4>5 DEF h
    <3>3. Plain!Last(f) = Last(f) /\ Plain!Front(f) = Front(f)
      BY DEF Plain!Last, Plain!Front, Last, Front
    <3>4. Plain!Pop(p)
      BY <1>4, <3>2, <3>3 DEF Plain!Pop
    <3> QED
      BY <1>2, <1>4, <2>2, <3>1, <3>4 DEF Plain!MallocNode
  <2> QED
    BY <2>1, <2>2
<1>11. Plain!Hold(p, c)
  <2> DEFINE L == {k \in Node : held'[k] # NotHeld}
  <2>1. /\ Cardinality(L) \in Nat /\ Cardinality(L) <= o.structs
        /\ (\A k \in 0 .. o.structs - 1 : held'[k] # NotHeld) => Cardinality(L) = o.structs
    <3>1. /\ o.structs \in 0 .. MaxBuckets * Capacity
          /\ \A k \in Node : held'[k] # NotHeld => k < o.structs
      BY <1>6, <1>7
    <3> HIDE DEF f, g
    <3> QED
      BY ONLY <3>1, HeldCount
  <2>2. n = 0 => \A k \in 0 .. o.structs - 1 : held'[k] # NotHeld
    <3> SUFFICES ASSUME n = 0, NEW k \in 0 .. o.structs - 1 PROVE held'[k] # NotHeld
      OBVIOUS
    <3>1. CASE k = p
      BY <1>7, <3>1
    <3>2. CASE k # p
      <4>1. k \in 0 .. structs - 1
        BY <1>2, <1>6, <3>2
      <4>2. k \in Node
        <5> DEFINE all == MaxBuckets * Capacity
        <5>1. all \in Nat /\ structs <= all /\ Node = 0 .. all - 1
          BY <1>6, StorageBounds DEF Node
        <5> HIDE DEF all
        <5> QED
          BY <1>6, <4>1, <5>1
      <4>3. held[k] # NotHeld
        BY <1>8, <4>1
      <4> QED
        BY <1>7, <3>2, <4>2, <4>3
    <3> QED
      BY <3>1, <3>2
  <2>3. Plain!Live' = L
    BY DEF Plain!Live, Plain!Node, Node
  <2> HIDE DEF L
  <2>4. structs' = IF Cardinality(L) > structs THEN Cardinality(L) ELSE structs
    BY <1>2, <1>4, <1>6, <2>1, <2>2
  <2>5. \A S : Plain!Cardinality(S) = Cardinality(S)
    BY DEF Plain!Cardinality, Cardinality, Plain!IsFiniteSet, IsFiniteSet
  <2> QED
    BY <1>7, <2>3, <2>4, <2>5 DEF Plain!Hold
<1> QED
  BY <1>4, <1>5, <1>9, <1>10, <1>11 DEF RInv

-----------------------------------------------------------------------------
(***************************************************************************)
(* The operations that hand out a node.                                    *)
(***************************************************************************)

\* The same nodes, and the same held by the client.
LEMMA PlainNames == Plain!Node = Node /\ Plain!Live = HeldNodes
BY DEF Plain!Node, Plain!Live, Node, HeldNodes

\* Malloc is that of the plain storage.
LEMMA MallocPlain ==
  ASSUME StorageFits, RInv, NEW p \in Node, Malloc(p)
  PROVE  RInv' /\ Plain!Malloc(p)
<1>1. PICK o \in MallocNode(p) : Commit(o)
  BY DEF Malloc
<1>2. up /\ Hold(p, Unset) /\ Unset \in Relied \ {NotHeld}
  BY StorageOnArenaAssumption DEF StorageOnArenaAssumption, Malloc, Relied
<1>3. Sound(o, pageSize) /\ NodeContents(o) = NodeContents(System)
  BY <1>2, MallocReads
<1>4. SameBuckets(o, o)
  BY DEF SameBuckets
<1>5. /\ RInv' /\ up' = up /\ NodeContents(System)' = NodeContents(o)
      /\ Plain!MallocNode(p) /\ Plain!Hold(p, Unset)
  BY <1>1, <1>2, <1>3, <1>4, TakenStep
<1> QED
  BY <1>3, <1>5 DEF Plain!Malloc

\* So are calloc and the copy of a struct from outside, which fill the node.
LEMMA FilledPlain ==
  ASSUME StorageFits, RInv, up, NEW p \in Node, NEW v \in Value \cup {Zero},
         NEW o \in MallocNode(p), Commit(WithNode(o, p, v)), Hold(p, v)
  PROVE  /\ RInv' /\ up' = up
         /\ NodeContents(System)' = [NodeContents(System) EXCEPT ![p] = v]
         /\ Plain!MallocNode(p) /\ Plain!Hold(p, v)
<1>1. v \in Relied \ {NotHeld} /\ v \in Cell
  BY StorageOnArenaAssumption, StorageBytes DEF StorageOnArenaAssumption, Relied
<1>2. /\ Sound(o, pageSize) /\ p \in 0 .. o.structs - 1
      /\ NodeContents(o) = NodeContents(System) /\ pageSize \in Nat
  BY MallocReads, SInvFacts DEF RInv
<1> DEFINE r == WithNode(o, p, v)
<1>3. /\ Sound(r, pageSize) /\ r.structs = o.structs /\ r.freed = o.freed /\ SameBuckets(o, r)
      /\ FreedNodes(r) = FreedNodes(o)
      /\ NodeContents(r) = [NodeContents(o) EXCEPT ![p] = v]
  <2>1. r = WithNode(o, p, v)
    OBVIOUS
  <2> HIDE DEF r
  <2> QED
    BY <1>1, <1>2, <2>1, NodeSet
<1>4. Commit(r)
  OBVIOUS
<1> HIDE DEF r
<1>5. /\ RInv' /\ up' = up /\ NodeContents(System)' = NodeContents(r)
      /\ Plain!MallocNode(p) /\ Plain!Hold(p, v)
  BY <1>1, <1>3, <1>4, TakenStep
<1> QED
  BY <1>2, <1>3, <1>5

\* Calloc is that of the plain storage.
LEMMA CallocPlain ==
  ASSUME StorageFits, RInv, NEW p \in Node, CallocNode(p)
  PROVE  RInv' /\ Plain!Calloc(p)
<1>1. PICK o \in MallocNode(p) : Commit(WithNode(o, p, Zero))
  BY DEF CallocNode
<1>2. up /\ Hold(p, Zero)
  BY DEF CallocNode
<1> QED
  BY <1>1, <1>2, FilledPlain DEF Plain!Calloc

\* The copy of a struct from outside is that of the plain storage.
LEMMA CopyForeignPlain ==
  ASSUME StorageFits, RInv, NEW p \in Node, NEW v \in Value, CopyForeign(p, v)
  PROVE  RInv' /\ Plain!CopyForeign(p, v)
<1>1. PICK o \in MallocNode(p) : Commit(WithNode(o, p, v))
  BY DEF CopyForeign
<1>2. up /\ Hold(p, v)
  BY DEF CopyForeign
<1> QED
  BY <1>1, <1>2, FilledPlain DEF Plain!CopyForeign

\* The copy of a node takes what is in memory there.
LEMMA CopyNodePlain ==
  ASSUME StorageFits, RInv, NEW p \in Node, NEW q \in Node, CopyNode(p, q)
  PROVE  RInv' /\ Plain!CopyNode(p, q)
<1>1. PICK o \in MallocNode(p) : Commit(WithCopy(o, p, q))
  BY DEF CopyNode
<1>2. up /\ Hold(p, held[q]) /\ q \in HeldNodes /\ SInv
  BY DEF CopyNode, RInv
<1>3. /\ Sound(o, pageSize) /\ p \in 0 .. o.structs - 1
      /\ o.structs \in Nat /\ structs <= o.structs /\ pageSize \in Nat
      /\ NodeContents(o) = NodeContents(System)
  BY <1>2, MallocReads, MallocSound, SInvFacts
<1>4. held[q] \in Relied \ {NotHeld} /\ q \in 0 .. o.structs - 1
  <2>1. /\ held[q] \in Relied /\ held[q] # NotHeld
        /\ q \in 0 .. structs - 1 /\ structs \in Nat
    BY <1>2, HeldFacts, SInvFacts DEF HeldNodes
  <2> QED
    BY <1>3, <2>1
<1> DEFINE r == WithCopy(o, p, q)
<1>5. /\ Sound(r, pageSize) /\ r.structs = o.structs /\ r.freed = o.freed /\ SameBuckets(o, r)
      /\ FreedNodes(r) = FreedNodes(o)
      /\ NodeContents(r) = [NodeContents(o) EXCEPT ![p] = NodeContents(o)[q]]
  <2>1. r = WithCopy(o, p, q)
    OBVIOUS
  <2> HIDE DEF r
  <2> QED
    BY <1>3, <1>4, <2>1, NodeCopied
<1>6. Commit(r)
  BY <1>1
<1> HIDE DEF r
<1> DEFINE c == held[q]
<1>7. c \in Relied \ {NotHeld} /\ Hold(p, c)
  BY <1>2, <1>4
<1> HIDE DEF c
<1>8. /\ RInv' /\ up' = up /\ NodeContents(System)' = NodeContents(r)
      /\ Plain!MallocNode(p) /\ Plain!Hold(p, c)
  BY <1>1, <1>2, <1>5, <1>6, <1>7, TakenStep
<1> QED
  BY <1>2, <1>3, <1>5, <1>8, PlainNames DEF Plain!CopyNode, c

-----------------------------------------------------------------------------
(***************************************************************************)
(* Free, and writes of the client.                                         *)
(***************************************************************************)

\* A node that is freed is added behind the others, after it was poisoned.
LEMMA FreePlain ==
  ASSUME StorageFits, RInv, NEW p \in Node, FreeNode(p)
  PROVE  RInv' /\ Plain!Free(p)
<1> DEFINE q == IF Debug THEN WithNode(System, p, Poison) ELSE System
           f == FreedNodes(System)
           n == freedCount
           c == IF Debug THEN [NodeContents(System) EXCEPT ![p] = Poison] ELSE NodeContents(System)
<1>1. PICK o \in AddFreed(q, p) : Commit(o)
  BY DEF FreeNode
<1>2. up /\ p \in HeldNodes /\ Hold(p, NotHeld) /\ SInv /\ SInv'
  BY FreeNodeStep DEF FreeNode, RInv
<1>3. /\ p \in 0 .. structs - 1 /\ pageSize \in Nat \ {0} /\ pageSize \in Nat
      /\ Sound(System, pageSize) /\ System.structs = structs /\ System.freed = n
      /\ structs \in Nat /\ n \in Nat /\ f \in Seq(Node) /\ Len(f) = n
      /\ f = [i \in 1 .. n |-> f[i]]
  BY <1>2, HeldFacts, SInvFacts, SystemReads
<1>4. /\ Sound(q, pageSize) /\ q.structs = structs /\ q.freed = n /\ SameBuckets(System, q)
      /\ FreedNodes(q) = f /\ NodeContents(q) = c
  <2>1. CASE Debug
    <3> DEFINE r == WithNode(System, p, Poison)
    <3>1. r = WithNode(System, p, Poison) /\ p \in 0 .. System.structs - 1 /\ Poison \in Cell
      BY <1>3, StorageBytes
    <3> HIDE DEF r
    <3>2. /\ Sound(r, pageSize) /\ r.structs = System.structs /\ r.freed = System.freed
          /\ SameBuckets(System, r) /\ FreedNodes(r) = FreedNodes(System)
          /\ NodeContents(r) = [NodeContents(System) EXCEPT ![p] = Poison]
      BY <1>3, <3>1, NodeSet
    <3>3. q = r
      BY <2>1 DEF r
    <3> QED
      BY <1>3, <2>1, <3>2, <3>3
  <2>2. CASE ~Debug
    <3>1. q = System /\ c = NodeContents(System)
      BY <2>2
    <3> QED
      BY <1>3, <3>1 DEF SameBuckets
  <2> QED
    BY <2>1, <2>2
<1> HIDE DEF q
<1>5. /\ Sound(o, pageSize) /\ o.structs = structs /\ o.freed = n + 1
      /\ SameBuckets(q, o) /\ NodeContents(o) = c
      /\ FreedNodes(o) = [i \in 1 .. n + 1 |-> IF i = n + 1 THEN p ELSE f[i]]
  <2>1. p \in 0 .. q.structs - 1
    BY <1>3, <1>4
  <2>2. /\ Sound(o, pageSize) /\ o.structs = q.structs /\ o.freed = q.freed + 1
        /\ SameBuckets(q, o) /\ NodeContents(o) = NodeContents(q)
        /\ FreedNodes(o) =
             [i \in 1 .. q.freed + 1 |-> IF i = q.freed + 1 THEN p ELSE FreedNodes(q)[i]]
    BY <1>1, <1>3, <1>4, <2>1, AddFreedReads
  <2> QED
    BY <1>4, <2>2
<1>6. Buckets(o) = Buckets(System) /\ BucketsFilled(o)
  <2>1. Buckets(q) = Buckets(System) /\ BucketsFilled(q)
    BY <1>3, <1>4, NodesStay DEF RInv
  <2> QED
    BY <1>4, <1>5, <2>1, NodesStay
<1>7. /\ structs' = o.structs /\ freedCount' = o.freed /\ up' = up
      /\ NodeContents(System)' = NodeContents(o)
      /\ FreedNodes(System)' = FreedNodes(o)
      /\ Buckets(System)' = Buckets(o)
      /\ BucketsFilled(System)' /\ SpareJunk(System)'
  BY <1>1, <1>2, <1>5, <1>6, CommittedReads
<1> DEFINE g == FreedNodes(o)
<1>8. g = Append(f, p)
  <2>1. \A i \in 1 .. n : f[i] = Append(f, p)[i]
    BY <1>3, AppendProperties
  <2>2. Append(f, p) \in Seq(Node) /\ Len(Append(f, p)) = n + 1 /\ Append(f, p)[n + 1] = p
    BY <1>3, AppendProperties
  <2>3. g \in Seq(Node) /\ Len(g) = n + 1
    BY <1>3, <1>5, FreedSeq
  <2>4. \A i \in 1 .. Len(g) : g[i] = Append(f, p)[i]
    BY <1>3, <1>5, <2>1, <2>2, <2>3
  <2> HIDE DEF f, g
  <2> QED
    BY <2>2, <2>3, <2>4, SeqEqual
<1>9. held' = [held EXCEPT ![p] = NotHeld] /\ held \in [Node -> Relied]
  BY <1>2 DEF Hold, SInv, Relied
<1>10. Recorded'
  <2>1. /\ \A i \in 1 .. n : g[i] = f[i] /\ i \in 1 .. n + 1
        /\ g[n + 1] = p /\ n + 1 \in 1 .. n + 1
    <3>1. \A i \in 1 .. n + 1 : g[i] = IF i = n + 1 THEN p ELSE f[i]
      BY <1>5
    <3>2. n \in Nat
      BY <1>3
    <3> HIDE DEF g, f, n
    <3>3. \A i \in 1 .. n : i \in 1 .. n + 1 /\ i # n + 1
      BY <3>2
    <3>4. n + 1 \in 1 .. n + 1
      BY <3>2
    <3> QED
      BY ONLY <3>1, <3>3, <3>4
  <2>2. ASSUME NEW k \in 0 .. structs - 1, held'[k] = NotHeld, k # p
        PROVE  \E i \in 1 .. n : f[i] = k
    <3>1. held[k] = NotHeld
      BY <1>9, <2>2
    <3> QED
      BY <3>1 DEF RInv, Recorded
  <2>3. FreedNodes(System)' = g /\ structs' = structs /\ freedCount' = n + 1
    BY <1>5, <1>7
  <2> HIDE DEF f, g
  <2>4. \A k \in 0 .. structs - 1 : held'[k] = NotHeld => \E i \in 1 .. n + 1 : g[i] = k
    <3> SUFFICES ASSUME NEW k \in 0 .. structs - 1, held'[k] = NotHeld
                 PROVE  \E i \in 1 .. n + 1 : g[i] = k
      OBVIOUS
    <3>1. CASE k = p
      BY <2>1, <3>1
    <3>2. CASE k # p
      <4>1. PICK i \in 1 .. n : f[i] = k
        BY <2>2, <3>2
      <4> QED
        BY <2>1, <4>1
    <3> QED
      BY <3>1, <3>2
  <2> QED
    BY <2>3, <2>4 DEF Recorded
<1>11. RInv'
  BY <1>2, <1>7, <1>10 DEF RInv
<1>12. Plain!Free(p)
  BY <1>2, <1>5, <1>6, <1>7, <1>8, <1>9, PlainNames DEF Plain!Free
<1> QED
  BY <1>11, <1>12

\* The client writes into its node and into no other.
LEMMA WritePlain ==
  ASSUME RInv, NEW p \in Node, NEW v \in Value, WriteNode(p, v)
  PROVE  RInv' /\ Plain!Write(p, v)
<1> DEFINE r == WithNode(System, p, v)
<1>1. /\ p \in HeldNodes /\ Commit(r) /\ held' = [held EXCEPT ![p] = v] /\ v \in Cell
      /\ SInv /\ SInv' /\ v # NotHeld /\ r = WithNode(System, p, v)
  BY WriteNodeStep, StorageBytes, StorageOnArenaAssumption
     DEF WriteNode, Hold, RInv, StorageOnArenaAssumption
<1> HIDE DEF r
<1>2. /\ p \in 0 .. structs - 1 /\ pageSize \in Nat /\ up
      /\ Sound(System, pageSize) /\ System.structs = structs /\ System.freed = freedCount
      /\ held \in [Node -> Relied]
  BY <1>1, HeldFacts, SystemReads DEF SInv, Relied
<1>3. /\ Sound(r, pageSize) /\ r.structs = structs /\ r.freed = freedCount
      /\ SameBuckets(System, r) /\ FreedNodes(r) = FreedNodes(System)
      /\ NodeContents(r) = [NodeContents(System) EXCEPT ![p] = v]
  <2>1. p \in 0 .. System.structs - 1
    BY <1>2
  <2> QED
    BY <1>1, <1>2, <2>1, NodeSet
<1>4. Buckets(r) = Buckets(System) /\ BucketsFilled(r)
  BY <1>2, <1>3, NodesStay DEF RInv
<1>5. /\ structs' = structs /\ freedCount' = freedCount /\ up' = up
      /\ NodeContents(System)' = NodeContents(r)
      /\ FreedNodes(System)' = FreedNodes(System)
      /\ Buckets(System)' = Buckets(System)
      /\ BucketsFilled(System)' /\ SpareJunk(System)'
  BY <1>1, <1>3, <1>4, CommittedReads
<1>6. \A k : held'[k] = NotHeld => k # p
  BY <1>1, <1>2
<1>7. Recorded'
  <2>1. ASSUME NEW k \in 0 .. structs - 1, held'[k] = NotHeld
        PROVE  \E i \in 1 .. freedCount : FreedNodes(System)[i] = k
    <3>1. held[k] = NotHeld
      BY <1>1, <1>2, <1>6, <2>1
    <3> QED
      BY <3>1 DEF RInv, Recorded
  <2> QED
    BY <1>5, <2>1 DEF Recorded
<1>8. RInv'
  BY <1>1, <1>5, <1>7 DEF RInv
<1> QED
  BY <1>1, <1>3, <1>5, <1>8, PlainNames DEF Plain!Write

-----------------------------------------------------------------------------
(***************************************************************************)
(* A storage without blocks.                                               *)
(***************************************************************************)

\* Nothing is read of a storage without buckets.
LEMMA EmptyReads ==
  ASSUME NEW o, o.structs = 0, o.freed = 0,
         \A h \in Handle \ {FreedArray} : o.block[h] = NoBlock
  PROVE  /\ FreedNodes(o) = <<>> /\ NodeContents(o) = [n \in Node |-> Junk] /\ Buckets(o) = 0
         /\ BucketsFilled(o) /\ SpareJunk(o)
<1>1. \A h \in Handle \ {FreedArray} : o.block[h] = NoBlock
  OBVIOUS
<1>2. FreedNodes(o) = <<>>
  <2>1. 1 .. 0 = {}
    OBVIOUS
  <2>2. FreedNodes(o) = [i \in {} |->
          IF Pointed(o, i - 1) = {} THEN Junk ELSE CHOOSE n \in Pointed(o, i - 1) : TRUE]
    BY <2>1 DEF FreedNodes
  <2> QED
    BY <2>2
<1>3. NodeContents(o) = [n \in Node |-> Junk]
  <2>1. \A n \in Node : ~(n < 0)
    BY StorageBounds DEF Node
  <2> QED
    BY <2>1 DEF NodeContents
<1>4. Buckets(o) = 0
  <2>1. {h \in Handle \ {FreedArray} : o.block[h] # NoBlock} = {}
    BY <1>1
  <2> QED
    BY <2>1, FS_EmptySet DEF Buckets
<1>5. BucketsFilled(o)
  <2> DEFINE q == 0 \div Capacity
             r == 0 % Capacity
  <2>1. q \in Nat /\ r \in 0 .. Capacity - 1 /\ 0 = Capacity * q + r /\ Capacity \in Nat \ {0}
    BY StorageBounds, Remainder
  <2> HIDE DEF q, r
  <2>2. r = 0 /\ q = 0
    BY <2>1
  <2>3. FullBuckets(0) = 0
    BY <2>2 DEF FullBuckets, q, r
  <2>4. \A h \in Handle \ {FreedArray} : ~(h <= 0)
    BY StorageBounds DEF FreedArray
  <2> QED
    BY <1>1, <2>3, <2>4 DEF BucketsFilled
<1>6. SpareJunk(o)
  <2>1. \A n \in Node : ~HasPlace(o, n)
    BY <1>1, NodeInBucket DEF HasPlace
  <2> QED
    BY <2>1 DEF SpareJunk
<1> QED
  BY <1>2, <1>3, <1>4, <1>5, <1>6

\* A storage that is not up holds nothing.
LEMMA IdleReads ==
  ASSUME SInv, ~up
  PROVE  /\ structs = 0 /\ FreedNodes(System) = <<>> /\ Buckets(System) = 0
         /\ NodeContents(System) = [n \in Node |-> Junk]
         /\ held = [n \in Node |-> NotHeld]
<1>1. block = NoBlocks /\ structs = 0 /\ freedCount = 0
  BY DEF SInv
<1>2. \A n \in Node : held[n] = NotHeld
  <2>1. \A n \in Node : ~(n < 0)
    BY StorageBounds DEF Node
  <2> QED
    BY <1>1, <2>1 DEF SInv
<1>3. held = [n \in Node |-> NotHeld]
  <2>1. held \in [Node -> Relied]
    BY DEF SInv, Relied
  <2> QED
    BY <1>2, <2>1
<1>4. \A h \in Handle : System.block[h] = NoBlock
  BY <1>1, SystemFields, NoBlocksFine
<1> QED
  BY <1>1, <1>3, <1>4, SystemFields, EmptyReads

\* Nor does one that a step leaves without buckets.
LEMMA BareReads ==
  ASSUME SInv', structs' = 0, freedCount' = 0,
         \A h \in Handle \ {FreedArray} : block'[h] = NoBlock
  PROVE  /\ RInv' /\ FreedNodes(System)' = <<>> /\ Buckets(System)' = 0
         /\ NodeContents(System)' = [n \in Node |-> Junk]
<1> DEFINE q == State(Now', block', 0, 0)
<1>1. q.structs = 0 /\ q.freed = 0 /\ \A h \in Handle \ {FreedArray} : q.block[h] = NoBlock
  BY StateFields
<1>2. System' = q
  BY DEF System
<1> HIDE DEF q
<1>3. /\ FreedNodes(q) = <<>> /\ NodeContents(q) = [n \in Node |-> Junk] /\ Buckets(q) = 0
      /\ BucketsFilled(q) /\ SpareJunk(q)
  BY <1>1, EmptyReads
<1>4. /\ FreedNodes(System)' = <<>> /\ Buckets(System)' = 0
      /\ NodeContents(System)' = [n \in Node |-> Junk]
      /\ BucketsFilled(System)' /\ SpareJunk(System)'
  BY <1>2, <1>3
<1>5. Recorded'
  <2>1. 0 .. structs' - 1 = {}
    OBVIOUS
  <2> QED
    BY <2>1 DEF Recorded
<1> QED
  BY <1>4, <1>5 DEF RInv

\* Nor, all the more, does one that a step leaves without blocks.
LEMMA ClearedReads ==
  ASSUME SInv', block' = NoBlocks, structs' = 0, freedCount' = 0
  PROVE  /\ RInv' /\ FreedNodes(System)' = <<>> /\ Buckets(System)' = 0
         /\ NodeContents(System)' = [n \in Node |-> Junk]
<1>1. \A h \in Handle \ {FreedArray} : block'[h] = NoBlock
  BY NoBlocksFine
<1> QED
  BY <1>1, BareReads

-----------------------------------------------------------------------------
(***************************************************************************)
(* The refinement.                                                         *)
(***************************************************************************)

\* Init of the storage is that of the plain storage.
LEMMA OpenStoragePlain ==
  ASSUME StorageFits, RInv, OpenStorage
  PROVE  RInv' /\ Plain!InitStorage
<1>1. /\ SInv /\ SInv' /\ ~up /\ up' = TRUE /\ held' = held /\ structs' = 0 /\ freedCount' = 0
      /\ \A h \in Handle \ {FreedArray} : block'[h] = NoBlock
  BY OpenStorageStep DEF RInv
<1> QED
  BY <1>1, IdleReads, BareReads DEF Plain!InitStorage

\* Done of the storage is that of the plain storage.
LEMMA CloseStoragePlain ==
  ASSUME RInv, CloseStorage
  PROVE  RInv' /\ Plain!Done
<1>1. /\ up /\ up' = FALSE /\ SInv'
      /\ block' = NoBlocks /\ structs' = 0 /\ freedCount' = 0 /\ held' = [n \in Node |-> NotHeld]
  BY CloseStorageStep DEF CloseStorage, Forget, RInv
<1> QED
  BY <1>1, ClearedReads, PlainNames DEF Plain!Done

\* The end of the arena is the end of the storage, or nothing to it.
LEMMA EndOfScopePlain ==
  ASSUME StorageFits, RInv, EndOfScope
  PROVE  RInv' /\ (Plain!Done \/ UNCHANGED Plain!vars)
<1>1. /\ up' = FALSE /\ SInv /\ SInv' /\ up \in BOOLEAN
      /\ structs' = 0 /\ freedCount' = 0 /\ held' = [n \in Node |-> NotHeld]
  BY EndOfScopeStep DEF EndOfScope, Forget, RInv, SInv
<1>2. block' = NoBlocks
  <2>1. CASE Done
    BY <2>1 DEF Done
  <2>2. CASE \E k \in KeepCounts : Reset(k)
    <3>1. Reset(0) /\ 0 \in Nat
      BY <2>2 DEF StorageFits
    <3>2. Now \in ArenaState /\ pageSize \in Nat /\ PagesOK(Now, pageSize)
      <4>1. Shape(Now, pageSize, block) /\ pageSize \in Nat
        BY <1>1, SInvFacts, SystemFields DEF Sound
      <4> QED
        BY <4>1, ShapeFacts
    <3> QED
      BY <3>1, <3>2, ResetRewinds
  <2> QED
    BY <2>1, <2>2 DEF EndOfScope
<1>3. /\ RInv' /\ FreedNodes(System)' = <<>> /\ Buckets(System)' = 0
      /\ NodeContents(System)' = [n \in Node |-> Junk]
  BY <1>1, <1>2, ClearedReads
<1>4. CASE up
  BY <1>1, <1>3, <1>4, PlainNames DEF Plain!Done
<1>5. CASE ~up
  BY <1>1, <1>3, <1>5, IdleReads DEF Plain!vars
<1> QED
  BY <1>1, <1>3, <1>4, <1>5

\* Init of the arena is nothing to the storage.
LEMMA OpenArenaPlain ==
  ASSUME RInv, NEW size \in PageSizes, InitArena(size), UNCHANGED storageVars
  PROVE  RInv' /\ UNCHANGED Plain!vars
<1>1. /\ SInv /\ SInv' /\ ~up
      /\ up' = up /\ structs' = structs /\ freedCount' = freedCount /\ held' = held /\ block' = block
  BY OpenArenaStep DEF RInv, SInv, InitArena, storageVars
<1>2. block' = NoBlocks /\ structs' = 0 /\ freedCount' = 0
  BY <1>1 DEF SInv
<1> QED
  BY <1>1, <1>2, IdleReads, ClearedReads DEF Plain!vars

\* Every step is one of the plain storage, or nothing to it.
LEMMA PlainStepwise ==
  ASSUME StorageFits, RInv, SystemNext
  PROVE  RInv' /\ (Plain!Next \/ UNCHANGED Plain!vars)
<1> DEFINE Mapped == RInv' /\ (Plain!Next \/ UNCHANGED Plain!vars)
<1>1. CASE (\E size \in PageSizes : InitArena(size)) /\ UNCHANGED storageVars
  BY <1>1, OpenArenaPlain
<1>2. CASE EndOfScope
  BY <1>2, EndOfScopePlain DEF Plain!Next
<1>3. CASE OpenStorage
  BY <1>3, OpenStoragePlain DEF Plain!Next
<1>4. CASE CloseStorage
  BY <1>4, CloseStoragePlain DEF Plain!Next
<1>5. ASSUME NEW p \in Node, Malloc(p) PROVE Mapped
  BY <1>5, MallocPlain, PlainNames DEF Plain!Next
<1>6. ASSUME NEW p \in Node, CallocNode(p) PROVE Mapped
  BY <1>6, CallocPlain, PlainNames DEF Plain!Next
<1>7. ASSUME NEW p \in Node, NEW v \in Value, CopyForeign(p, v) PROVE Mapped
  BY <1>7, CopyForeignPlain, PlainNames DEF Plain!Next
<1>8. ASSUME NEW p \in Node, NEW v \in Value, WriteNode(p, v) PROVE Mapped
  BY <1>8, WritePlain, PlainNames DEF Plain!Next
<1>9. ASSUME NEW p \in Node, NEW q \in Node, CopyNode(p, q) PROVE Mapped
  BY <1>9, CopyNodePlain, PlainNames DEF Plain!Next
<1>10. ASSUME NEW p \in Node, FreeNode(p) PROVE Mapped
  BY <1>10, FreePlain, PlainNames DEF Plain!Next
<1> QED
  BY <1>1, <1>2, <1>3, <1>4, <1>5, <1>6, <1>7, <1>8, <1>9, <1>10 DEF SystemNext

\* A step that changes nothing changes nothing in memory.
LEMMA PlainStuttering ==
  ASSUME RInv, UNCHANGED <<vars, storageVars>>
  PROVE  RInv' /\ UNCHANGED Plain!vars
<1>1. UNCHANGED <<phase, pageSize, pages, pageIndex, current, sentinel, last, mem, block,
                  up, structs, freedCount, held>>
  BY DEF vars, cursor, storageVars
<1>2. System' = System
  BY <1>1 DEF System, Now
<1>3. SInv'
  BY SystemStuttering DEF RInv
<1>4. /\ FreedNodes(System)' = FreedNodes(System) /\ NodeContents(System)' = NodeContents(System)
      /\ Buckets(System)' = Buckets(System)
      /\ BucketsFilled(System)' /\ SpareJunk(System)'
  BY <1>2 DEF RInv
<1>5. Recorded'
  BY <1>1, <1>4 DEF RInv, Recorded
<1> QED
  BY <1>1, <1>3, <1>4, <1>5 DEF RInv, Plain!vars

\* Before all inits.
LEMMA PlainInitially ==
  ASSUME SystemInit
  PROVE  RInv /\ Plain!Init
<1>1. SInv /\ ~up /\ up = FALSE /\ structs = 0 /\ freedCount = 0 /\ block = NoBlocks
  BY SystemInitially DEF SystemInit, Init
<1>2. BucketsFilled(System) /\ SpareJunk(System)
  <2>1. \A h \in Handle : System.block[h] = NoBlock
    BY <1>1, SystemFields, NoBlocksFine
  <2> QED
    BY <1>1, <2>1, SystemFields, EmptyReads
<1>3. Recorded
  <2>1. 0 .. structs - 1 = {}
    BY <1>1
  <2> QED
    BY <2>1 DEF Recorded
<1> QED
  BY <1>1, <1>2, <1>3, IdleReads, PlainNames DEF RInv, Plain!Init


-----------------------------------------------------------------------------
(***************************************************************************)
(* The theorems.                                                           *)
(***************************************************************************)

\* The invariant holds in all runs of a storage on an arena: its blocks keep
\* their place in the arena, every node in use is in a bucket, and every freed
\* one is found in its slot of the freed array, which may share bytes only with
\* the headers that nobody reads again.
THEOREM SystemInvariant ==
  ASSUME StorageFits
  PROVE  SystemSpec => []SInv
<1>1. SystemInit => SInv
  BY SystemInitially
<1>2. SInv /\ [SystemNext]_<<vars, storageVars>> => SInv'
  BY SystemStepwise, SystemStuttering
<1> QED
  BY <1>1, <1>2, PTL DEF SystemSpec

\* The variables have their types, and the freed array has no more pointers
\* than slots.
THEOREM SystemTypes ==
  ASSUME StorageFits
  PROVE  SystemSpec => []SystemTypeOK
<1>1. SInv => SystemTypeOK
  <2> SUFFICES ASSUME SInv PROVE SystemTypeOK
    OBVIOUS
  <2> DEFINE size == block[FreedArray].size
             q == size \div SizeT
  <2>1. /\ structs \in Nat /\ structs <= MaxBuckets * Capacity /\ freedCount \in Nat
        /\ freedCount * SizeT <= size /\ Mine(block)
    BY SInvFacts, SystemFields DEF Counts
  <2>2. size \in Nat /\ SizeT \in Nat \ {0}
    BY <2>1, StorageBounds, Bounds DEF Mine, BlockType
  <2> HIDE DEF size
  <2>3. q \in Nat /\ size % SizeT \in 0 .. SizeT - 1 /\ size = SizeT * q + (size % SizeT)
    BY <2>2, Remainder
  <2> HIDE DEF q
  <2>4. ASSUME q < freedCount PROVE FALSE
    <3>1. (q + 1) * SizeT <= freedCount * SizeT /\ (q + 1) * SizeT = SizeT * q + SizeT
          /\ freedCount * SizeT \in Nat /\ SizeT * q \in Nat
      BY <2>1, <2>2, <2>3, <2>4, Monotone
    <3> DEFINE x == SizeT * q
               y == freedCount * SizeT
               r == size % SizeT
    <3>2. /\ x + SizeT <= y /\ y <= size /\ size = x + r /\ r < SizeT
          /\ x \in Nat /\ y \in Nat /\ r \in Nat
      BY <2>1, <2>2, <2>3, <3>1
    <3> HIDE DEF x, y, r
    <3> QED
      BY <2>2, <3>2
  <2>5. freedCount \in 0 .. q
    BY <2>1, <2>3, <2>4
  <2>6. structs \in 0 .. MaxBuckets * Capacity
    BY <2>1, StorageBounds
  <2> QED
    BY <2>5, <2>6 DEF SInv, SystemTypeOK, q, size
<1> QED
  BY <1>1, SystemInvariant, PTL

\* The header that realloc reads of the freed array says what size it has.
THEOREM SystemFreedHeaderKept ==
  ASSUME StorageFits
  PROVE  SystemSpec => []FreedHeaderKept
<1>1. SInv => FreedHeaderKept
  <2>1. ASSUME SInv PROVE Now.mem = mem /\ ArrayReads(System)
    BY <2>1, SInvFacts DEF Now
  <2> QED
    BY <2>1, SystemFields DEF FreedHeaderKept, ArrayReads, Known
<1> QED
  BY <1>1, SystemInvariant, PTL

\* No node and no slot shares a byte with another, although headers are put
\* where slots are.
THEOREM SystemBodiesApart ==
  ASSUME StorageFits
  PROVE  SystemSpec => []BodiesApart
<1>1. ASSUME SInv, NEW g \in Live, NEW h \in Live, g # h
      PROVE  Apart(block[g].addr, block[g].size, block[h].addr, block[h].size)
  <2> DEFINE own == Own(block)
  <2>1. /\ Mine(block) /\ BlocksOK(Now, own)
        /\ g \in Handle /\ block[g] # NoBlock /\ h \in Handle /\ block[h] # NoBlock
    <3>1. Shape(Now, pageSize, block) /\ pageSize \in Nat
      BY <1>1, SInvFacts, SystemFields DEF Sound
    <3> QED
      BY <3>1, ShapeFacts DEF Live
  <2>2. \A i \in {g, h} :
          /\ block[i].addr \in Nat /\ block[i].size \in Nat /\ SizeT \in Nat
          /\ Start(block[i]) = block[i].addr - SizeT
          /\ End(block[i]) = block[i].addr + block[i].size
    <3> SUFFICES ASSUME NEW i \in {g, h}
                 PROVE  /\ block[i].addr \in Nat /\ block[i].size \in Nat /\ SizeT \in Nat
                        /\ Start(block[i]) = block[i].addr - SizeT
                        /\ End(block[i]) = block[i].addr + block[i].size
      OBVIOUS
    <3>1. block[i] \in BlockType /\ StorageBlock(i, block[i]) /\ i \in Handle
      BY <2>1 DEF Mine
    <3> QED
      BY <3>1, StorageBlockFields, Bounds
  <2>3. \A i \in {g, h} :
          /\ own[i] # NoBlock /\ Start(own[i]) = Start(block[i])
          /\ i = FreedArray => End(own[i]) = End(block[i]) - SizeT
          /\ i # FreedArray => End(own[i]) = End(block[i])
    BY <2>1, Owned
  <2>4. End(own[g]) <= Start(own[h]) \/ End(own[h]) <= Start(own[g])
    BY <1>1, <2>1, <2>3 DEF BlocksOK
  <2>5. \A i \in {g, h} : /\ End(own[i]) \in {End(block[i]), End(block[i]) - SizeT}
                          /\ Start(own[i]) = Start(block[i])
    BY <2>3
  <2> HIDE DEF own
  <2>6. \/ block[g].addr + block[g].size <= block[h].addr
        \/ block[h].addr + block[h].size <= block[g].addr
    BY <2>2, <2>4, <2>5
  <2> QED
    BY <2>6 DEF Apart
<1>2. SInv => BodiesApart
  BY <1>1 DEF BodiesApart
<1> QED
  BY <1>2, SystemInvariant, PTL

\* Every block of the storage has the alignment that the arena promises, behind
\* a header of another size.
THEOREM SystemAligned ==
  ASSUME StorageFits
  PROVE  SystemSpec => []Aligned
<1>1. ASSUME SInv, NEW h \in Live
      PROVE  block[h].addr % block[h].align = 0
  <2>1. h \in Handle /\ block[h] # NoBlock /\ Mine(block)
    BY <1>1, SInvFacts DEF Live
  <2>2. block[h] \in BlockType /\ StorageBlock(h, block[h])
    BY <2>1 DEF Mine
  <2> QED
    BY <2>1, <2>2, StorageBlockFields DEF StorageBlock
<1>2. SInv => Aligned
  BY <1>1 DEF Aligned
<1> QED
  BY <1>2, SystemInvariant, PTL

\* What the refinement rests on: besides, the storage has the buckets that its
\* nodes fill, the nodes it has memory for but did not reserve are
\* indeterminate, and no reserved node is lost: the client holds it or a slot
\* of the freed array points to it.
THEOREM RefinementInvariant ==
  ASSUME StorageFits
  PROVE  SystemSpec => []RInv
<1>1. SystemInit => RInv
  BY PlainInitially
<1>2. RInv /\ [SystemNext]_<<vars, storageVars>> => RInv'
  BY PlainStepwise, PlainStuttering
<1> QED
  BY <1>1, <1>2, PTL DEF SystemSpec

\* A mulle_storage on an arena is a mulle_storage: with the nodes read from the
\* bytes of its buckets, the freed array from the pointers in its slots and the
\* buckets counted among its blocks, every operation does what it does to a
\* storage that takes nodes and freed array for granted.  No bucket, no freed
\* array that is extended, moved or abandoned, and no header of the arena
\* changes a node or loses a freed one.
THEOREM SystemImplementsStorage ==
  ASSUME StorageFits
  PROVE  SystemSpec => ImplementsStorage
<1>1. SystemInit => RInv /\ Plain!Init
  BY PlainInitially
<1>2. RInv /\ [SystemNext]_<<vars, storageVars>> => RInv' /\ [Plain!Next]_Plain!vars
  BY PlainStepwise, PlainStuttering
<1> QED
  BY <1>1, <1>2, PTL DEF SystemSpec, ImplementsStorage, Plain!Spec

-----------------------------------------------------------------------------
(***************************************************************************)
(* The theorems of module StorageProofs, for what is found in memory.      *)
(***************************************************************************)

\* The theorems about the storage of module Storage, for the one on an arena.
PlainProofs == INSTANCE StorageProofs WITH
  MaxNodes <- MaxBuckets * Capacity,
  buckets <- Buckets(System),
  freed <- FreedNodes(System),
  mem <- NodeContents(System),
  peak <- structs

\* What Storage assumes of its constants holds of those of the arena's storage.
LEMMA PlainAssumption == PlainProofs!StorageAssumption
<1>1. MaxBuckets * Capacity \in Nat
  BY StorageBounds
<1> QED
  BY <1>1, StorageOnArenaAssumption, ArenaAssumption
     DEF StorageOnArenaAssumption, ArenaAssumption, PlainProofs!StorageAssumption

\* They are theorems about the same definitions.
LEMMA SameNames ==
  /\ PlainProofs!Node = Plain!Node /\ PlainProofs!Live = Plain!Live
  /\ PlainProofs!vars = Plain!vars /\ PlainProofs!Init = Plain!Init
BY DEF Plain!Node, PlainProofs!Node, Plain!Live, PlainProofs!Live, Plain!vars, PlainProofs!vars,
       Plain!Init, PlainProofs!Init

\* What a node is handed out by.
LEMMA SameMalloc ==
  ASSUME NEW p, NEW c
  PROVE  /\ PlainProofs!MallocNode(p) = Plain!MallocNode(p)
         /\ PlainProofs!Hold(p, c) = Plain!Hold(p, c)
<1>1. PlainProofs!Pop(p) = Plain!Pop(p) /\ PlainProofs!Reserve(p) = Plain!Reserve(p)
  BY DEF Plain!Pop, PlainProofs!Pop, Plain!Reserve, PlainProofs!Reserve,
         Plain!Last, PlainProofs!Last, Plain!Front, PlainProofs!Front
<1>2. \A S : PlainProofs!Cardinality(S) = Plain!Cardinality(S)
  BY DEF Plain!Cardinality, PlainProofs!Cardinality, Plain!IsFiniteSet, PlainProofs!IsFiniteSet
<1>3. PlainProofs!Live' = Plain!Live'
  BY DEF Plain!Live, PlainProofs!Live, Plain!Node, PlainProofs!Node
<1> QED
  BY <1>1, <1>2, <1>3 DEF Plain!MallocNode, PlainProofs!MallocNode, Plain!Hold, PlainProofs!Hold

\* The steps.
LEMMA SameNext == PlainProofs!Next = Plain!Next
<1>1. \A p : PlainProofs!Malloc(p) = Plain!Malloc(p) /\ PlainProofs!Calloc(p) = Plain!Calloc(p)
  BY SameMalloc DEF Plain!Malloc, PlainProofs!Malloc, Plain!Calloc, PlainProofs!Calloc
<1>2. \A p, v : PlainProofs!CopyForeign(p, v) = Plain!CopyForeign(p, v)
  BY SameMalloc DEF Plain!CopyForeign, PlainProofs!CopyForeign
<1>3. \A p, q : PlainProofs!CopyNode(p, q) = Plain!CopyNode(p, q)
  BY SameMalloc, SameNames DEF Plain!CopyNode, PlainProofs!CopyNode
<1>4. \A p : PlainProofs!Free(p) = Plain!Free(p)
  BY SameNames DEF Plain!Free, PlainProofs!Free
<1>5. \A p, v : PlainProofs!Write(p, v) = Plain!Write(p, v)
  BY SameNames DEF Plain!Write, PlainProofs!Write
<1>6. PlainProofs!InitStorage = Plain!InitStorage /\ PlainProofs!Done = Plain!Done
  BY SameNames DEF Plain!InitStorage, PlainProofs!InitStorage, Plain!Done, PlainProofs!Done
<1> QED
  BY <1>1, <1>2, <1>3, <1>4, <1>5, <1>6, SameNames DEF Plain!Next, PlainProofs!Next

\* The storage on an arena is the storage of the theorems.
LEMMA SystemIsPlain ==
  ASSUME StorageFits
  PROVE  SystemSpec => PlainProofs!Spec
<1>1. Plain!Init => PlainProofs!Init
  BY SameNames
<1>2. [Plain!Next]_Plain!vars => [PlainProofs!Next]_PlainProofs!vars
  BY SameNext DEF Plain!vars, PlainProofs!vars
<1> QED
  BY <1>1, <1>2, SystemImplementsStorage, PTL DEF ImplementsStorage, Plain!Spec, PlainProofs!Spec

\* In the memory of the arena, too, every reserved node has one owner, the
\* client or a slot of the freed array; its owner finds in its bytes what it
\* wrote there last, and poison is found where nobody owns it; as many nodes are
\* reserved as were ever held at once, in no more buckets than that takes.
THEOREM NodesInMemory ==
  ASSUME StorageFits
  PROVE  SystemSpec => [](/\ Plain!OnePlaceForEveryNode /\ Plain!ContentsKept
                          /\ Plain!FreedStayPoisoned /\ Plain!CountIsLive
                          /\ Plain!BucketsFollowPeak)
<1>1. PlainProofs!OnePlaceForEveryNode => Plain!OnePlaceForEveryNode
  <2>1. PlainProofs!IsInjective(FreedNodes(System)) = Plain!IsInjective(FreedNodes(System))
    BY DEF Plain!IsInjective, PlainProofs!IsInjective
  <2> QED
    BY <2>1, SameNames
       DEF Plain!OnePlaceForEveryNode, PlainProofs!OnePlaceForEveryNode,
           Plain!NoNodeFreedTwice, PlainProofs!NoNodeFreedTwice,
           Plain!FreedAreNotHeld, PlainProofs!FreedAreNotHeld,
           Plain!ReservedAreHeldOrFreed, PlainProofs!ReservedAreHeldOrFreed
<1>2. PlainProofs!ContentsKept => Plain!ContentsKept
  BY SameNames DEF Plain!ContentsKept, PlainProofs!ContentsKept
<1>3. PlainProofs!FreedStayPoisoned => Plain!FreedStayPoisoned
  BY SameNames DEF Plain!FreedStayPoisoned, PlainProofs!FreedStayPoisoned
<1>4. PlainProofs!CountIsLive => Plain!CountIsLive
  <2>1. \A S : PlainProofs!Cardinality(S) = Plain!Cardinality(S)
    BY DEF Plain!Cardinality, PlainProofs!Cardinality, Plain!IsFiniteSet, PlainProofs!IsFiniteSet
  <2> QED
    BY <2>1, SameNames DEF Plain!CountIsLive, PlainProofs!CountIsLive,
                             Plain!GetCount, PlainProofs!GetCount
<1>5. PlainProofs!BucketsFollowPeak => Plain!BucketsFollowPeak
  BY DEF Plain!BucketsFollowPeak, PlainProofs!BucketsFollowPeak
<1>6. /\ PlainProofs!Spec => []PlainProofs!OnePlaceForEveryNode
      /\ PlainProofs!Spec => []PlainProofs!ContentsKept
      /\ PlainProofs!Spec => []PlainProofs!FreedStayPoisoned
      /\ PlainProofs!Spec => []PlainProofs!CountIsLive
      /\ PlainProofs!Spec => []PlainProofs!BucketsFollowPeak
  BY PlainAssumption, PlainProofs!OnePlace, PlainProofs!Kept, PlainProofs!Poisoned,
     PlainProofs!Counted, PlainProofs!BucketsAsNeeded
<1>7. SystemSpec => PlainProofs!Spec
  BY SystemIsPlain
<1> QED
  BY <1>1, <1>2, <1>3, <1>4, <1>5, <1>6, <1>7, PTL

\* And so it is a node pool: to the client, whose nodes are bytes between the
\* headers of the arena, no free and no copy changes any other node.
THEOREM SystemImplementsNodePool ==
  ASSUME StorageFits
  PROVE  SystemSpec => PlainProofs!ImplementsNodePool
<1>1. PlainProofs!Spec => PlainProofs!ImplementsNodePool
  BY PlainAssumption, PlainProofs!Refines
<1>2. SystemSpec => PlainProofs!Spec
  BY SystemIsPlain
<1> QED
  BY <1>1, <1>2, PTL
=============================================================================
