---------------------------- MODULE ArenaRegion -----------------------------
(***************************************************************************)
(* How a step that hands a block to the client looks in the abstract       *)
(* region that the arena implements.                                       *)
(***************************************************************************)
EXTENDS ArenaLayout

\* n times the byte v
Bytes(n, v) == [i \in 1 .. n |-> v]

\* What the region says of a block that is intact.
View(b) == [size |-> b.size, bytes |-> Bytes(b.len, b.val)]

\* As a sequence of n elements, its prefixes are of the same byte.
LEMMA BytesProperties ==
  ASSUME NEW n \in Nat, NEW v
  PROVE  /\ Bytes(n, v) \in Seq({v}) /\ Len(Bytes(n, v)) = n
         /\ n = 0 => Bytes(n, v) = <<>>
         /\ \A k \in 0 .. n : SubSeq(Bytes(n, v), 1, k) = Bytes(k, v)
<1>1. Bytes(n, v) \in Seq({v}) /\ Len(Bytes(n, v)) = n
  BY DEF Bytes
<1>2. n = 0 => Bytes(n, v) = <<>>
  BY <1>1, EmptySeq
<1>3. ASSUME NEW k \in 0 .. n
      PROVE  SubSeq(Bytes(n, v), 1, k) = Bytes(k, v)
  BY <1>1 DEF Bytes
<1> QED
  BY <1>1, <1>2, <1>3

\* What the region says of the blocks b in the memory m.
Seen(m, b) ==
  [h \in Handle |->
     [size |-> b[h].size, bytes |-> [i \in 1 .. b[h].len |-> m[b[h].addr + i - 1]]]]

\* What is seen of intact blocks does not depend on memory.
LEMMA SeenOfIntact ==
  ASSUME NEW m, NEW b \in [Handle -> BlockType], AllIntact(m, b)
  PROVE  Seen(m, b) = [h \in Handle |-> View(b[h])]
<1> SUFFICES ASSUME NEW h \in Handle
             PROVE  [i \in 1 .. b[h].len |-> m[b[h].addr + i - 1]] = Bytes(b[h].len, b[h].val)
  BY DEF Seen, View
<1>1. b[h].len \in Nat /\ b[h].addr \in Nat
  BY DEF BlockType
<1>2. CASE b[h] = NoBlock
  <2>1. b[h].len = 0
    BY <1>2 DEF NoBlock, Block
  <2> QED
    BY <2>1 DEF Bytes
<1>3. CASE b[h] # NoBlock
  <2>1. ASSUME NEW i \in 1 .. b[h].len
        PROVE  m[b[h].addr + i - 1] = b[h].val
    <3>1. b[h].addr + i - 1 \in Span(b[h].addr, b[h].len)
      BY <1>1 DEF Span
    <3> QED
      BY <1>3, <3>1 DEF AllIntact, Intact
  <2> QED
    BY <2>1 DEF Bytes
<1> QED
  BY <1>2, <1>3

\* No block is none for the region too.
LEMMA ViewOfNoBlock == View(NoBlock) = Blocks!None
<1>1. NoBlock.size = 0 /\ NoBlock.len = 0
  BY DEF NoBlock, Block
<1> QED
  BY <1>1, BytesProperties DEF View, Blocks!None

\* The step in which a block of the client becomes b.
Turns(h, b) ==
  /\ AllIntact(mem, block) /\ AllIntact(mem, block)'
  /\ block \in [Handle -> BlockType] /\ (block \in [Handle -> BlockType])'
  /\ block' = [block EXCEPT ![h] = b]

\* It is the only block that the region sees change.
LEMMA ViewStep ==
  ASSUME NEW h \in Handle, NEW b, Turns(h, b)
  PROVE  /\ Blocks!OnlyChanges(h)
         /\ ClientView'[h] = View(b) /\ b \in BlockType
         /\ \A g \in Handle : ClientView[g] = View(block[g])
<1>1. ClientView = [g \in Handle |-> View(block[g])]
  <2>1. ClientView = Seen(mem, block)
    BY DEF ClientView, Seen
  <2> QED
    BY <2>1, SeenOfIntact DEF Turns
<1>2. ClientView' = [g \in Handle |-> View(block'[g])]
  <2>1. ClientView' = Seen(mem', block')
    BY DEF ClientView, Seen
  <2>2. AllIntact(mem', block') /\ block' \in [Handle -> BlockType]
    BY DEF Turns
  <2> QED
    BY <2>1, <2>2, SeenOfIntact
<1>3. block' = [block EXCEPT ![h] = b] /\ block \in [Handle -> BlockType]
      /\ block' \in [Handle -> BlockType]
  BY DEF Turns
<1>4. ClientView' = [ClientView EXCEPT ![h] = ClientView'[h]]
  BY <1>1, <1>2, <1>3
<1>5. block'[h] = b
  BY <1>3
<1> QED
  BY <1>1, <1>2, <1>3, <1>4, <1>5 DEF Blocks!OnlyChanges

\* The sizes that blocks may have.
BlockSizes == (Sizes \cup {r[1] * r[2] : r \in Requests}) \ {0}

\* A fresh block, of which nothing is known or all is the same byte.
LEMMA AsObtain ==
  ASSUME NEW h \in Handle, NEW b, Turns(h, b), block[h] = NoBlock, b.size \in BlockSizes,
         b.len = 0 \/ (b.len = b.size /\ b.val \in {Zero, Src})
  PROVE  Blocks!RegionNext
<1>1. /\ Blocks!OnlyChanges(h) /\ ClientView'[h] = View(b) /\ b \in BlockType
      /\ ClientView[h] = Blocks!None
  BY ViewStep, ViewOfNoBlock
<1>2. b.len = 0 => View(b) = [size |-> b.size, bytes |-> <<>>]
  BY BytesProperties DEF View
<1>3. b.len = b.size => View(b) = Blocks!Full(b.size, b.val)
  BY DEF View, Bytes, Blocks!Full
<1>4. ClientView'[h] \in {[size |-> b.size, bytes |-> <<>>], Blocks!Full(b.size, Zero)}
                           \cup {Blocks!Full(b.size, v) : v \in [of : Handle] \cup {Src}}
  BY <1>1, <1>2, <1>3
<1>5. Blocks!Obtain(h, b.size)
  BY <1>1, <1>4 DEF Blocks!Obtain
<1> QED
  BY <1>1, <1>5 DEF Blocks!RegionNext, BlockSizes

\* A fresh block with the size and the bytes of another one.
LEMMA AsDuplicate ==
  ASSUME NEW h \in Handle, NEW b, Turns(h, b), block[h] = NoBlock,
         NEW g \in Handle, View(b) = View(block[g])
  PROVE  Blocks!RegionNext
<1>1. /\ Blocks!OnlyChanges(h) /\ ClientView'[h] = ClientView[g] /\ ClientView[h] = Blocks!None
  BY ViewStep, ViewOfNoBlock
<1>2. Blocks!Duplicate(h, g)
  BY <1>1 DEF Blocks!Duplicate
<1> QED
  BY <1>1, <1>2 DEF Blocks!RegionNext

\* A block that has a size is none for the region only if its size is 0.
LEMMA ViewOfBlock ==
  ASSUME NEW b, b.size # 0
  PROVE  View(b) # Blocks!None
BY DEF View, Blocks!None

\* The client's own bytes in all of its block.
LEMMA AsOverwrite ==
  ASSUME NEW h \in Handle, NEW b, Turns(h, b), block[h].size # 0, b.size = block[h].size,
         b.len = b.size, b.val = Mark(h)
  PROVE  Blocks!RegionNext
<1>1. /\ Blocks!OnlyChanges(h) /\ ClientView'[h] = View(b) /\ ClientView[h] = View(block[h])
      /\ ClientView[h] # Blocks!None
  BY ViewStep, ViewOfBlock
<1>2. View(b) = Blocks!Full(ClientView[h].size, Mark(h))
  BY <1>1 DEF View, Bytes, Blocks!Full
<1>3. Blocks!Overwrite(h, Mark(h)) /\ Mark(h) \in [of : Handle] \cup {Src}
  BY <1>1, <1>2 DEF Blocks!Overwrite, Mark
<1> QED
  BY <1>1, <1>3 DEF Blocks!RegionNext

\* Another size, with the bytes that both sizes have room for.
LEMMA AsResize ==
  ASSUME NEW h \in Handle, NEW b, Turns(h, b), block[h].size # 0, b.size \in BlockSizes,
         b.len = Lesser(block[h].len, b.size), b.len # 0 => b.val = block[h].val
  PROVE  Blocks!RegionNext
<1> DEFINE old == block[h]
<1>1. /\ Blocks!OnlyChanges(h) /\ ClientView'[h] = View(b) /\ ClientView[h] = View(old)
      /\ ClientView[h] # Blocks!None /\ b \in BlockType
  BY ViewStep, ViewOfBlock
<1>2. old.len \in Nat /\ b.len \in Nat /\ b.size \in Nat /\ b.len <= old.len
      /\ b.len = Lesser(old.len, b.size)
  BY <1>1 DEF Turns, BlockType, Lesser
<1>3. Bytes(b.len, b.val) = Bytes(b.len, old.val)
  <2>1. CASE b.len = 0
    BY <2>1 DEF Bytes
  <2>2. CASE b.len # 0
    BY <2>2
  <2> QED
    BY <2>1, <2>2
<1> HIDE DEF old
<1>4. Blocks!Prefix(Bytes(old.len, old.val), b.size) = Bytes(b.len, old.val)
  <2>1. Len(Bytes(old.len, old.val)) = old.len
    BY <1>2, BytesProperties
  <2>2. (IF b.size < old.len THEN b.size ELSE old.len) = b.len
    BY <1>2 DEF Lesser
  <2>3. SubSeq(Bytes(old.len, old.val), 1, b.len) = Bytes(b.len, old.val)
    <3>1. b.len \in 0 .. old.len
      BY <1>2
    <3> QED
      BY <1>2, <3>1, BytesProperties
  <2> QED
    BY <2>1, <2>2, <2>3 DEF Blocks!Prefix
<1>5. Blocks!Resize(h, b.size)
  BY <1>1, <1>3, <1>4 DEF Blocks!Resize, View
<1> QED
  BY <1>1, <1>5 DEF Blocks!RegionNext, BlockSizes

\* A block that is gone.
LEMMA AsRelease ==
  ASSUME NEW h \in Handle, Turns(h, NoBlock)
  PROVE  Blocks!RegionNext
<1>1. Blocks!OnlyChanges(h) /\ ClientView'[h] = Blocks!None
  BY ViewStep, ViewOfNoBlock
<1> QED
  BY <1>1 DEF Blocks!Release, Blocks!RegionNext

\* No blocks at all.
LEMMA NothingSeen ==
  ASSUME NEW m
  PROVE  Seen(m, NoBlocks) = [h \in Handle |-> Blocks!None]
<1>1. AllIntact(m, NoBlocks)
  BY NoBlocksFine DEF AllIntact
<1> QED
  BY <1>1, NoBlocksFine, SeenOfIntact, ViewOfNoBlock

\* All blocks are gone.
LEMMA AsClear ==
  ASSUME block' = NoBlocks
  PROVE  Blocks!RegionNext
<1>1. ClientView' = Seen(mem', NoBlocks)
  BY DEF ClientView, Seen
<1>2. Blocks!Clear
  BY <1>1, NothingSeen DEF Blocks!Clear
<1> QED
  BY <1>2 DEF Blocks!RegionNext

\* No blocks yet.
LEMMA AsInit ==
  ASSUME block = NoBlocks
  PROVE  Blocks!RegionInit
<1>1. ClientView = Seen(mem, NoBlocks)
  BY DEF ClientView, Seen
<1> QED
  BY <1>1, NothingSeen DEF Blocks!RegionInit
=============================================================================
