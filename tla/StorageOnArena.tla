--------------------------- MODULE StorageOnArena ---------------------------
(***************************************************************************)
(* A mulle_storage whose allocator is an arena: the buckets of its queue   *)
(* and its freed array are blocks of the arena's vtable, the nodes and the *)
(* pointers to freed nodes are bytes in them.  Module Storage takes nodes  *)
(* and freed array for granted; here every operation reads and writes the  *)
(* memory that the arena hands out, moves and takes back.                  *)
(*                                                                         *)
(* Block 0 is the freed array, block i the i-th bucket.  The storage is    *)
(* the arena's only client: blocks of others can end where the arena puts  *)
(* a header into a slot in use (see HeadersKept in Arena).                 *)
(***************************************************************************)
EXTENDS Arena

CONSTANTS
  MaxBuckets,  \* bound: buckets the queue may take
  Capacity,    \* capacity argument of _mulle_storage_init
  HeadSize,    \* bytes of a bucket in front of its elements
  NodeSize,    \* sizeof_struct
  FreedShares, \* {32} in the code: init gives the freed array capacity / 32 slots
  FirstSlots,  \* slots of a freed array without any when it is first needed
  Value,       \* what the client writes into a node
  Unset,       \* the client may not rely on the contents
  NotHeld      \* the client does not hold the node

ASSUME StorageOnArenaAssumption ==
  /\ MaxBuckets \in Nat
  /\ Handle = 0 .. MaxBuckets
  /\ Capacity \in Nat \ {0}
  /\ HeadSize \in Nat
  /\ NodeSize \in Nat \ {0}
  /\ FreedShares \subseteq Nat \ {0}
  /\ FirstSlots \in Nat \ {0}
  /\ Value \cup [node : 0 .. MaxBuckets * Capacity - 1] \subseteq Data
  /\ {Zero, Poison, Junk} \cap Value = {}
  /\ Zero # Poison
  /\ Zero # Junk
  /\ Poison # Junk
  /\ Unset # NotHeld
  /\ {Unset, NotHeld} \cap (Value \cup {Zero, Poison, Junk}) = {}

Node == 0 .. MaxBuckets * Capacity - 1

VARIABLES
  up,          \* between _mulle_storage_init and _mulle_storage_done
  structs,     \* elements reserved in _structs
  freedCount,  \* elements of _freed
  held         \* client: what it relies on to find in a node it holds

storageVars == <<up, structs, freedCount, held>>

FreedArray == 0
BucketOf(n) == n \div Capacity + 1
BucketSize == HeadSize + Capacity * NodeSize

\* Where a node and a slot of the freed array are, for blocks b.
NodeAt(b, n) == b[BucketOf(n)].addr + HeadSize + (n % Capacity) * NodeSize
SlotAt(b, i) == b[FreedArray].addr + i * SizeT

\* A byte of a pointer to node n
Pointer(n) == [node |-> n]

HeldNodes == {n \in Node : held[n] # NotHeld}

-----------------------------------------------------------------------------

\* The arena and the storage as one state for the operators below.
State(s, b, n, f) == [arena |-> s, block |-> b, structs |-> n, freed |-> f]
System == State(Now, block, structs, freedCount)

\* The nodes that a slot points to: one, or if there are other bytes, none.
Pointed(o, i) ==
  {n \in Node : \A x \in Span(SlotAt(o.block, i), SizeT) : o.arena.mem[x] = Pointer(n)}

\* The arena with other bytes in memory.
Written(s, m) == Bump(s, s.current, s.last, m)

\* The bytes that somebody may read: the reserved nodes, the slots in use and
\* the header of the freed array.
InUse(o) ==
  LET array == o.block[FreedArray]
  IN  (UNION {Span(NodeAt(o.block, n), NodeSize) : n \in 0 .. o.structs - 1})
      \cup Span(array.addr, o.freed * SizeT)
      \cup IF array = NoBlock THEN {} ELSE Span(array.addr - SizeT, SizeT)

\* All other bytes are indeterminate from here on: spare slots, abandoned
\* blocks, headers of buckets.
Kept(o) ==
  LET used == InUse(o)
  IN  [x \in Addr |-> IF x \in used THEN o.arena.mem[x] ELSE Junk]

\* What an operation makes of the two structures.
Adopt(o) ==
  /\ Become(Written(o.arena, Kept(o)))
  /\ block' = o.block
  /\ structs' = o.structs
  /\ freedCount' = o.freed
  /\ UNCHANGED <<phase, pageSize>>

\* The same between init and done.
Commit(o) == Adopt(o) /\ UNCHANGED up

\* The node's bytes are written, or copied from another node.
InMemory(o, m) == State(Written(o.arena, m), o.block, o.structs, o.freed)
WithNode(o, n, v) == InMemory(o, Store(o.arena.mem, NodeAt(o.block, n), NodeSize, v))
WithCopy(o, n, q) ==
  InMemory(o, CopyBytes(o.arena.mem, NodeAt(o.block, n), NodeAt(o.block, q), NodeSize))

\* The allocator's block at last becomes block h of the storage.
Obtain(o, h, s, n) ==
  State(s, [o.block EXCEPT ![h] = VtableBlock(s, n, 0, Zero)], o.structs, o.freed)

\* What is in a new bucket is indeterminate, as malloc leaves it.
NewBucket(o, i) ==
  {Obtain(o, i, Written(s, Store(s.mem, s.last + SizeT, BucketSize, Junk)), BucketSize) :
     s \in HeaderAlloc(o.arena, BucketSize)}

\* mulle_structqueue_reserve: a bucket from the allocator when the last is full.
Reserve(o) ==
  {State(r.arena, r.block, r.structs + 1, r.freed) :
     r \in IF o.structs % Capacity # 0 THEN {o} ELSE NewBucket(o, BucketOf(o.structs))}

\* _mulle_storage_malloc that returns p.  A slot that holds no pointer may
\* name any node.
MallocNode(p) ==
  IF freedCount = 0
    THEN IF p = structs THEN Reserve(System) ELSE {}
    ELSE IF Pointed(System, freedCount - 1) \in {{}, {p}}
           THEN {State(Now, block, structs, freedCount - 1)}
           ELSE {}

Hold(p, c) == held' = [held EXCEPT ![p] = c]

Malloc(p) ==
  /\ up
  /\ \E o \in MallocNode(p) : Commit(o)
  /\ Hold(p, Unset)

CallocNode(p) ==
  /\ up
  /\ \E o \in MallocNode(p) : Commit(WithNode(o, p, Zero))
  /\ Hold(p, Zero)

\* _mulle_storage_copy of a struct outside of the storage
CopyForeign(p, v) ==
  /\ up
  /\ \E o \in MallocNode(p) : Commit(WithNode(o, p, v))
  /\ Hold(p, v)

\* _mulle_storage_copy of a node of the same storage
CopyNode(p, q) ==
  /\ up
  /\ q \in HeldNodes
  /\ \E o \in MallocNode(p) : Commit(WithCopy(o, p, q))
  /\ Hold(p, held[q])

\* Mutant: the array grows when there is no slot left to count.
Room_OffByOne(o) ==
  LET array == o.block[FreedArray]
      total == IF array = NoBlock THEN FirstSlots * SizeT ELSE 2 * array.size
  IN  IF array # NoBlock /\ o.freed * SizeT <= array.size
        THEN {o}
        ELSE {Obtain(o, FreedArray, s, total) :
                s \in IF array = NoBlock THEN HeaderAlloc(o.arena, total)
                                         ELSE Reallocarray(o.arena, array.addr, total)}

\* The freed array has room for one more pointer: it has a spare slot, or
\* gets its first ones, or is reallocated to twice its size.
Room(o) ==
  LET array == o.block[FreedArray]
      total == IF array = NoBlock THEN FirstSlots * SizeT ELSE 2 * array.size
  IN  IF o.freed * SizeT < array.size
        THEN {o}
        ELSE {Obtain(o, FreedArray, s, total) :
                s \in IF array = NoBlock THEN HeaderAlloc(o.arena, total)
                                         ELSE Reallocarray(o.arena, array.addr, total)}

\* mulle__pointerarray_add
AddFreed(o, p) ==
  {State(Written(r.arena, Store(r.arena.mem, SlotAt(r.block, r.freed), SizeT, Pointer(p))),
         r.block, r.structs, r.freed + 1) : r \in Room(o)}

\* The poison comes before the array grows.
FreeNode(p) ==
  /\ up
  /\ p \in HeldNodes
  /\ \E o \in AddFreed(IF Debug THEN WithNode(System, p, Poison) ELSE System, p) : Commit(o)
  /\ Hold(p, NotHeld)

\* The client writes through the pointer it was given.
WriteNode(p, v) ==
  /\ p \in HeldNodes
  /\ Commit(WithNode(System, p, v))
  /\ Hold(p, v)

\* _mulle__pointerarray_init: memory for slots, none if they are zero.
InitFreed(o, slots) ==
  IF slots = 0
    THEN {o}
    ELSE {Obtain(o, FreedArray, s, slots * SizeT) : s \in HeaderAlloc(o.arena, slots * SizeT)}

\* The freed array of a large storage is there before the first bucket.
OpenStorage ==
  /\ phase = "up"
  /\ ~up
  /\ \E share \in FreedShares : \E o \in InitFreed(System, Capacity \div share) : Adopt(o)
  /\ up' = TRUE
  /\ UNCHANGED held

\* The storage is no longer up, and holds nothing.
Forget ==
  /\ up' = FALSE
  /\ structs' = 0
  /\ freedCount' = 0
  /\ held' = [n \in Node |-> NotHeld]

\* _mulle_storage_done frees the freed array, then the buckets in order.  One
\* of them is the arena's last block and gives its bytes back; then no block is
\* the last one any more, and freeing the others does nothing.
CloseStorage ==
  /\ up
  /\ LET s == IF \E h \in Live : block[h].addr - SizeT = last
                THEN FreeBlock(Now, last + SizeT)
                ELSE Now
     IN  Become(Written(s, [x \in Addr |-> Junk]))
  /\ block' = NoBlocks
  /\ Forget
  /\ UNCHANGED <<phase, pageSize>>

\* An arena that is done or reset ends the storage on it: the client does not
\* touch it again before it inits it anew.
EndOfScope == (Done \/ \E k \in KeepCounts : Reset(k)) /\ Forget

SystemInit ==
  /\ Init
  /\ up = FALSE
  /\ structs = 0
  /\ freedCount = 0
  /\ held = [n \in Node |-> NotHeld]

SystemNext ==
  \/ (\E size \in PageSizes : InitArena(size)) /\ UNCHANGED storageVars
  \/ EndOfScope
  \/ OpenStorage
  \/ CloseStorage
  \/ \E p \in Node :
       \/ Malloc(p)
       \/ CallocNode(p)
       \/ \E v \in Value : CopyForeign(p, v) \/ WriteNode(p, v)
       \/ \E q \in Node : CopyNode(p, q)
       \/ FreeNode(p)

SystemSpec == SystemInit /\ [][SystemNext]_<<vars, storageVars>>

-----------------------------------------------------------------------------

\* The types of the storage's variables; the freed array has its slots.
SystemTypeOK ==
  /\ up \in BOOLEAN
  /\ structs \in 0 .. MaxBuckets * Capacity
  /\ freedCount \in 0 .. block[FreedArray].size \div SizeT
  /\ held \in [Node -> Value \cup {Zero, Unset, NotHeld}]

\* The freed array is the only block whose header is read again, when it
\* grows: it has its size there, although the headers of other blocks are put
\* where its slots are and are overwritten by them.
FreedHeaderKept ==
  LET array == block[FreedArray]
  IN  array # NoBlock =>
        \A x \in Span(array.addr - SizeT, SizeT) : mem[x] = Header(array.size)

\* No node and no slot shares a byte with another, wherever the freed array
\* was extended, moved or abandoned between the buckets.
BodiesApart ==
  \A g, h \in Live : g # h => Apart(block[g].addr, block[g].size, block[h].addr, block[h].size)

\* What the bytes of a node say, of any of the nodes that have contents.
Contents(o, n) ==
  LET at == NodeAt(o.block, n)
  IN  IF \A x \in Span(at, NodeSize) : o.arena.mem[x] = o.arena.mem[at]
        THEN o.arena.mem[at]
        ELSE Junk

\* The storage as it is found in memory.
NodeContents(o) == [n \in Node |-> IF n < o.structs THEN Contents(o, n) ELSE Junk]
FreedNodes(o) ==
  [i \in 1 .. o.freed |->
     LET nodes == Pointed(o, i - 1) IN IF nodes = {} THEN Junk ELSE CHOOSE n \in nodes : TRUE]
Buckets(o) == Cardinality({h \in Handle \ {FreedArray} : o.block[h] # NoBlock})

\* The storage on the arena implements the storage of module Storage, with
\* nodes, freed array and buckets as they are in memory.  The high-water mark
\* of Storage is the number of elements reserved.
Plain == INSTANCE Storage WITH
  MaxNodes <- MaxBuckets * Capacity,
  buckets <- Buckets(System),
  freed <- FreedNodes(System),
  mem <- NodeContents(System),
  peak <- structs

ImplementsStorage == Plain!Spec
=============================================================================
