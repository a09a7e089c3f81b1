------------------------------ MODULE Storage -------------------------------
(***************************************************************************)
(* struct mulle_storage (src/src/mulle-storage.h): a pool of fixed-size    *)
(* nodes in the buckets of a mulle_structqueue, with a mulle__pointerarray *)
(* of freed nodes that are handed out again before the queue grows.        *)
(*                                                                         *)
(* A node is named by the order in which the queue reserved it; the queue  *)
(* never moves an element, so the name stands for the node's address.      *)
(* The client obeys the asserts of the code: it frees and uses nodes it    *)
(* holds.                                                                  *)
(***************************************************************************)
EXTENDS Naturals, FiniteSets, SequencesExt

CONSTANTS
  MaxNodes,    \* bound: how many nodes the system has memory for
  Capacity,    \* capacity argument of _mulle_storage_init, the bucket size
  Debug,       \* whether DEBUG is set in the build
  Value,       \* what the client writes into a node
  Zero,        \* a node of zero bytes
  Poison,      \* a node of 0xDEADDEAD
  Junk,        \* indeterminate memory
  Unset,       \* the client may not rely on the contents
  NotHeld      \* the client does not hold the node

ASSUME StorageAssumption ==
  /\ MaxNodes \in Nat
  /\ Capacity \in Nat \ {0}
  /\ Debug \in BOOLEAN
  /\ {Zero, Poison, Junk} \cap Value = {}
  /\ Zero # Poison
  /\ Zero # Junk
  /\ Poison # Junk
  /\ Unset # NotHeld
  /\ {Unset, NotHeld} \cap (Value \cup {Zero, Poison, Junk}) = {}

Node == 0 .. MaxNodes - 1
Contents == Value \cup {Zero, Poison, Junk}

VARIABLES
  up,          \* between _mulle_storage_init and _mulle_storage_done
  structs,     \* elements reserved in _structs
  buckets,     \* buckets of _structs obtained from the allocator
  freed,       \* _freed, the last element at the end
  mem,         \* the contents of the nodes
  held,        \* client: what it relies on to find in a node it holds
  peak         \* client: the most nodes it held at once since init

vars == <<up, structs, buckets, freed, mem, held, peak>>

Live == {n \in Node : held[n] # NotHeld}

\* _mulle_storage_get_count
GetCount == structs - Len(freed)

-----------------------------------------------------------------------------

Init ==
  /\ up = FALSE
  /\ structs = 0
  /\ buckets = 0
  /\ freed = <<>>
  /\ mem = [n \in Node |-> Junk]
  /\ held = [n \in Node |-> NotHeld]
  /\ peak = 0

InitStorage ==
  /\ ~up
  /\ up' = TRUE
  /\ structs' = 0
  /\ buckets' = 0
  /\ freed' = <<>>
  /\ UNCHANGED <<mem, held, peak>>

\* Everything goes back to the allocator at once, the live nodes with it.
Done ==
  /\ up
  /\ up' = FALSE
  /\ structs' = 0
  /\ buckets' = 0
  /\ freed' = <<>>
  /\ mem' = [n \in Node |-> Junk]
  /\ held' = [n \in Node |-> NotHeld]
  /\ peak' = 0

\* The client holds p, and relies on c there.
Hold(p, c) ==
  /\ held' = [held EXCEPT ![p] = c]
  /\ peak' = IF Cardinality(Live') > peak THEN Cardinality(Live') ELSE peak

\* Mutant: the pop leaves the element in the array.
Pop_Peeks(p) ==
  /\ p = Last(freed)
  /\ UNCHANGED freed

\* mulle__pointerarray_pop: the element added last.
Pop(p) ==
  /\ p = Last(freed)
  /\ freed' = Front(freed)

\* Mutant: every element is a bucket of its own.
Reserve_BucketPerNode(p) ==
  /\ structs < MaxNodes
  /\ p = structs
  /\ structs' = structs + 1
  /\ buckets' = buckets + 1

\* mulle_structqueue_reserve: a new bucket when the last one is full.
Reserve(p) ==
  /\ structs < MaxNodes
  /\ p = structs
  /\ structs' = structs + 1
  /\ buckets' = IF structs = buckets * Capacity THEN buckets + 1 ELSE buckets

\* Mutant: the queue grows while it has room, the freed nodes come after.
MallocNode_GrowsFirst(p) ==
  /\ up
  /\ IF structs < MaxNodes
       THEN Reserve(p) /\ UNCHANGED freed
       ELSE freed # <<>> /\ Pop(p) /\ UNCHANGED <<structs, buckets>>

\* _mulle_storage_malloc up to its return
MallocNode(p) ==
  /\ up
  /\ IF freed # <<>>
       THEN Pop(p) /\ UNCHANGED <<structs, buckets>>
       ELSE Reserve(p) /\ UNCHANGED freed

Malloc(p) ==
  /\ MallocNode(p)
  /\ Hold(p, Unset)
  /\ UNCHANGED <<up, mem>>

Calloc(p) ==
  /\ MallocNode(p)
  /\ mem' = [mem EXCEPT ![p] = Zero]
  /\ Hold(p, Zero)
  /\ UNCHANGED up

\* _mulle_storage_copy of a struct outside of the storage
CopyForeign(p, v) ==
  /\ MallocNode(p)
  /\ mem' = [mem EXCEPT ![p] = v]
  /\ Hold(p, v)
  /\ UNCHANGED up

\* Mutant: memcpy with source and destination swapped.
CopyNode_Swapped(p, q) ==
  /\ q \in Live
  /\ MallocNode(p)
  /\ mem' = [mem EXCEPT ![q] = mem[p]]
  /\ Hold(p, held[q])
  /\ UNCHANGED up

\* _mulle_storage_copy of a node of the same storage
CopyNode(p, q) ==
  /\ q \in Live
  /\ MallocNode(p)
  /\ mem' = [mem EXCEPT ![p] = mem[q]]
  /\ Hold(p, held[q])
  /\ UNCHANGED up

\* Mutant: the tag of the indexed storage is added instead of the node.
Free_AddsTag(p) ==
  /\ up
  /\ p \in Live
  /\ mem' = IF Debug THEN [mem EXCEPT ![p] = Poison] ELSE mem
  /\ freed' = Append(freed, p + 1)
  /\ held' = [held EXCEPT ![p] = NotHeld]
  /\ UNCHANGED <<up, structs, buckets, peak>>

\* Mutant: the freed element is added twice over.
Free_AddsTwice(p) ==
  /\ up
  /\ p \in Live
  /\ mem' = IF Debug THEN [mem EXCEPT ![p] = Poison] ELSE mem
  /\ freed' = freed \o <<p, p>>
  /\ held' = [held EXCEPT ![p] = NotHeld]
  /\ UNCHANGED <<up, structs, buckets, peak>>

\* Mutant: the poison covers two elements instead of one.
Free_PoisonsTwoElements(p) ==
  /\ up
  /\ p \in Live
  /\ mem' = [n \in Node |-> IF Debug /\ n \in {p, p + 1} THEN Poison ELSE mem[n]]
  /\ freed' = Append(freed, p)
  /\ held' = [held EXCEPT ![p] = NotHeld]
  /\ UNCHANGED <<up, structs, buckets, peak>>

Free(p) ==
  /\ up
  /\ p \in Live
  /\ mem' = IF Debug THEN [mem EXCEPT ![p] = Poison] ELSE mem
  /\ freed' = Append(freed, p)
  /\ held' = [held EXCEPT ![p] = NotHeld]
  /\ UNCHANGED <<up, structs, buckets, peak>>

\* The client writes through the pointer it was given.
Write(p, v) ==
  /\ p \in Live
  /\ mem' = [mem EXCEPT ![p] = v]
  /\ held' = [held EXCEPT ![p] = v]
  /\ UNCHANGED <<up, structs, buckets, freed, peak>>

Next ==
  \/ InitStorage
  \/ Done
  \/ \E p \in Node :
       \/ Malloc(p)
       \/ Calloc(p)
       \/ \E v \in Value : CopyForeign(p, v)
       \/ \E q \in Node : CopyNode(p, q)
       \/ Free(p)
       \/ \E v \in Value : Write(p, v)

Spec == Init /\ [][Next]_vars

-----------------------------------------------------------------------------

\* The types of the variables: the freed array holds nodes, not NULL.
TypeOK ==
  /\ up \in BOOLEAN
  /\ structs \in 0 .. MaxNodes
  /\ buckets \in Nat
  /\ freed \in Seq(Node)
  /\ mem \in [Node -> Contents]
  /\ held \in [Node -> Value \cup {Zero, Unset, NotHeld}]
  /\ peak \in Nat

NoNodeFreedTwice == IsInjective(freed)

FreedAreNotHeld == \A i \in DOMAIN freed : held[freed[i]] = NotHeld

ReservedAreHeldOrFreed ==
  \A n \in Node : n < structs <=> held[n] # NotHeld \/ \E i \in DOMAIN freed : freed[i] = n

\* Every node the queue reserved is in exactly one place, the hands of the
\* client or one slot of the freed array: no node has two owners, none is
\* lost, and both asserts of _mulle_storage_free hold whenever a client frees
\* what it holds (mulle-storage.h, _mulle_storage_malloc and _mulle_storage_free).
OnePlaceForEveryNode ==
  /\ NoNodeFreedTwice
  /\ FreedAreNotHeld
  /\ ReservedAreHeldOrFreed

\* Pointer stability: while the client holds a node it finds there what was
\* last written, whatever is allocated, freed, copied and poisoned around it.
ContentsKept ==
  \A n \in Live : held[n] # Unset => mem[n] = held[n]

\* The count the storage reports is the number of nodes the client holds; the
\* unsigned difference in _mulle_storage_get_count does not wrap.
CountIsLive == Len(freed) <= structs /\ GetCount = Cardinality(Live)

\* The high-water mark: the storage has reserved exactly as many elements as
\* the client ever held at once (README, Memory Model), so a free is always
\* worth a later malloc.
HighWater == structs = peak

\* The allocator is asked once per Capacity nodes of the high-water mark.
BucketsFollowPeak ==
  /\ peak <= buckets * Capacity
  /\ buckets * Capacity < peak + Capacity

\* In a DEBUG build a freed node stays poisoned until it is handed out again.
FreedStayPoisoned ==
  Debug => \A i \in DOMAIN freed : mem[freed[i]] = Poison

\* The API documentation's order of reuse, the node freed first comes back
\* first (asset/dox/api/toc/index.md:322).  _mulle_storage_malloc pops the
\* pointer array it adds to, so the node freed last comes back first.
ReusedInFifoOrder ==
  [][\A p \in Node :
       freed # <<>> /\ held[p] = NotHeld /\ held'[p] # NotHeld => p = Head(freed)]_vars

\* What the owner of a node reads from it.
Reads == [n \in Node |-> IF held[n] \in {NotHeld, Unset} THEN held[n] ELSE mem[n]]

\* mulle_storage implements the abstract node pool: what the owner of a node
\* reads is what the memory holds, and a free or a copy changes no other node.
Pool == INSTANCE NodePool WITH used <- 0 .. structs - 1, live <- Reads

ImplementsNodePool == Pool!PoolSpec
=============================================================================
