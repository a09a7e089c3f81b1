--------------------------- MODULE IndexedStorage ---------------------------
(***************************************************************************)
(* struct mulle_indexedstorage (src/src/mulle-indexedstorage.h): a pool of *)
(* fixed-size nodes in one mulle_structarray, named by index.  The array   *)
(* moves when it grows.  The freed indices are kept in a pointer array as  *)
(* tags, index + 1, since NULL is what a pop of the empty array returns.   *)
(***************************************************************************)
EXTENDS Naturals, FiniteSets, SequencesExt

CONSTANTS
  UintMod,     \* number of values of an unsigned int
  MaxNodes,    \* bound: the most elements the array can hold
  Capacity,    \* capacity argument of _mulle_indexedstorage_init
  Debug,       \* whether DEBUG is set in the build
  Value,       \* what the client writes into a node
  Poison,      \* a node of 0xDEADDEAD
  Junk,        \* indeterminate memory
  Unset,       \* the client may not rely on the contents
  NotHeld      \* the client does not hold the index

\* The array counts its elements with an unsigned int.
ASSUME IndexedAssumption ==
  /\ UintMod \in Nat \ {0}
  /\ MaxNodes \in 0 .. UintMod - 1
  /\ Capacity \in Nat
  /\ Debug \in BOOLEAN
  /\ {Poison, Junk} \cap Value = {}
  /\ Poison # Junk
  /\ Unset # NotHeld
  /\ {Unset, NotHeld} \cap (Value \cup {Poison, Junk}) = {}

Node == 0 .. MaxNodes - 1
Contents == Value \cup {Poison, Junk}
Null == 0
NoPointer == 0

VARIABLES
  up,          \* between init and done
  count,       \* elements of _structs
  room,        \* elements _structs has memory for
  base,        \* which block of memory _structs lives in, from 1
  freed,       \* _freed: tags, the last one at the end
  mem,         \* the contents of the elements
  held,        \* client: what it relies on to find at an index it holds
  ptr,         \* client: the block its pointer to an element points into
  peak         \* client: the most indices it held at once since init

vars == <<up, count, room, base, freed, mem, held, ptr, peak>>

Live == {i \in Node : held[i] # NotHeld}

\* _mulle_indexedstorage_get_count
GetCount == count - Len(freed)

\* Mutant: the index itself is the tag.
Tag_Bare(i) == i

\* (void *) (uintptr_t) (index + 1), the sum in unsigned int
Tag(i) == (i + 1) % UintMod

-----------------------------------------------------------------------------

Init ==
  /\ up = FALSE
  /\ count = 0
  /\ room = 0
  /\ base = 0
  /\ freed = <<>>
  /\ mem = [i \in Node |-> Junk]
  /\ held = [i \in Node |-> NotHeld]
  /\ ptr = [i \in Node |-> NoPointer]
  /\ peak = 0

InitStorage ==
  /\ ~up
  /\ up' = TRUE
  /\ count' = 0
  /\ room' = Capacity
  /\ base' = 1
  /\ freed' = <<>>
  /\ UNCHANGED <<mem, held, ptr, peak>>

Done ==
  /\ up
  /\ up' = FALSE
  /\ count' = 0
  /\ room' = 0
  /\ base' = 0
  /\ freed' = <<>>
  /\ mem' = [i \in Node |-> Junk]
  /\ held' = [i \in Node |-> NotHeld]
  /\ ptr' = [i \in Node |-> NoPointer]
  /\ peak' = 0

\* The client holds i, and relies on c there.
Hold(i, c) ==
  /\ held' = [held EXCEPT ![i] = c]
  /\ peak' = IF Cardinality(Live') > peak THEN Cardinality(Live') ELSE peak

\* mulle_structarray_reserve: a full array is reallocated to twice its size.
Reserve ==
  /\ count < MaxNodes
  /\ count' = count + 1
  /\ IF count = room
       THEN base' = base + 1 /\ room' = IF room = 0 THEN 1 ELSE 2 * room
       ELSE UNCHANGED <<base, room>>

\* Mutant: the array makes room for one more element before the pop.
AllocIndex_MakesRoomFirst(i) ==
  LET tag == IF freed = <<>> THEN Null ELSE Last(freed)
  IN  /\ freed' = IF freed = <<>> THEN freed ELSE Front(freed)
      /\ IF tag # Null
           THEN /\ i = tag - 1
                /\ base' = IF count = room THEN base + 1 ELSE base
                /\ room' = IF count = room THEN 2 * room + 1 ELSE room
                /\ UNCHANGED count
           ELSE i = count % UintMod /\ Reserve

\* Mutant: the index is taken after the reserve.
AllocIndex_CountAfterReserve(i) ==
  LET tag == IF freed = <<>> THEN Null ELSE Last(freed)
  IN  /\ freed' = IF freed = <<>> THEN freed ELSE Front(freed)
      /\ IF tag # Null
           THEN i = tag - 1 /\ UNCHANGED <<count, base, room>>
           ELSE i = (count + 1) % UintMod /\ Reserve

\* A freed index, or one behind the last element.  A popped NULL counts as
\* the empty array.
AllocIndex(i) ==
  LET tag == IF freed = <<>> THEN Null ELSE Last(freed)
  IN  /\ freed' = IF freed = <<>> THEN freed ELSE Front(freed)
      /\ IF tag # Null
           THEN i = tag - 1 /\ UNCHANGED <<count, base, room>>
           ELSE i = count % UintMod /\ Reserve

\* An index that was never used may move the array, and with it ends the life of
\* the client's pointers; across the reuse of a freed index it keeps them.
Alloc(i) ==
  /\ up
  /\ AllocIndex(i)
  /\ Hold(i, Unset)
  /\ ptr' = IF freed = <<>> THEN [j \in Node |-> NoPointer] ELSE ptr
  /\ UNCHANGED <<up, mem>>

\* Mutant: freeing the last element gives it back to the array, unlike the
\* count of the others; the tag is added all the same.
Free_ShrinksArray(i) ==
  /\ up
  /\ i \in Live
  /\ mem' = IF Debug THEN [mem EXCEPT ![i] = Poison] ELSE mem
  /\ freed' = Append(freed, Tag(i))
  /\ count' = IF i + 1 = count THEN i ELSE count
  /\ held' = [held EXCEPT ![i] = NotHeld]
  /\ ptr' = [ptr EXCEPT ![i] = NoPointer]
  /\ UNCHANGED <<up, room, base, peak>>

\* The pointer to the freed element goes, the others stay usable.
Free(i) ==
  /\ up
  /\ i \in Live
  /\ mem' = IF Debug THEN [mem EXCEPT ![i] = Poison] ELSE mem
  /\ freed' = Append(freed, Tag(i))
  /\ held' = [held EXCEPT ![i] = NotHeld]
  /\ ptr' = [ptr EXCEPT ![i] = NoPointer]
  /\ UNCHANGED <<up, count, room, base, peak>>

\* _mulle_indexedstorage_get: the client keeps the pointer.
Get(i) ==
  /\ up
  /\ i \in Live
  /\ ptr' = [ptr EXCEPT ![i] = base]
  /\ UNCHANGED <<up, count, room, base, freed, mem, held, peak>>

\* The client writes through a pointer it kept; into a block that the array
\* has left, the write is lost.
Write(i, v) ==
  /\ ptr[i] # NoPointer
  /\ mem' = IF ptr[i] = base THEN [mem EXCEPT ![i] = v] ELSE mem
  /\ held' = [held EXCEPT ![i] = v]
  /\ UNCHANGED <<up, count, room, base, freed, ptr, peak>>

Next ==
  \/ InitStorage
  \/ Done
  \/ \E i \in Node :
       \/ Alloc(i)
       \/ Free(i)
       \/ Get(i)
       \/ \E v \in Value : Write(i, v)

Spec == Init /\ [][Next]_vars

-----------------------------------------------------------------------------

TypeOK ==
  /\ up \in BOOLEAN
  /\ count \in 0 .. MaxNodes
  /\ room \in Nat
  /\ base \in Nat
  /\ freed \in Seq(1 .. UintMod - 1)
  /\ mem \in [Node -> Contents]
  /\ held \in [Node -> Value \cup {Unset, NotHeld}]
  /\ ptr \in [Node -> Nat]
  /\ peak \in Nat

\* Every index below the count is held by the client or waits under its tag
\* in one slot of the freed array: no index has two owners or is lost, no
\* tag is NULL, and the asserts of _mulle_indexedstorage_free and _get hold
\* for a client that uses what it holds.
OnePlaceForEveryIndex ==
  /\ IsInjective(freed)
  /\ \A k \in DOMAIN freed : freed[k] # Null /\ freed[k] - 1 \in Node \ Live
  /\ \A i \in Node : i < count <=> i \in Live \/ \E k \in DOMAIN freed : freed[k] = i + 1

\* The client finds at an index what it wrote there, also through a pointer it
\* got before indices were freed and used again: the pointer is not stale, and
\* what the array holds is kept across every reallocation.
ContentsKept ==
  \A i \in Live : held[i] # Unset => mem[i] = held[i]

\* The count reported is the number of indices the client holds.
CountIsLive == Len(freed) <= count /\ GetCount = Cardinality(Live)

\* The array is as long as the client ever held indices at once, so that a
\* freed index is always used before the array grows.
HighWater == count = peak

\* The elements move only when the array grows for an index that was never
\* used: pointers outlive a free and a reuse, not only "as long as you don't
\* add or remove items" (mulle-indexedstorage.h:45-46).
MovesOnlyToGrow ==
  [][base' # base /\ base # 0 /\ base' # 0
       => freed = <<>> /\ count = room /\ count' = count + 1]_vars

\* What the owner of an index reads from its element.
Reads == [i \in Node |-> IF held[i] \in {NotHeld, Unset} THEN held[i] ELSE mem[i]]

\* mulle_indexedstorage implements the abstract node pool.
Pool == INSTANCE NodePool WITH Zero <- Unset, used <- 0 .. count - 1, live <- Reads

ImplementsNodePool == Pool!PoolSpec
=============================================================================
