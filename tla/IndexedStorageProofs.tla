------------------------ MODULE IndexedStorageProofs ------------------------
(***************************************************************************)
(* What holds of mulle_indexedstorage for every bound, capacity, width of  *)
(* an unsigned int, build and set of values: the invariants of module      *)
(* IndexedStorage, and that it implements the abstract node pool.  The     *)
(* inductive invariant is that every index is in one place, the hands of   *)
(* the client or, as its tag, the freed array.                             *)
(***************************************************************************)
EXTENDS IndexedStorage, SequenceEnds, FiniteSetTheorems, SequenceTheorems, TLAPS

\* A remainder is what it is of as long as that is below the modulus.
LEMMA SmallRemainder ==
  ASSUME NEW m \in Nat \ {0}, NEW n \in 0 .. m - 1
  PROVE  n % m = n
OBVIOUS

\* No index the array can have wraps into NULL as a tag, and none is cut off.
LEMMA TagIsNext ==
  ASSUME NEW i \in Node
  PROVE  Tag(i) = i + 1 /\ Tag(i) \in 1 .. UintMod - 1
<1>1. i + 1 \in 0 .. UintMod - 1 /\ i + 1 \in 1 .. UintMod - 1 /\ UintMod \in Nat \ {0}
  BY IndexedAssumption DEF IndexedAssumption, Node
<1> QED
  BY <1>1, SmallRemainder DEF Tag

\* The array's last index fits an unsigned int.
LEMMA CountFits ==
  ASSUME count \in 0 .. MaxNodes
  PROVE  count % UintMod = count
<1>1. count \in 0 .. UintMod - 1 /\ UintMod \in Nat \ {0}
  BY IndexedAssumption DEF IndexedAssumption
<1> QED
  BY <1>1, SmallRemainder

\* There are finitely many indices.
LEMMA IndicesAreFinite ==
  ASSUME NEW S \in SUBSET Node
  PROVE  IsFiniteSet(S) /\ Cardinality(S) \in Nat
<1>1. IsFiniteSet(Node)
  BY IndexedAssumption, FS_Interval DEF IndexedAssumption, Node
<1> QED
  BY <1>1, FS_Subset, FS_CardinalityType

\* The client knows how many indices it held at most.
LEMMA PeakIsNatural ==
  ASSUME peak \in Nat, NEW i, NEW c, Hold(i, c)
  PROVE  peak' \in Nat
<1>1. Live' \in SUBSET Node
  BY DEF Live
<1>2. Cardinality(Live') \in Nat
  BY <1>1, IndicesAreFinite
<1> QED
  BY <1>2 DEF Hold

-----------------------------------------------------------------------------

\* The tags in the freed array are not NULL, so a pop tells a freed index
\* from the empty array: the two ways through _mulle_indexedstorage_alloc.
LEMMA AllocCases ==
  ASSUME TypeOK, NEW i \in Node, AllocIndex(i)
  PROVE  \/ /\ freed # <<>>
            /\ freed' = Front(freed)
            /\ Last(freed) = i + 1
            /\ UNCHANGED <<count, base, room>>
         \/ /\ freed = <<>>
            /\ freed' = <<>>
            /\ i = count
            /\ Reserve
<1>1. CASE freed # <<>>
  <2>1. Last(freed) \in 1 .. UintMod - 1
    BY <1>1, FrontLast DEF TypeOK
  <2>2. Last(freed) # Null
    BY <2>1, IndexedAssumption DEF Null, IndexedAssumption
  <2>3. freed' = Front(freed) /\ i = Last(freed) - 1 /\ UNCHANGED <<count, base, room>>
    BY <1>1, <2>2 DEF AllocIndex
  <2>4. Last(freed) = i + 1
    BY <2>1, <2>3, IndexedAssumption DEF IndexedAssumption
  <2> QED
    BY <1>1, <2>3, <2>4
<1>2. CASE freed = <<>>
  <2>1. freed' = <<>> /\ i = count % UintMod /\ Reserve
    BY <1>2 DEF AllocIndex, Null
  <2>2. count % UintMod = count
    BY CountFits DEF TypeOK
  <2> QED
    BY <1>2, <2>1, <2>2
<1> QED
  BY <1>1, <1>2

\* The variables keep their types.
THEOREM TypeCorrect == Spec => []TypeOK
<1> USE IndexedAssumption DEF IndexedAssumption
<1>0. <<>> \in Seq(1 .. UintMod - 1)
  BY EmptySeq
<1>1. Init => TypeOK
  <2> SUFFICES ASSUME Init
               PROVE  TypeOK
    OBVIOUS
  <2>1. up \in BOOLEAN
    BY DEF Init
  <2>2. /\ mem \in [Node -> Contents]
        /\ held \in [Node -> Value \cup {Unset, NotHeld}]
        /\ ptr \in [Node -> Nat]
    BY DEF Init, Contents, NoPointer
  <2>3. /\ count \in 0 .. MaxNodes /\ room \in Nat /\ base \in Nat /\ peak \in Nat
        /\ freed \in Seq(1 .. UintMod - 1)
    <3>1. count = 0 /\ room = 0 /\ base = 0 /\ peak = 0 /\ freed = <<>>
      BY DEF Init
    <3> QED
      BY <1>0, <3>1
  <2> QED
    BY <2>1, <2>2, <2>3 DEF TypeOK
<1>2. TypeOK /\ [Next]_vars => TypeOK'
  <2> SUFFICES ASSUME TypeOK, [Next]_vars
               PROVE  TypeOK'
    OBVIOUS
  <2>1. CASE InitStorage
    BY <1>0, <2>1 DEF InitStorage, TypeOK
  <2>2. CASE Done
    <3>1. up' \in BOOLEAN
      BY <2>2 DEF Done
    <3>2. /\ mem' \in [Node -> Contents]
          /\ held' \in [Node -> Value \cup {Unset, NotHeld}]
          /\ ptr' \in [Node -> Nat]
      BY <2>2 DEF Done, Contents, NoPointer
    <3>3. count' = 0 /\ room' = 0 /\ base' = 0 /\ peak' = 0 /\ freed' = <<>>
      BY <2>2 DEF Done
    <3> QED
      BY <1>0, <3>1, <3>2, <3>3 DEF TypeOK
  <2>3. ASSUME NEW i \in Node, Alloc(i)
        PROVE  TypeOK'
    <3>1. /\ count' \in 0 .. MaxNodes /\ room' \in Nat /\ base' \in Nat
          /\ freed' \in Seq(1 .. UintMod - 1)
      <4>0. AllocIndex(i)
        BY <2>3 DEF Alloc
      <4>1. CASE freed # <<>>
        <5>1. freed' = Front(freed) /\ UNCHANGED <<count, base, room>>
          BY <4>0, <4>1, AllocCases
        <5>2. Front(freed) \in Seq(1 .. UintMod - 1)
          BY <4>1, FrontLast DEF TypeOK
        <5> QED
          BY <5>1, <5>2 DEF TypeOK
      <4>2. CASE freed = <<>>
        <5>1. freed' = <<>> /\ Reserve
          BY <4>0, <4>2, AllocCases
        <5>2. count' \in 0 .. MaxNodes /\ room' \in Nat /\ base' \in Nat
          BY <5>1 DEF Reserve, TypeOK
        <5> QED
          BY <1>0, <5>1, <5>2
      <4> QED
        BY <4>1, <4>2
    <3>2. /\ mem' \in [Node -> Contents]
          /\ held' \in [Node -> Value \cup {Unset, NotHeld}]
          /\ ptr' \in [Node -> Nat]
      BY <2>3 DEF Alloc, Hold, TypeOK, NoPointer
    <3>3. peak' \in Nat
      BY <2>3, PeakIsNatural DEF Alloc, TypeOK
    <3>4. up' \in BOOLEAN
      BY <2>3 DEF Alloc, TypeOK
    <3> QED
      BY <3>1, <3>2, <3>3, <3>4 DEF TypeOK
  <2>4. ASSUME NEW i \in Node, Free(i)
        PROVE  TypeOK'
    <3>1. freed' \in Seq(1 .. UintMod - 1)
      BY <2>4, TagIsNext, AppendProperties DEF Free, TypeOK
    <3> QED
      BY <2>4, <3>1 DEF Free, TypeOK, Contents, NoPointer
  <2>5. ASSUME NEW i \in Node, Get(i)
        PROVE  TypeOK'
    BY <2>5 DEF Get, TypeOK
  <2>6. ASSUME NEW i \in Node, NEW v \in Value, Write(i, v)
        PROVE  TypeOK'
    BY <2>6 DEF Write, TypeOK, Contents
  <2>7. CASE UNCHANGED vars
    BY <2>7 DEF vars, TypeOK
  <2> QED
    BY <2>1, <2>2, <2>3, <2>4, <2>5, <2>6, <2>7 DEF Next
<1> QED
  BY <1>1, <1>2, PTL DEF Spec
-----------------------------------------------------------------------------
(***************************************************************************)
(* Between _mulle_indexedstorage_done and _init there is nothing.          *)
(***************************************************************************)

EmptyWhenDown ==
  ~up => /\ count = 0 /\ base = 0 /\ freed = <<>> /\ peak = 0
         /\ \A i \in Node : held[i] = NotHeld /\ ptr[i] = NoPointer

\* An indexed storage that is not up has no element, and its client nothing.
LEMMA DownIsEmpty == Spec => []EmptyWhenDown
<1>1. Init => EmptyWhenDown
  BY DEF Init, EmptyWhenDown
<1>2. TypeOK /\ EmptyWhenDown /\ [Next]_vars => EmptyWhenDown'
  <2> SUFFICES ASSUME TypeOK, EmptyWhenDown, [Next]_vars
               PROVE  EmptyWhenDown'
    OBVIOUS
  <2>1. CASE InitStorage \/ Done
    BY <2>1 DEF InitStorage, Done, EmptyWhenDown
  <2>2. ASSUME NEW i \in Node, Alloc(i) \/ Free(i) \/ Get(i)
        PROVE  EmptyWhenDown'
    BY <2>2 DEF Alloc, Free, Get, EmptyWhenDown
  <2>3. ASSUME NEW i \in Node, NEW v \in Value, Write(i, v)
        PROVE  EmptyWhenDown'
    BY <2>3 DEF Write, EmptyWhenDown
  <2>4. CASE UNCHANGED vars
    BY <2>4 DEF vars, EmptyWhenDown
  <2> QED
    BY <2>1, <2>2, <2>3, <2>4 DEF Next
<1> QED
  BY <1>1, <1>2, TypeCorrect, PTL DEF Spec

-----------------------------------------------------------------------------
(***************************************************************************)
(* The pointers the client keeps.                                          *)
(***************************************************************************)

PointersAreFresh ==
  \A i \in Node : ptr[i] # NoPointer => ptr[i] = base /\ held[i] # NotHeld

\* A pointer from _mulle_indexedstorage_get is usable, into the memory that
\* the array is in, until the array may have grown or the index is freed.
LEMMA Fresh == Spec => []PointersAreFresh
<1>1. Init => PointersAreFresh
  BY DEF Init, PointersAreFresh
<1>2. TypeOK /\ EmptyWhenDown /\ PointersAreFresh /\ [Next]_vars => PointersAreFresh'
  <2> SUFFICES ASSUME TypeOK, EmptyWhenDown, PointersAreFresh, [Next]_vars
               PROVE  PointersAreFresh'
    OBVIOUS
  <2>1. CASE InitStorage \/ Done
    BY <2>1 DEF InitStorage, Done, EmptyWhenDown, PointersAreFresh
  <2>2. ASSUME NEW i \in Node, Alloc(i)
        PROVE  PointersAreFresh'
    <3>1. CASE freed = <<>>
      BY <2>2, <3>1 DEF Alloc, PointersAreFresh
    <3>2. CASE freed # <<>>
      <4>1. AllocIndex(i)
        BY <2>2 DEF Alloc
      <4>2. UNCHANGED <<base, ptr>>
        BY <2>2, <3>2, <4>1, AllocCases DEF Alloc
      <4>3. held' = [held EXCEPT ![i] = Unset] /\ Unset # NotHeld
        BY <2>2, IndexedAssumption DEF Alloc, Hold, IndexedAssumption
      <4> QED
        BY <4>2, <4>3 DEF PointersAreFresh, TypeOK
    <3> QED
      BY <3>1, <3>2
  <2>3. ASSUME NEW i \in Node, Free(i)
        PROVE  PointersAreFresh'
    BY <2>3 DEF Free, PointersAreFresh, TypeOK
  <2>4. ASSUME NEW i \in Node, Get(i)
        PROVE  PointersAreFresh'
    BY <2>4 DEF Get, Live, PointersAreFresh, TypeOK
  <2>5. ASSUME NEW i \in Node, NEW v \in Value, Write(i, v)
        PROVE  PointersAreFresh'
    BY <2>5, IndexedAssumption DEF Write, PointersAreFresh, TypeOK, IndexedAssumption
  <2>6. CASE UNCHANGED vars
    BY <2>6 DEF vars, PointersAreFresh
  <2> QED
    BY <2>1, <2>2, <2>3, <2>4, <2>5, <2>6 DEF Next
<1> QED
  BY <1>1, <1>2, TypeCorrect, DownIsEmpty, PTL DEF Spec

\* What the client writes through a pointer it kept, it finds at the index.
THEOREM Kept == Spec => []ContentsKept
<1>1. Init => ContentsKept
  BY DEF Init, ContentsKept, Live
<1>2. /\ TypeOK /\ EmptyWhenDown /\ PointersAreFresh /\ ContentsKept /\ [Next]_vars
      => ContentsKept'
  <2> SUFFICES ASSUME TypeOK, EmptyWhenDown, PointersAreFresh, ContentsKept, [Next]_vars
               PROVE  ContentsKept'
    OBVIOUS
  <2> USE DEF TypeOK, ContentsKept, Live
  <2>1. CASE InitStorage
    BY <2>1 DEF InitStorage
  <2>2. CASE Done
    BY <2>2 DEF Done
  <2>3. ASSUME NEW i \in Node, Alloc(i)
        PROVE  ContentsKept'
    BY <2>3 DEF Alloc, Hold
  <2>4. ASSUME NEW i \in Node, Free(i)
        PROVE  ContentsKept'
    BY <2>4 DEF Free
  <2>5. ASSUME NEW i \in Node, Get(i)
        PROVE  ContentsKept'
    BY <2>5 DEF Get
  <2>6. ASSUME NEW i \in Node, NEW v \in Value, Write(i, v)
        PROVE  ContentsKept'
    BY <2>6 DEF Write, PointersAreFresh
  <2>7. CASE UNCHANGED vars
    BY <2>7 DEF vars
  <2> QED
    BY <2>1, <2>2, <2>3, <2>4, <2>5, <2>6, <2>7 DEF Next
<1> QED
  BY <1>1, <1>2, TypeCorrect, DownIsEmpty, Fresh, PTL DEF Spec

\* Only a grown array moves: a free and a reuse leave pointers usable.
THEOREM OnlyGrowthMoves == Spec => MovesOnlyToGrow
<1> DEFINE Moves == base' # base /\ base # 0 /\ base' # 0
                      => freed = <<>> /\ count = room /\ count' = count + 1
<1>1. TypeOK /\ EmptyWhenDown /\ [Next]_vars => [Moves]_vars
  <2> SUFFICES ASSUME TypeOK, EmptyWhenDown, [Next]_vars, base' # base, base # 0, base' # 0
               PROVE  freed = <<>> /\ count = room /\ count' = count + 1
    OBVIOUS
  <2>1. CASE InitStorage \/ Done
    BY <2>1 DEF InitStorage, Done, EmptyWhenDown
  <2>2. ASSUME NEW i \in Node, Alloc(i)
        PROVE  freed = <<>> /\ count = room /\ count' = count + 1
    <3>1. AllocIndex(i)
      BY <2>2 DEF Alloc
    <3>2. freed = <<>> /\ Reserve
      BY <3>1, AllocCases
    <3> QED
      BY <3>2 DEF Reserve
  <2>3. ASSUME NEW i \in Node, Free(i) \/ Get(i)
        PROVE  FALSE
    BY <2>3 DEF Free, Get
  <2>4. ASSUME NEW i \in Node, NEW v \in Value, Write(i, v)
        PROVE  FALSE
    BY <2>4 DEF Write
  <2>5. CASE UNCHANGED vars
    BY <2>5 DEF vars
  <2> QED
    BY <2>1, <2>2, <2>3, <2>4, <2>5 DEF Next
<1> QED
  BY <1>1, TypeCorrect, DownIsEmpty, PTL DEF Spec, MovesOnlyToGrow

-----------------------------------------------------------------------------
(***************************************************************************)
(* One place for every index.                                              *)
(***************************************************************************)

Waits(i) == \E k \in 1 .. Len(freed) : freed[k] = i + 1

OnePlaceExpanded ==
  /\ \A k, l \in 1 .. Len(freed) : freed[k] = freed[l] => k = l
  /\ \A i \in Node : i < count <=> held[i] # NotHeld \/ Waits(i)
  /\ \A i \in Node : Waits(i) => held[i] = NotHeld
  /\ \A k \in 1 .. Len(freed) : \E i \in Node : freed[k] = i + 1

\* OnePlaceForEveryIndex in terms of indices instead of tags.
LEMMA PlaceMeaning ==
  ASSUME TypeOK, OnePlaceExpanded
  PROVE  OnePlaceForEveryIndex
<1>1. DOMAIN freed = 1 .. Len(freed)
  BY LenProperties DEF TypeOK
<1>2. ASSUME NEW k \in 1 .. Len(freed)
      PROVE  freed[k] # Null /\ freed[k] - 1 \in Node \ Live
  <2>1. PICK i \in Node : freed[k] = i + 1
    BY DEF OnePlaceExpanded
  <2>2. held[i] = NotHeld
    BY <2>1 DEF OnePlaceExpanded, Waits
  <2>3. freed[k] # 0 /\ freed[k] - 1 = i
    BY <2>1 DEF Node
  <2> QED
    BY <2>2, <2>3 DEF Null, Live
<1>3. IsInjective(freed)
  BY <1>1 DEF IsInjective, OnePlaceExpanded
<1>4. \A i \in Node : i < count <=> i \in Live \/ \E k \in DOMAIN freed : freed[k] = i + 1
  BY <1>1 DEF Live, Waits, OnePlaceExpanded
<1> QED
  BY <1>1, <1>2, <1>3, <1>4 DEF OnePlaceForEveryIndex

\* What _mulle_indexedstorage_alloc returns: an index that nobody holds, whose
\* tag is not among those that stay in the freed array.
LEMMA AllocTakes ==
  ASSUME TypeOK, OnePlaceExpanded, NEW i \in Node, AllocIndex(i)
  PROVE  /\ held[i] = NotHeld
         /\ Len(freed') \in 0 .. Len(freed)
         /\ \A k \in 1 .. Len(freed') : freed'[k] = freed[k] /\ freed[k] # i + 1
         /\ \/ /\ freed # <<>> /\ count' = count
               /\ Len(freed') = Len(freed) - 1 /\ freed[Len(freed)] = i + 1 /\ i < count
            \/ /\ freed = <<>> /\ Len(freed) = 0 /\ freed' = <<>>
               /\ i = count /\ count' = count + 1
<1>1. Len(freed) \in Nat
  BY LenProperties DEF TypeOK
<1>2. CASE freed # <<>>
  <2>1. freed' = Front(freed) /\ Last(freed) = i + 1 /\ count' = count
    BY <1>2, AllocCases
  <2>2. /\ Len(freed) \in Nat \ {0} /\ freed[Len(freed)] = i + 1
        /\ Len(freed') = Len(freed) - 1
        /\ \A k \in 1 .. Len(freed) - 1 : freed'[k] = freed[k]
    BY <1>2, <2>1, FrontLast DEF TypeOK
  <2>3. Waits(i) /\ held[i] = NotHeld /\ i < count
    BY <2>2 DEF Waits, OnePlaceExpanded
  <2>4. \A k \in 1 .. Len(freed) - 1 : freed[k] # i + 1
    BY <2>2 DEF OnePlaceExpanded
  <2> QED
    BY <1>2, <2>1, <2>2, <2>3, <2>4
<1>3. CASE freed = <<>>
  <2>1. Len(freed) = 0 /\ freed' = <<>> /\ i = count /\ count' = count + 1
    BY <1>3, AllocCases DEF Reserve
  <2>2. ~(i < count)
    BY <2>1 DEF TypeOK
  <2>3. held[i] = NotHeld
    BY <2>2 DEF OnePlaceExpanded
  <2> QED
    BY <1>3, <2>1, <2>3
<1> QED
  BY <1>2, <1>3

\* Handing the index to the client leaves every index in one place.
LEMMA AllocPlaces ==
  ASSUME TypeOK, TypeOK', OnePlaceExpanded, NEW i \in Node, AllocIndex(i),
         held'[i] # NotHeld, \A j \in Node \ {i} : held'[j] = held[j]
  PROVE  OnePlaceExpanded'
<1>1. Len(freed) \in Nat
  BY LenProperties DEF TypeOK
<1>2. \A k \in 1 .. Len(freed') : /\ k \in 1 .. Len(freed) /\ freed'[k] = freed[k]
                                  /\ freed[k] # i + 1
  BY <1>1, AllocTakes
<1>3. \A k, l \in 1 .. Len(freed') : freed'[k] = freed'[l] => k = l
  BY <1>2 DEF OnePlaceExpanded
<1>4. \A k \in 1 .. Len(freed') : \E j \in Node : freed'[k] = j + 1
  BY <1>2 DEF OnePlaceExpanded
<1>5. ~Waits(i)'
  BY <1>2 DEF Waits
<1>6. ASSUME NEW j \in Node \ {i}
      PROVE  Waits(j)' <=> Waits(j)
  <2>1. j + 1 # i + 1
    BY DEF Node
  <2>2. CASE freed # <<>>
    <3>1. Len(freed') = Len(freed) - 1 /\ freed[Len(freed)] # j + 1
      BY <2>1, <2>2, AllocTakes
    <3>2. \A k \in 1 .. Len(freed) : freed[k] = j + 1 => k \in 1 .. Len(freed')
      BY <1>1, <3>1
    <3> QED
      BY <1>2, <3>2 DEF Waits
  <2>3. CASE freed = <<>>
    BY <2>3, AllocTakes DEF Waits
  <2> QED
    BY <2>2, <2>3
<1>7. ASSUME NEW j \in Node
      PROVE  j < count' <=> held'[j] # NotHeld \/ Waits(j)'
  <2>1. count \in Nat /\ i \in Nat /\ j \in Nat
    BY DEF TypeOK, Node
  <2>2. CASE j = i
    <3>1. i < count'
      BY <2>1, AllocTakes
    <3> QED
      BY <2>2, <3>1
  <2>3. CASE j # i
    <3>1. count' = count \/ (i = count /\ count' = count + 1)
      BY AllocTakes
    <3>2. j < count' <=> j < count
      BY <2>1, <2>3, <3>1
    <3> QED
      BY <1>6, <2>3, <3>2 DEF OnePlaceExpanded
  <2> QED
    BY <2>2, <2>3
<1>8. \A j \in Node : Waits(j)' => held'[j] = NotHeld
  BY <1>5, <1>6 DEF OnePlaceExpanded
<1> QED
  BY <1>3, <1>4, <1>7, <1>8 DEF OnePlaceExpanded

\* Taking the index back adds its tag, which is not there yet.
LEMMA FreePlaces ==
  ASSUME TypeOK, TypeOK', OnePlaceExpanded, NEW i \in Node, Free(i)
  PROVE  OnePlaceExpanded'
<1>1. /\ held[i] # NotHeld
      /\ held' = [held EXCEPT ![i] = NotHeld]
      /\ freed' = Append(freed, i + 1)
      /\ count' = count
  BY TagIsNext DEF Free, Live
<1>2. i + 1 \in 1 .. UintMod - 1
  BY TagIsNext
<1>3. /\ Len(freed) \in Nat
      /\ Len(freed') = Len(freed) + 1
      /\ \A k \in 1 .. Len(freed) : freed'[k] = freed[k]
      /\ freed'[Len(freed) + 1] = i + 1
  BY <1>1, <1>2, LenProperties, AppendProperties DEF TypeOK
<1>4. \A k \in 1 .. Len(freed) : freed[k] # i + 1
  BY <1>1 DEF OnePlaceExpanded, Waits
<1>5. \A k, l \in 1 .. Len(freed') : freed'[k] = freed'[l] => k = l
  BY <1>3, <1>4 DEF OnePlaceExpanded
<1>6. \A k \in 1 .. Len(freed') : \E j \in Node : freed'[k] = j + 1
  BY <1>3 DEF OnePlaceExpanded
<1>7. Waits(i)'
  BY <1>3 DEF Waits
<1>8. ASSUME NEW j \in Node \ {i}
      PROVE  (Waits(j)' <=> Waits(j)) /\ held'[j] = held[j]
  <2>1. j + 1 # i + 1
    BY DEF Node
  <2>2. \A k \in 1 .. Len(freed) : k \in 1 .. Len(freed')
    BY <1>3
  <2>3. \A k \in 1 .. Len(freed') : k \in 1 .. Len(freed) \/ freed'[k] = i + 1
    BY <1>3
  <2> QED
    BY <1>1, <1>3, <2>1, <2>2, <2>3 DEF Waits, TypeOK
<1>9. held'[i] = NotHeld /\ i < count'
  BY <1>1 DEF TypeOK, OnePlaceExpanded
<1> QED
  BY <1>1, <1>5, <1>6, <1>7, <1>8, <1>9 DEF OnePlaceExpanded

\* Every operation leaves every index in one place.
LEMMA InductiveOnePlace == Spec => []OnePlaceExpanded
<1>1. Init => OnePlaceExpanded
  <2> SUFFICES ASSUME Init
               PROVE  OnePlaceExpanded
    OBVIOUS
  <2>1. Len(freed) = 0 /\ \A i \in Node : held[i] = NotHeld /\ ~(i < count)
    BY DEF Init, Node
  <2> QED
    BY <2>1 DEF OnePlaceExpanded, Waits
<1>2. /\ TypeOK /\ TypeOK' /\ EmptyWhenDown /\ PointersAreFresh /\ OnePlaceExpanded
      /\ [Next]_vars
      => OnePlaceExpanded'
  <2> SUFFICES ASSUME TypeOK, TypeOK', EmptyWhenDown, PointersAreFresh, OnePlaceExpanded,
                      [Next]_vars
               PROVE  OnePlaceExpanded'
    OBVIOUS
  <2>1. CASE InitStorage \/ Done
    <3>1. Len(freed') = 0 /\ count' = 0 /\ \A i \in Node : held'[i] = NotHeld
      BY <2>1 DEF InitStorage, Done, EmptyWhenDown
    <3>2. \A i \in Node : ~(i < count')
      BY <3>1 DEF Node
    <3> QED
      BY <3>1, <3>2 DEF OnePlaceExpanded, Waits
  <2>2. ASSUME NEW i \in Node, Alloc(i)
        PROVE  OnePlaceExpanded'
    <3>1. held'[i] # NotHeld /\ \A j \in Node \ {i} : held'[j] = held[j]
      BY <2>2, IndexedAssumption DEF Alloc, Hold, TypeOK, IndexedAssumption
    <3> QED
      BY <2>2, <3>1, AllocPlaces DEF Alloc
  <2>3. ASSUME NEW i \in Node, Free(i)
        PROVE  OnePlaceExpanded'
    BY <2>3, FreePlaces
  <2>4. ASSUME UNCHANGED <<count, freed>>,
               \A i \in Node : held'[i] = NotHeld <=> held[i] = NotHeld
        PROVE  OnePlaceExpanded'
    BY <2>4 DEF OnePlaceExpanded, Waits
  <2>5. ASSUME NEW i \in Node, Get(i)
        PROVE  OnePlaceExpanded'
    BY <2>4, <2>5 DEF Get
  <2>6. ASSUME NEW i \in Node, NEW v \in Value, Write(i, v)
        PROVE  OnePlaceExpanded'
    <3>1. \A j \in Node : held'[j] = NotHeld <=> held[j] = NotHeld
      BY <2>6, IndexedAssumption DEF Write, PointersAreFresh, TypeOK, IndexedAssumption
    <3> QED
      BY <2>4, <2>6, <3>1 DEF Write
  <2>7. CASE UNCHANGED vars
    BY <2>4, <2>7 DEF vars
  <2> QED
    BY <2>1, <2>2, <2>3, <2>5, <2>6, <2>7 DEF Next
<1> QED
  BY <1>1, <1>2, TypeCorrect, DownIsEmpty, Fresh, PTL DEF Spec

\* Every index below the count is held by the client or its tag is once in the
\* freed array: _mulle_indexedstorage_alloc never returns an index in use.
THEOREM OnePlace == Spec => []OnePlaceForEveryIndex
<1>1. TypeOK /\ OnePlaceExpanded => OnePlaceForEveryIndex
  BY PlaceMeaning
<1> QED
  BY <1>1, TypeCorrect, InductiveOnePlace, PTL

-----------------------------------------------------------------------------
(***************************************************************************)
(* How many.                                                               *)
(***************************************************************************)

\* The count that _mulle_indexedstorage_get_count computes is that of the
\* indices held.
THEOREM Counted == Spec => []CountIsLive
<1>1. Init => CountIsLive
  <2> SUFFICES ASSUME Init
               PROVE  CountIsLive
    OBVIOUS
  <2>1. Len(freed) = 0 /\ count = 0 /\ Live = {}
    BY DEF Init, Live
  <2> QED
    BY <2>1, FS_EmptySet DEF CountIsLive, GetCount
<1>2. /\ TypeOK /\ TypeOK' /\ EmptyWhenDown /\ PointersAreFresh
      /\ OnePlaceExpanded /\ CountIsLive /\ [Next]_vars
      => CountIsLive'
  <2> SUFFICES ASSUME TypeOK, TypeOK', EmptyWhenDown, PointersAreFresh,
                      OnePlaceExpanded, CountIsLive, [Next]_vars
               PROVE  CountIsLive'
    OBVIOUS
  <2>0. IsFiniteSet(Live) /\ Cardinality(Live) \in Nat
    BY IndicesAreFinite DEF Live
  <2>1. /\ Len(freed) \in Nat /\ Len(freed') \in Nat
        /\ count \in Nat /\ count' \in Nat
        /\ Len(freed) <= count /\ count - Len(freed) = Cardinality(Live)
    BY LenProperties DEF TypeOK, CountIsLive, GetCount
  <2>2. CASE InitStorage \/ Done
    <3>1. count' = 0 /\ Len(freed') = 0 /\ Live' = {}
      BY <2>2 DEF InitStorage, Done, EmptyWhenDown, Live
    <3> QED
      BY <3>1, FS_EmptySet DEF CountIsLive, GetCount
  <2>3. ASSUME NEW i \in Node, Alloc(i)
        PROVE  CountIsLive'
    <3>1. AllocIndex(i) /\ held'[i] # NotHeld /\ \A j \in Node \ {i} : held'[j] = held[j]
      BY <2>3, IndexedAssumption DEF Alloc, Hold, TypeOK, IndexedAssumption
    <3>2. held[i] = NotHeld
      BY <3>1, AllocTakes
    <3>3. Live' = Live \cup {i} /\ i \notin Live
      BY <3>1, <3>2 DEF Live
    <3>4. Cardinality(Live') = Cardinality(Live) + 1
      BY <2>0, <3>3, FS_AddElement
    <3>5. \/ count' = count /\ Len(freed') = Len(freed) - 1
          \/ count' = count + 1 /\ Len(freed) = 0 /\ freed' = <<>>
      BY <3>1, AllocTakes
    <3>6. count' - Len(freed') = count - Len(freed) + 1 /\ Len(freed') <= count'
      BY <2>1, <3>5
    <3> QED
      BY <2>1, <3>4, <3>6 DEF CountIsLive, GetCount
  <2>4. ASSUME NEW i \in Node, Free(i)
        PROVE  CountIsLive'
    <3>1. i \in Live /\ Live' = Live \ {i}
      BY <2>4 DEF Free, Live, TypeOK
    <3>2. Cardinality(Live \ {i}) = Cardinality(Live) - 1 /\ Cardinality(Live \ {i}) \in Nat
      BY <2>0, <3>1, FS_RemoveElement, FS_CardinalityType
    <3>3. count' = count /\ Len(freed') = Len(freed) + 1
      BY <2>4, TagIsNext, AppendProperties DEF Free, TypeOK
    <3> QED
      BY <2>1, <3>1, <3>2, <3>3 DEF CountIsLive, GetCount
  <2>5. ASSUME UNCHANGED <<count, freed>>, Live' = Live
        PROVE  CountIsLive'
    BY <2>5 DEF CountIsLive, GetCount
  <2>6. ASSUME NEW i \in Node, Get(i)
        PROVE  CountIsLive'
    BY <2>5, <2>6 DEF Get, Live
  <2>7. ASSUME NEW i \in Node, NEW v \in Value, Write(i, v)
        PROVE  CountIsLive'
    <3>1. Live' = Live
      BY <2>7, IndexedAssumption
         DEF Write, PointersAreFresh, Live, TypeOK, IndexedAssumption
    <3> QED
      BY <2>5, <2>7, <3>1 DEF Write
  <2>8. CASE UNCHANGED vars
    BY <2>5, <2>8 DEF vars, Live
  <2> QED
    BY <2>2, <2>3, <2>4, <2>6, <2>7, <2>8 DEF Next
<1> QED
  BY <1>1, <1>2, TypeCorrect, DownIsEmpty, Fresh, InductiveOnePlace, PTL DEF Spec

\* The array is as long as the most indices the client ever held at once.
THEOREM GrowsToPeak == Spec => []HighWater
<1>1. Init => HighWater
  BY DEF Init, HighWater
<1>2. /\ TypeOK /\ TypeOK' /\ EmptyWhenDown /\ OnePlaceExpanded
      /\ CountIsLive /\ CountIsLive' /\ HighWater /\ [Next]_vars
      => HighWater'
  <2> SUFFICES ASSUME TypeOK, TypeOK', EmptyWhenDown, OnePlaceExpanded,
                      CountIsLive, CountIsLive', HighWater, [Next]_vars
               PROVE  HighWater'
    OBVIOUS
  <2>1. CASE InitStorage \/ Done
    BY <2>1 DEF InitStorage, Done, EmptyWhenDown, HighWater
  <2>2. ASSUME NEW i \in Node, Alloc(i)
        PROVE  HighWater'
    <3>1. /\ count \in Nat /\ peak = count /\ count' \in Nat
          /\ Len(freed) \in Nat /\ Len(freed') \in Nat
          /\ Cardinality(Live') = count' - Len(freed')
      BY LenProperties DEF TypeOK, HighWater, CountIsLive, GetCount
    <3>2. AllocIndex(i)
          /\ peak' = IF Cardinality(Live') > peak THEN Cardinality(Live') ELSE peak
      BY <2>2 DEF Alloc, Hold
    <3>3. \/ count' = count
          \/ count' = count + 1 /\ Len(freed') = 0
      <4>1. \/ count' = count
            \/ count' = count + 1 /\ Len(freed) = 0 /\ freed' = <<>>
        BY <3>2, AllocTakes
      <4> QED
        BY <4>1
    <3> QED
      BY <3>1, <3>2, <3>3 DEF HighWater
  <2>3. ASSUME NEW i \in Node, Free(i) \/ Get(i)
        PROVE  HighWater'
    BY <2>3 DEF Free, Get, HighWater
  <2>4. ASSUME NEW i \in Node, NEW v \in Value, Write(i, v)
        PROVE  HighWater'
    BY <2>4 DEF Write, HighWater
  <2>5. CASE UNCHANGED vars
    BY <2>5 DEF vars, HighWater
  <2> QED
    BY <2>1, <2>2, <2>3, <2>4, <2>5 DEF Next
<1> QED
  BY <1>1, <1>2, TypeCorrect, DownIsEmpty, InductiveOnePlace, Counted, PTL DEF Spec

-----------------------------------------------------------------------------
(***************************************************************************)
(* Refinement.                                                             *)
(***************************************************************************)

\* _mulle_indexedstorage_alloc hands out an index of the pool, unless all are
\* in use.
LEMMA AllocFromPool ==
  ASSUME TypeOK, TypeOK', OnePlaceExpanded, NEW i \in Node, AllocIndex(i)
  PROVE  /\ i \in 0 .. count - 1 \/ \A m \in 0 .. count - 1 : held[m] # NotHeld
         /\ 0 .. count' - 1 = (0 .. count - 1) \cup {i}
<1>1. count \in Nat /\ count <= MaxNodes /\ MaxNodes \in Nat /\ i \in Nat
  BY IndexedAssumption DEF TypeOK, IndexedAssumption, Node
<1>2. CASE freed # <<>>
  <2>1. count' = count /\ i < count
    BY <1>2, AllocTakes
  <2> QED
    BY <1>1, <2>1
<1>3. CASE freed = <<>>
  <2>1. Len(freed) = 0 /\ i = count /\ count' = count + 1
    BY <1>3, AllocTakes
  <2>2. \A m \in 0 .. count - 1 : m \in Node /\ m < count
    BY <1>1 DEF Node
  <2>3. \A m \in 0 .. count - 1 : held[m] # NotHeld
    BY <2>1, <2>2 DEF OnePlaceExpanded, Waits
  <2>4. 0 .. count' - 1 = (0 .. count - 1) \cup {i}
    BY <1>1, <2>1
  <2> QED
    BY <2>3, <2>4
<1> QED
  BY <1>2, <1>3

\* mulle_indexedstorage implements the node pool, with an array that moves
\* under the client's pointers.
THEOREM Refines == Spec => ImplementsNodePool
<1> USE IndexedAssumption DEF IndexedAssumption
<1>1. Init => Pool!PoolInit
  <2> SUFFICES ASSUME Init
               PROVE  Pool!PoolInit
    OBVIOUS
  <2>1. 0 .. count - 1 = {}
    BY DEF Init
  <2>2. Reads = [i \in Node |-> NotHeld]
    BY DEF Init, Reads
  <2> QED
    BY <2>1, <2>2 DEF Pool!PoolInit
<1>2. /\ TypeOK /\ TypeOK' /\ EmptyWhenDown /\ PointersAreFresh /\ OnePlaceExpanded
      /\ ContentsKept /\ [Next]_vars
      => [Pool!PoolNext]_(Pool!poolVars)
  <2> SUFFICES ASSUME TypeOK, TypeOK', EmptyWhenDown, PointersAreFresh, OnePlaceExpanded,
                      ContentsKept, [Next]_vars
               PROVE  Pool!PoolNext \/ UNCHANGED Pool!poolVars
    BY DEF Pool!poolVars
  <2>0. \A i \in Node : Reads[i] = NotHeld <=> held[i] = NotHeld
    BY DEF TypeOK, ContentsKept, Live, Reads
  <2>1. CASE InitStorage
    <3>1. UNCHANGED <<count, Reads>>
      BY <2>1 DEF InitStorage, EmptyWhenDown, Reads
    <3> QED
      BY <3>1 DEF Pool!poolVars
  <2>2. CASE Done
    <3>1. 0 .. count' - 1 = {}
      BY <2>2 DEF Done
    <3>2. Reads' = [i \in Node |-> NotHeld]
      BY <2>2 DEF Done, Reads
    <3> QED
      BY <3>1, <3>2 DEF Pool!Drain, Pool!PoolNext
  <2>3. ASSUME NEW i \in Node, Alloc(i)
        PROVE  Pool!PoolNext
    <3>1. AllocIndex(i)
      BY <2>3 DEF Alloc
    <3>2. Reads' = [Reads EXCEPT ![i] = Unset]
      BY <2>3 DEF Alloc, Hold, Reads, TypeOK
    <3>3. Reads[i] = NotHeld
      BY <2>0, <3>1, AllocTakes
    <3>4. \A m \in 0 .. count - 1 : m \in Node
      BY DEF TypeOK, Node
    <3>5. Pool!HandOut(i, Unset)
      BY <2>0, <3>1, <3>2, <3>3, <3>4, AllocFromPool DEF Pool!HandOut
    <3>6. Unset \in Pool!Contents
      BY DEF Pool!Contents
    <3> QED
      BY <3>5, <3>6 DEF Pool!PoolNext
  <2>4. ASSUME NEW i \in Node, Free(i)
        PROVE  Pool!PoolNext
    <3>1. Reads[i] # NotHeld
      BY <2>0, <2>4 DEF Free, Live
    <3>2. Reads' = [Reads EXCEPT ![i] = NotHeld]
      BY <2>4 DEF Free, Reads, TypeOK
    <3>3. Pool!TakeBack(i)
      BY <2>4, <3>1, <3>2 DEF Pool!TakeBack, Free
    <3> QED
      BY <3>3 DEF Pool!PoolNext
  <2>5. ASSUME NEW i \in Node, Get(i)
        PROVE  UNCHANGED Pool!poolVars
    <3>1. UNCHANGED <<count, Reads>>
      BY <2>5 DEF Get, Reads
    <3> QED
      BY <3>1 DEF Pool!poolVars
  <2>6. ASSUME NEW i \in Node, NEW v \in Value, Write(i, v)
        PROVE  Pool!PoolNext
    <3>1. ptr[i] = base /\ held[i] # NotHeld
      BY <2>6 DEF Write, PointersAreFresh
    <3>2. Reads' = [Reads EXCEPT ![i] = v]
      BY <2>6, <3>1 DEF Write, Reads, TypeOK
    <3>3. Pool!Overwrite(i, v)
      BY <2>0, <2>6, <3>1, <3>2 DEF Pool!Overwrite, Write
    <3> QED
      BY <3>3 DEF Pool!PoolNext
  <2>7. CASE UNCHANGED vars
    <3>1. UNCHANGED <<count, Reads>>
      BY <2>7 DEF vars, Reads
    <3> QED
      BY <3>1 DEF Pool!poolVars
  <2> QED
    BY <2>1, <2>2, <2>3, <2>4, <2>5, <2>6, <2>7 DEF Next
<1> QED
  BY <1>1, <1>2, TypeCorrect, DownIsEmpty, Fresh, InductiveOnePlace, Kept, PTL
     DEF Spec, ImplementsNodePool, Pool!PoolSpec
=============================================================================
