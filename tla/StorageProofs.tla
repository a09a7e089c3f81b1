---------------------------- MODULE StorageProofs ----------------------------
(***************************************************************************)
(* What holds of mulle_storage for every bound, bucket size, build and set *)
(* of values: the invariants of module Storage, and that it implements the *)
(* abstract node pool.  The inductive invariant is that every reserved     *)
(* node is in one place; the contents, the poison and the refinement rest  *)
(* on it.                                                                  *)
(***************************************************************************)
EXTENDS Storage, SequenceEnds, FiniteSetTheorems, SequenceTheorems, TLAPS

\* There are finitely many nodes.
LEMMA NodesAreFinite ==
  ASSUME NEW S \in SUBSET Node
  PROVE  IsFiniteSet(S) /\ Cardinality(S) \in Nat
<1>1. IsFiniteSet(Node)
  BY StorageAssumption, FS_Interval DEF StorageAssumption, Node
<1> QED
  BY <1>1, FS_Subset, FS_CardinalityType

\* The client knows how many nodes it held at most.
LEMMA PeakIsCounted ==
  ASSUME peak \in Nat, NEW p, NEW c, Hold(p, c)
  PROVE  peak' \in Nat
<1>1. Live' \in SUBSET Node
  BY DEF Live
<1>2. Cardinality(Live') \in Nat
  BY <1>1, NodesAreFinite
<1> QED
  BY <1>2 DEF Hold

-----------------------------------------------------------------------------

\* The variables keep their types.
THEOREM TypeCorrect == Spec => []TypeOK
<1> USE StorageAssumption DEF StorageAssumption
<1>0. <<>> \in Seq(Node)
  BY EmptySeq
<1>1. Init => TypeOK
  <2> SUFFICES ASSUME Init
               PROVE  TypeOK
    OBVIOUS
  <2>1. up \in BOOLEAN
    BY DEF Init
  <2>2. /\ mem \in [Node -> Contents]
        /\ held \in [Node -> Value \cup {Zero, Unset, NotHeld}]
    BY DEF Init, Contents
  <2>3. structs \in 0 .. MaxNodes /\ buckets \in Nat /\ peak \in Nat /\ freed \in Seq(Node)
    <3>1. structs = 0 /\ buckets = 0 /\ peak = 0 /\ freed = <<>>
      BY DEF Init
    <3> QED
      BY <1>0, <3>1
  <2> QED
    BY <2>1, <2>2, <2>3 DEF TypeOK
<1>2. TypeOK /\ [Next]_vars => TypeOK'
  <2> SUFFICES ASSUME TypeOK, [Next]_vars
               PROVE  TypeOK'
    OBVIOUS
  <2> USE DEF TypeOK, Contents
  <2>1. CASE InitStorage
    BY <1>0, <2>1 DEF InitStorage
  <2>2. CASE Done
    <3>1. up' \in BOOLEAN
      BY <2>2 DEF Done
    <3>2. /\ mem' \in [Node -> Contents]
          /\ held' \in [Node -> Value \cup {Zero, Unset, NotHeld}]
      BY <2>2 DEF Done
    <3>3. structs' = 0 /\ buckets' = 0 /\ peak' = 0 /\ freed' = <<>>
      BY <2>2 DEF Done
    <3> QED
      BY <1>0, <3>1, <3>2, <3>3
  <2>3. ASSUME NEW p \in Node, MallocNode(p)
        PROVE  /\ structs' \in 0 .. MaxNodes
               /\ buckets' \in Nat
               /\ freed' \in Seq(Node)
    <3>1. CASE freed # <<>>
      BY <2>3, <3>1, FrontLast DEF MallocNode, Pop
    <3>2. CASE freed = <<>>
      BY <2>3, <3>2 DEF MallocNode, Reserve
    <3> QED
      BY <3>1, <3>2
  <2>4. ASSUME NEW p \in Node, Malloc(p)
        PROVE  TypeOK'
    BY <2>3, <2>4, PeakIsCounted DEF Malloc, Hold
  <2>5. ASSUME NEW p \in Node, Calloc(p)
        PROVE  TypeOK'
    BY <2>3, <2>5, PeakIsCounted DEF Calloc, Hold
  <2>6. ASSUME NEW p \in Node, NEW v \in Value, CopyForeign(p, v)
        PROVE  TypeOK'
    BY <2>3, <2>6, PeakIsCounted DEF CopyForeign, Hold
  <2>7. ASSUME NEW p \in Node, NEW q \in Node, CopyNode(p, q)
        PROVE  TypeOK'
    BY <2>3, <2>7, PeakIsCounted DEF CopyNode, Hold
  <2>8. ASSUME NEW p \in Node, Free(p)
        PROVE  TypeOK'
    BY <2>8 DEF Free
  <2>9. ASSUME NEW p \in Node, NEW v \in Value, Write(p, v)
        PROVE  TypeOK'
    BY <2>9 DEF Write
  <2>10. CASE UNCHANGED vars
    BY <2>10 DEF vars
  <2> QED
    BY <2>1, <2>2, <2>4, <2>5, <2>6, <2>7, <2>8, <2>9, <2>10 DEF Next
<1> QED
  BY <1>1, <1>2, PTL DEF Spec

-----------------------------------------------------------------------------
(***************************************************************************)
(* Between _mulle_storage_done and _mulle_storage_init there is nothing.   *)
(***************************************************************************)

EmptyWhenDown ==
  ~up => /\ structs = 0 /\ buckets = 0 /\ freed = <<>> /\ peak = 0
         /\ \A n \in Node : held[n] = NotHeld

\* A storage that is not up holds no node and no memory.
LEMMA DownIsEmpty == Spec => []EmptyWhenDown
<1>1. Init => EmptyWhenDown
  BY DEF Init, EmptyWhenDown
<1>2. TypeOK /\ EmptyWhenDown /\ [Next]_vars => EmptyWhenDown'
  BY DEF EmptyWhenDown, Next, vars, InitStorage, Done, Malloc, Calloc, CopyForeign, CopyNode,
         MallocNode, Free, Write, Live
<1> QED
  BY <1>1, <1>2, TypeCorrect, PTL DEF Spec

-----------------------------------------------------------------------------
(***************************************************************************)
(* One place for every node.                                               *)
(***************************************************************************)

Placed(n) == held[n] # NotHeld \/ \E i \in 1 .. Len(freed) : freed[i] = n

\* OnePlaceForEveryNode in terms of the length of the freed array.
LEMMA PlaceMeaning ==
  ASSUME TypeOK
  PROVE  OnePlaceForEveryNode <=>
           /\ \A i, j \in 1 .. Len(freed) : freed[i] = freed[j] => i = j
           /\ \A i \in 1 .. Len(freed) : held[freed[i]] = NotHeld
           /\ \A n \in Node : n < structs <=> Placed(n)
<1>1. DOMAIN freed = 1 .. Len(freed)
  BY LenProperties DEF TypeOK
<1> QED
  BY <1>1 DEF OnePlaceForEveryNode, NoNodeFreedTwice, FreedAreNotHeld,
              ReservedAreHeldOrFreed, IsInjective, Placed

\* What _mulle_storage_malloc returns: a node that nobody holds, which is not
\* among those that stay in the freed array.
LEMMA MallocTakes ==
  ASSUME TypeOK, OnePlaceForEveryNode, NEW p \in Node, MallocNode(p)
  PROVE  /\ held[p] = NotHeld
         /\ Len(freed') \in 0 .. Len(freed)
         /\ \A i \in 1 .. Len(freed') : freed'[i] = freed[i] /\ freed[i] # p
         /\ \/ /\ freed # <<>> /\ structs' = structs
               /\ Len(freed') = Len(freed) - 1 /\ p = freed[Len(freed)]
            \/ /\ freed = <<>> /\ Len(freed) = 0 /\ freed' = <<>>
               /\ p = structs /\ structs' = structs + 1
<1>1. Len(freed) \in Nat
  BY LenProperties DEF TypeOK
<1>2. CASE freed # <<>>
  <2>1. /\ p = freed[Len(freed)] /\ Len(freed) \in Nat \ {0}
        /\ Len(freed') = Len(freed) - 1
        /\ \A i \in 1 .. Len(freed) - 1 : freed'[i] = freed[i]
        /\ structs' = structs
    BY <1>2, FrontLast DEF MallocNode, Pop, TypeOK
  <2> QED
    BY <1>2, <2>1, PlaceMeaning
<1>3. CASE freed = <<>>
  <2>1. Len(freed) = 0 /\ freed' = <<>> /\ p = structs /\ structs' = structs + 1
    BY <1>3 DEF MallocNode, Reserve
  <2>2. held[p] = NotHeld
    BY <2>1, PlaceMeaning DEF Placed, TypeOK
  <2> QED
    BY <1>3, <2>1, <2>2
<1> QED
  BY <1>2, <1>3

\* Handing the node to the client leaves every node in one place.
LEMMA MallocPlaces ==
  ASSUME TypeOK, TypeOK', OnePlaceForEveryNode, NEW p \in Node, MallocNode(p),
         held'[p] # NotHeld, \A n \in Node \ {p} : held'[n] = held[n]
  PROVE  OnePlaceForEveryNode'
<1> USE DEF TypeOK, Placed
<1>1. Len(freed) \in Nat
  BY LenProperties
<1>2. \A i \in 1 .. Len(freed') : /\ i \in 1 .. Len(freed) /\ freed'[i] = freed[i]
                                  /\ freed[i] # p /\ freed[i] \in Node
  BY <1>1, MallocTakes, ElementOfSeq
<1>3. \A i, j \in 1 .. Len(freed') : freed'[i] = freed'[j] => i = j
  BY <1>2, PlaceMeaning
<1>4. \A i \in 1 .. Len(freed') : held'[freed'[i]] = NotHeld
  BY <1>2, PlaceMeaning
<1>5. ASSUME NEW n \in Node
      PROVE  n < structs' <=> Placed(n)'
  <2>1. CASE n = p
    <3>1. p < structs'
      <4>1. CASE freed # <<>>
        BY <1>1, <4>1, MallocTakes, PlaceMeaning
      <4>2. CASE freed = <<>>
        BY <4>2, MallocTakes
      <4> QED
        BY <4>1, <4>2
    <3> QED
      BY <2>1, <3>1
  <2>2. CASE n # p
    <3>1. n < structs' <=> n < structs
      <4>1. structs' = structs \/ (p = structs /\ structs' = structs + 1)
        BY MallocTakes
      <4>2. structs \in Nat /\ n \in Nat
        BY DEF Node
      <4> HIDE DEF TypeOK
      <4> QED
        BY <2>2, <4>1, <4>2
    <3>2. (\E i \in 1 .. Len(freed') : freed'[i] = n) <=> (\E i \in 1 .. Len(freed) : freed[i] = n)
      <4>1. CASE freed # <<>>
        <5>1. Len(freed') = Len(freed) - 1 /\ freed[Len(freed)] # n
          BY <2>2, <4>1, MallocTakes
        <5>2. \A i \in 1 .. Len(freed) : freed[i] = n => i \in 1 .. Len(freed')
          BY <1>1, <5>1
        <5> QED
          BY <1>2, <5>2
      <4>2. CASE freed = <<>>
        BY <4>2, MallocTakes
      <4> QED
        BY <4>1, <4>2
    <3> QED
      BY <2>2, <3>1, <3>2, PlaceMeaning
  <2> QED
    BY <2>1, <2>2
<1>6. DOMAIN freed' = 1 .. Len(freed')
  BY LenProperties
<1> QED
  BY <1>3, <1>4, <1>5, <1>6 DEF OnePlaceForEveryNode, NoNodeFreedTwice, FreedAreNotHeld,
                                ReservedAreHeldOrFreed, IsInjective

\* Every reserved node is held by the client or is once in the freed array:
\* _mulle_storage_malloc never hands out a node that is in use.
THEOREM OnePlace == Spec => []OnePlaceForEveryNode
<1> USE StorageAssumption DEF StorageAssumption
<1>1. Init => OnePlaceForEveryNode
  BY DEF Init, Node, OnePlaceForEveryNode, NoNodeFreedTwice, FreedAreNotHeld,
         ReservedAreHeldOrFreed, IsInjective
<1>2. TypeOK /\ TypeOK' /\ EmptyWhenDown /\ OnePlaceForEveryNode /\ [Next]_vars
        => OnePlaceForEveryNode'
  <2> SUFFICES ASSUME TypeOK, TypeOK', EmptyWhenDown, OnePlaceForEveryNode, [Next]_vars
               PROVE  OnePlaceForEveryNode'
    OBVIOUS
  <2>1. CASE InitStorage
    BY <2>1 DEF InitStorage, EmptyWhenDown, Node, OnePlaceForEveryNode, NoNodeFreedTwice, FreedAreNotHeld,
                ReservedAreHeldOrFreed, IsInjective
  <2>2. CASE Done
    BY <2>2 DEF Done, Node, OnePlaceForEveryNode, NoNodeFreedTwice, FreedAreNotHeld,
                ReservedAreHeldOrFreed, IsInjective
  <2>3. ASSUME NEW p \in Node, Malloc(p)
        PROVE  OnePlaceForEveryNode'
    <3>1. held'[p] # NotHeld /\ \A n \in Node \ {p} : held'[n] = held[n]
      BY <2>3 DEF Malloc, Hold, TypeOK
    <3> QED
      BY <2>3, <3>1, MallocPlaces DEF Malloc
  <2>4. ASSUME NEW p \in Node, Calloc(p)
        PROVE  OnePlaceForEveryNode'
    <3>1. held'[p] # NotHeld /\ \A n \in Node \ {p} : held'[n] = held[n]
      BY <2>4 DEF Calloc, Hold, TypeOK
    <3> QED
      BY <2>4, <3>1, MallocPlaces DEF Calloc
  <2>5. ASSUME NEW p \in Node, NEW v \in Value, CopyForeign(p, v)
        PROVE  OnePlaceForEveryNode'
    <3>1. held'[p] # NotHeld /\ \A n \in Node \ {p} : held'[n] = held[n]
      BY <2>5 DEF CopyForeign, Hold, TypeOK
    <3> QED
      BY <2>5, <3>1, MallocPlaces DEF CopyForeign
  <2>6. ASSUME NEW p \in Node, NEW q \in Node, CopyNode(p, q)
        PROVE  OnePlaceForEveryNode'
    <3>1. held'[p] # NotHeld /\ \A n \in Node \ {p} : held'[n] = held[n]
      BY <2>6 DEF CopyNode, Hold, TypeOK, Live
    <3> QED
      BY <2>6, <3>1, MallocPlaces DEF CopyNode
  <2>7. ASSUME NEW p \in Node, Free(p)
        PROVE  OnePlaceForEveryNode'
    <3> USE DEF TypeOK, Placed
    <3>1. /\ held[p] # NotHeld
          /\ held' = [held EXCEPT ![p] = NotHeld]
          /\ freed' = Append(freed, p)
          /\ structs' = structs
      BY <2>7 DEF Free, Live
    <3>2. /\ Len(freed) \in Nat
          /\ Len(freed') = Len(freed) + 1
          /\ \A i \in 1 .. Len(freed) : freed'[i] = freed[i] /\ freed[i] \in Node
          /\ freed'[Len(freed) + 1] = p
      BY <3>1, LenProperties, AppendProperties, ElementOfSeq
    <3>3. \A i \in 1 .. Len(freed) : freed[i] # p /\ held[freed[i]] = NotHeld
      BY <3>1, PlaceMeaning
    <3>4. \A i, j \in 1 .. Len(freed') : freed'[i] = freed'[j] => i = j
      BY SMTT(20), <3>2, <3>3, PlaceMeaning
    <3>5. \A i \in 1 .. Len(freed') : held'[freed'[i]] = NotHeld
      BY <3>1, <3>2, <3>3
    <3>6. ASSUME NEW n \in Node
          PROVE  n < structs' <=> held'[n] # NotHeld \/ \E i \in 1 .. Len(freed') : freed'[i] = n
      <4>1. CASE n = p
        BY <3>1, <3>2, <4>1, PlaceMeaning
      <4>2. CASE n # p
        <5>1. (\E i \in 1 .. Len(freed') : freed'[i] = n) <=> \E i \in 1 .. Len(freed) : freed[i] = n
          <6>1. \A i \in 1 .. Len(freed) : i \in 1 .. Len(freed')
            BY <3>2
          <6>2. \A i \in 1 .. Len(freed') : i \in 1 .. Len(freed) \/ freed'[i] = p
            BY <3>2
          <6> QED
            BY <3>2, <4>2, <6>1, <6>2
        <5>2. structs' = structs /\ held'[n] = held[n]
          BY <3>1, <4>2
        <5>3. n < structs <=> held[n] # NotHeld \/ \E i \in 1 .. Len(freed) : freed[i] = n
          BY PlaceMeaning
        <5> QED
          BY <5>1, <5>2, <5>3
      <4> QED
        BY <4>1, <4>2
    <3>7. DOMAIN freed' = 1 .. Len(freed')
      BY LenProperties
    <3> QED
      BY <3>4, <3>5, <3>6, <3>7 DEF OnePlaceForEveryNode, NoNodeFreedTwice, FreedAreNotHeld,
                                    ReservedAreHeldOrFreed, IsInjective
  <2>8. ASSUME NEW p \in Node, NEW v \in Value, Write(p, v)
        PROVE  OnePlaceForEveryNode'
    <3>1. /\ freed' = freed /\ structs' = structs
          /\ \A n \in Node : held'[n] = NotHeld <=> held[n] = NotHeld
      BY <2>8 DEF Write, Live, TypeOK
    <3>2. \A i \in DOMAIN freed : freed[i] \in Node
      BY ElementOfSeq, LenProperties DEF TypeOK
    <3> QED
      BY <3>1, <3>2 DEF OnePlaceForEveryNode, NoNodeFreedTwice, FreedAreNotHeld,
                        ReservedAreHeldOrFreed, IsInjective
  <2>9. CASE UNCHANGED vars
    BY <2>9 DEF vars, OnePlaceForEveryNode, NoNodeFreedTwice, FreedAreNotHeld,
                ReservedAreHeldOrFreed, IsInjective
  <2> QED
    BY <2>1, <2>2, <2>3, <2>4, <2>5, <2>6, <2>7, <2>8, <2>9 DEF Next
<1> QED
  BY <1>1, <1>2, TypeCorrect, DownIsEmpty, PTL DEF Spec

-----------------------------------------------------------------------------
(***************************************************************************)
(* What follows for the client.                                            *)
(***************************************************************************)

\* A node keeps its contents for as long as the client holds it.
THEOREM Kept == Spec => []ContentsKept
<1> USE StorageAssumption DEF StorageAssumption
<1>1. Init => ContentsKept
  BY DEF Init, ContentsKept, Live
<1>2. TypeOK /\ EmptyWhenDown /\ ContentsKept /\ [Next]_vars => ContentsKept'
  <2> SUFFICES ASSUME TypeOK, EmptyWhenDown, ContentsKept, [Next]_vars
               PROVE  ContentsKept'
    OBVIOUS
  <2> USE DEF TypeOK, ContentsKept, Live
  <2>1. CASE InitStorage
    BY <2>1 DEF InitStorage
  <2>2. CASE Done
    BY <2>2 DEF Done
  <2>3. ASSUME NEW p \in Node, Malloc(p)
        PROVE  ContentsKept'
    BY <2>3 DEF Malloc, Hold
  <2>4. ASSUME NEW p \in Node, Calloc(p)
        PROVE  ContentsKept'
    BY <2>4 DEF Calloc, Hold
  <2>5. ASSUME NEW p \in Node, NEW v \in Value, CopyForeign(p, v)
        PROVE  ContentsKept'
    BY <2>5 DEF CopyForeign, Hold
  <2>6. ASSUME NEW p \in Node, NEW q \in Node, CopyNode(p, q)
        PROVE  ContentsKept'
    BY <2>6 DEF CopyNode, Hold
  <2>7. ASSUME NEW p \in Node, Free(p)
        PROVE  ContentsKept'
    BY <2>7 DEF Free
  <2>8. ASSUME NEW p \in Node, NEW v \in Value, Write(p, v)
        PROVE  ContentsKept'
    BY <2>8 DEF Write
  <2>9. CASE UNCHANGED vars
    BY <2>9 DEF vars
  <2> QED
    BY <2>1, <2>2, <2>3, <2>4, <2>5, <2>6, <2>7, <2>8, <2>9 DEF Next
<1> QED
  BY <1>1, <1>2, TypeCorrect, DownIsEmpty, PTL DEF Spec

\* A DEBUG build finds its poison in every freed node.
THEOREM Poisoned == Spec => []FreedStayPoisoned
<1> USE StorageAssumption DEF StorageAssumption
<1>1. Init => FreedStayPoisoned
  BY DEF Init, FreedStayPoisoned
<1>2. /\ TypeOK /\ TypeOK' /\ EmptyWhenDown
      /\ OnePlaceForEveryNode /\ FreedStayPoisoned /\ [Next]_vars
      => FreedStayPoisoned'
  <2> SUFFICES ASSUME TypeOK, TypeOK', EmptyWhenDown, OnePlaceForEveryNode,
                      FreedStayPoisoned, [Next]_vars, Debug
               PROVE  \A i \in 1 .. Len(freed') : mem'[freed'[i]] = Poison
    BY LenProperties DEF FreedStayPoisoned, TypeOK
  <2>1. \A i \in 1 .. Len(freed) : /\ freed[i] \in Node /\ held[freed[i]] = NotHeld
                                  /\ mem[freed[i]] = Poison
    BY LenProperties, ElementOfSeq, PlaceMeaning DEF FreedStayPoisoned, TypeOK
  <2>2. ASSUME NEW p \in Node, MallocNode(p),
               \A n \in Node \ {p} : mem'[n] = mem[n]
        PROVE  \A i \in 1 .. Len(freed') : mem'[freed'[i]] = Poison
    <3>1. Len(freed) \in Nat
      BY LenProperties DEF TypeOK
    <3> QED
      BY <2>1, <2>2, <3>1, MallocTakes
  <2>3. CASE InitStorage \/ Done
    <3>1. Len(freed') = 0
      BY <2>3 DEF InitStorage, Done
    <3> QED
      BY <3>1
  <2>4. ASSUME NEW p \in Node, Malloc(p)
        PROVE  \A i \in 1 .. Len(freed') : mem'[freed'[i]] = Poison
    BY <2>2, <2>4 DEF Malloc
  <2>5. ASSUME NEW p \in Node, Calloc(p)
        PROVE  \A i \in 1 .. Len(freed') : mem'[freed'[i]] = Poison
    BY <2>2, <2>5 DEF Calloc, Hold, TypeOK
  <2>6. ASSUME NEW p \in Node, NEW v \in Value, CopyForeign(p, v)
        PROVE  \A i \in 1 .. Len(freed') : mem'[freed'[i]] = Poison
    BY <2>2, <2>6 DEF CopyForeign, Hold, TypeOK
  <2>7. ASSUME NEW p \in Node, NEW q \in Node, CopyNode(p, q)
        PROVE  \A i \in 1 .. Len(freed') : mem'[freed'[i]] = Poison
    BY <2>2, <2>7 DEF CopyNode, Hold, TypeOK
  <2>8. ASSUME NEW p \in Node, Free(p)
        PROVE  \A i \in 1 .. Len(freed') : mem'[freed'[i]] = Poison
    <3>1. freed' = Append(freed, p) /\ mem' = [mem EXCEPT ![p] = Poison]
      BY <2>8 DEF Free
    <3>2. /\ Len(freed) \in Nat /\ Len(freed') = Len(freed) + 1
          /\ \A i \in 1 .. Len(freed) : freed'[i] = freed[i]
          /\ freed'[Len(freed) + 1] = p
      BY <3>1, LenProperties, AppendProperties DEF TypeOK
    <3> QED
      BY <2>1, <3>1, <3>2 DEF TypeOK
  <2>9. ASSUME NEW p \in Node, NEW v \in Value, Write(p, v)
        PROVE  \A i \in 1 .. Len(freed') : mem'[freed'[i]] = Poison
    BY <2>1, <2>9 DEF Write, Live, TypeOK
  <2>10. CASE UNCHANGED vars
    BY <2>1, <2>10 DEF vars
  <2> QED
    BY <2>3, <2>4, <2>5, <2>6, <2>7, <2>8, <2>9, <2>10 DEF Next
<1> QED
  BY <1>1, <1>2, TypeCorrect, DownIsEmpty, OnePlace, PTL DEF Spec

\* The count that _mulle_storage_get_count computes is that of the nodes held.
THEOREM Counted == Spec => []CountIsLive
<1>1. Init => CountIsLive
  <2> SUFFICES ASSUME Init
               PROVE  CountIsLive
    OBVIOUS
  <2>1. Len(freed) = 0 /\ structs = 0 /\ Live = {}
    BY DEF Init, Live
  <2> QED
    BY <2>1, FS_EmptySet DEF CountIsLive, GetCount
<1>2. /\ TypeOK /\ TypeOK' /\ EmptyWhenDown /\ EmptyWhenDown'
      /\ OnePlaceForEveryNode /\ CountIsLive /\ [Next]_vars
      => CountIsLive'
  <2> SUFFICES ASSUME TypeOK, TypeOK', EmptyWhenDown, EmptyWhenDown',
                      OnePlaceForEveryNode, CountIsLive, [Next]_vars
               PROVE  CountIsLive'
    OBVIOUS
  <2>0. IsFiniteSet(Live) /\ Cardinality(Live) \in Nat
    BY NodesAreFinite DEF Live
  <2>1. /\ Len(freed) \in Nat /\ Len(freed') \in Nat
        /\ structs \in Nat /\ structs' \in Nat
        /\ Len(freed) <= structs /\ structs - Len(freed) = Cardinality(Live)
    BY StorageAssumption, LenProperties DEF TypeOK, StorageAssumption, CountIsLive, GetCount
  <2>2. ASSUME NEW p \in Node, MallocNode(p), held'[p] # NotHeld,
               \A n \in Node \ {p} : held'[n] = held[n]
        PROVE  CountIsLive'
    <3>1. held[p] = NotHeld
      BY <2>2, MallocTakes
    <3>2. Live' = Live \cup {p} /\ p \notin Live
      BY <2>2, <3>1 DEF Live
    <3>3. Cardinality(Live') = Cardinality(Live) + 1
      BY <2>0, <3>2, FS_AddElement
    <3>4. structs' - Len(freed') = structs - Len(freed) + 1 /\ Len(freed') <= structs'
      BY <2>1, <2>2, MallocTakes
    <3> QED
      BY <2>1, <3>3, <3>4 DEF CountIsLive, GetCount
  <2>3. ASSUME UNCHANGED <<structs, freed>>, Live' = Live
        PROVE  CountIsLive'
    BY <2>3 DEF CountIsLive, GetCount
  <2>4. ASSUME NEW p \in Node, Malloc(p)
        PROVE  CountIsLive'
    <3>1. held'[p] # NotHeld /\ \A n \in Node \ {p} : held'[n] = held[n]
      BY <2>4, StorageAssumption DEF Malloc, Hold, TypeOK, StorageAssumption
    <3> QED
      BY <2>2, <2>4, <3>1 DEF Malloc
  <2>5. ASSUME NEW p \in Node, Calloc(p)
        PROVE  CountIsLive'
    <3>1. held'[p] # NotHeld /\ \A n \in Node \ {p} : held'[n] = held[n]
      BY <2>5, StorageAssumption DEF Calloc, Hold, TypeOK, StorageAssumption
    <3> QED
      BY <2>2, <2>5, <3>1 DEF Calloc
  <2>6. ASSUME NEW p \in Node, NEW v \in Value, CopyForeign(p, v)
        PROVE  CountIsLive'
    <3>1. held'[p] # NotHeld /\ \A n \in Node \ {p} : held'[n] = held[n]
      BY <2>6, StorageAssumption DEF CopyForeign, Hold, TypeOK, StorageAssumption
    <3> QED
      BY <2>2, <2>6, <3>1 DEF CopyForeign
  <2>7. ASSUME NEW p \in Node, NEW q \in Node, CopyNode(p, q)
        PROVE  CountIsLive'
    <3>1. held'[p] # NotHeld /\ \A n \in Node \ {p} : held'[n] = held[n]
      BY <2>7 DEF CopyNode, Hold, Live, TypeOK
    <3> QED
      BY <2>2, <2>7, <3>1 DEF CopyNode
  <2>8. CASE InitStorage \/ Done
    <3>1. structs' = 0 /\ Len(freed') = 0 /\ Live' = {}
      BY <2>8 DEF InitStorage, Done, EmptyWhenDown, Live
    <3> QED
      BY <3>1, FS_EmptySet DEF CountIsLive, GetCount
  <2>9. ASSUME NEW p \in Node, Free(p)
        PROVE  CountIsLive'
    <3>1. p \in Live /\ Live' = Live \ {p}
      BY <2>9 DEF Free, Live, TypeOK
    <3>2. Cardinality(Live \ {p}) = Cardinality(Live) - 1 /\ Cardinality(Live \ {p}) \in Nat
      BY <2>0, <3>1, FS_RemoveElement, FS_CardinalityType
    <3>3. structs' = structs /\ Len(freed') = Len(freed) + 1
      BY <2>9, AppendProperties DEF Free, TypeOK
    <3> QED
      BY <2>1, <3>1, <3>2, <3>3 DEF CountIsLive, GetCount
  <2>10. ASSUME NEW p \in Node, NEW v \in Value, Write(p, v)
         PROVE  CountIsLive'
    <3>1. Live' = Live
      BY <2>10, StorageAssumption DEF Write, Live, TypeOK, StorageAssumption
    <3> QED
      BY <2>3, <2>10, <3>1 DEF Write
  <2>11. CASE UNCHANGED vars
    BY <2>3, <2>11 DEF vars, Live
  <2> QED
    BY <2>4, <2>5, <2>6, <2>7, <2>8, <2>9, <2>10, <2>11 DEF Next
<1> QED
  BY <1>1, <1>2, TypeCorrect, DownIsEmpty, OnePlace, PTL DEF Spec

\* The storage grows to the most nodes the client ever held, and no further.
THEOREM GrowsToPeak == Spec => []HighWater
<1>1. Init => HighWater
  BY DEF Init, HighWater
<1>2. /\ TypeOK /\ EmptyWhenDown /\ CountIsLive /\ CountIsLive' /\ HighWater
      /\ [Next]_vars
      => HighWater'
  <2> SUFFICES ASSUME TypeOK, EmptyWhenDown, CountIsLive, CountIsLive', HighWater,
                      [Next]_vars
               PROVE  HighWater'
    OBVIOUS
  <2>1. ASSUME NEW p \in Node, NEW c, MallocNode(p), Hold(p, c)
        PROVE  HighWater'
    <3>1. /\ structs \in Nat /\ peak = structs
          /\ Cardinality(Live') = structs' - Len(freed')
          /\ Len(freed') <= structs'
      BY DEF TypeOK, HighWater, CountIsLive, GetCount
    <3>2. CASE freed # <<>>
      <4>1. Len(freed') \in Nat /\ structs' = structs
        BY <2>1, <3>2, FrontLast, LenProperties DEF MallocNode, Pop, TypeOK
      <4>2. ~(Cardinality(Live') > peak)
        BY <3>1, <4>1
      <4> QED
        BY <2>1, <3>1, <4>1, <4>2 DEF Hold, HighWater
    <3>3. CASE freed = <<>>
      <4>1. Len(freed') = 0 /\ structs' = structs + 1
        BY <2>1, <3>3 DEF MallocNode, Reserve
      <4>2. Cardinality(Live') = structs' /\ Cardinality(Live') > peak
        BY <3>1, <4>1
      <4> QED
        BY <2>1, <4>2 DEF Hold, HighWater
    <3> QED
      BY <3>2, <3>3
  <2>2. ASSUME NEW p \in Node, Malloc(p) \/ Calloc(p)
        PROVE  HighWater'
    BY <2>1, <2>2 DEF Malloc, Calloc
  <2>3. ASSUME NEW p \in Node, NEW v \in Value, CopyForeign(p, v)
        PROVE  HighWater'
    BY <2>1, <2>3 DEF CopyForeign
  <2>4. ASSUME NEW p \in Node, NEW q \in Node, CopyNode(p, q)
        PROVE  HighWater'
    BY <2>1, <2>4 DEF CopyNode
  <2>5. CASE InitStorage \/ Done
    BY <2>5 DEF InitStorage, Done, EmptyWhenDown, HighWater
  <2>6. ASSUME NEW p \in Node, Free(p)
        PROVE  HighWater'
    BY <2>6 DEF Free, HighWater
  <2>7. ASSUME NEW p \in Node, NEW v \in Value, Write(p, v)
        PROVE  HighWater'
    BY <2>7 DEF Write, HighWater
  <2>8. CASE UNCHANGED vars
    BY <2>8 DEF vars, HighWater
  <2> QED
    BY <2>2, <2>3, <2>4, <2>5, <2>6, <2>7, <2>8 DEF Next
<1> QED
  BY <1>1, <1>2, TypeCorrect, DownIsEmpty, Counted, PTL DEF Spec

\* One more element in a bucket of n: where the count of buckets moves on.
LEMMA NextBucket ==
  ASSUME NEW n \in Nat \ {0}, NEW k \in Nat, NEW b \in Nat,
         k <= b * n, b * n < k + n
  PROVE  IF k = b * n
           THEN k + 1 <= (b + 1) * n /\ (b + 1) * n < k + 1 + n
           ELSE k + 1 <= b * n /\ b * n < k + 1 + n
<1>1. b * n \in Nat /\ (b + 1) * n = b * n + n
  OBVIOUS
<1> QED
  BY <1>1

\* The buckets are those that the high-water mark takes.
THEOREM BucketsAsNeeded == Spec => []BucketsFollowPeak
<1> USE StorageAssumption DEF StorageAssumption
<1>1. Init => BucketsFollowPeak
  BY DEF Init, BucketsFollowPeak
<1>2. /\ TypeOK /\ EmptyWhenDown /\ HighWater /\ HighWater' /\ BucketsFollowPeak
      /\ [Next]_vars
      => BucketsFollowPeak'
  <2> SUFFICES ASSUME TypeOK, EmptyWhenDown, HighWater, HighWater', BucketsFollowPeak,
                      [Next]_vars
               PROVE  BucketsFollowPeak'
    OBVIOUS
  <2>1. ASSUME NEW p \in Node, MallocNode(p)
        PROVE  BucketsFollowPeak'
    <3>1. CASE freed # <<>>
      BY <2>1, <3>1 DEF MallocNode, HighWater, BucketsFollowPeak
    <3>2. CASE freed = <<>>
      <4>1. /\ structs' = structs + 1
            /\ buckets' = IF structs = buckets * Capacity THEN buckets + 1 ELSE buckets
        BY <2>1, <3>2 DEF MallocNode, Reserve
      <4>2. structs \in Nat /\ buckets \in Nat /\ Capacity \in Nat \ {0}
        BY DEF TypeOK
      <4>3. structs <= buckets * Capacity /\ buckets * Capacity < structs + Capacity
        BY DEF HighWater, BucketsFollowPeak
      <4>4. structs' <= buckets' * Capacity /\ buckets' * Capacity < structs' + Capacity
        BY <4>1, <4>2, <4>3, NextBucket
      <4> QED
        BY <4>4 DEF HighWater, BucketsFollowPeak
    <3> QED
      BY <3>1, <3>2
  <2>2. ASSUME NEW p \in Node, Malloc(p) \/ Calloc(p)
        PROVE  BucketsFollowPeak'
    BY <2>1, <2>2 DEF Malloc, Calloc
  <2>3. ASSUME NEW p \in Node, NEW v \in Value, CopyForeign(p, v)
        PROVE  BucketsFollowPeak'
    BY <2>1, <2>3 DEF CopyForeign
  <2>4. ASSUME NEW p \in Node, NEW q \in Node, CopyNode(p, q)
        PROVE  BucketsFollowPeak'
    BY <2>1, <2>4 DEF CopyNode
  <2>5. CASE InitStorage \/ Done
    <3>1. buckets' = 0 /\ peak' = 0
      BY <2>5 DEF InitStorage, Done, EmptyWhenDown
    <3> QED
      BY <3>1 DEF BucketsFollowPeak
  <2>6. ASSUME NEW p \in Node, Free(p)
        PROVE  BucketsFollowPeak'
    BY <2>6 DEF Free, BucketsFollowPeak
  <2>7. ASSUME NEW p \in Node, NEW v \in Value, Write(p, v)
        PROVE  BucketsFollowPeak'
    BY <2>7 DEF Write, BucketsFollowPeak
  <2>8. CASE UNCHANGED vars
    BY <2>8 DEF vars, BucketsFollowPeak
  <2> QED
    BY <2>2, <2>3, <2>4, <2>5, <2>6, <2>7, <2>8 DEF Next
<1> QED
  BY <1>1, <1>2, TypeCorrect, DownIsEmpty, GrowsToPeak, PTL DEF Spec

-----------------------------------------------------------------------------
(***************************************************************************)
(* Refinement.                                                             *)
(***************************************************************************)

\* _mulle_storage_malloc hands out a node of the pool, unless all are in use.
LEMMA MallocFromPool ==
  ASSUME TypeOK, TypeOK', OnePlaceForEveryNode, NEW p \in Node, MallocNode(p)
  PROVE  /\ p \in 0 .. structs - 1 \/ \A m \in 0 .. structs - 1 : held[m] # NotHeld
         /\ 0 .. structs' - 1 = (0 .. structs - 1) \cup {p}
<1>1. structs \in Nat /\ structs' \in Nat /\ structs' <= MaxNodes /\ MaxNodes \in Nat
  BY StorageAssumption DEF TypeOK, StorageAssumption
<1>2. CASE freed # <<>>
  <2>1. structs' = structs /\ p = freed[Len(freed)] /\ Len(freed) \in 1 .. Len(freed)
    BY <1>2, MallocTakes, FrontLast DEF TypeOK
  <2>2. p < structs
    BY <2>1, PlaceMeaning DEF Placed
  <2>3. p \in 0 .. structs - 1
    BY <1>1, <2>2 DEF Node
  <2> QED
    BY <2>1, <2>3
<1>3. CASE freed = <<>>
  <2>1. Len(freed) = 0 /\ p = structs /\ structs' = structs + 1
    BY <1>3, MallocTakes
  <2>2. \A m \in 0 .. structs - 1 : m \in Node /\ m < structs
    BY <1>1, <2>1 DEF Node
  <2>3. \A m \in 0 .. structs - 1 : held[m] # NotHeld
    BY <2>1, <2>2, PlaceMeaning DEF Placed
  <2>4. 0 .. structs' - 1 = (0 .. structs - 1) \cup {p}
    BY <1>1, <2>1
  <2> QED
    BY <2>3, <2>4
<1> QED
  BY <1>2, <1>3

\* mulle_storage implements the node pool: it hands out a returned node as
\* long as there is one, and no step of it changes what another owner reads.
THEOREM Refines == Spec => ImplementsNodePool
<1> USE StorageAssumption DEF StorageAssumption
<1>1. Init => Pool!PoolInit
  <2> SUFFICES ASSUME Init
               PROVE  Pool!PoolInit
    OBVIOUS
  <2>1. 0 .. structs - 1 = {}
    BY DEF Init
  <2>2. Reads = [n \in Node |-> NotHeld]
    BY DEF Init, Reads
  <2> QED
    BY <2>1, <2>2 DEF Pool!PoolInit
<1>2. /\ TypeOK /\ TypeOK' /\ EmptyWhenDown /\ OnePlaceForEveryNode /\ ContentsKept
      /\ [Next]_vars
      => [Pool!PoolNext]_(Pool!poolVars)
  <2> SUFFICES ASSUME TypeOK, TypeOK', EmptyWhenDown, OnePlaceForEveryNode, ContentsKept,
                      [Next]_vars
               PROVE  Pool!PoolNext \/ UNCHANGED Pool!poolVars
    BY DEF Pool!poolVars
  <2>0. \A n \in Node : Reads[n] = NotHeld <=> held[n] = NotHeld
    BY DEF TypeOK, ContentsKept, Live, Reads
  <2>1. ASSUME NEW p \in Node, MallocNode(p), NEW c \in Pool!Contents,
               Reads' = [Reads EXCEPT ![p] = c]
        PROVE  Pool!PoolNext
    <3>1. Reads[p] = NotHeld
      BY <2>0, <2>1, MallocTakes
    <3>2. \A m \in 0 .. structs - 1 : m \in Node
      BY DEF TypeOK, Node
    <3>3. Pool!HandOut(p, c)
      BY <2>0, <2>1, <3>1, <3>2, MallocFromPool DEF Pool!HandOut
    <3> QED
      BY <3>3 DEF Pool!PoolNext
  <2>2. ASSUME NEW p \in Node, Malloc(p)
        PROVE  Pool!PoolNext
    <3>1. Reads' = [Reads EXCEPT ![p] = Unset]
      BY <2>2 DEF Malloc, Hold, Reads, TypeOK
    <3>2. Unset \in Pool!Contents
      BY DEF Pool!Contents
    <3> QED
      BY <2>1, <2>2, <3>1, <3>2 DEF Malloc
  <2>3. ASSUME NEW p \in Node, Calloc(p)
        PROVE  Pool!PoolNext
    <3>1. Reads' = [Reads EXCEPT ![p] = Zero]
      BY <2>3 DEF Calloc, Hold, Reads, TypeOK
    <3>2. Zero \in Pool!Contents
      BY DEF Pool!Contents
    <3> QED
      BY <2>1, <2>3, <3>1, <3>2 DEF Calloc
  <2>4. ASSUME NEW p \in Node, NEW v \in Value, CopyForeign(p, v)
        PROVE  Pool!PoolNext
    <3>1. Reads' = [Reads EXCEPT ![p] = v]
      BY <2>4 DEF CopyForeign, Hold, Reads, TypeOK
    <3>2. v \in Pool!Contents
      BY DEF Pool!Contents
    <3> QED
      BY <2>1, <2>4, <3>1, <3>2 DEF CopyForeign
  <2>5. ASSUME NEW p \in Node, NEW q \in Node, CopyNode(p, q)
        PROVE  Pool!PoolNext
    <3>1. Reads' = [Reads EXCEPT ![p] = held[q]]
      BY <2>5 DEF CopyNode, Hold, Reads, TypeOK, ContentsKept, Live
    <3>2. held[q] \in Pool!Contents
      BY <2>5 DEF CopyNode, Hold, Live, Pool!Contents, TypeOK
    <3> QED
      BY <2>1, <2>5, <3>1, <3>2 DEF CopyNode
  <2>6. ASSUME NEW p \in Node, Free(p)
        PROVE  Pool!PoolNext
    <3>1. Reads[p] # NotHeld
      BY <2>0, <2>6 DEF Free, Live
    <3>2. Reads' = [Reads EXCEPT ![p] = NotHeld]
      BY <2>6 DEF Free, Reads, TypeOK
    <3>3. Pool!TakeBack(p)
      BY <2>6, <3>1, <3>2 DEF Pool!TakeBack, Free
    <3> QED
      BY <3>3 DEF Pool!PoolNext
  <2>7. ASSUME NEW p \in Node, NEW v \in Value, Write(p, v)
        PROVE  Pool!PoolNext
    <3>1. Reads[p] # NotHeld
      BY <2>0, <2>7 DEF Write, Live
    <3>2. Reads' = [Reads EXCEPT ![p] = v]
      BY <2>7 DEF Write, Reads, TypeOK
    <3>3. Pool!Overwrite(p, v)
      BY <2>7, <3>1, <3>2 DEF Pool!Overwrite, Write
    <3> QED
      BY <3>3 DEF Pool!PoolNext
  <2>8. CASE InitStorage
    <3>1. UNCHANGED <<structs, Reads>>
      BY <2>8 DEF InitStorage, EmptyWhenDown, Reads
    <3> QED
      BY <3>1 DEF Pool!poolVars
  <2>9. CASE Done
    <3>1. 0 .. structs' - 1 = {}
      BY <2>9 DEF Done
    <3>2. Reads' = [n \in Node |-> NotHeld]
      BY <2>9 DEF Done, Reads
    <3> QED
      BY <3>1, <3>2 DEF Pool!Drain, Pool!PoolNext
  <2>10. CASE UNCHANGED vars
    <3>1. UNCHANGED <<structs, Reads>>
      BY <2>10 DEF vars, Reads
    <3> QED
      BY <3>1 DEF Pool!poolVars
  <2> QED
    BY <2>2, <2>3, <2>4, <2>5, <2>6, <2>7, <2>8, <2>9, <2>10 DEF Next
<1> QED
  BY <1>1, <1>2, TypeCorrect, DownIsEmpty, OnePlace, Kept, PTL
     DEF Spec, ImplementsNodePool, Pool!PoolSpec
=============================================================================
