------------------------------- MODULE Region -------------------------------
(***************************************************************************)
(* What an arena promises, however it lays out its memory: blocks of any   *)
(* size, each with contents of its own that only its owner changes, a      *)
(* resize that keeps the common part, and an end for all blocks at once.   *)
(* Of a block, the bytes from its start that were ever set are known.      *)
(***************************************************************************)
EXTENDS Naturals, Sequences

CONSTANTS
  Handle,      \* the client's names for blocks
  Size,        \* sizes of blocks, all positive
  Byte,        \* what a client puts into a block
  Zero         \* the byte 0

VARIABLE data  \* for every handle, the size and the known bytes of its block

None == [size |-> 0, bytes |-> <<>>]

Full(n, v) == [size |-> n, bytes |-> [i \in 1 .. n |-> v]]

Prefix(s, n) == SubSeq(s, 1, IF n < Len(s) THEN n ELSE Len(s))

RegionInit == data = [h \in Handle |-> None]

\* The steps of a block say what it becomes, and OnlyChanges that it is the
\* only block to change.
OnlyChanges(h) == data' = [data EXCEPT ![h] = data'[h]]

Obtain(h, n) ==
  /\ data[h] = None
  /\ data'[h] \in {[size |-> n, bytes |-> <<>>], Full(n, Zero)} \cup {Full(n, v) : v \in Byte}

Duplicate(h, g) ==
  /\ data[h] = None
  /\ data'[h] = data[g]

Overwrite(h, v) ==
  /\ data[h] # None
  /\ data'[h] = Full(data[h].size, v)

Resize(h, n) ==
  /\ data[h] # None
  /\ data'[h] = [size |-> n, bytes |-> Prefix(data[h].bytes, n)]

Release(h) == data'[h] = None

Clear == data' = [h \in Handle |-> None]

RegionNext ==
  \/ \E h \in Handle :
       /\ OnlyChanges(h)
       /\ \/ \E n \in Size : Obtain(h, n) \/ Resize(h, n)
          \/ \E g \in Handle : Duplicate(h, g)
          \/ \E v \in Byte : Overwrite(h, v)
          \/ Release(h)
  \/ Clear

RegionSpec == RegionInit /\ [][RegionNext]_data
=============================================================================
