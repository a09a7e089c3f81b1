------------------------------ MODULE NodePool ------------------------------
(***************************************************************************)
(* What a pool of fixed-size nodes promises its client, whatever it is     *)
(* built from: a node is handed out to one owner at a time, its contents   *)
(* stay what the owner wrote until the owner returns it, and the pool only *)
(* grows when every node it ever held is in use.  mulle_storage (module    *)
(* Storage) and mulle_indexedstorage (module IndexedStorage) implement it. *)
(***************************************************************************)
EXTENDS Naturals

CONSTANTS
  Node,        \* the nodes a pool may ever hold
  Value,       \* what a client writes into a node
  Zero,        \* a node full of zero bytes
  Unset,       \* contents nobody promised anything about
  NotHeld      \* the node is not in the hands of the client

Contents == Value \cup {Zero, Unset}

VARIABLES
  used,        \* the nodes the pool holds
  live         \* for every node, what its owner reads from it

poolVars == <<used, live>>

PoolInit ==
  /\ used = {}
  /\ live = [n \in Node |-> NotHeld]

\* A node comes from the returned ones as long as there are any.
HandOut(n, c) ==
  /\ live[n] = NotHeld
  /\ n \in used \/ \A m \in used : live[m] # NotHeld
  /\ used' = used \cup {n}
  /\ live' = [live EXCEPT ![n] = c]

Overwrite(n, v) ==
  /\ live[n] # NotHeld
  /\ live' = [live EXCEPT ![n] = v]
  /\ UNCHANGED used

TakeBack(n) ==
  /\ live[n] # NotHeld
  /\ live' = [live EXCEPT ![n] = NotHeld]
  /\ UNCHANGED used

Drain ==
  /\ used' = {}
  /\ live' = [n \in Node |-> NotHeld]

PoolNext ==
  \/ \E n \in Node, c \in Contents : HandOut(n, c)
  \/ \E n \in Node, v \in Value : Overwrite(n, v)
  \/ \E n \in Node : TakeBack(n)
  \/ Drain

PoolSpec == PoolInit /\ [][PoolNext]_poolVars
=============================================================================
