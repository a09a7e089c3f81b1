-------------------------- MODULE MCIndexedStorage --------------------------
(***************************************************************************)
(* IndexedStorage with the smallest unsigned int that can count MaxNodes   *)
(* elements, and an array of one element that grows twice.                 *)
(***************************************************************************)
EXTENDS IndexedStorage

\* What a client writes into a node does not matter to the storage.
ValueSymmetry == Permutations(Value)
=============================================================================
