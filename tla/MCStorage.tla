----------------------------- MODULE MCStorage ------------------------------
(***************************************************************************)
(* Storage with four nodes in buckets of two: the second bucket is taken  *)
(* while nodes of the first are live, freed and handed out again.          *)
(***************************************************************************)
EXTENDS Storage

\* What a client writes into a node does not matter to the storage.
ValueSymmetry == Permutations(Value)
=============================================================================
