---------------------------- MODULE MCVtableArena ----------------------------
(***************************************************************************)
(* The arenas of MCArena for clients of the vtable, with the invariant and *)
(* the hypotheses of VtableArenaProofs.                                    *)
(***************************************************************************)
EXTENDS MCArena, VtableArenaProofs

ASSUME VtableHypothesis == VtableClient /\ Exact
=============================================================================
