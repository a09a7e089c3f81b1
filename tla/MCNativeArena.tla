---------------------------- MODULE MCNativeArena ----------------------------
(***************************************************************************)
(* The arenas of MCArena for clients of the native functions, with the     *)
(* invariant and the hypothesis of NativeArenaProofs.                      *)
(***************************************************************************)
EXTENDS MCArena, NativeArenaProofs

ASSUME NativeHypothesis == RequestsFit
=============================================================================
