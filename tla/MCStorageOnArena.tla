-------------------------- MODULE MCStorageOnArena --------------------------
(***************************************************************************)
(* Four nodes in buckets of two, on one or two pages.  A bucket with its   *)
(* header fills four bytes of a page, so that a header follows a bucket    *)
(* without overlap and lies in the last slot of the freed array.  A page   *)
(* of 12 bytes has no room for the array's second size behind the buckets, *)
(* one of 16 bytes has, and the array can grow in place there; that page   *)
(* has the room for all four nodes and four slots, and is the only one.    *)
(* Init gives the array no slot, one, or two as it does for a capacity of  *)
(* 64.                                                                     *)
(***************************************************************************)
EXTENDS StorageOnArenaProofs

\* The theorems are about this client.
ASSUME StorageFits

Blocks012 == 0 .. 2
Bases == {2, 18}
StoredBytes == Value \cup [node : 0 .. 3]
=============================================================================
