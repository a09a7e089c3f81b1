------------------------------- MODULE MCArena -------------------------------
(***************************************************************************)
(* Small arenas: three places for pages of a few bytes each.  The places   *)
(* are aligned for the vtable only, so that larger alignments have to pad. *)
(***************************************************************************)
EXTENDS Arena, TLC

\* Places of eight bytes, with room for an oversized page; places of four bytes,
\* where an oversized page takes the next place if it needs one byte more.
Bases == {2, 10}
ThreeBases == {2, 6, 10}
WideBases == {4}

\* The arena does not look at the names of its blocks.
HandleSymmetry == Permutations(Handle)

\* A zero size and a zero count, a product beyond SizeMax, and products that
\* are odd, which is what keeps the header of the next block apart.
OddRequests == {<<0, 1>>, <<1, 0>>, <<8, 4>>, <<1, 1>>, <<1, 3>>, <<1, 5>>}
EvenRequests == {<<1, 2>>}
\* The largest size_t
HugeRequests == {<<1, 1>>, <<1, 31>>}
SmallRequests == {<<1, 1>>, <<3, 1>>}
=============================================================================
