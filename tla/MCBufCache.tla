----------------------------- MODULE MCBufCache -----------------------------
(* Instances of BufCache for TLC. *)
EXTENDS BufCache, TLC

(* An indirect block is held while balloc takes the bitmap, gives it back, *)
(* and clears the new block (bmap, bzero).                                 *)
IndirectFirst == {<<1, 2>>, <<1, 3>>}
=============================================================================
