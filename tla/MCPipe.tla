------------------------------- MODULE MCPipe -------------------------------
(* Instances of Pipe for TLC. *)
EXTENDS Pipe, TLC

(* One byte, and more bytes than the ring holds. *)
ShortAndLong == {<<0>>, <<1, 0, 1>>}

Symmetry == Permutations(Proc \ {Creator})
=============================================================================
