------------------------------- MODULE MCAio --------------------------------
(* Instances of Aio for TLC. *)
EXTENDS Aio, TLC

(* A file smaller than the buffer of the kernel thread and a larger one. *)
Sizes == [f \in {1, 2} |-> IF f = 1 THEN 1 ELSE 3]

(* A read that is longer than the buffer, or cut at the end of the small   *)
(* file, and one from further on, which fits or is beyond the end.         *)
Reads == {<<0, 3>>, <<1, 2>>}

Symmetry == Permutations(Proc)
=============================================================================
