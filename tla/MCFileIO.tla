------------------------------ MODULE MCFileIO ------------------------------
(* Two processes, an inode opened twice and another opened once. *)
EXTENDS FileIO

MCProc == {10, 20}
MCIpOf == (1 :> 1) @@ (2 :> 1) @@ (3 :> 2)
=============================================================================
