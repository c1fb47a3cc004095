------------------------------ MODULE MCMemory ------------------------------
(* Memory, with two page tables' worth of addresses, sizes that are not    *)
(* multiples of a page, and pages for about two processes.                 *)
EXTENDS Memory

MCDeltas == {-4, 1}
MCImages == {<<4, 3>>}
=============================================================================
