----------------------------- MODULE BlockStore -----------------------------
(***************************************************************************)
(* What bio.c promises the layers above it ("a synchronization point for   *)
(* disk blocks used by multiple processes"): every block has one current   *)
(* content, and one process at a time may look at it or change it.         *)
(***************************************************************************)
CONSTANTS Proc, Block, Val

VARIABLES mem,     \* the content of each block
          owner    \* the process that has the block, 0 if none

Init ==
  /\ mem \in [Block -> Val]
  /\ owner = [n \in Block |-> 0]

Take(p, n) ==
  /\ owner[n] = 0
  /\ owner' = [owner EXCEPT ![n] = p]
  /\ UNCHANGED mem

Change(p, n, v) ==
  /\ owner[n] = p
  /\ mem' = [mem EXCEPT ![n] = v]
  /\ UNCHANGED owner

Give(p, n) ==
  /\ owner[n] = p
  /\ owner' = [owner EXCEPT ![n] = 0]
  /\ UNCHANGED mem

Next ==
  \E p \in Proc, n \in Block :
    \/ Take(p, n) \/ Give(p, n)
    \/ \E v \in Val : Change(p, n, v)

Spec == Init /\ [][Next]_<<mem, owner>>
=============================================================================
