----------------------------- MODULE AtomicDisk -----------------------------
(***************************************************************************)
(* What the write-ahead log of log.c promises to the file system.          *)
(*                                                                         *)
(* File-system calls read and write the blocks in memory.  The calls that  *)
(* have ended become durable together, in one step, and only at a moment   *)
(* when no call is in progress.  A crash loses every update that is not    *)
(* durable and nothing else, so after a restart the blocks are those of a  *)
(* moment at which no call was half done.                                  *)
(***************************************************************************)
CONSTANTS Proc,   \* the processes that make file-system calls
          Block,  \* the blocks of the file system
          Val     \* the contents a block may have

VARIABLES durable,  \* the blocks a restart would find
          mem,      \* the blocks as file-system calls see them
          active    \* the processes inside a file-system call

vars == <<durable, mem, active>>

Init ==
  /\ durable \in [Block -> Val]
  /\ mem = durable
  /\ active = {}

Begin(p) ==
  /\ p \notin active
  /\ active' = active \cup {p}
  /\ UNCHANGED <<durable, mem>>

Write(p, b, v) ==
  /\ p \in active
  /\ mem' = [mem EXCEPT ![b] = v]
  /\ UNCHANGED <<durable, active>>

End(p) ==
  /\ p \in active
  /\ active' = active \ {p}
  /\ UNCHANGED <<durable, mem>>

Commit ==
  /\ active = {}
  /\ durable' = mem
  /\ UNCHANGED <<mem, active>>

Crash ==
  /\ mem' = durable
  /\ active' = {}
  /\ UNCHANGED durable

Next ==
  \/ \E p \in Proc : Begin(p) \/ End(p)
  \/ \E p \in Proc, b \in Block, v \in Val : Write(p, b, v)
  \/ Commit
  \/ Crash

Spec == Init /\ [][Next]_vars
=============================================================================
