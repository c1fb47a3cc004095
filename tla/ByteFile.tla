------------------------------ MODULE ByteFile ------------------------------
(***************************************************************************)
(* What read and write promise about files: a file is a sequence of bytes, *)
(* an open file has an offset that all its users share, a write puts its   *)
(* bytes at the offset in pieces that nobody sees half done, and a read    *)
(* returns the bytes that follow the offset.                               *)
(***************************************************************************)
EXTENDS Integers, Sequences

CONSTANTS Proc, Inum, File, IpOf

VARIABLES content,   \* the bytes of each inode
          off,       \* the offset of each open file
          todo,      \* the bytes a process has still to write
          got        \* the bytes of the last read of a process

vars == <<content, off, todo, got>>

Init ==
  /\ content = [i \in Inum |-> <<>>] /\ off = [f \in File |-> 0]
  /\ todo = [p \in Proc |-> <<>>] /\ got = [p \in Proc |-> <<>>]

(* The content of a file once bytes are written at offset o of it. *)
Written(bytes, o, old) ==
  SubSeq(old, 1, o) \o bytes \o SubSeq(old, o + Len(bytes) + 1, Len(old))

Call(p) ==
  /\ todo[p] = <<>> /\ todo'[p] # <<>>
  /\ todo' = [todo EXCEPT ![p] = todo'[p]]
  /\ UNCHANGED <<content, off, got>>

Piece(p, f, k) ==
  /\ todo' = [todo EXCEPT ![p] = SubSeq(@, k + 1, Len(@))]
  /\ content' = [content EXCEPT ![IpOf[f]] =
                   Written(SubSeq(todo[p], 1, k), off[f], @)]
  /\ off' = [off EXCEPT ![f] = @ + k]
  /\ UNCHANGED got

GiveUp(p) ==
  todo' = [todo EXCEPT ![p] = <<>>] /\ UNCHANGED <<content, off, got>>

Read(p, f) ==
  /\ off'[f] \in off[f] .. Len(content[IpOf[f]])
  /\ off' = [off EXCEPT ![f] = off'[f]]
  /\ got' = [got EXCEPT ![p] = SubSeq(content[IpOf[f]], off[f] + 1, off'[f])]
  /\ UNCHANGED <<content, todo>>

Remove(i) ==
  /\ content' = [content EXCEPT ![i] = <<>>]
  /\ off' = [f \in File |-> IF IpOf[f] = i THEN 0 ELSE off[f]]
  /\ UNCHANGED <<todo, got>>

Next ==
  \/ \E p \in Proc : Call(p) \/ GiveUp(p)
  \/ \E p \in Proc, f \in File : Read(p, f)
  \/ \E p \in Proc, f \in File : \E k \in 1 .. Len(todo[p]) : Piece(p, f, k)
  \/ \E i \in Inum : Remove(i)

Spec == Init /\ [][Next]_vars
=============================================================================
