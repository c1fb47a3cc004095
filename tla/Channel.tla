------------------------------ MODULE Channel -------------------------------
(***************************************************************************)
(* What a pipe promises: a bounded first-in first-out queue of bytes.  A   *)
(* writer appends what it was asked to write, as much at a time as there   *)
(* is room for; a reader takes a prefix, and what it takes is what it is   *)
(* given.                                                                  *)
(***************************************************************************)
EXTENDS Naturals, Sequences

CONSTANTS Writer,   \* those who may write
          Cap       \* the most bytes it holds

VARIABLES q,      \* the bytes written and not yet read
          todo,   \* what each writer has still to write
          got     \* the bytes the last read returned

vars == <<q, todo, got>>

Init ==
  /\ q = <<>> /\ got = <<>>
  /\ todo = [w \in Writer |-> <<>>]

(* w is asked to write something. *)
Ask(w) ==
  /\ todo[w] = <<>>
  /\ todo' = [todo EXCEPT ![w] = todo'[w]]
  /\ UNCHANGED <<q, got>>

(* w writes all it has to, or fills the channel and may give up the rest. *)
Put(w) ==
  \E n \in 0 .. Len(todo[w]) :
    LET rest == SubSeq(todo[w], n + 1, Len(todo[w])) IN
    /\ Len(q) + n =< Cap
    /\ rest = <<>> \/ Len(q) + n = Cap
    /\ q' = q \o SubSeq(todo[w], 1, n)
    /\ \/ todo' = [todo EXCEPT ![w] = rest]
       \/ todo' = [todo EXCEPT ![w] = <<>>]
    /\ UNCHANGED got

Get ==
  \E n \in 0 .. Len(q) :
    /\ got' = SubSeq(q, 1, n)
    /\ q' = SubSeq(q, n + 1, Len(q))
    /\ UNCHANGED todo

Next == Get \/ \E w \in Writer : Ask(w) \/ Put(w)

Spec == Init /\ [][Next]_vars
=============================================================================
