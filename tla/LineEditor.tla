----------------------------- MODULE LineEditor -----------------------------
(***************************************************************************)
(* What the console promises: keys make up a line that can be edited until *)
(* it is ended, ended lines are read in order, and not more than Capacity  *)
(* characters are kept.                                                    *)
(***************************************************************************)
EXTENDS Integers, Sequences

CONSTANTS Capacity, Keys

VARIABLES lines,   \* what may be read
          edit     \* the line being typed

Ends(c) == c \in {"NL", "^D"}

Init == lines = <<>> /\ edit = <<>>

Key(c) ==
  \/ c = "BS" /\ edit # <<>>
       /\ edit' = SubSeq(edit, 1, Len(edit) - 1) /\ UNCHANGED lines
  \/ c = "^U" /\ edit' = <<>> /\ UNCHANGED lines
  \/ /\ c \notin {"BS", "^U"} /\ Len(lines) + Len(edit) < Capacity
     /\ IF Ends(c) \/ Len(lines) + Len(edit) + 1 = Capacity
        THEN lines' = lines \o Append(edit, c) /\ edit' = <<>>
        ELSE edit' = Append(edit, c) /\ UNCHANGED lines

(* A read takes characters of one line. *)
Read(k) ==
  /\ \A j \in 1 .. k - 1 : ~Ends(lines[j])
  /\ lines' = SubSeq(lines, k + 1, Len(lines)) /\ UNCHANGED edit

Next == (\E c \in Keys : Key(c)) \/ (\E k \in 1 .. Len(lines) : Read(k))

Spec == Init /\ [][Next]_<<lines, edit>>
=============================================================================
