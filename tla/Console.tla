------------------------------ MODULE Console ------------------------------
(***************************************************************************)
(* The input ring of console.c.  r, w and e are unsigned words: they count *)
(* modulo Wrap (2^32 in the code), a multiple of INPUT_BUF.                *)
(***************************************************************************)
EXTENDS Integers, Sequences, FiniteSetsExt

CONSTANTS INPUT_BUF, Wrap

ASSUME ConsoleConstants ==
  INPUT_BUF \in Nat \ {0} /\ Wrap % INPUT_BUF = 0 /\ Wrap > INPUT_BUF

VARIABLES ring, r, w, e

input == <<ring, r, w, e>>

Word32(n) == (n + Wrap) % Wrap
Slot(n) == n % INPUT_BUF

ConsoleInit ==
  ring = [k \in 0 .. INPUT_BUF - 1 |-> ""] /\ r = 0 /\ w = 0 /\ e = 0

(* How far ^U goes back: to w, or to a character behind a newline. *)
KillTo ==
  LET typed == Word32(e - w)
      stops == {k \in 0 .. typed : k = typed \/ ring[Slot(Word32(e - k - 1))] = "NL"}
  IN Word32(e - Min(stops))

(* A variant that takes one key too many. *)
ConsoleIntrFull(c) ==
  CASE c = "^U" -> e' = KillTo /\ UNCHANGED <<ring, r, w>>
    [] c = "BS" -> e' = (IF e = w THEN e ELSE Word32(e - 1)) /\ UNCHANGED <<ring, r, w>>
    [] OTHER ->
         /\ UNCHANGED r
         /\ IF Word32(e - r) <= INPUT_BUF
            THEN /\ ring' = [ring EXCEPT ![Slot(e)] = c]
                 /\ e' = Word32(e + 1)
                 /\ w' = IF c \in {"NL", "^D"} \/ e' = Word32(r + INPUT_BUF)
                         THEN e' ELSE w
            ELSE UNCHANGED <<ring, w, e>>

(* consoleintr, for one key. *)
ConsoleIntr(c) ==
  CASE c = "^U" -> e' = KillTo /\ UNCHANGED <<ring, r, w>>
    [] c = "BS" -> e' = (IF e = w THEN e ELSE Word32(e - 1)) /\ UNCHANGED <<ring, r, w>>
    [] OTHER ->
         /\ UNCHANGED r
         /\ IF Word32(e - r) < INPUT_BUF
            THEN /\ ring' = [ring EXCEPT ![Slot(e)] = c]
                 /\ e' = Word32(e + 1)
                 /\ w' = IF c \in {"NL", "^D"} \/ e' = Word32(r + INPUT_BUF)
                         THEN e' ELSE w
            ELSE UNCHANGED <<ring, w, e>>

(* The characters from one index up to another. *)
Between(from, to) ==
  [k \in 1 .. Word32(to - from) |-> ring[Slot(Word32(from + k - 1))]]

(* consoleread under one hold of the lock, for n more characters; early is *)
(* whether it has none yet.  It takes characters up to the end of a line,  *)
(* and sleeps when there are not enough.  A ^D that ends a line is left    *)
(* for the next read.                                                      *)
Take(n, early) ==
  LET ready == Between(r, w)
      ends == {k \in 1 .. Min({n, Len(ready)}) : ready[k] \in {"NL", "^D"}}
      k == IF ends = {} THEN Min({n, Len(ready)}) ELSE Min(ends)
      eof == ends # {} /\ ready[k] = "^D"
  IN [chars |-> SubSeq(ready, 1, IF eof THEN k - 1 ELSE k),
      used |-> IF eof /\ (k > 1 \/ ~early) THEN k - 1 ELSE k,
      done |-> ends # {} \/ k = n]

ConsoleRead(taken) ==
  /\ r # w
  /\ r' = Word32(r + taken.used)
  /\ UNCHANGED <<ring, w, e>>
=============================================================================
