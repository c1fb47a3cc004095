------------------------------ MODULE MCShell ------------------------------
(* Shell, on lines and scripts that use every kind of command, run out of  *)
(* processes and of files, and edit what is typed.                         *)
EXTENDS Shell

(* All lines of up to three tokens, and the lines that are run. *)
Alphabet == {"a", "<", ">>", "|", "&", ";", "(", ")"}
ShortLines == UNION {[1 .. n -> Alphabet] : n \in 1 .. 3}

Pipeline == <<"e", "a", "|", "c", "NL">>
Pipeline3 == <<"e", "a", "|", "c", "|", "c", "NL">>
Pipeline4 == <<"e", "a", "|", "c", "|", "c", "|", "c", "NL">>
Grouped == <<"(", "e", "a", ";", "e", "d", ")", "|", "c", "NL">>
WriteRead == <<"e", "a", ">", "f", ";", "c", "<", "f", "NL">>
SharedOut == <<"(", "e", "a", ";", "e", "d", ")", ">", "f", "NL">>
SharedIn == <<"e", "a", "|", "(", "c", ";", "c", ")", "NL">>
Ignored == <<"e", "a", "|", "e", "d", "NL">>
Unread == <<"e", "a", "|", "c", "|", "x", "NL">>
Missing == <<"c", "<", "x", "NL">>
InBackground == <<"e", "a", "&", ";", "e", "NL">>
Cat == <<"c", "NL">>

MCMeantLines == {Pipeline, Pipeline3, Grouped, WriteRead, SharedOut, SharedIn,
                 Ignored, Unread, Missing}
MCRunLines == MCMeantLines \cup {InBackground, Pipeline4, Cat}
MCSamples == ShortLines \cup (MCRunLines \ {Cat})

(* Corrections, a killed line, end of file in and after a line, a ring     *)
(* that fills, a line that is longer than the shell's buffer, cd, and a    *)
(* second shell.                                                           *)
MCScripts ==
  {<<"a", "^U", "e", "a", ">", "x", "BS", "f", "NL", "c", "<", "f", "NL">>,
   Cat \o <<"a", "NL", "a", "^D", "^D", "^D">>,
   <<"cd", "f", "NL", "^D", "BS", "e", "NL">>,
   [k \in 1 .. 12 |-> "a"] \o <<"BS", "NL", "x", "NL">>}
=============================================================================
