------------------------------ MODULE ShParse ------------------------------
(***************************************************************************)
(* The shell's parser, sh.c:193-493, and the grammar it parses.  A line is *)
(* a sequence of tokens, each of which is a word or a symbol; the blanks   *)
(* between words are left out, and NL is the newline at the end.  A        *)
(* parsing function returns the command and the position after it, which   *)
(* is 0 when the function has panicked.  The functions that call each      *)
(* other have a parameter parse for the others, and Parse ties the knot.   *)
(***************************************************************************)
EXTENDS Integers, Sequences, FiniteSetsExt, SequencesExt

CONSTANT MAXARGS

Redirs == {"<", ">", ">>"}
Symbols == Redirs \cup {"|", "&", ";", "(", ")"}

(* The commands, as the constructors make them. *)
ExecCmd(argv) == [type |-> "EXEC", argv |-> argv]
RedirCmd(cmd, file, fd) == [type |-> "REDIR", cmd |-> cmd, file |-> file, fd |-> fd]
PipeCmd(left, right) == [type |-> "PIPE", left |-> left, right |-> right]
ListCmd(left, right) == [type |-> "LIST", left |-> left, right |-> right]
BackCmd(cmd) == [type |-> "BACK", cmd |-> cmd]
NoCmd == [type |-> "NONE"]

Panic == [cmd |-> NoCmd, s |-> 0]
Panicked(res) == res.s = 0

-----------------------------------------------------------------------------
(* gettoken: the kind of the token at s; "" at the end. *)
Token(b, s) == IF s <= Len(b) /\ b[s] # "NL" THEN b[s] ELSE ""
GetToken(b, s) == IF Token(b, s) \in Symbols \cup {""} THEN Token(b, s) ELSE "a"
Peek(b, s, toks) == Token(b, s) \in toks

(* The redirections from s on, in order. *)
ParseRedirs[b \in Seq(STRING), s \in Nat] ==
  LET rest == ParseRedirs[b, s + 2] IN
  IF ~Peek(b, s, Redirs) THEN [redirs |-> <<>>, s |-> s]
  ELSE IF GetToken(b, s + 1) # "a" \/ Panicked(rest) THEN Panic
  ELSE [rest EXCEPT !.redirs = <<<<b[s + 1], IF b[s] = "<" THEN 0 ELSE 1>>>> \o @]

(* redircmd puts each around the command that is there. *)
Wrapped(cmd, redirs) == FoldLeft(LAMBDA c, d : RedirCmd(c, d[1], d[2]), cmd, redirs)

(* A variant that forgets the redirections of a block. *)
ParseBlockBare(parse, b, s) ==
  LET line == parse["line", b, s + 1] IN
  IF Panicked(line) \/ ~Peek(b, line.s, {")"}) THEN Panic
  ELSE [cmd |-> line.cmd, s |-> line.s + 1]

ParseBlock(parse, b, s) ==
  LET line == parse["line", b, s + 1]  after == ParseRedirs[b, line.s + 1] IN
  IF Panicked(line) \/ ~Peek(b, line.s, {")"}) \/ Panicked(after) THEN Panic
  ELSE [cmd |-> Wrapped(line.cmd, after.redirs), s |-> after.s]

(* The loop of parseexec: words, and redirections behind each. *)
ParseArgs[b \in Seq(STRING), s \in Nat] ==
  LET next == ParseRedirs[b, s + 1]  rest == ParseArgs[b, next.s] IN
  IF Peek(b, s, {"|", ")", "&", ";", ""}) THEN [argv |-> <<>>, redirs |-> <<>>, s |-> s]
  ELSE IF GetToken(b, s) # "a" \/ Panicked(next) \/ Panicked(rest) THEN Panic
  ELSE [rest EXCEPT !.argv = <<b[s]>> \o @, !.redirs = next.redirs \o @]

ParseExec(parse, b, s) ==
  LET first == ParseRedirs[b, s]  args == ParseArgs[b, first.s] IN
  IF Peek(b, s, {"("}) THEN ParseBlock(parse, b, s)
  ELSE IF Panicked(first) \/ Panicked(args) \/ Len(args.argv) >= MAXARGS THEN Panic
  ELSE [cmd |-> Wrapped(ExecCmd(args.argv), first.redirs \o args.redirs), s |-> args.s]

ParsePipe(parse, b, s) ==
  LET left == ParseExec(parse, b, s)  right == parse["pipe", b, left.s + 1] IN
  IF Panicked(left) \/ ~Peek(b, left.s, {"|"}) THEN left
  ELSE IF Panicked(right) THEN Panic
  ELSE [right EXCEPT !.cmd = PipeCmd(left.cmd, @)]

(* Each '&' behind a pipe puts a backcmd around it. *)
ParseBacks[b \in Seq(STRING), s \in Nat] ==
  IF Peek(b, s, {"&"}) THEN 1 + ParseBacks[b, s + 1] ELSE 0
Backs(cmd, n) == FoldLeft(LAMBDA c, k : BackCmd(c), cmd, [k \in 1 .. n |-> k])

ParseLine(parse, b, s) ==
  LET first == parse["pipe", b, s]
      backs == ParseBacks[b, first.s]  left == Backs(first.cmd, backs)
      right == parse["line", b, first.s + backs + 1] IN
  IF Panicked(first) THEN Panic
  ELSE IF ~Peek(b, first.s + backs, {";"}) THEN [cmd |-> left, s |-> first.s + backs]
  ELSE IF Panicked(right) THEN Panic
  ELSE [right EXCEPT !.cmd = ListCmd(left, @)]

Parse[rule \in {"line", "pipe"}, b \in Seq(STRING), s \in Nat] ==
  IF rule = "line" THEN ParseLine(Parse, b, s) ELSE ParsePipe(Parse, b, s)

(* parsecmd: the whole line, or NoCmd for a panic. *)
ParseCmd(b) ==
  LET line == Parse["line", b, 1] IN
  IF Panicked(line) \/ Token(b, line.s) # "" THEN NoCmd ELSE line.cmd

-----------------------------------------------------------------------------
(* The grammar, by splitting a sequence of tokens t at its operators.      *)
Where(t, kinds) == {k \in 1 .. Len(t) : GetToken(t, k) \in kinds}
Before(t, k) == SubSeq(t, 1, k - 1)
After(t, k) == SubSeq(t, k + 1, Len(t))
Depth(t, k) == Cardinality(Where(Before(t, k), {"("})) - Cardinality(Where(Before(t, k), {")"}))
(* The positions of an operator outside parentheses. *)
Tops(t, op) == {k \in Where(t, {op}) : Depth(t, k) = 0}

(* A simple command: words and redirections, which each have a file name.  *)
Simple(t) ==
  /\ Where(t, Redirs \cup {"a"}) = 1 .. Len(t)
  /\ \A k \in Where(t, Redirs) : k + 1 \in Where(t, {"a"})
InOrder(t, S) == SelectSeq([k \in 1 .. Len(t) |-> k], LAMBDA k : k \in S)
Args(t) ==
  LET args == InOrder(t, {k \in Where(t, {"a"}) : k - 1 \notin Where(t, Redirs)})
  IN [n \in 1 .. Len(args) |-> t[args[n]]]
(* The redirections of t around cmd, the last one outermost. *)
Redirected(cmd, t) ==
  FoldLeft(LAMBDA c, k : RedirCmd(c, t[k + 1], IF t[k] = "<" THEN 0 ELSE 1),
           cmd, InOrder(t, Where(t, Redirs)))

(* A command of two parts is a command when both parts are. *)
Both(make(_, _), left, right) ==
  IF left = NoCmd \/ right = NoCmd THEN NoCmd ELSE make(left, right)

Command[rule \in {"line", "back", "pipe", "simple"}, t \in Seq(STRING)] ==
  LET at(op) == Min(Tops(t, op))
      close == Min({k \in Where(t, {")"}) : Depth(t, k) = 1}) IN
  CASE rule = "line" /\ Tops(t, ";") # {} ->
         Both(ListCmd, Command["back", Before(t, at(";"))], Command["line", After(t, at(";"))])
    [] rule = "line" /\ Tops(t, ";") = {} -> Command["back", t]
    [] rule = "back" /\ t # <<>> /\ Last(t) = "&" ->
         Both(LAMBDA c, d : BackCmd(c), Command["back", Front(t)], <<>>)
    [] rule = "back" /\ ~(t # <<>> /\ Last(t) = "&") -> Command["pipe", t]
    [] rule = "pipe" /\ Tops(t, "|") # {} ->
         Both(PipeCmd, Command["simple", Before(t, at("|"))], Command["pipe", After(t, at("|"))])
    [] rule = "pipe" /\ Tops(t, "|") = {} -> Command["simple", t]
    [] rule = "simple" /\ t # <<>> /\ Head(t) = "(" ->
         IF \A k \in Where(t, {")"}) : Depth(t, k) # 1 THEN NoCmd
         ELSE IF ~Simple(After(t, close)) \/ Args(After(t, close)) # <<>> THEN NoCmd
         ELSE Both(Redirected, Command["line", SubSeq(t, 2, close - 1)], After(t, close))
    [] OTHER ->
         IF ~Simple(t) \/ Len(Args(t)) >= MAXARGS THEN NoCmd
         ELSE Redirected(ExecCmd(Args(t)), t)

Grammar(b) == Command["line", SelectSeq(b, LAMBDA c : c # "NL")]
=============================================================================
