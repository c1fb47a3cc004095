------------------------------- MODULE Shell -------------------------------
(***************************************************************************)
(* init.c and sh.c on top of the console, the file table and fork, exec,   *)
(* exit and wait: a user types lines, the shell reads and parses them and  *)
(* runs the commands in child processes.  The programs are echo, called e, *)
(* and cat without arguments, called c.  A step is one system call, or the *)
(* computation between two.                                                *)
(***************************************************************************)
EXTENDS ShParse, Console, FileTable, TLC

CONSTANTS Scripts,    \* bound: the keys the user types
          Samples,    \* bound: lines of which a shell has just read one
          RunLines,   \* bound: the lines whose commands are run
          MeantLines, \* those with a meaning, and enough processes and files
          MaxLine     \* the size of the buffer for a line, in tokens

VARIABLES keys,       \* what the user has still to type
          fs,         \* the named files there are, and their contents
          sh,         \* the shell that init has started, 0, or -1 after a panic
          st,         \* the processes
          out,        \* what programs have written to the console
          meant       \* the specification's: what the last line means

user == <<keys, sh>>
world == <<fs, out, meant>>
vars == <<input, ftable, user, world, st>>

-----------------------------------------------------------------------------
(* What a command means when nothing runs out: from what there is to read  *)
(* and the files, what it writes, what it leaves to read, and the files.   *)
(* It is not defined for cat on the console and for background commands.   *)
Echo(args) ==
  [k \in 1 .. 2 * Len(args) |->
     IF k % 2 = 1 THEN args[(k + 1) \div 2] ELSE IF k < 2 * Len(args) THEN " " ELSE "NL"]
Overwrite(old, off, chars) ==
  [k \in 1 .. Max({Len(old), off + Len(chars)}) |->
     IF k \in off + 1 .. off + Len(chars) THEN chars[k - off] ELSE old[k]]

RECURSIVE Meaning(_, _, _)
Meaning(cmd, in, files) ==
  CASE cmd.type = "EXEC" ->
         LET prog == IF cmd.argv = <<>> THEN "" ELSE cmd.argv[1] IN
         [out |-> CASE prog = "e" -> Echo(Tail(cmd.argv)) [] prog = "c" -> in
                    [] OTHER -> <<>>,
          rest |-> IF prog = "c" THEN <<>> ELSE in, files |-> files]
    [] cmd.type = "REDIR" /\ cmd.fd = 0 ->
         IF cmd.file \notin DOMAIN files
         THEN [out |-> <<>>, rest |-> in, files |-> files]
         ELSE [Meaning(cmd.cmd, files[cmd.file], files) EXCEPT !.rest = in]
    [] cmd.type = "REDIR" /\ cmd.fd = 1 ->
         LET m == Meaning(cmd.cmd, in, files @@ (cmd.file :> <<>>)) IN
         [m EXCEPT !.out = <<>>, !.files[cmd.file] = Overwrite(@, 0, m.out)]
    [] cmd.type = "LIST" ->
         LET m == Meaning(cmd.left, in, files)  n == Meaning(cmd.right, m.rest, m.files)
         IN [n EXCEPT !.out = m.out \o @]
    [] cmd.type = "PIPE" ->
         LET m == Meaning(cmd.left, in, files)  n == Meaning(cmd.right, m.out, m.files)
         IN [n EXCEPT !.rest = m.rest]
Commands == [line \in MeantLines |-> Grammar(line)]
NoMeaning == [out |-> <<>>]

-----------------------------------------------------------------------------
(* buf is the line being read or parsed, cmd the argument of runcmd, todo  *)
(* the calls of close and dup to make before going on, rf and wf the files *)
(* sys_pipe has in hand, p the descriptors it has returned.  want is the   *)
(* specification's: what the command is to have as descriptors 0, 1 and 2. *)
Unused == [pc |-> "unused", parent |-> 0, buf |-> <<>>, cmd |-> NoCmd, todo |-> <<>>,
           rf |-> 0, wf |-> 0, p |-> <<>>, want |-> <<>>]
Terminal == [fd \in 0 .. 2 |-> ConsoleDev]
Running(where) == [Unused EXCEPT !.pc = where, !.want = Terminal]

Init ==
  /\ ConsoleInit /\ fs = <<>> /\ out = <<>> /\ meant = NoMeaning
  /\ \/ /\ keys \in Scripts /\ sh = 0 /\ FileTableInit({})
        /\ st = [p \in Proc |-> Unused]
     \/ /\ keys = <<>> /\ sh = 1 /\ FileTableInit({1})
        /\ \E line \in Samples :
             st = [p \in Proc |->
                     IF p = 1 THEN [Running("line") EXCEPT !.buf = line] ELSE Unused]

(* What most steps leave alone. *)
Still == UNCHANGED <<input, user, world>>

Goto(p, f) == st' = [st EXCEPT ![p] = f @@ @]
At(p, where) == st[p].pc = where /\ st[p].todo = <<>>
Children(p) == {c \in Proc : st[c].pc # "unused" /\ st[c].parent = p}
FreeProcs == {c \in Proc : st[c].pc = "unused"}

(* fork: the child c goes on as new, the parent p with the fields f.       *)
(* fork1 panics, which ends the process, when there is no free process.    *)
Fork(p, new, f) ==
  LET c == Min(FreeProcs) IN
  IF FreeProcs = {} THEN Goto(p, [pc |-> "exit"]) /\ UNCHANGED ftable
  ELSE /\ st' = [st EXCEPT ![p] = f @@ @,
                           ![c] = new @@ [st[p] EXCEPT !.parent = p, !.p = <<>>]]
       /\ ForkFiles(p, c)

-----------------------------------------------------------------------------
(* The user types a key. *)
Type ==
  /\ keys # <<>>
  /\ ConsoleIntr(Head(keys)) /\ keys' = Tail(keys)
  /\ UNCHANGED <<ftable, sh, world, st>>

(* init starts a shell, and another one when wait returns that it is gone. *)
(* When init cannot fork it exits, and the kernel panics: nothing runs on. *)
InitStart ==
  LET c == Min(FreeProcs) IN
  /\ sh = 0
  /\ IF FreeProcs # {}
     THEN /\ sh' = c /\ st' = [st EXCEPT ![c] = Running("start")]
          /\ ForkFiles(Initproc, c) /\ UNCHANGED keys
     ELSE /\ sh' = -1 /\ keys' = <<>> /\ UNCHANGED ftable
          /\ st' = [p \in Proc |-> [st[p] EXCEPT !.pc = "halted", !.todo = <<>>]]
  /\ UNCHANGED <<input, world>>

InitWait(p) ==
  /\ sh # 0 /\ st[p].pc = "zombie" /\ st[p].parent = Initproc
  /\ st' = [st EXCEPT ![p] = Unused] /\ sh' = IF p = sh THEN 0 ELSE sh
  /\ UNCHANGED <<input, ftable, keys, world>>

(* The shell makes sure that it has three descriptors. *)
Start(p) ==
  /\ At(p, "start")
  /\ SysOpen(p, ConsoleDev)
  /\ IF CanOpen(p) /\ Min(FreeFds(p)) < 3 THEN UNCHANGED st
     ELSE Goto(p, [pc |-> "gets",
                   todo |-> IF CanOpen(p) THEN <<<<"close", Min(FreeFds(p))>>>> ELSE <<>>])
  /\ Still

(* gets reads a character at a time up to a newline or the end of input,   *)
(* or until its buffer is full: what is left of the line is another line.  *)
Gets(p) ==
  LET got == Take(1, TRUE)  buf == st[p].buf \o got.chars IN
  /\ At(p, "gets") /\ ConsoleRead(got)
  /\ Goto(p, [buf |-> buf,
              pc |-> IF got.chars \in {<<>>, <<"NL">>} \/ Len(buf) + 1 >= MaxLine
                     THEN "line" ELSE "gets"])
  /\ UNCHANGED <<ftable, user, world>>

(* main: cd is done by the shell itself; its effect is not kept here. *)
Line(p) ==
  LET buf == st[p].buf IN
  /\ At(p, "line")
  /\ CASE buf = <<>> -> Goto(p, [pc |-> "exit"]) /\ UNCHANGED <<ftable, out, meant>>
       [] buf # <<>> /\ Head(buf) = "cd" ->
            Goto(p, [pc |-> "gets", buf |-> <<>>]) /\ UNCHANGED <<ftable, out, meant>>
       [] OTHER -> /\ Fork(p, [pc |-> "parse"], [pc |-> "wait", buf |-> <<>>])
                   /\ out' = <<>>
                   /\ meant' = IF buf \in MeantLines THEN Meaning(Commands[buf], <<>>, fs)
                               ELSE NoMeaning
  /\ UNCHANGED <<input, user, fs>>

(* parsecmd, in the child; a panic ends it. *)
Trees == [line \in RunLines |-> ParseCmd(line)]
ParseBuf(p) ==
  LET buf == st[p].buf IN
  /\ At(p, "parse")
  /\ IF buf \in RunLines /\ Trees[buf] # NoCmd
     THEN Goto(p, [pc |-> "runcmd", cmd |-> Trees[buf], buf |-> <<>>])
     ELSE Goto(p, [pc |-> "exit", buf |-> <<>>])
  /\ Still /\ UNCHANGED ftable

-----------------------------------------------------------------------------
(* close and dup. *)
Descriptors(p) ==
  LET call == Head(st[p].todo) IN
  /\ st[p].todo # <<>>
  /\ IF call[1] = "close" THEN SysClose(p, call[2]) ELSE SysDup(p, call[2])
  /\ Goto(p, [todo |-> Tail(st[p].todo)])
  /\ Still

Runs(p, type) == At(p, "runcmd") /\ st[p].cmd.type = type

(* exec replaces the shell's code by the program's, if there is one. *)
Exec(p) ==
  LET argv == st[p].cmd.argv IN
  /\ Runs(p, "EXEC")
  /\ Goto(p, [cmd |-> NoCmd,
              buf |-> IF argv # <<>> /\ argv[1] = "e" THEN Echo(Tail(argv)) ELSE <<>>,
              pc |-> CASE argv = <<>> -> "exit"
                       [] argv[1] = "c" -> "cat"
                       [] argv[1] = "e" -> "echo"
                       [] OTHER -> "exit"])
  /\ Still /\ UNCHANGED ftable

Redir(p) ==
  LET cmd == st[p].cmd IN
  /\ Runs(p, "REDIR")
  /\ SysClose(p, cmd.fd) /\ Goto(p, [pc |-> "open"])
  /\ Still

Open(p) ==
  LET cmd == st[p].cmd  there == cmd.file \in DOMAIN fs \/ cmd.fd = 1 IN
  /\ At(p, "open")
  /\ IF there /\ CanOpen(p)
     THEN /\ SysOpen(p, Named(cmd.file))
          /\ Goto(p, [pc |-> "runcmd", cmd |-> cmd.cmd,
                      want |-> [st[p].want EXCEPT ![cmd.fd] = Named(cmd.file)]])
     ELSE Goto(p, [pc |-> "exit"]) /\ UNCHANGED ftable
  /\ fs' = IF there THEN fs @@ (cmd.file :> <<>>) ELSE fs
  /\ UNCHANGED <<input, user, out, meant>>

(* A variant that does not wait for the left command. *)
ListNoWait(p) ==
  /\ Runs(p, "LIST")
  /\ Fork(p, [cmd |-> st[p].cmd.left], [cmd |-> st[p].cmd.right])
  /\ Still

List(p) ==
  /\ Runs(p, "LIST")
  /\ Fork(p, [cmd |-> st[p].cmd.left], [pc |-> "list_wait"])
  /\ Still

Back(p) ==
  /\ Runs(p, "BACK")
  /\ Fork(p, [cmd |-> st[p].cmd.cmd], [pc |-> "exit"])
  /\ Still

(* A variant that keeps the first file when there is no second. *)
PipeFilesLeak(p) ==
  LET f == Min(FreeFiles)  rf == st[p].rf IN
  /\ Runs(p, "PIPE") /\ st[p].wf = 0
  /\ \/ /\ FreeFiles = {}
        /\ Goto(p, [pc |-> "exit", rf |-> 0]) /\ UNCHANGED ftable
     \/ /\ FreeFiles # {} /\ rf = 0
        /\ PipeFile(f) /\ Goto(p, [rf |-> f])
     \/ /\ FreeFiles # {} /\ rf # 0
        /\ PipeMake(rf, f) /\ Goto(p, [wf |-> f])
  /\ Still

(* sys_pipe: the two files, then the two descriptors. *)
PipeFiles(p) ==
  LET f == Min(FreeFiles)  rf == st[p].rf IN
  /\ Runs(p, "PIPE") /\ st[p].wf = 0
  /\ \/ /\ FreeFiles = {} /\ rf = 0
        /\ Goto(p, [pc |-> "exit"]) /\ UNCHANGED ftable
     \/ /\ FreeFiles = {} /\ rf # 0
        /\ FileClose(rf) /\ Goto(p, [pc |-> "exit", rf |-> 0]) /\ UNCHANGED ofile
     \/ /\ FreeFiles # {} /\ rf = 0
        /\ PipeFile(f) /\ Goto(p, [rf |-> f])
     \/ /\ FreeFiles # {} /\ rf # 0
        /\ PipeMake(rf, f) /\ Goto(p, [wf |-> f])
  /\ Still

Pipe(p) ==
  LET s == st[p]  fds == FreeFds(p)  fd0 == Min(fds) IN
  /\ Runs(p, "PIPE") /\ s.wf # 0
  /\ PipeFds(p, s.rf, s.wf)
  /\ Goto(p, IF Cardinality(fds) >= 2
             THEN [pc |-> "left", rf |-> 0, wf |-> 0, p |-> <<fd0, Min(fds \ {fd0})>>]
             ELSE [pc |-> "exit", rf |-> 0, wf |-> 0])
  /\ Still

(* A variant in which a child keeps the writing end. *)
ConnectKeeps(p, fd, end) ==
  <<<<"close", fd>>, <<"dup", p[end]>>, <<"close", p[1]>>>>

(* The two children of a pipe, and the calls that connect them. *)
Connect(p, fd, end) ==
  <<<<"close", fd>>, <<"dup", p[end]>>, <<"close", p[1]>>, <<"close", p[2]>>>>

Left(p) ==
  LET s == st[p] IN
  /\ At(p, "left")
  /\ Fork(p, [pc |-> "runcmd", cmd |-> s.cmd.left, todo |-> Connect(s.p, 1, 2),
              want |-> [s.want EXCEPT ![1] = Obj(p, s.p[2])]],
          [pc |-> "right"])
  /\ Still

(* A variant in which the parent keeps the pipe open. *)
RightKeeps(p) ==
  LET s == st[p] IN
  /\ At(p, "right")
  /\ Fork(p, [pc |-> "runcmd", cmd |-> s.cmd.right, todo |-> Connect(s.p, 0, 1),
              want |-> [s.want EXCEPT ![0] = Obj(p, s.p[1])]],
          [pc |-> "pipe_wait"])
  /\ Still

Right(p) ==
  LET s == st[p] IN
  /\ At(p, "right")
  /\ Fork(p, [pc |-> "runcmd", cmd |-> s.cmd.right, todo |-> Connect(s.p, 0, 1),
              want |-> [s.want EXCEPT ![0] = Obj(p, s.p[1])]],
          [pc |-> "pipe_wait", todo |-> <<<<"close", s.p[1]>>, <<"close", s.p[2]>>>>])
  /\ Still

-----------------------------------------------------------------------------
(* wait returns a child that has exited, or at once without children. *)
Woken(p) ==
  CASE st[p].pc = "wait" -> [pc |-> "gets"]
    [] st[p].pc = "list_wait" -> [pc |-> "runcmd", cmd |-> st[p].cmd.right]
    [] st[p].pc = "pipe_wait" -> [pc |-> "pipe_wait2"]
    [] OTHER -> [pc |-> "exit"]

Wait(p) ==
  LET dead == {c \in Children(p) : st[c].pc = "zombie"} IN
  /\ st[p].pc \in {"wait", "list_wait", "pipe_wait", "pipe_wait2"} /\ st[p].todo = <<>>
  /\ \/ /\ dead # {}
        /\ st' = [st EXCEPT ![p] = Woken(p) @@ @, ![Min(dead)] = Unused]
     \/ Children(p) = {} /\ Goto(p, Woken(p))
  /\ Still /\ UNCHANGED ftable

(* exit closes the descriptors one by one and leaves the children to init. *)
Exit(p) ==
  LET open == Fd \ FreeFds(p) IN
  /\ At(p, "exit")
  /\ IF open # {} THEN SysClose(p, Min(open)) /\ UNCHANGED st
     ELSE /\ st' = [q \in Proc |->
                      IF q = p THEN [Unused EXCEPT !.pc = "zombie", !.parent = st[p].parent]
                      ELSE IF q \in Children(p) THEN [st[q] EXCEPT !.parent = Initproc]
                      ELSE st[q]]
          /\ UNCHANGED ftable
  /\ Still

-----------------------------------------------------------------------------
(* A write of buf to descriptor 1, by cat, or of its first character, by   *)
(* echo; a pipe takes a byte at a time while it has room, and refuses it   *)
(* when it is full and nobody can read.  Then cat gives up, and echo goes  *)
(* on.                                                                     *)
Written(p, n) == Goto(p, [buf |-> SubSeq(st[p].buf, n + 1, Len(st[p].buf))])

Write(p) ==
  LET obj == Obj(p, 1)  buf == st[p].buf
      chars == IF st[p].pc = "echo" THEN <<Head(buf)>> ELSE buf IN
  /\ At(p, "echo") \/ At(p, "cat_write")
  /\ buf # <<>>
  /\ \/ /\ obj[1] = "console"
        /\ out' = out \o chars /\ Written(p, Len(chars)) /\ UNCHANGED <<ftable, fs>>
     \/ /\ obj[1] = "file"
        /\ fs' = [fs EXCEPT ![obj[2]] = Overwrite(@, Off(p, 1), chars)]
        /\ MoveOff(p, 1, Len(chars)) /\ Written(p, Len(chars)) /\ UNCHANGED out
     \/ /\ obj[1] = "write" /\ Len(pipe[obj[2]].data) < PIPESIZE
        /\ PipePut(obj[2], Head(buf)) /\ Written(p, 1) /\ UNCHANGED <<fs, out>>
     \/ /\ obj[1] = "write" /\ Len(pipe[obj[2]].data) = PIPESIZE
        /\ ~pipe[obj[2]].readopen
        /\ IF st[p].pc = "echo" THEN Written(p, 1) ELSE Goto(p, [pc |-> "exit"])
        /\ UNCHANGED <<ftable, fs, out>>
  /\ UNCHANGED <<input, user, meant>>

Wrote(p) ==
  /\ st[p].buf = <<>>
  /\ \/ At(p, "echo") /\ Goto(p, [pc |-> "exit"])
     \/ At(p, "cat_write") /\ Goto(p, [pc |-> "cat"])
  /\ Still /\ UNCHANGED ftable

(* cat reads descriptor 0 until the end. *)
CatGot(chars) == [buf |-> chars, pc |-> IF chars = <<>> THEN "exit" ELSE "cat_write"]

Read(p) ==
  LET obj == Obj(p, 0)
      got == Take(INPUT_BUF, st[p].buf = <<>>)  buf == st[p].buf \o got.chars
      chars == SubSeq(fs[obj[2]], Off(p, 0) + 1, Len(fs[obj[2]])) IN
  /\ At(p, "cat")
  /\ \/ /\ obj[1] = "console" /\ ConsoleRead(got)
        /\ Goto(p, IF got.done THEN CatGot(buf) ELSE [buf |-> buf])
        /\ UNCHANGED ftable
     \/ /\ obj[1] = "read" /\ (pipe[obj[2]].data # <<>> \/ ~pipe[obj[2]].writeopen)
        /\ PipeGet(obj[2]) /\ Goto(p, CatGot(pipe[obj[2]].data)) /\ UNCHANGED input
     \/ /\ obj[1] = "file"
        /\ MoveOff(p, 0, Len(chars)) /\ Goto(p, CatGot(chars)) /\ UNCHANGED input
  /\ UNCHANGED <<user, world>>

-----------------------------------------------------------------------------
Step(p) ==
  \/ InitWait(p) \/ Start(p) \/ Gets(p) \/ Line(p) \/ ParseBuf(p) \/ Descriptors(p)
  \/ Exec(p) \/ Redir(p) \/ Open(p) \/ List(p) \/ Back(p)
  \/ PipeFiles(p) \/ Pipe(p) \/ Left(p) \/ Right(p) \/ Wait(p) \/ Exit(p)
  \/ Write(p) \/ Wrote(p) \/ Read(p)

Next == Type \/ InitStart \/ \E p \in Proc : Step(p)

(* Something happens as long as anything can: the scheduler does not idle  *)
(* while a process can run, and the user types on.  No more is needed.     *)
Spec == Init /\ [][Next]_vars /\ WF_vars(Next)

-----------------------------------------------------------------------------
(* The parser accepts exactly the commands of the grammar and builds the   *)
(* tree the grammar gives: ';' binds less than '&', '&' less than '|', and *)
(* the last redirection is the outermost (parseline to parseredirs).       *)
ParsedRight ==
  \A p \in Proc : st[p].pc = "parse" => ParseCmd(st[p].buf) = Grammar(st[p].buf)

(* A line does what the grammar says it means, whatever the order in which *)
(* the processes of a pipeline run, when the shell is back: the pipes      *)
(* connect neighbours and end, a list shares its input and its output      *)
(* offset, and the files are what the redirections made them (runcmd).     *)
LineDone == sh \in Proc /\ st[sh].pc = "gets" /\ st[sh].buf = <<>>
LineRun == LineDone /\ meant # NoMeaning => out = meant.out /\ fs = meant.files

(* ref of an open file is the number of descriptors for it, and of files   *)
(* sys_pipe has in hand: no failure of pipe, open or fork leaks one.       *)
RefsMatch ==
  \A f \in File :
    file[f].ref = Cardinality({d \in (Proc \cup {Initproc}) \X Fd : ofile[d[1]][d[2]] = f})
                  + Cardinality({p \in Proc : f \in {st[p].rf, st[p].wf}})

(* A program starts with the descriptors its place in the command gives it *)
(* (a pipe's ends, the redirections, otherwise the console) and with no    *)
(* other: a writing end left open would keep its reader waiting for ever   *)
(* (runcmd).                                                               *)
Wired ==
  \A p \in Proc :
    Runs(p, "EXEC") =>
      \A fd \in Fd : Obj(p, fd) = IF fd <= 2 THEN st[p].want[fd] ELSE <<"none">>

(* Whatever the command, also when files or processes run out in the       *)
(* middle of a pipeline, in the end the shell asks for the next line, or a *)
(* program that it runs reads what the user types (runcmd, main).          *)
Reading(p) == st[p].pc = "gets" \/ (At(p, "cat") /\ Obj(p, 0) = ConsoleDev)
PromptReturns == []<>(\E p \in Proc : Reading(p))

(* The ring implements an editor of lines, indices that wrap included. *)
Editor == INSTANCE LineEditor
            WITH Capacity <- INPUT_BUF, lines <- Between(r, w), edit <- Between(w, e),
                 Keys <- {"BS", "^U", "NL", "^D", "a", "c", "cd", "e", "f", "x"}
                           \cup Symbols
RingEdits == Editor!Spec
=============================================================================
