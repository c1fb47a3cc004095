----------------------------- MODULE FileTable -----------------------------
(***************************************************************************)
(* The table of open files (file.c) and the descriptors of processes       *)
(* (sysfile.c).  An open file refers to an object: the console, a named    *)
(* file, or one end of a pipe.  An operation is one system call of a       *)
(* process, or a part of one where others may come in between.             *)
(***************************************************************************)
EXTENDS Integers, Sequences, FiniteSets, FiniteSetsExt

CONSTANTS Proc,      \* the processes besides init
          NFILE, NOFILE, PIPESIZE

ASSUME FileTableConstants ==
  /\ {NFILE, NOFILE, PIPESIZE} \subseteq Nat \ {0} /\ 0 \notin Proc

Initproc == 0
Fd == 0 .. NOFILE - 1
File == 1 .. NFILE

VARIABLES file,    \* ref, obj and off of each entry of ftable
          ofile,   \* the descriptors of each process: an entry or 0
          pipe     \* readopen, writeopen and the data; named by its read entry

ftable == <<file, ofile, pipe>>

ConsoleDev == <<"console">>
Named(name) == <<"file", name>>
ReadEnd(k) == <<"read", k>>
WriteEnd(k) == <<"write", k>>
IsPipe(obj) == obj[1] \in {"read", "write"}

FreeFile == [ref |-> 0, obj |-> <<"none">>, off |-> 0]
Opened(obj) == [ref |-> 1, obj |-> obj, off |-> 0]
NoPipe == [readopen |-> FALSE, writeopen |-> FALSE, data |-> <<>>]
NoFiles == [fd \in Fd |-> 0]

(* init.c opens the console and duplicates the descriptor twice; the       *)
(* processes in procs have inherited the descriptors.                      *)
FileTableInit(procs) ==
  /\ file = [f \in File |->
               IF f = 1 THEN [Opened(ConsoleDev) EXCEPT !.ref = 3 * (1 + Cardinality(procs))]
               ELSE FreeFile]
  /\ ofile = [p \in Proc \cup {Initproc} |->
                IF p \in procs \cup {Initproc} THEN [fd \in Fd |-> IF fd <= 2 THEN 1 ELSE 0]
                ELSE NoFiles]
  /\ pipe = [k \in File |-> NoPipe]

-----------------------------------------------------------------------------
(* filealloc and fdalloc take the first free entry. *)
FreeFiles == {f \in File : file[f].ref = 0}
FreeFds(p) == {fd \in Fd : ofile[p][fd] = 0}

(* fileclose, with pipeclose when it was the last reference. *)
FileClose(f) ==
  LET obj == file[f].obj  last == file[f].ref = 1 IN
  /\ file' = [file EXCEPT ![f] = IF last THEN FreeFile ELSE [@ EXCEPT !.ref = @ - 1]]
  /\ pipe' =
       CASE last /\ obj[1] = "read" ->
              [pipe EXCEPT ![obj[2]] = IF @.writeopen THEN [@ EXCEPT !.readopen = FALSE]
                                       ELSE NoPipe]
         [] last /\ obj[1] = "write" ->
              [pipe EXCEPT ![obj[2]] = IF @.readopen THEN [@ EXCEPT !.writeopen = FALSE]
                                       ELSE NoPipe]
         [] OTHER -> pipe

SysClose(p, fd) ==
  IF ofile[p][fd] = 0 THEN UNCHANGED ftable
  ELSE /\ ofile' = [ofile EXCEPT ![p][fd] = 0]
       /\ FileClose(ofile[p][fd])

SysDup(p, fd) ==
  LET f == ofile[p][fd] IN
  IF f = 0 \/ FreeFds(p) = {} THEN UNCHANGED ftable
  ELSE /\ ofile' = [ofile EXCEPT ![p][Min(FreeFds(p))] = f]
       /\ file' = [file EXCEPT ![f].ref = @ + 1]
       /\ UNCHANGED pipe

(* sys_open of an object that is there or can be made. *)
CanOpen(p) == FreeFiles # {} /\ FreeFds(p) # {}
SysOpen(p, obj) ==
  IF ~CanOpen(p) THEN UNCHANGED ftable
  ELSE LET f == Min(FreeFiles) IN
       /\ file' = [file EXCEPT ![f] = Opened(obj)]
       /\ ofile' = [ofile EXCEPT ![p][Min(FreeFds(p))] = f]
       /\ UNCHANGED pipe

-----------------------------------------------------------------------------
(* pipealloc takes two files, named by the first; then sys_pipe takes two  *)
(* descriptors.  What has been taken is given back when the next one is    *)
(* not to be had; the page of the pipe is always to be had here.           *)
PipeFile(f) ==
  /\ file' = [file EXCEPT ![f] = Opened(<<"none">>)]
  /\ UNCHANGED <<ofile, pipe>>

PipeMake(rf, wf) ==
  /\ file' = [file EXCEPT ![rf] = Opened(ReadEnd(rf)),
                          ![wf] = Opened(WriteEnd(rf))]
  /\ pipe' = [pipe EXCEPT ![rf] = [readopen |-> TRUE, writeopen |-> TRUE, data |-> <<>>]]
  /\ UNCHANGED ofile

PipeFds(p, rf, wf) ==
  LET fd0 == Min(FreeFds(p))  fd1 == Min(FreeFds(p) \ {fd0}) IN
  IF Cardinality(FreeFds(p)) >= 2
  THEN /\ ofile' = [ofile EXCEPT ![p][fd0] = rf, ![p][fd1] = wf]
       /\ UNCHANGED <<file, pipe>>
  ELSE /\ file' = [file EXCEPT ![rf] = FreeFile, ![wf] = FreeFile]
       /\ pipe' = [pipe EXCEPT ![rf] = NoPipe]
       /\ UNCHANGED ofile

-----------------------------------------------------------------------------
(* fork duplicates the descriptors of parent p for child c. *)
ForkFiles(p, c) ==
  /\ ofile' = [ofile EXCEPT ![c] = ofile[p]]
  /\ file' = [f \in File |->
                [file[f] EXCEPT !.ref = @ + Cardinality({fd \in Fd : ofile[p][fd] = f})]]
  /\ UNCHANGED pipe

(* What is behind a descriptor. *)
Obj(p, fd) == IF ofile[p][fd] = 0 THEN <<"none">> ELSE file[ofile[p][fd]].obj

(* pipewrite of a byte, piperead of what there is. *)
PipePut(k, c) ==
  pipe' = [pipe EXCEPT ![k].data = Append(@, c)] /\ UNCHANGED <<file, ofile>>
PipeGet(k) ==
  pipe' = [pipe EXCEPT ![k].data = <<>>] /\ UNCHANGED <<file, ofile>>

(* fileread and filewrite move the offset that duplicates share. *)
Off(p, fd) == file[ofile[p][fd]].off
MoveOff(p, fd, n) ==
  file' = [file EXCEPT ![ofile[p][fd]].off = @ + n] /\ UNCHANGED <<ofile, pipe>>
=============================================================================
