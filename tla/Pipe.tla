-------------------------------- MODULE Pipe --------------------------------
(***************************************************************************)
(* pipe.c: a ring of PIPESIZE bytes shared by the processes that hold its  *)
(* read end or its write end, with the part of file.c that counts the      *)
(* holders of an end and closes it with the last one.                      *)
(*                                                                         *)
(* An action is one hold of p->lock, except that a process which goes to   *)
(* sleep keeps the lock, for a moment, after it has tested proc->killed:   *)
(* kill does not take p->lock, so it can come in between.                  *)
(***************************************************************************)
EXTENDS Integers, Sequences, FiniteSets, FiniteSetsExt

CONSTANTS Proc,      \* processes
          Creator,   \* the one that calls pipe()
          Val,       \* values of a byte
          PIPESIZE,
          Wrap,      \* nread and nwrite count modulo Wrap, 2^32 in the code
          Writes,    \* bound: the strings of bytes that are written
          Killable   \* the processes somebody may kill

ASSUME PipeConstants ==
  /\ Creator \in Proc /\ Killable \subseteq Proc /\ 0 \notin Proc
  /\ PIPESIZE \in Nat \ {0} /\ Writes \subseteq Seq(Val) \ {<<>>}
  /\ Wrap \in Nat /\ Wrap % PIPESIZE = 0 /\ Wrap > PIPESIZE

VARIABLES
  page,       \* the page of the pipe: "none" yet, "used" or "freed"
  data, nread, nwrite, readopen, writeopen,  \* struct pipe
  lock,       \* the process that sleeps with p->lock still held, 0 if none
  holds,      \* the ends a process has descriptors for
  pc,
  todo,       \* what a write has still to write
  got,        \* what the last read returned
  killed

ring == <<data, nread, nwrite>>
ends == <<page, readopen, writeopen>>
vars == <<ends, ring, lock, holds, pc, todo, got, killed>>

PCs == {"unborn", "idle", "read", "write", "sleepr", "sleepw", "asleepr",
        "asleepw", "close_r", "close_w"}

TypeOK ==
  /\ page \in {"none", "used", "freed"}
  /\ data \in [0 .. PIPESIZE - 1 -> Val]
  /\ nread \in 0 .. Wrap - 1 /\ nwrite \in 0 .. Wrap - 1
  /\ readopen \in BOOLEAN /\ writeopen \in BOOLEAN
  /\ lock \in Proc \cup {0}
  /\ holds \in [Proc -> SUBSET {"r", "w"}]
  /\ pc \in [Proc -> PCs]
  /\ todo \in [Proc -> Seq(Val)] /\ got \in Seq(Val)
  /\ killed \in [Proc -> BOOLEAN]

Init ==
  /\ page = "none"
  /\ \E v \in Val : data = [k \in 0 .. PIPESIZE - 1 |-> v]
  /\ nread = 0 /\ nwrite = 0
  /\ readopen = FALSE /\ writeopen = FALSE
  /\ lock = 0
  /\ holds = [p \in Proc |-> {}]
  /\ pc = [p \in Proc |-> IF p = Creator THEN "idle" ELSE "unborn"]
  /\ todo = [p \in Proc |-> <<>>] /\ got = <<>>
  /\ killed = [p \in Proc |-> FALSE]

-----------------------------------------------------------------------------
Used == (nwrite - nread) % Wrap
Full == nwrite = (nread + PIPESIZE) % Wrap
Empty == nread = nwrite

(* wakeup(&p->nread) and wakeup(&p->nwrite): the sleepers try again. *)
WakeReaders(f) == [p \in Proc |-> IF f[p] = "asleepr" THEN "read" ELSE f[p]]
WakeWriters(f) == [p \in Proc |-> IF f[p] = "asleepw" THEN "write" ELSE f[p]]

(* sys_pipe: pipealloc, and a descriptor for each end. *)
PipeAlloc ==
  /\ page = "none" /\ pc[Creator] = "idle"
  /\ page' = "used"
  /\ readopen' = TRUE /\ writeopen' = TRUE
  /\ nread' = 0 /\ nwrite' = 0
  /\ holds' = [holds EXCEPT ![Creator] = {"r", "w"}]
  /\ UNCHANGED <<data, lock, pc, todo, got, killed>>

(* fork: filedup for each descriptor. *)
Fork(p, q) ==
  /\ pc[p] = "idle" /\ ~killed[p] /\ page = "used" /\ pc[q] = "unborn"
  /\ pc' = [pc EXCEPT ![q] = "idle"]
  /\ holds' = [holds EXCEPT ![q] = holds[p]]
  /\ UNCHANGED <<ends, ring, lock, todo, got, killed>>

(* fileclose: the last holder of an end goes on to pipeclose.  A process   *)
(* that exits closes both ends one after the other.                        *)
Close(p, e) ==
  /\ pc[p] = "idle" /\ e \in holds[p]
  /\ holds' = [holds EXCEPT ![p] = @ \ {e}]
  /\ pc' = [pc EXCEPT ![p] =
              IF \E q \in Proc \ {p} : e \in holds[q] THEN "idle"
              ELSE IF e = "r" THEN "close_r" ELSE "close_w"]
  /\ UNCHANGED <<ends, ring, lock, todo, got, killed>>

(* Mutant: the sleepers at the other end are not woken. *)
PipeCloseQuiet(p) ==
  /\ pc[p] \in {"close_r", "close_w"} /\ lock = 0
  /\ writeopen' = (writeopen /\ pc[p] # "close_w")
  /\ readopen' = (readopen /\ pc[p] # "close_r")
  /\ pc' = [pc EXCEPT ![p] = "idle"]
  /\ page' = IF readopen' \/ writeopen' THEN page ELSE "freed"
  /\ UNCHANGED <<ring, lock, holds, todo, got, killed>>

(* Mutant: the first end to be closed frees the page. *)
PipeCloseFrees(p) ==
  /\ pc[p] \in {"close_r", "close_w"} /\ lock = 0
  /\ LET back == [pc EXCEPT ![p] = "idle"] IN
     IF pc[p] = "close_w"
     THEN /\ writeopen' = FALSE /\ UNCHANGED readopen
          /\ pc' = WakeReaders(back)
     ELSE /\ readopen' = FALSE /\ UNCHANGED writeopen
          /\ pc' = WakeWriters(back)
  /\ page' = "freed"
  /\ UNCHANGED <<ring, lock, holds, todo, got, killed>>

PipeClose(p) ==
  /\ pc[p] \in {"close_r", "close_w"} /\ lock = 0
  /\ LET back == [pc EXCEPT ![p] = "idle"] IN
     IF pc[p] = "close_w"
     THEN /\ writeopen' = FALSE /\ UNCHANGED readopen
          /\ pc' = WakeReaders(back)
     ELSE /\ readopen' = FALSE /\ UNCHANGED writeopen
          /\ pc' = WakeWriters(back)
  /\ page' = IF readopen' \/ writeopen' THEN page ELSE "freed"
  /\ UNCHANGED <<ring, lock, holds, todo, got, killed>>

CallWrite(p, bytes) ==
  /\ pc[p] = "idle" /\ ~killed[p] /\ "w" \in holds[p]
  /\ pc' = [pc EXCEPT ![p] = "write"]
  /\ todo' = [todo EXCEPT ![p] = bytes]
  /\ UNCHANGED <<ends, ring, lock, holds, got, killed>>

(* pipewrite, from the acquisition of p->lock: as many bytes as there is   *)
(* room for, then the return or the sleep.                                 *)
PipeWrite(p) ==
  LET n == Min({Len(todo[p]), PIPESIZE - Used})
      rest == SubSeq(todo[p], n + 1, Len(todo[p]))
  IN
  /\ pc[p] = "write" /\ lock = 0
  /\ data' = [k \in 0 .. PIPESIZE - 1 |->
                IF \E i \in 1 .. n : k = (nwrite + i - 1) % PIPESIZE
                THEN todo[p][CHOOSE i \in 1 .. n :
                               k = (nwrite + i - 1) % PIPESIZE]
                ELSE data[k]]
  /\ nwrite' = (nwrite + n) % Wrap
  /\ IF rest = <<>>
     THEN /\ pc' = WakeReaders([pc EXCEPT ![p] = "idle"])
          /\ UNCHANGED lock
     ELSE IF ~readopen \/ killed[p]
     THEN /\ pc' = [pc EXCEPT ![p] = "idle"]
          /\ UNCHANGED lock
     ELSE /\ pc' = WakeReaders([pc EXCEPT ![p] = "sleepw"])
          /\ lock' = p
  /\ todo' = [todo EXCEPT ![p] = IF pc'[p] = "idle" THEN <<>> ELSE rest]
  /\ UNCHANGED <<ends, nread, holds, got, killed>>

CallRead(p) ==
  /\ pc[p] = "idle" /\ ~killed[p] /\ "r" \in holds[p]
  /\ pc' = [pc EXCEPT ![p] = "read"]
  /\ UNCHANGED <<ends, ring, lock, holds, todo, got, killed>>

(* Mutant: the writers are not woken. *)
PipeReadNoWake(p, m) ==
  /\ pc[p] = "read" /\ lock = 0
  /\ IF Empty /\ writeopen
     THEN /\ IF killed[p]
             THEN pc' = [pc EXCEPT ![p] = "idle"] /\ UNCHANGED lock
             ELSE pc' = [pc EXCEPT ![p] = "sleepr"] /\ lock' = p
          /\ UNCHANGED <<nread, got>>
     ELSE /\ nread' = (nread + Min({m, Used})) % Wrap
          /\ pc' = [pc EXCEPT ![p] = "idle"]
          /\ UNCHANGED <<got, lock>>
  /\ UNCHANGED <<ends, data, nwrite, holds, todo, killed>>

(* Mutant: the bytes come from the end of the ring. *)
PipeReadNewest(p, m) ==
  /\ pc[p] = "read" /\ lock = 0 /\ ~Empty
  /\ LET n == Min({m, Used}) IN
       /\ got' = [i \in 1 .. n |-> data[(nwrite - i) % PIPESIZE]]
       /\ nread' = (nread + n) % Wrap
  /\ pc' = WakeWriters([pc EXCEPT ![p] = "idle"])
  /\ UNCHANGED <<ends, data, nwrite, lock, holds, todo, killed>>

(* piperead of at most m bytes, from the acquisition of p->lock. *)
PipeRead(p, m) ==
  /\ pc[p] = "read" /\ lock = 0
  /\ IF Empty /\ writeopen
     THEN /\ IF killed[p]
             THEN pc' = [pc EXCEPT ![p] = "idle"] /\ UNCHANGED lock
             ELSE pc' = [pc EXCEPT ![p] = "sleepr"] /\ lock' = p
          /\ UNCHANGED <<nread, got>>
     ELSE LET n == Min({m, Used}) IN
          /\ got' = [i \in 1 .. n |-> data[(nread + i - 1) % PIPESIZE]]
          /\ nread' = (nread + n) % Wrap
          /\ pc' = WakeWriters([pc EXCEPT ![p] = "idle"])
          /\ UNCHANGED lock
  /\ UNCHANGED <<ends, data, nwrite, holds, todo, killed>>

(* sleep gets ptable.lock, lets p->lock go and gives up the CPU. *)
Sleep(p) ==
  /\ pc[p] \in {"sleepr", "sleepw"}
  /\ pc' = [pc EXCEPT ![p] = IF @ = "sleepr" THEN "asleepr" ELSE "asleepw"]
  /\ lock' = 0
  /\ UNCHANGED <<ends, ring, holds, todo, got, killed>>

Kill(p) ==
  /\ p \in Killable /\ pc[p] # "unborn"
  /\ killed' = [killed EXCEPT ![p] = TRUE]
  /\ pc' = [pc EXCEPT ![p] = CASE @ = "asleepr" -> "read"
                               [] @ = "asleepw" -> "write"
                               [] OTHER -> @]
  /\ UNCHANGED <<ends, ring, lock, holds, todo, got>>

(* The steps of a system call in progress. *)
Progress(p) ==
  \/ PipeWrite(p)
  \/ \E m \in 1 .. PIPESIZE : PipeRead(p, m)
  \/ Sleep(p)
  \/ PipeClose(p)

Next ==
  \/ PipeAlloc
  \/ \E p \in Proc :
       \/ Progress(p)
       \/ CallRead(p)
       \/ \E bytes \in Writes : CallWrite(p, bytes)
       \/ \E e \in {"r", "w"} : Close(p, e)
       \/ \E q \in Proc : Fork(p, q)
       \/ Kill(p)

Spec == Init /\ [][Next]_vars

(* A system call that can go on does: the scheduler comes round to it and  *)
(* it gets the lock some day, which it has to itself only briefly.         *)
FairSpec == Spec /\ \A p \in Proc : SF_vars(Progress(p))

-----------------------------------------------------------------------------
(* The bytes in the ring, the oldest first. *)
Bytes == [i \in 1 .. Used |-> data[(nread + i - 1) % PIPESIZE]]

Ch == INSTANCE Channel WITH Writer <- Proc, Cap <- PIPESIZE, q <- Bytes

(* The ring with its two wrapping counters is a FIFO of at most PIPESIZE   *)
(* bytes: what a writer was asked to write goes in, as much as there is    *)
(* room for under one hold of the lock, and readers get the bytes in the   *)
(* order they were written, each once, however the calls of several        *)
(* readers and writers interleave.                                         *)
Fifo == Ch!Spec

(* A reader sleeps only while somebody may still write and, unless some   *)
(* process has been killed, there is nothing to read ("pipe-empty",        *)
(* pipe.c:106).  A killed writer is the exception: it returns (pipe.c:86)  *)
(* without waking the readers of the bytes it has just put into the ring.  *)
(* A writer sleeps only while the ring is full and somebody may still read *)
(* ("pipewrite-full", pipe.c:85).                                          *)
SleepersNeeded ==
  \A p \in Proc :
    /\ pc[p] = "asleepr" => writeopen /\ (Empty \/ \E q \in Proc : killed[q])
    /\ pc[p] = "asleepw" => Full /\ readopen

(* The page is freed by the last pipeclose, when nobody has an end of the  *)
(* pipe or is still inside one of its functions; and it is not forgotten.  *)
(* The variables keep their types, the counters below Wrap.                *)
FreedLast ==
  LET inside == {p \in Proc : pc[p] \notin {"unborn", "idle"} \/ holds[p] # {}}
  IN TypeOK /\ (page = "used" <=> inside # {})

(* When the write end is closed every reader returns, when the read end is *)
(* closed every writer.                                                    *)
CloseReleases ==
  \A p \in Proc :
    /\ ~writeopen /\ pc[p] \in {"read", "sleepr", "asleepr"} ~> pc[p] = "idle"
    /\ ~readopen /\ pc[p] \in {"write", "sleepw", "asleepw"} ~> pc[p] = "idle"
=============================================================================
