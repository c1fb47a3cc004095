-------------------------------- MODULE Aio ---------------------------------
(***************************************************************************)
(* Asynchronous reads (proc.c): sys_aread appends a task to the queue      *)
(* aio_tasks and returns; the kernel thread aread_kth runs the first task  *)
(* of the queue, without a lock, and then removes it.                      *)
(*                                                                         *)
(* A task names a page table and an entry of the inode cache, both by      *)
(* pointer.  The process it belongs to goes on running: it may close the   *)
(* file, after which the entry may come to hold another file, and it may   *)
(* exit or be killed, after which its parent frees the page table.         *)
(***************************************************************************)
EXTENDS Integers, Sequences, FiniteSets

CONSTANTS Proc,      \* processes that call aread
          File,      \* files, as numbers
          Size,      \* the size of each file
          NINODE,    \* entries of the inode cache
          PGSIZE,    \* size of the kernel thread's buffer tmp
          MAXTASKS,  \* size of the array aio_tasks
          MaxReq,    \* bound: calls of aread by a process
          Ask        \* bound: the offsets and lengths asked for

ASSUME AioConstants ==
  /\ IsFiniteSet(Proc)
  /\ File \subseteq Nat \ {0} /\ Size \in [File -> Nat]
  /\ NINODE \in Nat \ {0} /\ PGSIZE \in Nat \ {0} /\ MAXTASKS \in Nat
  /\ MaxReq \in Nat /\ Ask \subseteq Nat \X Nat

Req == Proc \X (1 .. MaxReq)
Inode == 1 .. NINODE

(* Byte k of file f is <<f, k>>; memory that holds no file data is Zero or *)
(* Junk.                                                                   *)
Byte == File \X Nat
Zero == <<0, 0>>
Junk == <<0, 1>>

VARIABLES
  st,       \* each process: "run", "zombie", or "freed" with its page table
  fd,       \* the inode a process has open, 0 if none
  issued,   \* how many calls of aread each process has made
  req,      \* the request: file meant, offset and length
  hasty,    \* requests whose process did not wait for the answer: it has
            \* closed its file, exited or been killed before
  status,   \* the user's status word for each request, at first a value left
            \* there by an earlier request of one byte
  buffer,   \* the user's buffer for each request
  inum,     \* the file an inode-cache entry holds, 0 if none yet
  ref,      \* ip->ref
  tasks,    \* aio_tasks[0 .. num_tasks-1]
  kth,      \* where aread_kth is
  left,     \* sizeofinput
  tmp,      \* the kernel thread's buffer
  stray     \* a page table was used after it was freed

userVars == <<st, fd, issued, req, hasty>>
kthVars == <<kth, left, tmp>>
vars == <<userVars, status, buffer, inum, ref, tasks, kthVars, stray>>

NoReq == [file |-> 0, off |-> 0, n |-> 0]
Requests == [file : File \cup {0}, off : Nat, n : Nat]
Tasks == [req : Req, ip : Inode, off : Nat, n : Nat]
Data == Byte \cup {Zero, Junk}

TypeOK ==
  /\ st \in [Proc -> {"run", "zombie", "freed"}]
  /\ fd \in [Proc -> Inode \cup {0}]
  /\ issued \in [Proc -> 0 .. MaxReq]
  /\ req \in [Req -> Requests] /\ hasty \subseteq Req
  /\ status \in [Req -> Nat]
  /\ buffer \in [Req -> Seq(Data)]
  /\ inum \in [Inode -> File \cup {0}] /\ ref \in [Inode -> Nat]
  /\ tasks \in Seq(Tasks)
  /\ kth \in {"poll", "asleep", "loop", "copy", "status", "remove"}
  /\ left \in Int
  /\ tmp \in [0 .. PGSIZE - 1 -> Data]
  /\ stray \in BOOLEAN

Init ==
  /\ st = [p \in Proc |-> "run"] /\ fd = [p \in Proc |-> 0]
  /\ issued = [p \in Proc |-> 0]
  /\ req = [r \in Req |-> NoReq] /\ hasty = {}
  /\ status = [r \in Req |-> 1]
  /\ buffer = [r \in Req |-> <<>>]
  /\ inum = [i \in Inode |-> 0] /\ ref = [i \in Inode |-> 0]
  /\ tasks = <<>>
  /\ kth = "poll" /\ left = 0 /\ tmp = [k \in 0 .. PGSIZE - 1 |-> Zero]
  /\ stray = FALSE

-----------------------------------------------------------------------------
(* What a process has asked for and not seen answered: it polls the status *)
(* words.                                                                  *)
Unanswered(p) ==
  {r \in {p} \X (1 .. issued[p]) : status[r] # req[r].n}

(* The entry iget(f) returns: the one that holds f, or a free one. *)
IGet(f) ==
  LET cached == {i \in Inode : ref[i] > 0 /\ inum[i] = f}
      empty == {i \in Inode : ref[i] = 0 /\ \A j \in 1 .. i - 1 : ref[j] > 0}
  IN IF cached # {} THEN cached ELSE empty

Open(p, f) ==
  /\ st[p] = "run" /\ fd[p] = 0
  /\ \E i \in IGet(f) :
       /\ inum' = [inum EXCEPT ![i] = f]
       /\ ref' = [ref EXCEPT ![i] = @ + 1]
       /\ fd' = [fd EXCEPT ![p] = i]
  /\ UNCHANGED <<st, issued, req, hasty, status, buffer, tasks, kthVars, stray>>

(* sys_aread; beyond the end of the file there is nothing to read. *)
Aread(p, off, nbytes) ==
  LET ip == fd[p]
      size == Size[inum[ip]]
      r == <<p, issued[p] + 1>>
      n == IF off + nbytes > size THEN size - off ELSE nbytes
  IN
  /\ st[p] = "run" /\ ip # 0 /\ issued[p] < MaxReq /\ nbytes > 0
  /\ issued' = [issued EXCEPT ![p] = @ + 1]
  /\ status' = [status EXCEPT ![r] = 0]
  /\ IF size =< off
     THEN UNCHANGED <<req, tasks>>
     ELSE /\ req' = [req EXCEPT ![r] = [file |-> inum[ip], off |-> off, n |-> n]]
          /\ tasks' = Append(tasks, [req |-> r, ip |-> ip, off |-> off, n |-> n])
  /\ UNCHANGED <<st, fd, hasty, buffer, inum, ref, kthVars, stray>>

(* close, with or without waiting for the answers. *)
Close(p) ==
  /\ st[p] = "run" /\ fd[p] # 0
  /\ ref' = [ref EXCEPT ![fd[p]] = @ - 1]
  /\ fd' = [fd EXCEPT ![p] = 0]
  /\ hasty' = hasty \cup Unanswered(p)
  /\ UNCHANGED <<st, issued, req, status, buffer, inum, tasks, kthVars, stray>>

(* exit, called by the process or forced by kill, closes the file; the     *)
(* page table is left to wait.                                             *)
Exit(p) ==
  /\ st[p] = "run"
  /\ st' = [st EXCEPT ![p] = "zombie"]
  /\ ref' = IF fd[p] = 0 THEN ref ELSE [ref EXCEPT ![fd[p]] = @ - 1]
  /\ fd' = [fd EXCEPT ![p] = 0]
  /\ hasty' = hasty \cup Unanswered(p)
  /\ UNCHANGED <<issued, req, status, buffer, inum, tasks, kthVars, stray>>

(* The parent's wait calls freevm. *)
Reap(p) ==
  /\ st[p] = "zombie"
  /\ st' = [st EXCEPT ![p] = "freed"]
  /\ UNCHANGED <<fd, issued, req, hasty, status, buffer, inum, ref, tasks,
                 kthVars, stray>>

-----------------------------------------------------------------------------
Task == tasks[1]
TaskSize == Size[inum[Task.ip]]

(* Mutant: the status is written before the data are read. *)
PollStatusFirst ==
  /\ kth = "poll"
  /\ IF tasks = <<>>
     THEN kth' = "asleep" /\ UNCHANGED <<left, status>>
     ELSE /\ kth' = "loop" /\ left' = TaskSize
          /\ status' = [status EXCEPT ![Task.req] = Task.n]
  /\ UNCHANGED <<userVars, buffer, inum, ref, tasks, tmp, stray>>

(* while(num_tasks), or else sleep(&ticks, &tickslock). *)
Poll ==
  /\ kth = "poll"
  /\ IF tasks = <<>>
     THEN kth' = "asleep" /\ UNCHANGED left
     ELSE kth' = "loop" /\ left' = TaskSize
  /\ UNCHANGED <<userVars, status, buffer, inum, ref, tasks, tmp, stray>>

Tick ==
  /\ kth = "asleep"
  /\ kth' = "poll"
  /\ UNCHANGED <<userVars, status, buffer, inum, ref, tasks, left, tmp, stray>>

(* Mutant: the offset is ignored. *)
ReadIFromStart(off, n) ==
  [k \in 0 .. PGSIZE - 1 |->
     IF k < n /\ k < TaskSize THEN <<inum[Task.ip], k>> ELSE tmp[k]]

(* readi(ip, tmp, off, n), which clips n to the file and fails beyond it. *)
ReadI(off, n) ==
  [k \in 0 .. PGSIZE - 1 |->
     IF off =< TaskSize /\ k < n /\ off + k < TaskSize
     THEN <<inum[Task.ip], off + k>> ELSE tmp[k]]

(* A turn of the loop of aread_consume_one_task, as far as readi. *)
ReadTurn ==
  /\ kth = "loop"
  /\ IF left > 0
     THEN /\ tmp' = ReadI(Task.off, IF TaskSize > PGSIZE THEN PGSIZE ELSE left)
          /\ left' = IF TaskSize > PGSIZE THEN left - PGSIZE ELSE 0
          /\ kth' = "copy"
     ELSE kth' = "status" /\ UNCHANGED <<left, tmp>>
  /\ UNCHANGED <<userVars, status, buffer, inum, ref, tasks, stray>>

(* The bytes copyout takes from tmp: it is told nbytes, whatever the size  *)
(* of tmp.                                                                 *)
FromTmp(n) == [k \in 1 .. n |-> IF k =< PGSIZE THEN tmp[k - 1] ELSE Junk]

(* copyout(t->pgdir, t->buffer, tmp, t->nbytes). *)
CopyData ==
  /\ kth = "copy"
  /\ IF st[Task.req[1]] = "freed"
     THEN stray' = TRUE /\ UNCHANGED buffer
     ELSE /\ buffer' = [buffer EXCEPT ![Task.req] = FromTmp(Task.n)]
          /\ UNCHANGED stray
  /\ kth' = "loop"
  /\ UNCHANGED <<userVars, status, inum, ref, tasks, left, tmp>>

(* copyout(t->pgdir, t->status, ...), then the memset of tmp. *)
CopyStatus ==
  /\ kth = "status"
  /\ IF st[Task.req[1]] = "freed"
     THEN stray' = TRUE /\ UNCHANGED status
     ELSE /\ status' = [status EXCEPT ![Task.req] = Task.n]
          /\ UNCHANGED stray
  /\ tmp' = [k \in 0 .. PGSIZE - 1 |-> Zero]
  /\ kth' = "remove"
  /\ UNCHANGED <<userVars, buffer, inum, ref, tasks, left>>

(* Mutant: tasks appended during the execution are forgotten. *)
RemoveAll ==
  /\ kth = "remove"
  /\ tasks' = <<>>
  /\ kth' = "poll"
  /\ UNCHANGED <<userVars, status, buffer, inum, ref, left, tmp, stray>>

(* The locked part of aread_kth: memmove and num_tasks--. *)
Remove ==
  /\ kth = "remove"
  /\ tasks' = Tail(tasks)
  /\ kth' = "poll"
  /\ UNCHANGED <<userVars, status, buffer, inum, ref, left, tmp, stray>>

Kth == Poll \/ Tick \/ ReadTurn \/ CopyData \/ CopyStatus \/ Remove

User(p) ==
  \/ \E f \in File : Open(p, f)
  \/ \E a \in Ask : Aread(p, a[1], a[2])
  \/ Close(p) \/ Exit(p) \/ Reap(p)

(* Once a freed page table has been used, or the queue has outgrown its    *)
(* array, the machine's behaviour is undefined and the model stops.        *)
Next ==
  /\ ~stray /\ Len(tasks) =< MAXTASKS
  /\ Kth \/ \E p \in Proc : User(p)

Spec == Init /\ [][Next]_vars

(* The kernel thread is scheduled again and again, and ticks go on. *)
FairSpec == Spec /\ WF_vars(~stray /\ Len(tasks) =< MAXTASKS /\ Kth)

-----------------------------------------------------------------------------
Accepted == {r \in Req : req[r] # NoReq}

(* As much of a request as fits in tmp is in the user's buffer. *)
FirstPage(r) ==
  /\ Len(buffer[r]) = req[r].n
  /\ \A k \in 1 .. req[r].n :
       k =< PGSIZE => buffer[r][k] = <<req[r].file, req[r].off + k - 1>>

(* What the user of aread relies on (aread.c): when the status word of a   *)
(* request is the number of bytes aread returned, and the process had its  *)
(* file open until then, the buffer holds those bytes of the file, as far  *)
(* as the first page: aread_consume_one_task (proc.c:631) copies the rest  *)
(* of a longer read from beyond tmp.  Requests that other processes leave  *)
(* behind do no harm to it.  The variables keep their types.               *)
DataDelivered ==
  /\ TypeOK
  /\ \A r \in Accepted \ hasty : status[r] = req[r].n => FirstPage(r)

(* aread.c:76-105 reads the whole of a large file and compares it with     *)
(* what read gives: every byte is delivered.  AioLarge.cfg shows that this *)
(* does not hold.                                                          *)
WholeDelivered ==
  \A r \in Accepted \ hasty :
    status[r] = req[r].n =>
      buffer[r] = [k \in 1 .. req[r].n |-> <<req[r].file, req[r].off + k - 1>>]

(* A task's pgdir is "the page table of the target process" (proc.c:602).  *)
(* The kernel thread uses it after it was freed, which aread.c:52 warns    *)
(* of, for a process that left before the answer and for no other: the     *)
(* status word is the last thing written.                                  *)
PageTableLive == stray => Task.req \in hasty

(* aread.c:52 is about this: a process must not exit before the answer.    *)
(* AioExit.cfg shows why.                                                  *)
NeverStray == ~stray

(* Every accepted request is answered, also when others are left behind,   *)
(* unless one of these stops the machine.                                  *)
Answered ==
  \A r \in Req : r \in Accepted ~> status[r] = req[r].n \/ stray
=============================================================================
