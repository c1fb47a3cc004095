----------------------------- MODULE AioProofs ------------------------------
(***************************************************************************)
(* Proofs about Aio for any processes, files and requests: processes may   *)
(* close their files, exit or be killed at any time, and reads may be      *)
(* longer than the kernel thread's buffer.                                 *)
(***************************************************************************)
EXTENDS Aio, TLAPS

-----------------------------------------------------------------------------
(* The inductive invariant.                                                *)

(* The tasks whose status word has not been written. *)
Pending == {j \in 1 .. Len(tasks) : j > 1 \/ kth # "remove"}

(* ref counts the open descriptors, so that the entry of an open file is   *)
(* not given to another one.                                               *)
HoldersOf(i) == ref[i] = Cardinality({p \in Proc : fd[p] = i})
Holders ==
  /\ \A i \in Inode : HoldersOf(i)
  /\ \A p \in Proc : fd[p] # 0 => inum[fd[p]] \in File

(* sys_aread has cut an accepted request at the end of the file. *)
Asked ==
  \A r \in Req : req[r] # NoReq =>
    /\ r[2] =< issued[r[1]]
    /\ req[r].file \in File /\ req[r].n \in Nat \ {0}
    /\ req[r].off + req[r].n =< Size[req[r].file]

(* A task that is not answered, and whose process has not left it, belongs *)
(* to a process that is there and has the file open; no two tasks answer   *)
(* one request.                                                            *)
Queue ==
  /\ \A j \in Pending :
       LET t == tasks[j]  p == t.req[1] IN
       /\ status[t.req] = 0
       /\ t.req \notin hasty =>
            st[p] = "run" /\ fd[p] = t.ip /\ req[t.req].file = inum[t.ip]
  /\ \A j \in 1 .. Len(tasks) :
       LET t == tasks[j] IN
       /\ req[t.req] # NoReq /\ req[t.req].off = t.off /\ req[t.req].n = t.n
       /\ inum[t.ip] \in File
  /\ \A j, k \in 1 .. Len(tasks) : tasks[j].req = tasks[k].req => j = k

(* aread_consume_one_task: every turn of the loop brings the same bytes,   *)
(* and a file of one page or less takes one turn.                          *)
Loop ==
  /\ kth = "loop" =>
       \/ left = TaskSize
       \/ FirstPage(Task.req) /\ (TaskSize > PGSIZE \/ left =< 0)
  /\ kth = "copy" =>
       /\ \A k \in 0 .. PGSIZE - 1 :
            k < Task.n => tmp[k] = <<inum[Task.ip], Task.off + k>>
       /\ TaskSize > PGSIZE \/ left =< 0
  /\ kth = "status" => FirstPage(Task.req)

Thread ==
  /\ kth \notin {"poll", "asleep"} => tasks # <<>>
  /\ kth \in {"loop", "copy", "status"} /\ Task.req \notin hasty => Loop

Delivered ==
  \A r \in Accepted \ hasty : status[r] = req[r].n => FirstPage(r)

(* An entry that somebody has open is counted. *)
Counted == \A p \in Proc : fd[p] # 0 => ref[fd[p]] > 0

IInv ==
  TypeOK /\ Delivered /\ PageTableLive /\ Holders /\ Asked /\ Queue /\ Thread

-----------------------------------------------------------------------------
(* What the invariant says of the tasks in the queue. *)
LEMMA PendingTyped ==
  ASSUME IInv
  PROVE  \A j \in Pending : j \in 1 .. Len(tasks) /\ tasks[j] \in Tasks
<1> QED
  BY DEF Pending, IInv, TypeOK

LEMMA QueueAt ==
  ASSUME IInv, NEW j \in Pending
  PROVE  /\ status[tasks[j].req] = 0
         /\ tasks[j].req \notin hasty =>
              /\ st[tasks[j].req[1]] = "run" /\ fd[tasks[j].req[1]] = tasks[j].ip
              /\ req[tasks[j].req].file = inum[tasks[j].ip]
<1> QED
  BY Zenon DEF IInv, Queue

LEMMA QueueIs ==
  ASSUME IInv
  PROVE  /\ \A j \in 1 .. Len(tasks) :
              /\ req[tasks[j].req] # NoReq /\ req[tasks[j].req].off = tasks[j].off
              /\ req[tasks[j].req].n = tasks[j].n /\ inum[tasks[j].ip] \in File
         /\ \A j, k \in 1 .. Len(tasks) : tasks[j].req = tasks[k].req => j = k
<1> QED
  BY Zenon DEF IInv, Queue

(* The task the kernel thread works on. *)
LEMMA HeadPending ==
  ASSUME IInv, kth \in {"loop", "copy", "status"}
  PROVE  /\ tasks # <<>> /\ 1 \in Pending /\ 1 \in 1 .. Len(tasks)
         /\ Task \in Tasks /\ Task.req \in Req /\ Task.ip \in Inode
         /\ inum[Task.ip] \in File /\ TaskSize \in Nat
         /\ Task.n \in Nat \ {0} /\ Task.off \in Nat
         /\ req[Task.req].off = Task.off /\ req[Task.req].n = Task.n
         /\ status[Task.req] = 0
         /\ Task.req \notin hasty =>
              /\ req[Task.req].file = inum[Task.ip] /\ st[Task.req[1]] = "run"
              /\ Task.off + Task.n =< TaskSize
<1>1. tasks # <<>> /\ tasks \in Seq(Tasks)
  BY DEF IInv, Thread, TypeOK
<1>2. 1 \in Pending /\ 1 \in 1 .. Len(tasks)
  BY <1>1 DEF Pending
<1>3. Task \in Tasks
  BY <1>1, <1>2 DEF Task
<1>4. Task.req \in Req /\ Task.ip \in Inode /\ Task.off \in Nat
  BY <1>3 DEF Tasks
<1>5. /\ status[Task.req] = 0
      /\ Task.req \notin hasty =>
           req[Task.req].file = inum[Task.ip] /\ st[Task.req[1]] = "run"
  BY <1>2, QueueAt DEF Task
<1>6. /\ req[Task.req] # NoReq /\ req[Task.req].off = Task.off
      /\ req[Task.req].n = Task.n /\ inum[Task.ip] \in File
  BY <1>2, QueueIs DEF Task
<1>7. /\ Task.n \in Nat \ {0}
      /\ Task.req \notin hasty => Task.off + Task.n =< Size[inum[Task.ip]]
  BY <1>4, <1>5, <1>6, Zenon DEF IInv, Asked
<1> QED
  BY <1>1, <1>2, <1>3, <1>4, <1>5, <1>6, <1>7, AioConstants, Zenon DEF TaskSize

(* What is pending for a process when it closes its file or exits is from  *)
(* then on among the requests it did not wait for.                         *)
LEMMA LeftBehind ==
  ASSUME IInv, NEW p \in Proc
  PROVE  /\ Unanswered(p) \subseteq Req
         /\ \A j \in Pending : tasks[j].req[1] = p => tasks[j].req \in Unanswered(p)
<1>1. Unanswered(p) \subseteq Req
  BY AioConstants DEF Unanswered, Req, IInv, TypeOK
<1>2. ASSUME NEW j \in Pending, tasks[j].req[1] = p
      PROVE  tasks[j].req \in Unanswered(p)
  <2>1. j \in 1 .. Len(tasks) /\ tasks[j] \in Tasks
    BY PendingTyped
  <2>2. tasks[j].req \in Req
    BY <2>1 DEF Tasks
  <2>3. req[tasks[j].req] # NoReq /\ status[tasks[j].req] = 0
    BY <2>1, QueueAt, QueueIs, Zenon
  <2>4. /\ tasks[j].req[2] =< issued[p]
        /\ req[tasks[j].req].n \in Nat \ {0}
    BY <1>2, <2>2, <2>3 DEF IInv, Asked
  <2>5. tasks[j].req \in {p} \X (1 .. issued[p])
    BY <1>2, <2>2, <2>4, AioConstants DEF Req, IInv, TypeOK
  <2> QED
    BY <2>3, <2>4, <2>5 DEF Unanswered
<1> QED
  BY <1>1, <1>2

-----------------------------------------------------------------------------
(* What keeps a part of the invariant as it is.                            *)

LEMMA RequestsStay ==
  ASSUME IInv, ~stray, UNCHANGED <<fd, issued, req, inum, ref, stray>>
  PROVE  Holders' /\ Asked' /\ PageTableLive'
<1>1. Holders'
  BY Zenon DEF IInv, Holders, HoldersOf
<1>2. Asked'
  BY Zenon DEF IInv, Asked
<1>3. PageTableLive'
  BY Zenon DEF PageTableLive
<1> QED
  BY <1>1, <1>2, <1>3

LEMMA DeliveredStays ==
  ASSUME IInv, hasty \subseteq hasty', UNCHANGED <<req, status, buffer>>
  PROVE  Delivered'
<1>1. \A r \in Req : FirstPage(r)' = FirstPage(r)
  BY Zenon DEF FirstPage
<1> QED
  BY <1>1 DEF IInv, Delivered, Accepted

LEMMA QueueStays ==
  ASSUME IInv, UNCHANGED <<tasks, req>>, hasty \subseteq hasty',
         \A j \in Pending' :
           /\ j \in Pending
           /\ status'[tasks[j].req] = status[tasks[j].req]
           /\ tasks[j].req \notin hasty' =>
                /\ st'[tasks[j].req[1]] = st[tasks[j].req[1]]
                /\ fd'[tasks[j].req[1]] = fd[tasks[j].req[1]]
                /\ inum'[tasks[j].ip] = inum[tasks[j].ip],
         \A j \in 1 .. Len(tasks) : inum'[tasks[j].ip] \in File
  PROVE  Queue'
<1>1. ASSUME NEW j \in Pending'
      PROVE  /\ status'[tasks'[j].req] = 0
             /\ tasks'[j].req \notin hasty' =>
                  /\ st'[tasks'[j].req[1]] = "run"
                  /\ fd'[tasks'[j].req[1]] = tasks'[j].ip
                  /\ req'[tasks'[j].req].file = inum'[tasks'[j].ip]
  BY <1>1, QueueAt
<1> QED
  BY <1>1, QueueIs, Zenon DEF Queue

LEMMA ThreadStays ==
  ASSUME IInv, hasty \subseteq hasty',
         UNCHANGED <<req, buffer, inum, tasks, kth, left, tmp>>
  PROVE  Thread'
<1>1. Task' = Task /\ TaskSize' = TaskSize
  BY Zenon DEF Task, TaskSize
<1>2. FirstPage(Task.req)' = FirstPage(Task.req)
  BY Zenon DEF Task, FirstPage
<1>3. Loop => Loop'
  BY <1>1, <1>2, Zenon DEF Loop
<1> QED
  BY <1>1, <1>3 DEF IInv, Thread

-----------------------------------------------------------------------------
(* One lemma for each action.                                              *)

(* A new request is the last of its process and of the queue.              *)
LEMMA AreadKeeps ==
  ASSUME IInv, ~stray, NEW p \in Proc, NEW a \in Ask, Aread(p, a[1], a[2])
  PROVE  IInv'
<1> DEFINE ip == fd[p]
           size == Size[inum[ip]]
           r == <<p, issued[p] + 1>>
           n == IF a[1] + a[2] > size THEN size - a[1] ELSE a[2]
           t == [req |-> r, ip |-> ip, off |-> a[1], n |-> n]
<1>1. /\ ip # 0 /\ issued[p] < MaxReq /\ a[2] > 0 /\ st[p] = "run"
      /\ issued' = [issued EXCEPT ![p] = @ + 1]
      /\ status' = [status EXCEPT ![r] = 0]
      /\ UNCHANGED <<st, fd, hasty, buffer, inum, ref, kth, left, tmp, stray>>
  BY DEF Aread, kthVars
<1>2. \/ size =< a[1] /\ UNCHANGED <<req, tasks>>
      \/ /\ ~ size =< a[1]
         /\ req' = [req EXCEPT ![r] = [file |-> inum[ip], off |-> a[1], n |-> n]]
         /\ tasks' = Append(tasks, t)
  BY DEF Aread
<1>3. /\ a[1] \in Nat /\ a[2] \in Nat /\ PGSIZE \in Nat
      /\ ip \in Inode /\ inum[ip] \in File /\ size \in Nat
      /\ issued[p] \in Nat /\ MaxReq \in Nat /\ r \in Req
      /\ req[r] = NoReq
  <2>1. a[1] \in Nat /\ a[2] \in Nat /\ PGSIZE \in Nat
    BY AioConstants
  <2>2. ip \in Inode /\ inum[ip] \in File
    BY <1>1 DEF IInv, TypeOK, Holders, HoldersOf
  <2>3. size \in Nat
    BY <2>2, AioConstants, Zenon
  <2>4. issued[p] \in Nat /\ MaxReq \in Nat /\ r \in Req
    BY <1>1, AioConstants DEF IInv, TypeOK, Req
  <2>5. req[r] = NoReq
    BY <2>4 DEF IInv, Asked
  <2> QED
    BY <2>1, <2>2, <2>3, <2>4, <2>5
<1>4. ~ size =< a[1] => n \in Nat \ {0} /\ a[1] + n =< size
  BY <1>1, <1>3
<1>5. ~ size =< a[1] => t \in Tasks
  BY <1>3, <1>4 DEF Tasks
<1> HIDE DEF n, t, r, size, ip
<1>6. \A j \in 1 .. Len(tasks) : tasks[j] \in Tasks /\ tasks[j].req # r
  <2> SUFFICES ASSUME NEW j \in 1 .. Len(tasks)
               PROVE  tasks[j] \in Tasks /\ tasks[j].req # r
    OBVIOUS
  <2>1. tasks[j] \in Tasks
    BY DEF IInv, TypeOK
  <2>2. req[tasks[j].req] # NoReq
    BY QueueIs
  <2> QED
    BY <2>1, <2>2, <1>3
<1>7. \A q \in Req : q # r => req'[q] = req[q] /\ status'[q] = status[q]
  BY <1>1, <1>2, <1>3 DEF IInv, TypeOK
<1>8. TypeOK'
  <2>1. req' \in [Req -> Requests]
    <3>1. ~ size =< a[1] =>
            [file |-> inum[ip], off |-> a[1], n |-> n] \in Requests
      BY <1>3, <1>4 DEF Requests
    <3>2. req \in [Req -> Requests]
      BY DEF IInv, TypeOK
    <3> QED
      BY <3>1, <3>2, <1>2
  <2>2. tasks' \in Seq(Tasks)
    <3>1. tasks \in Seq(Tasks)
      BY DEF IInv, TypeOK
    <3> QED
      BY <3>1, <1>2, <1>5
  <2>3. status' \in [Req -> Nat]
    BY <1>1, <1>3 DEF IInv, TypeOK
  <2>4. issued' \in [Proc -> 0 .. MaxReq]
    BY <1>1, <1>3 DEF IInv, TypeOK
  <2> QED
    BY <2>1, <2>2, <2>3, <2>4, <1>1 DEF IInv, TypeOK
<1>9. Holders' /\ PageTableLive'
  BY <1>1, Zenon DEF IInv, Holders, HoldersOf, PageTableLive
<1>10. req'[r] = NoReq \/ (/\ req'[r] = [file |-> inum[ip], off |-> a[1], n |-> n]
                          /\ ~ size =< a[1])
  BY <1>2, <1>3 DEF IInv, TypeOK
<1>11. Asked'
  <2> SUFFICES ASSUME NEW q \in Req, req'[q] # NoReq
               PROVE  /\ q[2] =< issued'[q[1]]
                      /\ req'[q].file \in File /\ req'[q].n \in Nat \ {0}
                      /\ req'[q].off + req'[q].n =< Size[req'[q].file]
    BY DEF Asked
  <2>1. CASE q = r
    <3>1. q[2] =< issued'[q[1]]
      BY <2>1, <1>1, <1>3 DEF r, IInv, TypeOK
    <3> QED
      BY <3>1, <2>1, <1>10, <1>4, <1>3 DEF size
  <2>2. CASE q # r
    <3>1. req'[q] = req[q]
      BY <2>2, <1>7
    <3>2. issued'[q[1]] >= issued[q[1]] /\ issued[q[1]] \in Nat /\ issued'[q[1]] \in Nat
      <4>1. q[1] \in Proc /\ issued \in [Proc -> 0 .. MaxReq]
        BY DEF Req, IInv, TypeOK
      <4> QED
        BY <4>1, <1>1, <1>3
    <3>3. q[2] \in Nat
      BY DEF Req
    <3> QED
      BY <3>1, <3>2, <3>3 DEF IInv, Asked
  <2> QED
    BY <2>1, <2>2
<1>12. Delivered'
  <2> SUFFICES ASSUME NEW q \in Req, q \notin hasty, req'[q] # NoReq,
                      status'[q] = req'[q].n
               PROVE  FirstPage(q)'
    BY <1>1 DEF Delivered, Accepted
  <2>1. q # r
    BY <1>1, <1>3, <1>4, <1>10 DEF IInv, TypeOK
  <2>2. FirstPage(q)
    BY <2>1, <1>7 DEF IInv, Delivered, Accepted
  <2> QED
    BY <2>1, <2>2, <1>1, <1>7, Zenon DEF FirstPage
<1>13. Queue'
  <2>1. CASE UNCHANGED <<req, tasks>>
    <3>1. \A j \in Pending : status'[tasks[j].req] = status[tasks[j].req]
      BY <1>6, <1>7 DEF Tasks, Pending
    <3>2. Pending' = Pending
      BY <2>1, <1>1, Zenon DEF Pending
    <3>3. \A j \in 1 .. Len(tasks) : inum'[tasks[j].ip] \in File
      BY <1>1, QueueIs, Zenon
    <3>4. hasty \subseteq hasty'
      BY <1>1
    <3> QED
      BY <2>1, <3>1, <3>2, <3>3, <3>4, <1>1, QueueStays, Zenon
  <2>2. CASE /\ ~ size =< a[1] /\ tasks' = Append(tasks, t)
             /\ req' = [req EXCEPT ![r] = [file |-> inum[ip], off |-> a[1], n |-> n]]
    <3>0. tasks \in Seq(Tasks) /\ t \in Tasks
      BY <2>2, <1>5 DEF IInv, TypeOK
    <3>1. /\ Len(tasks') = Len(tasks) + 1 /\ Len(tasks) \in Nat
          /\ tasks'[Len(tasks) + 1] = t
          /\ \A j \in 1 .. Len(tasks) : tasks'[j] = tasks[j]
      BY <2>2, <3>0
    <3>2. /\ t.req = r /\ t.ip = ip /\ t.off = a[1] /\ t.n = n /\ r[1] = p
      BY DEF t, r
    <3>3. req'[r] = [file |-> inum[ip], off |-> a[1], n |-> n] /\ req'[r] # NoReq
      BY <2>2, <1>3, <1>4 DEF IInv, TypeOK, NoReq
    <3>4. \A j \in Pending' : j \in Pending \/ j = Len(tasks) + 1
      BY <3>1, <1>1 DEF Pending
    <3>5. ASSUME NEW j \in Pending'
          PROVE  /\ status'[tasks'[j].req] = 0
                 /\ tasks'[j].req \notin hasty' =>
                      /\ st'[tasks'[j].req[1]] = "run"
                      /\ fd'[tasks'[j].req[1]] = tasks'[j].ip
                      /\ req'[tasks'[j].req].file = inum'[tasks'[j].ip]
      <4>1. CASE j = Len(tasks) + 1
        <5>1. tasks'[j] = t
          BY <4>1, <3>1
        <5>2. status'[r] = 0
          BY <1>1, <1>3 DEF IInv, TypeOK
        <5> QED
          BY <5>1, <5>2, <3>2, <3>3, <1>1 DEF ip
      <4>2. CASE j \in Pending
        <5>1. j \in 1 .. Len(tasks) /\ tasks'[j] = tasks[j]
          BY <4>2, <3>1 DEF Pending
        <5>2. tasks[j].req \in Req /\ tasks[j].req # r
          BY <5>1, <1>6 DEF Tasks
        <5> QED
          BY <4>2, <5>1, <5>2, <1>1, <1>7, QueueAt
      <4> QED
        BY <3>4, <4>1, <4>2
    <3>6. ASSUME NEW j \in 1 .. Len(tasks')
          PROVE  /\ req'[tasks'[j].req] # NoReq
                 /\ req'[tasks'[j].req].off = tasks'[j].off
                 /\ req'[tasks'[j].req].n = tasks'[j].n
                 /\ inum'[tasks'[j].ip] \in File
      <4>1. CASE j = Len(tasks) + 1
        BY <4>1, <3>1, <3>2, <3>3, <1>1, <1>3
      <4>2. CASE j \in 1 .. Len(tasks)
        <5>1. tasks[j].req \in Req /\ tasks[j].req # r
          BY <4>2, <1>6 DEF Tasks
        <5> QED
          BY <4>2, <5>1, <3>1, <1>1, <1>7, QueueIs
      <4> QED
        BY <3>1, <4>1, <4>2
    <3>7. ASSUME NEW j \in 1 .. Len(tasks'), NEW k \in 1 .. Len(tasks'),
                 tasks'[j].req = tasks'[k].req
          PROVE  j = k
      <4>1. CASE j \in 1 .. Len(tasks) /\ k \in 1 .. Len(tasks)
        BY <4>1, <3>1, <3>7, QueueIs
      <4>2. CASE j \in 1 .. Len(tasks) /\ k = Len(tasks) + 1
        BY <4>2, <3>1, <3>2, <3>7, <1>6
      <4>3. CASE k \in 1 .. Len(tasks) /\ j = Len(tasks) + 1
        BY <4>3, <3>1, <3>2, <3>7, <1>6
      <4> QED
        BY <3>1, <4>1, <4>2, <4>3
    <3> QED
      BY <3>5, <3>6, <3>7 DEF Queue
  <2> QED
    BY <2>1, <2>2, <1>2
<1>14. Thread'
  <2>1. tasks # <<>> => tasks' # <<>> /\ tasks'[1] = tasks[1]
    <3>1. tasks \in Seq(Tasks)
      BY DEF IInv, TypeOK
    <3> QED
      BY <3>1, <1>2, <1>5
  <2>2. kth \in {"loop", "copy", "status"} =>
          req'[tasks[1].req] = req[tasks[1].req] /\ tasks # <<>>
    BY HeadPending, <1>6, <1>7 DEF Task, Pending
  <2>3. kth \in {"loop", "copy", "status"} =>
          Task' = Task /\ TaskSize' = TaskSize /\ FirstPage(Task.req)' = FirstPage(Task.req)
    BY <2>1, <2>2, <1>1, Zenon DEF Task, TaskSize, FirstPage
  <2>4. kth \in {"loop", "copy", "status"} /\ Loop => Loop'
    BY <2>3, <1>1, Zenon DEF Loop
  <2> QED
    BY <2>1, <2>3, <2>4, <1>1, Zenon DEF IInv, Thread
<1> QED
  BY <1>8, <1>9, <1>11, <1>12, <1>13, <1>14, Zenon DEF IInv

(* wait frees the page table of a process that has left.                   *)
LEMMA ReapKeeps ==
  ASSUME IInv, ~stray, NEW p \in Proc, Reap(p)
  PROVE  IInv'
<1>1. /\ UNCHANGED <<fd, issued, req, hasty, status, buffer, inum, ref, tasks, kth, left,
                     tmp, stray>>
      /\ st[p] = "zombie" /\ st' = [st EXCEPT ![p] = "freed"]
  BY DEF Reap, kthVars
<1>2. TypeOK'
  BY <1>1 DEF IInv, TypeOK
<1>a. hasty \subseteq hasty' /\ \A j \in 1 .. Len(tasks) : inum'[tasks[j].ip] \in File
  BY <1>1, QueueIs
<1>3. Queue'
  <2>1. \A j \in Pending :
          tasks[j].req \notin hasty => st'[tasks[j].req[1]] = st[tasks[j].req[1]]
    <3> TAKE j \in Pending
    <3> HAVE tasks[j].req \notin hasty
    <3>1. tasks[j] \in Tasks
      BY PendingTyped
    <3>2. tasks[j].req[1] \in Proc
      BY <3>1 DEF Tasks, Req
    <3>3. st[tasks[j].req[1]] = "run"
      BY QueueAt, Zenon
    <3> QED
      BY <3>2, <3>3, <1>1 DEF IInv, TypeOK
  <2>2. Pending' = Pending
    BY <1>1, Zenon DEF Pending
  <2> QED
    BY <2>1, <2>2, <1>1, <1>a, QueueStays, Zenon
<1>4. Thread'
  BY <1>1, <1>a, ThreadStays
<1>5. Holders' /\ Asked' /\ PageTableLive'
  BY <1>1, RequestsStay
<1>6. Delivered'
  BY <1>1, <1>a, DeliveredStays
<1> QED
  BY <1>2, <1>3, <1>4, <1>5, <1>6, Zenon DEF IInv

(* The steps of the kernel thread that leave the requests alone.           *)
LEMMA PollKeeps ==
  ASSUME IInv, ~stray, Poll \/ Tick
  PROVE  IInv'
<1>1. /\ UNCHANGED <<st, fd, issued, req, hasty, status, buffer, inum, ref, tasks,
                     tmp, stray>>
      /\ kth \in {"poll", "asleep"} /\ kth' \in {"poll", "asleep", "loop"}
      /\ kth' = "loop" => tasks # <<>> /\ left' = TaskSize
      /\ kth' # "loop" => left' = left
  BY DEF Poll, Tick, userVars
<1>2. Pending' = Pending
  BY <1>1 DEF Pending
<1>3. tasks # <<>> => TaskSize \in Nat
  <2> SUFFICES ASSUME tasks # <<>> PROVE TaskSize \in Nat
    OBVIOUS
  <2>1. 1 \in 1 .. Len(tasks)
    BY DEF IInv, TypeOK
  <2>2. inum[tasks[1].ip] \in File
    BY <2>1, QueueIs
  <2> QED
    BY <2>2, AioConstants, Zenon DEF TaskSize, Task
<1>a. hasty \subseteq hasty' /\ \A j \in 1 .. Len(tasks) : inum'[tasks[j].ip] \in File
  BY <1>1, QueueIs
<1>4. TypeOK'
  BY <1>1, <1>3 DEF IInv, TypeOK
<1>5. Queue'
  BY <1>1, <1>2, <1>a, QueueStays, Zenon
<1>6. Thread'
  <2>1. TaskSize' = TaskSize
    BY <1>1, Zenon DEF Task, TaskSize
  <2> QED
    BY <2>1, <1>1 DEF Thread, Loop
<1>7. Holders' /\ Asked' /\ PageTableLive'
  BY <1>1, RequestsStay
<1>8. Delivered'
  BY <1>1, <1>a, DeliveredStays
<1> QED
  BY <1>4, <1>5, <1>6, <1>7, <1>8, Zenon DEF IInv

(* readi brings every byte that was asked for, up to a page, into tmp.     *)
LEMMA ReadTurnKeeps ==
  ASSUME IInv, ~stray, ReadTurn
  PROVE  IInv'
<1>1. /\ UNCHANGED <<st, fd, issued, req, hasty, status, buffer, inum, ref, tasks,
                     stray>>
      /\ kth = "loop" /\ kth' \in {"copy", "status"}
  BY DEF ReadTurn, userVars
<1>2. /\ tasks # <<>> /\ Task.ip \in Inode /\ inum[Task.ip] \in File
      /\ TaskSize \in Nat /\ Task.n \in Nat \ {0} /\ Task.off \in Nat
      /\ Task.req \notin hasty => Task.off + Task.n =< TaskSize
      /\ PGSIZE \in Nat \ {0}
  BY <1>1, HeadPending, AioConstants
<1>3. left \in Int /\ tmp \in [0 .. PGSIZE - 1 -> Data]
  BY DEF IInv, TypeOK
<1>a. hasty \subseteq hasty' /\ \A j \in 1 .. Len(tasks) : inum'[tasks[j].ip] \in File
  BY <1>1, QueueIs
<1>b. Task' = Task /\ TaskSize' = TaskSize /\ FirstPage(Task.req)' = FirstPage(Task.req)
  BY <1>1, Zenon DEF Task, TaskSize, FirstPage
<1>c. Task.req \notin hasty =>
        left = TaskSize \/ (FirstPage(Task.req) /\ (TaskSize > PGSIZE \/ left =< 0))
  BY <1>1 DEF IInv, Thread, Loop
<1>4. ASSUME left > 0 PROVE TypeOK' /\ Thread'
  <2> DEFINE m == IF TaskSize > PGSIZE THEN PGSIZE ELSE left
  <2>1. /\ kth' = "copy" /\ tmp' = ReadI(Task.off, m)
        /\ left' = IF TaskSize > PGSIZE THEN left - PGSIZE ELSE 0
    BY <1>4 DEF ReadTurn
  <2>2. m \in Int /\ (Task.req \notin hasty => m >= Task.n \/ m >= PGSIZE)
    BY <1>2, <1>3, <1>4, <1>c
  <2> HIDE DEF m
  <2>3. tmp' \in [0 .. PGSIZE - 1 -> Data]
    BY <2>1, <1>2, <1>3 DEF ReadI, Data, Byte
  <2>4. Task.req \notin hasty =>
          \A k \in 0 .. PGSIZE - 1 :
            k < Task.n => tmp'[k] = <<inum[Task.ip], Task.off + k>>
    BY <2>1, <2>2, <1>2 DEF ReadI
  <2>5. left' \in Int
    BY <2>1, <1>2, <1>3
  <2>6. TypeOK'
    BY <2>3, <2>5, <1>1 DEF IInv, TypeOK
  <2>8. TaskSize > PGSIZE \/ left' =< 0
    BY <2>1, <1>2, <1>3
  <2>9. Thread'
    BY <2>1, <2>4, <2>8, <1>b, <1>1, <1>2 DEF Thread, Loop
  <2> QED
    BY <2>6, <2>9
<1>5. ASSUME ~ left > 0 PROVE TypeOK' /\ Thread'
  <2>1. kth' = "status" /\ UNCHANGED <<left, tmp>>
    BY <1>5 DEF ReadTurn
  <2>2. TypeOK'
    BY <2>1, <1>1 DEF IInv, TypeOK
  <2>3. Task.req \notin hasty => FirstPage(Task.req)
    BY <1>2, <1>3, <1>5, <1>c
  <2>5. Thread'
    BY <2>1, <2>3, <1>b, <1>1, <1>2 DEF Thread, Loop
  <2> QED
    BY <2>2, <2>5
<1>6. Queue'
  <2>1. Pending' = Pending
    BY <1>1, Zenon DEF Pending
  <2> QED
    BY <2>1, <1>1, <1>a, QueueStays, Zenon
<1>7. Holders' /\ Asked' /\ PageTableLive'
  BY <1>1, RequestsStay
<1>8. Delivered'
  BY <1>1, <1>a, DeliveredStays
<1> QED
  BY <1>4, <1>5, <1>6, <1>7, <1>8, Zenon DEF IInv

(* copyout gives the user what readi has brought, or finds the page table  *)
(* of a process that did not wait.                                         *)
LEMMA CopyDataKeeps ==
  ASSUME IInv, ~stray, CopyData
  PROVE  IInv'
<1>1. /\ UNCHANGED <<st, fd, issued, req, hasty, status, inum, ref, tasks, left, tmp>>
      /\ kth = "copy" /\ kth' = "loop"
  BY DEF CopyData, userVars
<1>2. /\ tasks # <<>> /\ Task.req \in Req /\ Task.n \in Nat \ {0}
      /\ Task.off \in Nat /\ TaskSize \in Nat
      /\ req[Task.req].off = Task.off /\ req[Task.req].n = Task.n
      /\ PGSIZE \in Nat \ {0} /\ status[Task.req] = 0
      /\ Task.req \notin hasty =>
           req[Task.req].file = inum[Task.ip] /\ st[Task.req[1]] = "run"
  BY <1>1, HeadPending, AioConstants
<1>a. hasty \subseteq hasty' /\ \A j \in 1 .. Len(tasks) : inum'[tasks[j].ip] \in File
  BY <1>1, QueueIs
<1>b. Task' = Task /\ TaskSize' = TaskSize
  BY <1>1, Zenon DEF Task, TaskSize
<1>3. Queue'
  <2>1. Pending' = Pending
    BY <1>1, Zenon DEF Pending
  <2> QED
    BY <2>1, <1>1, <1>a, QueueStays, Zenon
<1>4. Holders' /\ Asked'
  BY <1>1, Zenon DEF IInv, Holders, HoldersOf, Asked
<1>5. CASE st[Task.req[1]] = "freed"
  <2>1. stray' = TRUE /\ UNCHANGED buffer /\ Task.req \in hasty
    BY <1>5, <1>2 DEF CopyData
  <2>2. TypeOK'
    BY <1>1, <2>1 DEF IInv, TypeOK
  <2>3. Delivered'
    BY <1>1, <1>a, <2>1, DeliveredStays
  <2>4. Thread' /\ PageTableLive'
    BY <1>1, <1>2, <1>b, <2>1, Zenon DEF Thread, PageTableLive
  <2> QED
    BY <1>3, <1>4, <2>2, <2>3, <2>4, Zenon DEF IInv
<1>6. CASE st[Task.req[1]] # "freed"
  <2>1. /\ buffer' = [buffer EXCEPT ![Task.req] = FromTmp(Task.n)]
        /\ UNCHANGED stray
    BY <1>6 DEF CopyData
  <2>2. buffer \in [Req -> Seq(Data)] /\ FromTmp(Task.n) \in Seq(Data)
    <3>0. tmp \in [0 .. PGSIZE - 1 -> Data] /\ Junk \in Data
      BY DEF IInv, TypeOK, Data
    <3>1. \A k \in 1 .. Task.n : (IF k =< PGSIZE THEN tmp[k - 1] ELSE Junk) \in Data
      BY <3>0, <1>2
    <3>2. FromTmp(Task.n) \in Seq(Data)
      BY <3>1, <1>2 DEF FromTmp
    <3> QED
      BY <3>2 DEF IInv, TypeOK
  <2>3. /\ buffer'[Task.req] = FromTmp(Task.n)
        /\ \A q \in Req : q # Task.req => buffer'[q] = buffer[q]
    BY <2>1, <2>2, <1>2
  <2>4. Task.req \notin hasty => FirstPage(Task.req)'
    <3> SUFFICES ASSUME Task.req \notin hasty PROVE FirstPage(Task.req)'
      OBVIOUS
    <3>1. \A k \in 0 .. PGSIZE - 1 :
            k < Task.n => tmp[k] = <<inum[Task.ip], Task.off + k>>
      BY <1>1 DEF IInv, Thread, Loop
    <3>2. Len(FromTmp(Task.n)) = Task.n
      BY <1>2 DEF FromTmp
    <3>3. \A k \in 1 .. Task.n :
            k =< PGSIZE => FromTmp(Task.n)[k] = <<inum[Task.ip], Task.off + k - 1>>
      <4> SUFFICES ASSUME NEW k \in 1 .. Task.n, k =< PGSIZE
                   PROVE  FromTmp(Task.n)[k] = <<inum[Task.ip], Task.off + k - 1>>
        OBVIOUS
      <4>1. /\ k - 1 \in 0 .. PGSIZE - 1 /\ k - 1 < Task.n
            /\ Task.off + (k - 1) = Task.off + k - 1
        BY <1>2
      <4>2. FromTmp(Task.n)[k] = tmp[k - 1]
        BY DEF FromTmp
      <4> QED
        BY <4>1, <4>2, <3>1
    <3> QED
      BY <3>2, <3>3, <2>3, <1>1, <1>2, <1>b DEF FirstPage
  <2>5. TypeOK'
    <3>1. buffer' \in [Req -> Seq(Data)]
      BY <2>1, <2>2, <1>2
    <3> QED
      BY <1>1, <2>1, <3>1 DEF IInv, TypeOK
  <2>6. Delivered'
    <3> SUFFICES ASSUME NEW q \in Req, q \notin hasty, req[q] # NoReq,
                        status[q] = req[q].n
                 PROVE  FirstPage(q)'
      BY <1>1 DEF Delivered, Accepted
    <3>1. FirstPage(q) /\ q # Task.req
      BY <1>2 DEF IInv, Delivered, Accepted
    <3> QED
      BY <3>1, <2>3, <1>1, Zenon DEF FirstPage
  <2>7. Thread'
    <3>1. Task.req \notin hasty => TaskSize > PGSIZE \/ left =< 0
      BY <1>1 DEF IInv, Thread, Loop
    <3> QED
      BY <3>1, <2>4, <1>b, <1>1, <1>2 DEF Thread, Loop
  <2>8. PageTableLive'
    BY <2>1 DEF PageTableLive
  <2> QED
    BY <1>3, <1>4, <2>5, <2>6, <2>7, <2>8, Zenon DEF IInv
<1> QED
  BY <1>5, <1>6

(* The status word is written when the buffer is complete.                 *)
LEMMA CopyStatusKeeps ==
  ASSUME IInv, ~stray, CopyStatus
  PROVE  IInv'
<1>1. /\ UNCHANGED <<st, fd, issued, req, hasty, buffer, inum, ref, tasks, left>>
      /\ kth = "status" /\ kth' = "remove"
      /\ tmp' = [k \in 0 .. PGSIZE - 1 |-> Zero]
  BY Zenon DEF CopyStatus, userVars
<1>2. /\ tasks # <<>> /\ Task.req \in Req /\ Task.n \in Nat \ {0}
      /\ PGSIZE \in Nat \ {0} /\ 1 \in 1 .. Len(tasks)
      /\ Task.req \notin hasty => st[Task.req[1]] = "run"
  BY <1>1, HeadPending, AioConstants
<1>a. hasty \subseteq hasty' /\ \A j \in 1 .. Len(tasks) : inum'[tasks[j].ip] \in File
  BY <1>1, QueueIs
<1>3. /\ status' \in [Req -> Nat]
      /\ \A q \in Req : q # Task.req => status'[q] = status[q]
      /\ \/ UNCHANGED status /\ stray' = TRUE /\ Task.req \in hasty
         \/ UNCHANGED stray
  BY <1>2 DEF CopyStatus, IInv, TypeOK
<1>4. TypeOK'
  BY <1>1, <1>2, <1>3, Zenon DEF IInv, TypeOK, Data
<1>b. \A q \in Req : FirstPage(q)' = FirstPage(q)
  BY <1>1, Zenon DEF FirstPage
<1>5. Delivered'
  <2> SUFFICES ASSUME NEW q \in Req, q \notin hasty, req[q] # NoReq,
                      status'[q] = req[q].n
               PROVE  FirstPage(q)
    BY <1>1, <1>b DEF Delivered, Accepted
  <2>1. CASE q = Task.req
    BY <2>1, <1>1 DEF IInv, Thread, Loop
  <2>2. CASE q # Task.req
    BY <2>2, <1>3 DEF IInv, Delivered, Accepted
  <2> QED
    BY <2>1, <2>2
<1>6. Queue'
  <2>1. \A j \in Pending' : j \in Pending /\ j # 1 /\ j \in 1 .. Len(tasks)
    BY <1>1 DEF Pending
  <2>2. \A j \in Pending' : status'[tasks[j].req] = status[tasks[j].req]
    <3> TAKE j \in Pending'
    <3>1. tasks[j] \in Tasks
      BY <2>1 DEF IInv, TypeOK
    <3>2. tasks[j].req # Task.req /\ tasks[j].req \in Req
      BY <2>1, <3>1, <1>2, QueueIs DEF Task, Tasks
    <3> QED
      BY <3>2, <1>3
  <2> QED
    BY <2>1, <2>2, <1>1, <1>a, QueueStays, Zenon
<1>7. Thread'
  BY <1>1, <1>2 DEF Thread
<1>8. Holders' /\ Asked'
  BY <1>1, Zenon DEF IInv, Holders, HoldersOf, Asked
<1>9. PageTableLive'
  <2>1. Task' = Task
    BY <1>1 DEF Task
  <2> QED
    BY <2>1, <1>1, <1>3, Zenon DEF PageTableLive
<1> QED
  BY <1>4, <1>5, <1>6, <1>7, <1>8, <1>9, Zenon DEF IInv

(* The memmove: every other task moves up by one.                          *)
LEMMA RemoveKeeps ==
  ASSUME IInv, ~stray, Remove
  PROVE  IInv'
<1>1. /\ UNCHANGED <<st, fd, issued, req, hasty, status, buffer, inum, ref, left, tmp,
                     stray>>
      /\ kth = "remove" /\ kth' = "poll" /\ tasks' = Tail(tasks)
  BY DEF Remove, userVars
<1>2. tasks \in Seq(Tasks) /\ tasks # <<>>
  BY <1>1 DEF IInv, TypeOK, Thread
<1>3. /\ Len(tasks') = Len(tasks) - 1 /\ Len(tasks) \in Nat
      /\ tasks' \in Seq(Tasks)
      /\ \A j \in 1 .. Len(tasks') :
           j + 1 \in 1 .. Len(tasks) /\ tasks'[j] = tasks[j + 1]
  BY <1>1, <1>2
<1>4. TypeOK'
  BY <1>1, <1>3 DEF IInv, TypeOK
<1>5. \A j \in 1 .. Len(tasks') : j + 1 \in Pending
  BY <1>3 DEF Pending
<1>6. Queue'
  <2>1. ASSUME NEW j \in 1 .. Len(tasks')
        PROVE  /\ status'[tasks'[j].req] = 0
               /\ tasks'[j].req \notin hasty' =>
                    /\ st'[tasks'[j].req[1]] = "run"
                    /\ fd'[tasks'[j].req[1]] = tasks'[j].ip
                    /\ req'[tasks'[j].req].file = inum'[tasks'[j].ip]
               /\ req'[tasks'[j].req] # NoReq
               /\ req'[tasks'[j].req].off = tasks'[j].off
               /\ req'[tasks'[j].req].n = tasks'[j].n
               /\ inum'[tasks'[j].ip] \in File
    BY <1>1, <1>3, <1>5, QueueAt, QueueIs
  <2>2. ASSUME NEW j \in 1 .. Len(tasks'), NEW k \in 1 .. Len(tasks'),
               tasks'[j].req = tasks'[k].req
        PROVE  j = k
    <3>1. tasks[j + 1].req = tasks[k + 1].req
      BY <2>2, <1>3
    <3>2. j + 1 = k + 1
      BY <3>1, <1>3, QueueIs, Zenon
    <3> QED
      BY <3>2
  <2>3. \A j \in Pending' : j \in 1 .. Len(tasks')
    BY DEF Pending
  <2> QED
    BY <2>1, <2>2, <2>3, Zenon DEF Queue
<1>7. Thread'
  BY <1>1 DEF Thread, Loop
<1>8. Holders' /\ Asked' /\ PageTableLive'
  BY <1>1, RequestsStay
<1>9. Delivered'
  <2>1. hasty \subseteq hasty'
    BY <1>1
  <2> QED
    BY <2>1, <1>1, DeliveredStays
<1> QED
  BY <1>4, <1>6, <1>7, <1>8, <1>9, Zenon DEF IInv

LEMMA OpenKeeps ==
  ASSUME IInv, ~stray, Counted, NEW p \in Proc, NEW f \in File, Open(p, f),
         \A j \in Inode : HoldersOf(j)'
  PROVE  IInv'
<1> PICK i \in IGet(f) :
      /\ inum' = [inum EXCEPT ![i] = f] /\ ref' = [ref EXCEPT ![i] = @ + 1]
      /\ fd' = [fd EXCEPT ![p] = i]
  BY Zenon DEF Open
<1>1. /\ i \in Inode /\ f # 0 /\ fd[p] = 0 /\ st[p] = "run"
      /\ UNCHANGED <<st, issued, req, hasty, status, buffer, tasks, kth, left, tmp,
                     stray>>
      /\ ref[i] = 0 \/ inum[i] = f
  BY AioConstants DEF IGet, Open, kthVars
<1>2. TypeOK'
  BY <1>1 DEF IInv, TypeOK
<1>3. \A q \in Proc : fd[q] # 0 => inum'[fd[q]] = inum[fd[q]]
  BY <1>1 DEF Counted, IInv, TypeOK
<1>4. Holders'
  <2>1. \A q \in Proc : fd'[q] # 0 => inum'[fd'[q]] \in File
    BY <1>1, <1>3 DEF IInv, Holders, TypeOK
  <2> QED
    BY <2>1 DEF Holders
<1>5. Asked' /\ PageTableLive'
  BY <1>1, Zenon DEF IInv, Asked, PageTableLive
<1>a. /\ hasty \subseteq hasty'
      /\ \A j \in 1 .. Len(tasks) : inum'[tasks[j].ip] \in File
  <2>1. \A k \in Inode : inum[k] \in File => inum'[k] \in File
    BY <1>1 DEF IInv, TypeOK
  <2>2. \A j \in 1 .. Len(tasks) : tasks[j].ip \in Inode
    <3>1. \A j \in 1 .. Len(tasks) : tasks[j] \in Tasks
      BY DEF IInv, TypeOK
    <3> QED
      BY <3>1 DEF Tasks
  <2> QED
    BY <1>1, <2>1, <2>2, QueueIs
<1>6. Delivered'
  BY <1>1, <1>a, DeliveredStays
<1>7. \A j \in Pending :
        tasks[j].req \notin hasty =>
          /\ tasks[j].req[1] # p
          /\ inum'[tasks[j].ip] = inum[tasks[j].ip]
  <2> SUFFICES ASSUME NEW j \in Pending, tasks[j].req \notin hasty
               PROVE  /\ tasks[j].req[1] # p
                      /\ inum'[tasks[j].ip] = inum[tasks[j].ip]
    OBVIOUS
  <2>1. tasks[j] \in Tasks
    BY PendingTyped
  <2>2. tasks[j].req[1] \in Proc /\ tasks[j].ip \in Inode
    BY <2>1 DEF Tasks, Req
  <2>3. fd[tasks[j].req[1]] = tasks[j].ip
    BY QueueAt, Zenon
  <2> QED
    BY <2>2, <2>3, <1>1, <1>3 DEF Inode
<1>8. Queue'
  <2>1. Pending' = Pending
    BY <1>1, Zenon DEF Pending
  <2>2. \A j \in Pending :
          tasks[j].req \notin hasty => fd'[tasks[j].req[1]] = fd[tasks[j].req[1]]
    BY <1>7 DEF IInv, TypeOK
  <2> QED
    BY <2>1, <2>2, <1>1, <1>7, <1>a, QueueStays, Zenon
<1>9. Thread'
  <2> SUFFICES ASSUME kth \in {"loop", "copy", "status"}, Task.req \notin hasty
               PROVE  Loop'
    BY <1>1, Zenon DEF IInv, Thread, Task
  <2>1. 1 \in Pending
    BY HeadPending, Zenon
  <2>2. inum'[Task.ip] = inum[Task.ip]
    BY <2>1, <1>7, Zenon DEF Task
  <2>3. Task' = Task /\ FirstPage(Task.req)' = FirstPage(Task.req) /\ TaskSize' = TaskSize
    BY <1>1, <2>2, Zenon DEF Task, FirstPage, TaskSize
  <2>4. Loop
    BY DEF IInv, Thread
  <2> QED
    BY <2>2, <2>3, <2>4, <1>1, Zenon DEF Loop
<1> QED
  BY <1>2, <1>4, <1>5, <1>6, <1>8, <1>9, Zenon DEF IInv

(* close and exit: what is pending for the process is left behind.         *)
LEMMA LeaveKeeps ==
  ASSUME IInv, ~stray, Counted, NEW p \in Proc, Close(p) \/ Exit(p),
         \A j \in Inode : HoldersOf(j)'
  PROVE  IInv'
<1>1. /\ UNCHANGED <<issued, req, status, buffer, inum, tasks, kth, left, tmp, stray>>
      /\ fd' = [fd EXCEPT ![p] = 0]
      /\ ref' = IF fd[p] = 0 THEN ref ELSE [ref EXCEPT ![fd[p]] = @ - 1]
      /\ st' \in [Proc -> {"run", "zombie", "freed"}]
      /\ \A q \in Proc : q # p => st'[q] = st[q]
      /\ hasty' = hasty \cup Unanswered(p)
  BY Zenon DEF Close, Exit, kthVars, IInv, TypeOK
<1>2. /\ hasty \subseteq hasty' /\ hasty' \subseteq Req
      /\ \A j \in 1 .. Len(tasks) : inum'[tasks[j].ip] \in File
  <2>1. hasty \subseteq Req
    BY DEF IInv, TypeOK
  <2> QED
    BY <1>1, <2>1, LeftBehind, QueueIs, Zenon
<1>3. fd \in [Proc -> Inode \cup {0}] /\ ref \in [Inode -> Nat] /\ 0 \notin Inode
  BY DEF IInv, TypeOK, Inode
<1>4. TypeOK'
  <2>1. ref' \in [Inode -> Nat]
    <3>1. CASE fd[p] = 0
      BY <3>1, <1>1, <1>3
    <3>2. CASE fd[p] # 0
      <4>1. ref[fd[p]] - 1 \in Nat
        BY <3>2, <1>3 DEF Counted
      <4> QED
        BY <4>1, <3>2, <1>1, <1>3
    <3> QED
      BY <3>1, <3>2
  <2>2. fd' \in [Proc -> Inode \cup {0}]
    BY <1>1, <1>3
  <2> QED
    BY <1>1, <1>2, <2>1, <2>2, Zenon DEF IInv, TypeOK
<1>5. Holders'
  <2>1. \A q \in Proc : fd'[q] # 0 => inum'[fd'[q]] \in File
    BY <1>1, <1>3 DEF IInv, Holders
  <2> QED
    BY <2>1 DEF Holders
<1>6. Asked' /\ PageTableLive'
  BY <1>1, Zenon DEF IInv, Asked, PageTableLive
<1>7. Delivered'
  BY <1>1, <1>2, DeliveredStays
<1>8. Queue'
  <2>1. \A j \in Pending :
          tasks[j].req \notin hasty' =>
            /\ fd'[tasks[j].req[1]] = fd[tasks[j].req[1]]
            /\ st'[tasks[j].req[1]] = st[tasks[j].req[1]]
    <3> SUFFICES ASSUME NEW j \in Pending, tasks[j].req \notin hasty'
                 PROVE  /\ fd'[tasks[j].req[1]] = fd[tasks[j].req[1]]
                        /\ st'[tasks[j].req[1]] = st[tasks[j].req[1]]
      OBVIOUS
    <3>1. tasks[j] \in Tasks
      BY PendingTyped
    <3>2. tasks[j].req[1] \in Proc
      BY <3>1 DEF Tasks, Req
    <3>3. tasks[j].req[1] # p
      BY <1>1, LeftBehind
    <3> QED
      BY <3>2, <3>3, <1>1, <1>3
  <2>2. Pending' = Pending
    BY <1>1, Zenon DEF Pending
  <2> QED
    BY <2>1, <2>2, <1>1, <1>2, QueueStays, Zenon
<1>9. Thread'
  BY <1>1, <1>2, ThreadStays
<1> QED
  BY <1>4, <1>5, <1>6, <1>7, <1>8, <1>9, Zenon DEF IInv

-----------------------------------------------------------------------------
(* Counting the holders of an inode-table entry.                           *)
INSTANCE FiniteSetTheorems

(* An entry of the inode cache that somebody has open is counted.          *)
LEMMA OpenCounted ==
  ASSUME IInv
  PROVE  Counted
<1> SUFFICES ASSUME NEW p \in Proc, fd[p] # 0
             PROVE  ref[fd[p]] > 0
  BY DEF Counted
<1>1. fd[p] \in Inode
  BY DEF IInv, TypeOK
<1> DEFINE H == {q \in Proc : fd[q] = fd[p]}
<1>2. IsFiniteSet(H) /\ H # {}
  BY AioConstants, FS_Subset
<1>3. Cardinality(H) \in Nat /\ Cardinality(H) # 0
  BY <1>2, FS_EmptySet, FS_CardinalityType
<1>4. ref[fd[p]] = Cardinality(H)
  BY <1>1 DEF IInv, Holders, HoldersOf
<1> QED
  BY <1>3, <1>4

(* open, close and exit move one descriptor.                               *)
LEMMA CountOpen ==
  ASSUME NEW f \in [Proc -> Inode \cup {0}], NEW p \in Proc, NEW i \in Inode, f[p] = 0
  PROVE  \A j \in Inode :
           Cardinality({q \in Proc : [f EXCEPT ![p] = i][q] = j}) =
             Cardinality({q \in Proc : f[q] = j}) + (IF j = i THEN 1 ELSE 0)
<1> TAKE j \in Inode
<1> DEFINE H == {q \in Proc : f[q] = j}  G == {q \in Proc : [f EXCEPT ![p] = i][q] = j}
<1>0. 0 \notin Inode
  BY DEF Inode
<1>1. IsFiniteSet(H) /\ p \notin H
  BY AioConstants, FS_Subset, <1>0
<1>2. G = IF j = i THEN H \cup {p} ELSE H
  BY <1>0
<1>3. Cardinality(H) \in Nat
  BY <1>1, FS_CardinalityType
<1>4. Cardinality(H \cup {p}) = Cardinality(H) + 1
  BY <1>1, FS_AddElement
<1> HIDE DEF H, G
<1>5. Cardinality(G) = Cardinality(H) + (IF j = i THEN 1 ELSE 0)
  BY <1>2, <1>3, <1>4
<1> QED
  BY <1>5 DEF H, G

LEMMA CountClose ==
  ASSUME NEW f \in [Proc -> Inode \cup {0}], NEW p \in Proc, f[p] # 0
  PROVE  \A j \in Inode :
           Cardinality({q \in Proc : [f EXCEPT ![p] = 0][q] = j}) =
             Cardinality({q \in Proc : f[q] = j}) - (IF j = f[p] THEN 1 ELSE 0)
<1> TAKE j \in Inode
<1> DEFINE H == {q \in Proc : f[q] = j}  G == {q \in Proc : [f EXCEPT ![p] = 0][q] = j}
<1>0. 0 \notin Inode
  BY DEF Inode
<1>1. IsFiniteSet(H)
  BY AioConstants, FS_Subset
<1>2. G = H \ {p}
  BY <1>0
<1>3. Cardinality(H) \in Nat /\ (p \in H <=> j = f[p])
  BY <1>1, FS_CardinalityType
<1>4. Cardinality(H \ {p}) = IF p \in H THEN Cardinality(H) - 1 ELSE Cardinality(H)
  BY <1>1, FS_RemoveElement
<1> HIDE DEF H, G
<1>5. Cardinality(G) = Cardinality(H) - (IF j = f[p] THEN 1 ELSE 0)
  BY <1>2, <1>3, <1>4
<1> QED
  BY <1>5 DEF H, G

LEMMA OpenCounts ==
  ASSUME IInv, NEW p \in Proc, NEW f \in File, Open(p, f)
  PROVE  \A j \in Inode : HoldersOf(j)'
<1> PICK i \in IGet(f) : ref' = [ref EXCEPT ![i] = @ + 1] /\ fd' = [fd EXCEPT ![p] = i]
  BY Zenon DEF Open
<1> TAKE j \in Inode
<1>1. /\ fd \in [Proc -> Inode \cup {0}] /\ ref \in [Inode -> Nat]
      /\ i \in Inode /\ fd[p] = 0
  BY DEF IInv, TypeOK, IGet, Open
<1>2. Cardinality({q \in Proc : [fd EXCEPT ![p] = i][q] = j}) =
        Cardinality({q \in Proc : fd[q] = j}) + (IF j = i THEN 1 ELSE 0)
  BY <1>1, CountOpen
<1>3. ref[j] = Cardinality({q \in Proc : fd[q] = j})
  BY DEF IInv, Holders, HoldersOf
<1>4. ref'[j] = ref[j] + (IF j = i THEN 1 ELSE 0)
  BY <1>1
<1> QED
  BY <1>2, <1>3, <1>4 DEF HoldersOf

LEMMA LeaveCounts ==
  ASSUME IInv, NEW p \in Proc, Close(p) \/ Exit(p)
  PROVE  \A j \in Inode : HoldersOf(j)'
<1> TAKE j \in Inode
<1>1. /\ fd' = [fd EXCEPT ![p] = 0]
      /\ ref' = IF fd[p] = 0 THEN ref ELSE [ref EXCEPT ![fd[p]] = @ - 1]
  BY Zenon DEF Close, Exit
<1>2. fd \in [Proc -> Inode \cup {0}] /\ ref \in [Inode -> Nat] /\ 0 \notin Inode
  BY DEF IInv, TypeOK, Inode
<1>3. ref[j] = Cardinality({q \in Proc : fd[q] = j})
  BY DEF IInv, Holders, HoldersOf
<1>4. CASE fd[p] = 0
  <2>1. fd' = fd
    BY <1>4, <1>1, <1>2
  <2> QED
    BY <2>1, <1>3, <1>4, <1>1 DEF HoldersOf
<1>5. CASE fd[p] # 0
  <2>1. Cardinality({q \in Proc : [fd EXCEPT ![p] = 0][q] = j}) =
          Cardinality({q \in Proc : fd[q] = j}) - (IF j = fd[p] THEN 1 ELSE 0)
    BY <1>5, <1>2, CountClose
  <2>2. ref'[j] = ref[j] - (IF j = fd[p] THEN 1 ELSE 0)
    BY <1>5, <1>1, <1>2
  <2> QED
    BY <2>1, <2>2, <1>3, <1>1 DEF HoldersOf
<1> QED
  BY <1>4, <1>5

LEMMA InitHolds ==
  ASSUME Init
  PROVE  IInv
<1>1. TypeOK
  BY AioConstants DEF Init, TypeOK, Requests, NoReq, Data
<1>2. Holders
  <2>1. \A i \in Inode : {p \in Proc : fd[p] = i} = {}
    BY DEF Init, Inode
  <2> QED
    BY <2>1, FS_EmptySet, Zenon DEF Init, Holders, HoldersOf
<1>3. Asked /\ Queue /\ Thread /\ PageTableLive
  BY DEF Init, Asked, Queue, Pending, Thread, Loop, PageTableLive
<1>4. Delivered
  BY DEF Init, Delivered, Accepted
<1> QED
  BY <1>1, <1>2, <1>3, <1>4, Zenon DEF IInv

LEMMA NextKeeps ==
  ASSUME IInv, [Next]_vars
  PROVE  IInv'
<1>1. CASE ~stray /\ Kth
  BY <1>1, PollKeeps, ReadTurnKeeps, CopyDataKeeps, CopyStatusKeeps, RemoveKeeps
     DEF Kth
<1>2. ASSUME ~stray, NEW p \in Proc, User(p)
      PROVE  IInv'
  BY <1>2, OpenCounted, OpenCounts, OpenKeeps, AreadKeeps, LeaveCounts, LeaveKeeps,
     ReapKeeps DEF User
<1>3. CASE UNCHANGED vars
  <2>1. UNCHANGED <<st, fd, issued, req, hasty, status, buffer, inum, ref, tasks, kth,
                    left, tmp, stray>>
    BY <1>3 DEF vars, userVars, kthVars
  <2>2. TypeOK'
    BY <2>1 DEF IInv, TypeOK
  <2>a. hasty \subseteq hasty' /\ \A j \in 1 .. Len(tasks) : inum'[tasks[j].ip] \in File
    BY <2>1, QueueIs
  <2>3. Holders' /\ Asked' /\ PageTableLive'
    BY <2>1, Zenon DEF IInv, Holders, HoldersOf, Asked, PageTableLive, Task
  <2>4. Delivered'
    BY <2>1, <2>a, DeliveredStays
  <2>5. Queue'
    <3>1. Pending' = Pending
      BY <2>1, Zenon DEF Pending
    <3> QED
      BY <3>1, <2>1, <2>a, QueueStays, Zenon
  <2>6. Thread'
    BY <2>1, <2>a, ThreadStays
  <2> QED
    BY <2>2, <2>3, <2>4, <2>5, <2>6, Zenon DEF IInv
<1> QED
  BY <1>1, <1>2, <1>3 DEF Next

LEMMA Invariance == Spec => []IInv
<1>1. Init => IInv
  BY InitHolds
<1>2. IInv /\ [Next]_vars => IInv'
  BY NextKeeps
<1> QED
  BY <1>1, <1>2, PTL DEF Spec

(* A status word that equals what aread returned means that the buffer     *)
(* holds those bytes of the file, up to a page (aread_kth,                 *)
(* aread_consume_one_task), although the thread works on the head of the   *)
(* queue without a lock and whatever the other processes leave behind.     *)
THEOREM DeliveryTheorem == Spec => []DataDelivered
<1>1. IInv => DataDelivered
  BY DEF IInv, DataDelivered, Delivered
<1> QED
  BY <1>1, Invariance, PTL

(* The kernel thread uses a page table that wait has freed (proc.c:602)    *)
(* only for a process that did not wait for its answer (aread.c:52).       *)
THEOREM LiveTableTheorem == Spec => []PageTableLive
<1>1. IInv => PageTableLive
  BY DEF IInv
<1> QED
  BY <1>1, Invariance, PTL
=============================================================================
