----------------------------- MODULE ProcProofs -----------------------------
(***************************************************************************)
(* Proofs about Proc for any number of CPUs, slots, kernel threads and     *)
(* channels.                                                               *)
(***************************************************************************)
EXTENDS Proc, TLAPS

-----------------------------------------------------------------------------
(* The inductive invariant.                                                *)

(* No CPU runs a slot that is free or still being set up: fork finishes    *)
(* its child without a lock.                                               *)
SetUpApart ==
  \A c \in CPU : run[c] # 0 => state[run[c]] \notin {"UNUSED", "EMBRYO"}

(* Between the test of a sleeping loop and sleep, and after the wakeup, a  *)
(* process is running; no system call sleeps in the middle of fork.        *)
LoopRuns ==
  \A s \in Slot :
    /\ via[s] \in {"check", "woken"} => state[s] = "RUNNING"
    /\ where[s] = "alloc" =>
         /\ via[s] \notin {"check", "woken", "sleep", "wait"}
         /\ state[s] \in {"RUNNING", "RUNNABLE"}

(* A slot that is being set up belongs to one fork, or to main, which      *)
(* gives it its stack last.                                                *)
Embryos ==
  /\ \A s \in Slot : where[s] = "alloc" <=> np[s] # 0
  /\ \A s \in Slot : np[s] # 0 => state[np[s]] = "EMBRYO"
  /\ \A s, r \in Slot : np[s] = np[r] /\ np[s] # 0 => s = r
  /\ setup # 0 =>
       /\ state[setup] = "EMBRYO" /\ ~kstack[setup]
       /\ \A s \in Slot : np[s] # setup

(* StackOwned without the types.                                           *)
Stacks ==
  /\ \A c \in CPU : run[c] # 0 => kstack[run[c]]
  /\ \A s \in Live : kstack[s]
  /\ \A s \in Slot : state[s] = "UNUSED" => ~kstack[s]

IInv == TypeOK /\ OnOneCPU /\ Stacks /\ SetUpApart /\ LoopRuns /\ Embryos

-----------------------------------------------------------------------------
(* 0 stands for no slot.                                                   *)
LEMMA SlotNat == Slot \subseteq Nat /\ 0 \notin Slot
BY ProcConstants DEF Slot

(* wakeup1 only makes sleeping processes runnable.                         *)
LEMMA WakeStates ==
  ASSUME NEW st \in [Slot -> States], NEW ch
  PROVE  /\ Wake(st, ch) \in [Slot -> States]
         /\ \A s \in Slot : \/ Wake(st, ch)[s] = st[s]
                            \/ st[s] = "SLEEPING" /\ Wake(st, ch)[s] = "RUNNABLE"
BY DEF Wake, States

(* The entry of a system call moves one process that is on a CPU.          *)
LEMMA SyscallKeeps ==
  ASSUME IInv, NEW c \in CPU, Syscall(c)
  PROVE  IInv'
<1> USE ProcConstants, SlotNat DEF IInv, Syscall, At,
                               slotVars, procVars, cpuVars, bootVars
<1>1. TypeOK'
  BY DEF TypeOK, States
<1>2. OnOneCPU' /\ SetUpApart'
  BY DEF TypeOK, OnOneCPU, SetUpApart, LoopRuns
<1>3. Stacks'
  BY DEF TypeOK, OnOneCPU, Stacks, Live, SetUpApart, LoopRuns
<1>4. LoopRuns' /\ Embryos'
  BY DEF TypeOK, OnOneCPU, LoopRuns, Embryos
<1> QED
  BY <1>1, <1>2, <1>3, <1>4

(* So does its return.                                                     *)
LEMMA SysRetKeeps ==
  ASSUME IInv, NEW c \in CPU, SysRet(c)
  PROVE  IInv'
<1> USE ProcConstants, SlotNat DEF IInv, SysRet, At,
                               slotVars, procVars, cpuVars, bootVars
<1>1. TypeOK'
  BY DEF TypeOK, States
<1>2. OnOneCPU' /\ SetUpApart'
  BY DEF TypeOK, OnOneCPU, SetUpApart, LoopRuns
<1>3. Stacks'
  BY DEF TypeOK, OnOneCPU, Stacks, Live, SetUpApart, LoopRuns
<1>4. LoopRuns' /\ Embryos'
  BY DEF TypeOK, OnOneCPU, LoopRuns, Embryos
<1> QED
  BY <1>1, <1>2, <1>3, <1>4

(* A trap only marks the process killed.                                   *)
LEMMA FaultKeeps ==
  ASSUME IInv, NEW c \in CPU, Fault(c)
  PROVE  IInv'
<1> USE ProcConstants, SlotNat DEF IInv, Fault, At,
                               slotVars, procVars, cpuVars, bootVars
<1>1. TypeOK'
  BY DEF TypeOK, States
<1>2. OnOneCPU' /\ SetUpApart'
  BY DEF TypeOK, OnOneCPU, SetUpApart, LoopRuns
<1>3. Stacks'
  BY DEF TypeOK, OnOneCPU, Stacks, Live, SetUpApart, LoopRuns
<1>4. LoopRuns' /\ Embryos'
  BY DEF TypeOK, OnOneCPU, LoopRuns, Embryos
<1> QED
  BY <1>1, <1>2, <1>3, <1>4

(* The test of a sleeping loop is made by a process that runs: a system    *)
(* call, exit or a kernel thread, never fork between allocproc and its     *)
(* end.                                                                    *)
LEMMA BlockKeeps ==
  ASSUME IInv, NEW c \in CPU, NEW e \in Event, Block(c, e)
  PROVE  IInv'
<1> USE ProcConstants, SlotNat DEF IInv, Block, At,
                               slotVars, procVars, cpuVars, bootVars
<1>1. TypeOK'
  BY DEF TypeOK, States
<1>2. OnOneCPU' /\ SetUpApart'
  BY DEF TypeOK, OnOneCPU, SetUpApart, LoopRuns
<1>3. Stacks'
  BY DEF TypeOK, OnOneCPU, Stacks, Live, SetUpApart, LoopRuns
<1>4. LoopRuns' /\ Embryos'
  BY DEF TypeOK, OnOneCPU, LoopRuns, Embryos
<1> QED
  BY <1>1, <1>2, <1>3, <1>4

(* The end of a sleeping loop.                                             *)
LEMMA UnblockKeeps ==
  ASSUME IInv, NEW c \in CPU, Unblock(c)
  PROVE  IInv'
<1> USE ProcConstants, SlotNat DEF IInv, Unblock,
                               slotVars, procVars, cpuVars, bootVars
<1>1. TypeOK'
  BY Zenon DEF TypeOK, States
<1>2. OnOneCPU' /\ SetUpApart'
  BY DEF TypeOK, OnOneCPU, SetUpApart, LoopRuns
<1>3. Stacks'
  BY DEF TypeOK, OnOneCPU, Stacks, Live, SetUpApart, LoopRuns
<1>4. LoopRuns' /\ Embryos'
  BY DEF TypeOK, OnOneCPU, LoopRuns, Embryos
<1> QED
  BY <1>1, <1>2, <1>3, <1>4

(* sleep: the process gives itself up with ptable.lock held, while its CPU *)
(* is on its stack.                                                        *)
LEMMA SleepKeeps ==
  ASSUME IInv, NEW c \in CPU, Sleep(c)
  PROVE  IInv'
<1> USE ProcConstants, SlotNat DEF IInv, Sleep,
                               slotVars, procVars, cpuVars, bootVars
<1>1. TypeOK'
  BY Zenon DEF TypeOK, States
<1>2. OnOneCPU' /\ SetUpApart'
  BY DEF TypeOK, OnOneCPU, SetUpApart, LoopRuns
<1>3. Stacks'
  BY DEF TypeOK, OnOneCPU, Stacks, Live, SetUpApart, LoopRuns
<1>4. LoopRuns' /\ Embryos'
  BY DEF TypeOK, OnOneCPU, LoopRuns, Embryos
<1> QED
  BY <1>1, <1>2, <1>3, <1>4

(* yield likewise.                                                         *)
LEMMA YieldKeeps ==
  ASSUME IInv, NEW c \in CPU, Yield(c)
  PROVE  IInv'
<1> USE ProcConstants, SlotNat DEF IInv, Yield, At,
                               slotVars, procVars, cpuVars, bootVars
<1>1. TypeOK'
  BY DEF TypeOK, States
<1>2. OnOneCPU' /\ SetUpApart'
  BY DEF TypeOK, OnOneCPU, SetUpApart, LoopRuns
<1>3. Stacks'
  BY DEF TypeOK, OnOneCPU, Stacks, Live, SetUpApart, LoopRuns
<1>4. LoopRuns' /\ Embryos'
  BY DEF TypeOK, OnOneCPU, LoopRuns, Embryos
<1> QED
  BY <1>1, <1>2, <1>3, <1>4

(* exitkth likewise; the scheduler frees the stack later.                  *)
LEMMA ExitKthKeeps ==
  ASSUME IInv, NEW c \in CPU, ExitKth(c)
  PROVE  IInv'
<1> USE ProcConstants, SlotNat DEF IInv, ExitKth, At,
                               slotVars, procVars, cpuVars, bootVars
<1>1. TypeOK'
  BY DEF TypeOK, States
<1>2. OnOneCPU' /\ SetUpApart'
  BY DEF TypeOK, OnOneCPU, SetUpApart, LoopRuns
<1>3. Stacks'
  BY DEF TypeOK, OnOneCPU, Stacks, Live, SetUpApart, LoopRuns
<1>4. LoopRuns' /\ Embryos'
  BY DEF TypeOK, OnOneCPU, LoopRuns, Embryos
<1> QED
  BY <1>1, <1>2, <1>3, <1>4

(* The scheduler takes ptable.lock while no process that has given itself  *)
(* up is on a CPU.                                                         *)
LEMMA StartPassKeeps ==
  ASSUME IInv, NEW c \in CPU, StartPass(c)
  PROVE  IInv'
<1> USE ProcConstants, SlotNat DEF IInv, StartPass,
                               slotVars, procVars, cpuVars, bootVars
<1>1. TypeOK'
  BY DEF TypeOK, States
<1>2. OnOneCPU' /\ SetUpApart'
  BY DEF TypeOK, OnOneCPU, SetUpApart, LoopRuns
<1>3. Stacks'
  BY DEF TypeOK, OnOneCPU, Stacks, Live, SetUpApart, LoopRuns
<1>4. LoopRuns' /\ Embryos'
  BY DEF TypeOK, OnOneCPU, LoopRuns, Embryos
<1> QED
  BY <1>1, <1>2, <1>3, <1>4

(* The process switched to is running, and no other CPU is on the stack of *)
(* one that is not: the lock can go.                                       *)
LEMMA ResumeKeeps ==
  ASSUME IInv, NEW c \in CPU, Resume(c)
  PROVE  IInv'
<1> USE ProcConstants, SlotNat DEF IInv, Resume,
                               slotVars, procVars, cpuVars, bootVars
<1>1. TypeOK'
  BY Zenon DEF TypeOK, States
<1>2. OnOneCPU' /\ SetUpApart'
  BY DEF TypeOK, OnOneCPU, SetUpApart, LoopRuns
<1>3. Stacks'
  BY DEF TypeOK, OnOneCPU, Stacks, Live, SetUpApart, LoopRuns
<1>4. LoopRuns' /\ Embryos'
  BY DEF TypeOK, OnOneCPU, LoopRuns, Embryos
<1> QED
  BY <1>1, <1>2, <1>3, <1>4

(* wakeup makes sleeping processes runnable while ptable.lock is free, so  *)
(* none of them is on a CPU.                                               *)
LEMMA WakeupKeeps ==
  ASSUME IInv, NEW e \in Event, Wakeup(e)
  PROVE  IInv'
<1> USE ProcConstants, SlotNat DEF IInv, Wakeup, Wake,
                               slotVars, procVars, cpuVars, bootVars
<1>1. TypeOK'
  BY DEF TypeOK, States
<1>2. OnOneCPU' /\ SetUpApart'
  BY DEF TypeOK, OnOneCPU, SetUpApart, LoopRuns
<1>3. Stacks'
  BY DEF TypeOK, OnOneCPU, Stacks, Live, SetUpApart, LoopRuns
<1>4. LoopRuns' /\ Embryos'
  BY DEF TypeOK, OnOneCPU, LoopRuns, Embryos
<1> QED
  BY <1>1, <1>2, <1>3, <1>4

(* allocproc, called by main: the slot it takes was free, so it has no     *)
(* stack, is no fork's child and is on no CPU.                             *)
LEMMA BootAllocKeeps ==
  ASSUME IInv, BootAlloc
  PROVE  IInv'
<1> USE ProcConstants, SlotNat DEF IInv, slotVars, procVars, cpuVars, bootVars
<1>1. PICK s \in Slot : /\ state[s] = "UNUSED"
                        /\ state' = [state EXCEPT ![s] = "EMBRYO"]
                        /\ pid' = [pid EXCEPT ![s] = nextpid]
                        /\ setup' = s
  BY Zenon DEF BootAlloc, FirstUnused
<1>2. /\ nextpid' = nextpid + 1
      /\ UNCHANGED <<parent, killed, is_process, chan, kstack, where, via,
                     waits, np, run, scan, lock, initproc, booted, panicked>>
  BY DEF BootAlloc
<1>3. TypeOK'
  <2>1. pid' \in [Slot -> Nat] /\ nextpid' \in Nat
    BY <1>1, <1>2 DEF TypeOK
  <2>2. state' \in [Slot -> States]
    BY <1>1 DEF TypeOK, States
  <2> QED
    BY <1>1, <1>2, <2>1, <2>2, Zenon DEF TypeOK
<1>4. OnOneCPU' /\ SetUpApart'
  BY <1>1, <1>2 DEF TypeOK, OnOneCPU, SetUpApart
<1>5. Stacks'
  BY <1>1, <1>2 DEF TypeOK, Stacks, Live
<1>6. LoopRuns'
  BY <1>1, <1>2 DEF TypeOK, LoopRuns
<1>7. Embryos'
  <2>1. \A t \in Slot : np[t] # s
    BY <1>1 DEF Embryos
  <2>2. ~kstack[s]
    BY <1>1 DEF Stacks
  <2> QED
    BY <1>1, <1>2, <2>1, <2>2 DEF TypeOK, Embryos
<1> QED
  BY <1>3, <1>4, <1>5, <1>6, <1>7

(* What main knows of the slot it is setting up: it has no stack, is on no *)
(* CPU, is no process that forks and no fork's child.                      *)
LEMMA SetUpSlot ==
  ASSUME IInv, setup # 0
  PROVE  /\ setup \in Slot /\ state[setup] = "EMBRYO" /\ ~kstack[setup]
         /\ np[setup] = 0 /\ \A d \in CPU : run[d] # setup
         /\ \A t \in Slot : np[t] # setup
<1>1. /\ setup \in Slot /\ state[setup] = "EMBRYO" /\ ~kstack[setup]
      /\ \A t \in Slot : np[t] # setup
  BY Zenon DEF IInv, TypeOK, Embryos
<1>2. np[setup] = 0
  BY <1>1 DEF IInv, LoopRuns, Embryos
<1>3. \A d \in CPU : run[d] # setup
  BY <1>1, SlotNat DEF IInv, SetUpApart
<1> QED
  BY <1>1, <1>2, <1>3

(* userinit and the start of a kernel thread: the slot gets a stack and    *)
(* becomes runnable, without the lock.                                     *)
LEMMA SetUpKeeps ==
  ASSUME IInv, NEW b \in BOOLEAN, SetUp(b), initproc' \in Slot \cup {0}
  PROVE  IInv'
<1> USE ProcConstants, SlotNat DEF IInv, slotVars, procVars, cpuVars, bootVars
<1> DEFINE s == setup
<1>1. /\ s \in Slot /\ state[s] = "EMBRYO" /\ ~kstack[s] /\ np[s] = 0
      /\ \A d \in CPU : run[d] # s
      /\ \A t \in Slot : np[t] # s
  BY SetUpSlot DEF SetUp
<1>2. /\ state' = [state EXCEPT ![s] = "RUNNABLE"]
      /\ is_process' = [is_process EXCEPT ![s] = b]
      /\ kstack' = [kstack EXCEPT ![s] = TRUE]
      /\ where' = [where EXCEPT ![s] = "run"]
      /\ via' = [via EXCEPT ![s] = "forkret"]
      /\ booted' = booted + 1 /\ setup' = 0
      /\ UNCHANGED <<pid, parent, killed, chan, waits, np, run, scan, lock,
                     nextpid, panicked>>
  BY DEF SetUp
<1> HIDE DEF s
<1>3. TypeOK'
  BY <1>1, <1>2 DEF TypeOK, States
<1>4. OnOneCPU' /\ SetUpApart'
  BY <1>1, <1>2 DEF TypeOK, OnOneCPU, SetUpApart
<1>5. Stacks'
  BY <1>1, <1>2 DEF TypeOK, Stacks, Live
<1>6. LoopRuns'
  BY <1>1, <1>2 DEF TypeOK, LoopRuns
<1>7. Embryos'
  BY <1>1, <1>2 DEF TypeOK, Embryos
<1> QED
  BY <1>3, <1>4, <1>5, <1>6, <1>7

(* startkth without memory: the slot, which nobody else looks at, is free  *)
(* again.                                                                  *)
LEMMA KthFailKeeps ==
  ASSUME IInv, KthFail
  PROVE  IInv'
<1> USE ProcConstants, SlotNat DEF IInv, slotVars, procVars, cpuVars, bootVars
<1> DEFINE s == setup
<1>1. /\ s \in Slot /\ state[s] = "EMBRYO" /\ ~kstack[s] /\ np[s] = 0
      /\ \A d \in CPU : run[d] # s
      /\ \A t \in Slot : np[t] # s
  BY SetUpSlot DEF KthFail
<1>2. /\ state' = [state EXCEPT ![s] = "UNUSED"]
      /\ is_process' = [is_process EXCEPT ![s] = TRUE]
      /\ booted' = booted + 1 /\ setup' = 0
      /\ UNCHANGED <<pid, parent, killed, chan, kstack, where, via, waits, np,
                     run, scan, lock, nextpid, initproc, panicked>>
  BY DEF KthFail
<1> HIDE DEF s
<1>3. TypeOK'
  BY <1>1, <1>2 DEF TypeOK, States
<1>4. OnOneCPU' /\ SetUpApart'
  BY <1>1, <1>2 DEF TypeOK, OnOneCPU, SetUpApart
<1>5. Stacks'
  BY <1>1, <1>2 DEF TypeOK, Stacks, Live
<1>6. LoopRuns'
  BY <1>1, <1>2 DEF TypeOK, LoopRuns, Embryos
<1>7. Embryos'
  BY <1>1, <1>2 DEF TypeOK, Embryos
<1> QED
  BY <1>3, <1>4, <1>5, <1>6, <1>7

(* scheduler, switching to a process: the one it picks is runnable, and a  *)
(* runnable process is on no other CPU, since this one holds ptable.lock.  *)
LEMMA PickKeeps ==
  ASSUME IInv, NEW c \in CPU, Pick(c)
  PROVE  IInv'
<1> USE ProcConstants, SlotNat DEF IInv, slotVars, procVars, cpuVars, bootVars
<1>1. CASE \E s \in scan[c] .. NPROC :
             /\ state[s] = "RUNNABLE"
             /\ run' = [run EXCEPT ![c] = s]
             /\ state' = [state EXCEPT ![s] = "RUNNING"]
             /\ UNCHANGED lock
  <2>1. PICK s \in Slot : /\ state[s] = "RUNNABLE"
                          /\ run' = [run EXCEPT ![c] = s]
                          /\ state' = [state EXCEPT ![s] = "RUNNING"]
                          /\ UNCHANGED lock
    <3>1. \A s \in scan[c] .. NPROC : s \in Slot
      <4>1. scan[c] \in 1 .. NPROC + 1
        BY DEF TypeOK
      <4> QED
        BY <4>1 DEF Slot
    <3> QED
      BY <1>1, <3>1, Zenon
  <2>2. /\ run[c] = 0 /\ lock = c /\ scan' = [scan EXCEPT ![c] = 1]
        /\ UNCHANGED <<pid, parent, killed, is_process, chan, kstack, where,
                       via, waits, np, nextpid, initproc, booted, setup, panicked>>
    BY DEF Pick
  <2>3. \A d \in CPU : run[d] # s
    BY <2>1, <2>2 DEF OnOneCPU
  <2>4. TypeOK'
    <3>1. scan' \in [CPU -> 1 .. NPROC + 1]
      BY <2>2 DEF TypeOK
    <3> QED
      BY <2>1, <2>2, <3>1 DEF TypeOK, States
  <2>5. OnOneCPU' /\ SetUpApart'
    BY <2>1, <2>2, <2>3 DEF TypeOK, OnOneCPU, SetUpApart
  <2>6. Stacks'
    BY <2>1, <2>2 DEF TypeOK, Stacks, Live
  <2>7. LoopRuns' /\ Embryos'
    BY <2>1, <2>2 DEF TypeOK, LoopRuns, Embryos
  <2> QED
    BY <2>4, <2>5, <2>6, <2>7
<1>2. CASE lock' = 0 /\ UNCHANGED <<run, state>>
  <2>1. scan' \in [CPU -> 1 .. NPROC + 1]
    BY DEF Pick, TypeOK
  <2>2. /\ run[c] = 0 /\ lock = c
        /\ UNCHANGED <<pid, parent, killed, is_process, chan, kstack, where,
                       via, waits, np, nextpid, initproc, booted, setup, panicked>>
    BY DEF Pick
  <2> QED
    BY <1>2, <2>1, <2>2 DEF TypeOK, OnOneCPU, Stacks, Live, SetUpApart,
                            LoopRuns, Embryos
<1> QED
  BY <1>1, <1>2 DEF Pick

(* sched: the process that gives up the CPU is on no other, so a finished  *)
(* kernel thread's stack is freed under nobody.                            *)
LEMMA SwtchKeeps ==
  ASSUME IInv, NEW c \in CPU, Swtch(c)
  PROVE  IInv'
<1> USE ProcConstants, SlotNat DEF IInv, slotVars, procVars, cpuVars, bootVars
<1> DEFINE me == run[c]
<1>1. /\ me \in Slot /\ lock = c /\ state[me] # "RUNNING"
      /\ run' = [run EXCEPT ![c] = 0] /\ scan' = [scan EXCEPT ![c] = me + 1]
      /\ UNCHANGED <<parent, killed, is_process, chan, where, via, waits, np,
                     lock, nextpid, initproc, booted, setup, panicked>>
  BY DEF Swtch, TypeOK
<1>2. \A d \in CPU : d # c => run[d] # me
  BY <1>1 DEF OnOneCPU
<1>3. scan' \in [CPU -> 1 .. NPROC + 1]
  <2>1. me + 1 \in 1 .. NPROC + 1
    BY <1>1 DEF Slot
  <2> QED
    BY <1>1, <2>1 DEF TypeOK
<1>4. run' \in [CPU -> Slot \cup {0}]
  BY <1>1 DEF TypeOK
<1> HIDE DEF me
<1>5. CASE /\ state[me] = "KZOMBIE"
           /\ kstack' = [kstack EXCEPT ![me] = FALSE]
           /\ pid' = [pid EXCEPT ![me] = 0]
           /\ state' = [state EXCEPT ![me] = "UNUSED"]
  <2>1. TypeOK'
    BY <1>1, <1>3, <1>4, <1>5 DEF TypeOK, States
  <2>2. OnOneCPU' /\ SetUpApart'
    BY <1>1, <1>2, <1>5 DEF TypeOK, OnOneCPU, SetUpApart, me
  <2>3. Stacks'
    BY <1>1, <1>2, <1>5 DEF TypeOK, Stacks, Live
  <2>4. LoopRuns' /\ Embryos'
    BY <1>1, <1>5 DEF TypeOK, LoopRuns, Embryos
  <2> QED
    BY <2>1, <2>2, <2>3, <2>4
<1>6. CASE UNCHANGED <<kstack, pid, state>>
  <2>1. TypeOK'
    BY <1>1, <1>3, <1>4, <1>6 DEF TypeOK
  <2>2. OnOneCPU' /\ SetUpApart'
    BY <1>1, <1>2, <1>6 DEF TypeOK, OnOneCPU, SetUpApart, me
  <2>3. Stacks' /\ LoopRuns' /\ Embryos'
    BY <1>1, <1>6 DEF TypeOK, Stacks, Live, LoopRuns, Embryos
  <2> QED
    BY <2>1, <2>2, <2>3
<1> QED
  BY <1>5, <1>6 DEF Swtch, me

(* allocproc: the slot it takes was free, so it is no other fork's child   *)
(* and on no CPU.                                                          *)
LEMMA ForkKeeps ==
  ASSUME IInv, NEW c \in CPU, Fork(c)
  PROVE  IInv'
<1> USE ProcConstants, SlotNat DEF IInv, slotVars, procVars, cpuVars, bootVars
<1>1. PICK s \in Slot : /\ state[s] = "UNUSED"
                        /\ state' = [state EXCEPT ![s] = "EMBRYO"]
                        /\ pid' = [pid EXCEPT ![s] = nextpid]
                        /\ np' = [np EXCEPT ![run[c]] = s]
  BY Zenon DEF Fork, FirstUnused
<1>2. PICK me \in Slot : /\ me = run[c] /\ state[me] = "RUNNING"
                         /\ where[me] = "sys" /\ via[me] = "none"
  BY Zenon DEF Fork, At, TypeOK
<1>3. /\ nextpid' = nextpid + 1 /\ where' = [where EXCEPT ![me] = "alloc"]
      /\ UNCHANGED <<parent, killed, is_process, chan, kstack, via, waits, run,
                     scan, lock, initproc, booted, setup, panicked>>
  BY <1>2 DEF Fork
<1>4. np' = [np EXCEPT ![me] = s] /\ me # s
  BY <1>1, <1>2
<1>5. TypeOK'
  <2>1. pid' \in [Slot -> Nat] /\ nextpid' \in Nat
    BY <1>1, <1>3 DEF TypeOK
  <2>2. state' \in [Slot -> States]
    BY <1>1 DEF TypeOK, States
  <2>3. np' \in [Slot -> Slot \cup {0}]
    BY <1>4 DEF TypeOK
  <2> QED
    BY <1>3, <2>1, <2>2, <2>3, Zenon DEF TypeOK
<1>6. OnOneCPU' /\ SetUpApart'
  BY <1>1, <1>3 DEF TypeOK, OnOneCPU, SetUpApart
<1>7. Stacks'
  BY <1>1, <1>3 DEF TypeOK, Stacks, Live
<1>8. LoopRuns'
  BY <1>1, <1>2, <1>3, <1>4 DEF TypeOK, LoopRuns
<1>9. Embryos'
  <2>1. \A t \in Slot : np[t] # s
    BY <1>1 DEF Embryos
  <2>2. ~kstack[s]
    BY <1>1 DEF Stacks
  <2> QED
    BY <1>1, <1>2, <1>3, <1>4, <2>1, <2>2 DEF TypeOK, Embryos
<1> QED
  BY <1>5, <1>6, <1>7, <1>8, <1>9

(* What a process in the middle of fork knows: its child is its own, is on *)
(* no CPU, is no process that forks and not main's.                        *)
LEMMA ForkChild ==
  ASSUME IInv, NEW c \in CPU, At(c, "alloc")
  PROVE  /\ run[c] \in Slot /\ np[run[c]] \in Slot /\ run[c] # np[run[c]]
         /\ state[run[c]] = "RUNNING" /\ state[np[run[c]]] = "EMBRYO"
         /\ np[np[run[c]]] = 0 /\ setup # np[run[c]]
         /\ \A d \in CPU : run[d] # np[run[c]]
         /\ \A t \in Slot : t # run[c] => np[t] # np[run[c]]
<1>1. run[c] \in Slot /\ state[run[c]] = "RUNNING" /\ where[run[c]] = "alloc"
  BY DEF IInv, At, TypeOK
<1>2. np[run[c]] \in Slot /\ state[np[run[c]]] = "EMBRYO"
  <2>1. np[run[c]] # 0 /\ np[run[c]] \in Slot \cup {0}
    BY <1>1 DEF IInv, TypeOK, Embryos
  <2> QED
    BY <1>1, <2>1 DEF IInv, Embryos
<1>3. np[np[run[c]]] = 0 /\ setup # np[run[c]]
  BY <1>1, <1>2, SlotNat DEF IInv, LoopRuns, Embryos
<1>4. \A d \in CPU : run[d] # np[run[c]]
  BY <1>2, SlotNat DEF IInv, SetUpApart
<1>5. \A t \in Slot : t # run[c] => np[t] # np[run[c]]
  BY <1>1, <1>2, SlotNat, Zenon DEF IInv, Embryos
<1> QED
  BY <1>1, <1>2, <1>3, <1>4, <1>5

(* The child gets its stack while nobody else looks at its slot.           *)
LEMMA ForkStackKeeps ==
  ASSUME IInv, NEW c \in CPU, ForkStack(c)
  PROVE  IInv'
<1> USE ProcConstants, SlotNat DEF IInv, slotVars, procVars, cpuVars, bootVars
<1> DEFINE s == np[run[c]]
<1>1. s \in Slot /\ state[s] = "EMBRYO" /\ setup # s
  BY ForkChild DEF ForkStack
<1>2. /\ is_process' = [is_process EXCEPT ![s] = TRUE]
      /\ kstack' = [kstack EXCEPT ![s] = TRUE]
      /\ UNCHANGED <<state, pid, parent, killed, chan, where, via, waits, np,
                     run, scan, lock, nextpid, initproc, booted, setup,
                     panicked>>
  BY DEF ForkStack
<1> HIDE DEF s
<1>3. TypeOK'
  BY <1>1, <1>2 DEF TypeOK
<1>4. OnOneCPU' /\ SetUpApart'
  BY <1>2 DEF OnOneCPU, SetUpApart
<1>5. Stacks'
  BY <1>1, <1>2 DEF TypeOK, Stacks, Live
<1>6. LoopRuns' /\ Embryos'
  BY <1>1, <1>2 DEF TypeOK, LoopRuns, Embryos
<1> QED
  BY <1>3, <1>4, <1>5, <1>6

(* fork without memory: the child's slot, which nobody else looks at, is   *)
(* free again.                                                             *)
LEMMA ForkFailKeeps ==
  ASSUME IInv, NEW c \in CPU, ForkFail(c)
  PROVE  IInv'
<1> USE ProcConstants, SlotNat DEF IInv, slotVars, procVars, cpuVars, bootVars
<1> DEFINE me == run[c]
           s == np[me]
<1>1. /\ me \in Slot /\ s \in Slot /\ me # s
      /\ state[me] = "RUNNING" /\ state[s] = "EMBRYO"
      /\ np[s] = 0 /\ setup # s /\ \A d \in CPU : run[d] # s
      /\ \A t \in Slot : t # me => np[t] # s
  BY ForkChild DEF ForkFail
<1>2. /\ is_process' = [is_process EXCEPT ![s] = TRUE]
      /\ kstack' = [kstack EXCEPT ![s] = FALSE]
      /\ state' = [state EXCEPT ![s] = "UNUSED"]
      /\ np' = [np EXCEPT ![me] = 0]
      /\ where' = [where EXCEPT ![me] = "run"]
      /\ UNCHANGED <<pid, parent, killed, chan, via, waits, run, scan,
                     lock, nextpid, initproc, booted, setup, panicked>>
  BY DEF ForkFail
<1> HIDE DEF me, s
<1>3. TypeOK'
  BY <1>1, <1>2 DEF TypeOK, States
<1>4. OnOneCPU' /\ SetUpApart'
  BY <1>1, <1>2 DEF TypeOK, OnOneCPU, SetUpApart
<1>5. Stacks'
  BY <1>1, <1>2 DEF TypeOK, Stacks, Live
<1>6. LoopRuns'
  BY <1>1, <1>2 DEF TypeOK, LoopRuns, Embryos
<1>7. Embryos'
  BY <1>1, <1>2 DEF TypeOK, Embryos
<1> QED
  BY <1>3, <1>4, <1>5, <1>6, <1>7

(* fork makes its child runnable without ptable.lock: nobody else has      *)
(* touched the slot since allocproc.                                       *)
LEMMA ForkDoneKeeps ==
  ASSUME IInv, NEW c \in CPU, ForkDone(c)
  PROVE  IInv'
<1> USE ProcConstants, SlotNat DEF IInv, slotVars, procVars, cpuVars, bootVars
<1> DEFINE me == run[c]
           s == np[me]
<1>1. /\ me \in Slot /\ s \in Slot /\ me # s
      /\ state[me] = "RUNNING" /\ state[s] = "EMBRYO"
      /\ np[s] = 0 /\ setup # s /\ \A d \in CPU : run[d] # s
      /\ \A t \in Slot : t # me => np[t] # s
  BY ForkChild DEF ForkDone
<1>2. /\ kstack[s]
      /\ parent' = [parent EXCEPT ![s] = me]
      /\ state' = [state EXCEPT ![s] = "RUNNABLE"]
      /\ where' = [where EXCEPT ![s] = "run", ![me] = "run"]
      /\ via' = [via EXCEPT ![s] = "forkret"]
      /\ np' = [np EXCEPT ![me] = 0]
      /\ UNCHANGED <<pid, killed, is_process, chan, kstack, waits, run, scan,
                     lock, nextpid, initproc, booted, setup, panicked>>
  BY DEF ForkDone
<1> HIDE DEF me, s
<1>3. TypeOK'
  BY <1>1, <1>2 DEF TypeOK, States
<1>4. OnOneCPU' /\ SetUpApart'
  BY <1>1, <1>2 DEF TypeOK, OnOneCPU, SetUpApart
<1>5. Stacks'
  BY <1>1, <1>2 DEF TypeOK, Stacks, Live
<1>6. LoopRuns'
  BY <1>1, <1>2 DEF TypeOK, LoopRuns, Embryos
<1>7. Embryos'
  BY <1>1, <1>2 DEF TypeOK, Embryos
<1> QED
  BY <1>3, <1>4, <1>5, <1>6, <1>7

(* exit, up to the closing of files: of the table only the panic of init   *)
(* changes.                                                                *)
LEMMA ExitKeeps ==
  ASSUME IInv, NEW c \in CPU, Exit(c)
  PROVE  IInv'
<1> USE ProcConstants, SlotNat DEF IInv, slotVars, procVars, cpuVars, bootVars
<1>1. PICK me \in Slot : /\ me = run[c] /\ where[me] \in {"sys", "run"}
                         /\ \/ where' = where
                            \/ where' = [where EXCEPT ![me] = "exit"]
  BY Zenon DEF Exit, At, TypeOK
<1>2. panicked' \in BOOLEAN
  BY Zenon DEF Exit, TypeOK
<1>3. UNCHANGED <<state, pid, parent, killed, is_process, chan, kstack, via,
                  waits, np, run, scan, lock, nextpid, initproc, booted, setup>>
  BY DEF Exit
<1>4. TypeOK'
  BY <1>1, <1>2, <1>3 DEF TypeOK
<1>5. OnOneCPU' /\ SetUpApart' /\ Stacks'
  BY <1>3 DEF OnOneCPU, SetUpApart, Stacks, Live
<1>6. LoopRuns' /\ Embryos'
  BY <1>1, <1>3 DEF TypeOK, LoopRuns, Embryos
<1> QED
  BY <1>4, <1>5, <1>6

(* exit becomes a zombie while its CPU is on its stack, and keeps          *)
(* ptable.lock; those it wakes were asleep, and on no CPU.                 *)
LEMMA ExitZombieKeeps ==
  ASSUME IInv, NEW c \in CPU, ExitZombie(c)
  PROVE  IInv'
<1> USE ProcConstants, SlotNat DEF IInv, slotVars, procVars, cpuVars, bootVars
<1>1. PICK me \in Slot : /\ me = run[c] /\ state[me] = "RUNNING"
                         /\ where[me] = "exit" /\ via[me] = "none"
  BY Zenon DEF ExitZombie, At, TypeOK
<1>2. PICK st \in [Slot -> States] :
        /\ state' = [st EXCEPT ![me] = "ZOMBIE"]
        /\ \A s \in Slot : \/ st[s] = state[s]
                           \/ state[s] = "SLEEPING" /\ st[s] = "RUNNABLE"
  <2> DEFINE woken == Wake(state, parent[me])
             st == IF \E s \in {r \in Slot : parent[r] = me} : state[s] = "ZOMBIE"
                   THEN Wake(woken, initproc) ELSE woken
  <2>1. state' = [st EXCEPT ![me] = "ZOMBIE"]
    BY <1>1 DEF ExitZombie
  <2>2. /\ woken \in [Slot -> States]
        /\ \A s \in Slot : \/ woken[s] = state[s]
                           \/ state[s] = "SLEEPING" /\ woken[s] = "RUNNABLE"
    BY WakeStates DEF TypeOK
  <2> HIDE DEF woken
  <2>3. /\ Wake(woken, initproc) \in [Slot -> States]
        /\ \A s \in Slot :
             \/ Wake(woken, initproc)[s] = woken[s]
             \/ /\ woken[s] = "SLEEPING"
                /\ Wake(woken, initproc)[s] = "RUNNABLE"
    BY <2>2, WakeStates
  <2> QED
    BY <2>1, <2>2, <2>3, Zenon
<1>3. /\ parent' \in [Slot -> Slot \cup {0}] /\ lock = 0 /\ lock' = c
      /\ UNCHANGED <<pid, killed, is_process, chan, kstack, where, via, waits,
                     np, run, scan, nextpid, initproc, booted, setup, panicked>>
  BY DEF ExitZombie, TypeOK
<1>4. /\ state' \in [Slot -> States] /\ state'[me] = "ZOMBIE"
      /\ \A s \in Slot : s # me =>
           \/ state'[s] = state[s]
           \/ state[s] = "SLEEPING" /\ state'[s] = "RUNNABLE"
  BY <1>2 DEF States
<1>5. TypeOK'
  BY <1>3, <1>4 DEF TypeOK
<1>6. OnOneCPU' /\ SetUpApart'
  <2>1. \A d \in CPU : run[d] # 0 => run[d] \in Slot /\ state[run[d]] = "RUNNING"
    BY <1>3 DEF TypeOK, OnOneCPU
  <2>2. \A d \in CPU : d # c /\ run[d] # 0 => state'[run[d]] = "RUNNING"
    <3> SUFFICES ASSUME NEW d \in CPU, d # c, run[d] # 0
                 PROVE  state'[run[d]] = "RUNNING"
      OBVIOUS
    <3>1. run[d] \in Slot /\ state[run[d]] = "RUNNING"
      BY <2>1
    <3>2. run[d] # me
      BY <1>1, Zenon DEF OnOneCPU
    <3> QED
      BY <3>1, <3>2, <1>4, Zenon
  <2>3. \A s \in Slot : state'[s] = "RUNNING" => state[s] = "RUNNING"
    BY <1>4
  <2>4. OnOneCPU'
    BY <1>3, <2>2, <2>3 DEF OnOneCPU
  <2>5. SetUpApart'
    BY <1>1, <1>3, <1>4, <2>2 DEF SetUpApart
  <2> QED
    BY <2>4, <2>5
<1>7. Stacks'
  BY <1>1, <1>3, <1>4 DEF TypeOK, Stacks, Live
<1>8. LoopRuns'
  BY <1>1, <1>3, <1>4 DEF TypeOK, LoopRuns
<1>9. Embryos'
  <2>1. \A s \in Slot : state'[s] = "EMBRYO" <=> state[s] = "EMBRYO"
    BY <1>1, <1>4
  <2>2. \A s \in Slot : np[s] # 0 => np[s] \in Slot
    BY DEF TypeOK
  <2> QED
    <3>1. \A s \in Slot : np'[s] # 0 => state'[np'[s]] = "EMBRYO"
      BY <1>3, <2>1, <2>2, Zenon DEF Embryos
    <3>2. setup' # 0 => state'[setup'] = "EMBRYO"
      BY <1>3, <2>1, Zenon DEF TypeOK, Embryos
    <3> QED
      BY <1>3, <3>1, <3>2, Zenon DEF Embryos
<1> QED
  BY <1>5, <1>6, <1>7, <1>8, <1>9

(* wait frees the stack of a zombie child only with ptable.lock held, when *)
(* no CPU is on that stack any more.                                       *)
LEMMA WaitKeeps ==
  ASSUME IInv, NEW c \in CPU, Wait(c)
  PROVE  IInv'
<1> USE ProcConstants, SlotNat DEF IInv, slotVars, procVars, cpuVars, bootVars
<1>1. PICK me \in Slot : /\ me = run[c] /\ state[me] = "RUNNING"
                         /\ where[me] # "alloc"
                         /\ \/ via[me] = "none" /\ lock = 0
                            \/ via[me] = "wait" /\ lock = c
  BY Zenon DEF Wait, At, TypeOK, LoopRuns
<1>2. UNCHANGED <<is_process, waits, np, run, scan, nextpid, initproc, booted, setup,
                  panicked>>
  BY DEF Wait
<1>3. \A d \in CPU : run[d] # 0 => state[run[d]] = "RUNNING"
  BY <1>1 DEF OnOneCPU
<1>4. CASE \E s \in Slot :
             /\ state[s] = "ZOMBIE"
             /\ kstack' = [kstack EXCEPT ![s] = FALSE]
             /\ pid' = [pid EXCEPT ![s] = 0]
             /\ parent' = [parent EXCEPT ![s] = 0]
             /\ killed' = [killed EXCEPT ![s] = FALSE]
             /\ state' = [state EXCEPT ![s] = "UNUSED"]
             /\ chan' = [chan EXCEPT ![me] = 0]
             /\ via' = [via EXCEPT ![me] = "none"]
             /\ where' = [where EXCEPT ![me] = "run"]
             /\ lock' = 0
  <2>1. PICK s \in Slot :
          /\ state[s] = "ZOMBIE"
          /\ kstack' = [kstack EXCEPT ![s] = FALSE]
          /\ pid' = [pid EXCEPT ![s] = 0]
          /\ parent' = [parent EXCEPT ![s] = 0]
          /\ killed' = [killed EXCEPT ![s] = FALSE]
          /\ state' = [state EXCEPT ![s] = "UNUSED"]
          /\ chan' = [chan EXCEPT ![me] = 0]
          /\ via' = [via EXCEPT ![me] = "none"]
          /\ where' = [where EXCEPT ![me] = "run"]
          /\ lock' = 0
    BY <1>4, Zenon
  <2>2. \A d \in CPU : run[d] # s
    BY <1>3, <2>1
  <2>3. TypeOK'
    BY <1>2, <2>1 DEF TypeOK, States
  <2>4. OnOneCPU' /\ SetUpApart'
    BY <1>2, <1>3, <2>1, <2>2 DEF TypeOK, OnOneCPU, SetUpApart
  <2>5. Stacks'
    BY <1>2, <2>1, <2>2 DEF TypeOK, Stacks, Live
  <2>6. LoopRuns'
    BY <2>1 DEF TypeOK, LoopRuns
  <2>7. Embryos'
    BY <1>1, <1>2, <2>1 DEF TypeOK, Embryos
  <2> QED
    BY <2>3, <2>4, <2>5, <2>6, <2>7
<1>5. CASE /\ chan' = [chan EXCEPT ![me] = 0]
           /\ via' = [via EXCEPT ![me] = "none"]
           /\ where' = [where EXCEPT ![me] = "run"]
           /\ lock' = 0
           /\ UNCHANGED <<state, pid, parent, killed, kstack>>
  <2>1. TypeOK'
    BY <1>2, <1>5 DEF TypeOK
  <2>2. OnOneCPU' /\ SetUpApart' /\ Stacks'
    BY <1>2, <1>3, <1>5 DEF OnOneCPU, SetUpApart, Stacks, Live
  <2>3. LoopRuns' /\ Embryos'
    BY <1>1, <1>2, <1>5 DEF TypeOK, LoopRuns, Embryos
  <2> QED
    BY <2>1, <2>2, <2>3
<1>6. CASE /\ chan' = [chan EXCEPT ![me] = me]
           /\ state' = [state EXCEPT ![me] = "SLEEPING"]
           /\ via' = [via EXCEPT ![me] = "wait"]
           /\ lock' = c
           /\ UNCHANGED <<pid, parent, killed, kstack, where>>
  <2>1. TypeOK'
    BY <1>2, <1>6 DEF TypeOK, States
  <2>2. OnOneCPU' /\ SetUpApart'
    BY <1>1, <1>2, <1>3, <1>6 DEF TypeOK, OnOneCPU, SetUpApart
  <2>3. Stacks'
    BY <1>1, <1>2, <1>6 DEF TypeOK, Stacks, Live
  <2>4. LoopRuns' /\ Embryos'
    BY <1>1, <1>2, <1>6 DEF TypeOK, LoopRuns, Embryos
  <2> QED
    BY <2>1, <2>2, <2>3, <2>4
<1> QED
  BY <1>1, <1>4, <1>5, <1>6 DEF Wait

(* kill may make a sleeping process runnable, and that one is on no CPU:   *)
(* kill holds ptable.lock.                                                 *)
LEMMA KillKeeps ==
  ASSUME IInv, NEW c \in CPU, NEW n, Kill(c, n)
  PROVE  IInv'
<1> USE ProcConstants, SlotNat DEF IInv, slotVars, procVars, cpuVars, bootVars
<1>1. PICK me \in Slot : me = run[c] /\ where[me] = "sys"
  BY Zenon DEF Kill, At, TypeOK
<1>2. PICK s \in Slot :
        /\ killed' = [killed EXCEPT ![s] = TRUE]
        /\ state' = [state EXCEPT ![s] = IF @ = "SLEEPING" THEN "RUNNABLE" ELSE @]
  BY Zenon DEF Kill
<1>3. /\ lock = 0 /\ where' = [where EXCEPT ![me] = "run"]
      /\ UNCHANGED <<pid, parent, is_process, chan, kstack, via, waits, np, run,
                     scan, lock, nextpid, initproc, booted, setup, panicked>>
  BY <1>1 DEF Kill
<1>4. TypeOK'
  BY <1>2, <1>3 DEF TypeOK, States
<1>5. OnOneCPU' /\ SetUpApart'
  BY <1>2, <1>3 DEF TypeOK, OnOneCPU, SetUpApart
<1>6. Stacks'
  BY <1>2, <1>3 DEF TypeOK, Stacks, Live
<1>7. LoopRuns' /\ Embryos'
  BY <1>1, <1>2, <1>3 DEF TypeOK, LoopRuns, Embryos
<1> QED
  BY <1>4, <1>5, <1>6, <1>7

-----------------------------------------------------------------------------
(* At boot every slot is free and every CPU is in its scheduler.           *)
LEMMA IInvInit == Init => IInv
<1> SUFFICES ASSUME Init PROVE IInv
  OBVIOUS
<1>1. kstack \in [Slot -> BOOLEAN] /\ panicked \in BOOLEAN
  BY Zenon DEF Init
<1>2. killed \in [Slot -> BOOLEAN] /\ is_process \in [Slot -> BOOLEAN]
  BY Zenon DEF Init
<1>3. scan \in [CPU -> 1 .. NPROC + 1]
  BY ProcConstants DEF Init
<1>4. TypeOK
  BY <1>1, <1>2, <1>3, ProcConstants, SlotNat DEF Init, TypeOK, States
<1> QED
  BY <1>4, SlotNat DEF IInv, Init, OnOneCPU, Stacks, Live, SetUpApart,
                       LoopRuns, Embryos

(* Every step of a CPU, of main and of an interrupt handler keeps the      *)
(* inductive invariant.                                                    *)
LEMMA IInvStep == IInv /\ [Next]_vars => IInv'
<1> SUFFICES ASSUME IInv, [Next]_vars PROVE IInv'
  OBVIOUS
<1>1. ASSUME NEW c \in CPU, Schedule(c) PROVE IInv'
  BY <1>1, StartPassKeeps, PickKeeps, SwtchKeeps, ResumeKeeps DEF Schedule
<1>2. ASSUME NEW c \in CPU, Call(c) PROVE IInv'
  BY <1>2, SyscallKeeps, SysRetKeeps, FaultKeeps, ForkKeeps, ForkStackKeeps,
     ForkFailKeeps, ForkDoneKeeps, ExitKeeps, ExitZombieKeeps, ExitKthKeeps, WaitKeeps,
     KillKeeps, BlockKeeps, SleepKeeps, UnblockKeeps, YieldKeeps DEF Call
<1>3. ASSUME NEW e \in Event, Wakeup(e) PROVE IInv'
  BY <1>3, WakeupKeeps
<1>4. CASE Boot \/ KthFail \/ UserInitFail
  <2>1. CASE StartKth \/ UserInit
    <3>1. initproc' \in Slot \cup {0}
      BY <2>1, SetUpSlot, Zenon DEF StartKth, UserInit, SetUp, IInv, TypeOK
    <3>2. SetUp(TRUE) \/ SetUp(FALSE)
      BY <2>1, Zenon DEF StartKth, UserInit
    <3> QED
      BY <3>1, <3>2, SetUpKeeps, Zenon
  <2>2. CASE UserInitFail
    <3>1. panicked' \in BOOLEAN
      BY <2>2, Zenon DEF UserInitFail
    <3>2. UNCHANGED <<state, pid, parent, killed, is_process, chan, kstack,
                      where, via, waits, np, run, scan, lock, nextpid,
                      initproc, booted, setup>>
      BY <2>2 DEF UserInitFail, slotVars, procVars, cpuVars, bootVars
    <3>3. TypeOK'
      BY <3>1, <3>2, Zenon DEF IInv, TypeOK
    <3>4. OnOneCPU' /\ SetUpApart'
      BY <3>2, Zenon DEF IInv, OnOneCPU, SetUpApart
    <3>5. Stacks'
      BY <3>2, Zenon DEF IInv, Stacks, Live
    <3>6. LoopRuns' /\ Embryos'
      BY <3>2, Zenon DEF IInv, LoopRuns, Embryos
    <3> QED
      BY <3>3, <3>4, <3>5, <3>6, Zenon DEF IInv
  <2> QED
    BY <1>4, <2>1, <2>2, BootAllocKeeps, KthFailKeeps DEF Boot
<1>5. CASE UNCHANGED vars
  <2>1. UNCHANGED <<state, pid, parent, killed, is_process, chan, kstack, where, via,
                    waits, np, run, scan, lock, nextpid, initproc, booted, setup, panicked>>
    BY <1>5 DEF vars, slotVars, procVars, cpuVars, bootVars
  <2>2. TypeOK'
    BY <2>1, Zenon DEF IInv, TypeOK
  <2>3. OnOneCPU' /\ SetUpApart'
    BY <2>1, Zenon DEF IInv, OnOneCPU, SetUpApart
  <2>4. Stacks'
    BY <2>1, Zenon DEF IInv, Stacks, Live
  <2>5. LoopRuns' /\ Embryos'
    BY <2>1, Zenon DEF IInv, LoopRuns, Embryos
  <2> QED
    BY <2>2, <2>3, <2>4, <2>5, Zenon DEF IInv
<1> QED
  BY <1>1, <1>2, <1>3, <1>4, <1>5 DEF Next

(* For any number of CPUs, slots, kernel threads and channels a process    *)
(* runs on one CPU at a time, and a CPU is on the stack of a process that  *)
(* is not running only while it holds ptable.lock: the hand-over of the    *)
(* lock from sched through the scheduler to the next process is enough.    *)
THEOREM OneCPUTheorem == Spec => []OnOneCPU
<1>1. IInv => OnOneCPU
  BY DEF IInv
<1> QED
  BY <1>1, IInvInit, IInvStep, PTL DEF Spec

(* Likewise wait, the scheduler and a failing fork free no kernel stack    *)
(* under a CPU or under a process that is to run again, the unlocked work  *)
(* of fork and of main on a new slot included, and a free slot never keeps *)
(* a stack.                                                                *)
THEOREM StackTheorem == Spec => []StackOwned
<1>1. IInv => StackOwned
  BY DEF IInv, Stacks, StackOwned
<1> QED
  BY <1>1, IInvInit, IInvStep, PTL DEF Spec
=============================================================================
