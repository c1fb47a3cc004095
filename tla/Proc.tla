-------------------------------- MODULE Proc --------------------------------
(***************************************************************************)
(* The process table of proc.c: fork, exit, wait, kill, sleep and wakeup,  *)
(* the per-CPU schedulers and the kernel threads, at the granularity of    *)
(* what happens under one hold of ptable.lock.                             *)
(*                                                                         *)
(* A CPU runs a process or its scheduler.  ptable.lock is passed along     *)
(* with the CPU: whoever calls sched() holds it, the scheduler goes on     *)
(* holding it, and the process it switches to lets it go.  That is the     *)
(* only thing that keeps a kernel stack from being used by two CPUs, or    *)
(* freed while a CPU runs on it.                                           *)
(***************************************************************************)
EXTENDS Naturals, FiniteSets

CONSTANTS NPROC,     \* size of the process table
          CPU,       \* the processors
          BootCPU,   \* the one that runs main
          NKTH,      \* kernel threads started by kthinit
          MaxPid,    \* bound: pids handed out in a behaviour
          Event,     \* channels kernel code sleeps on, wait() apart
          Killable   \* those whose loop tests proc->killed before it sleeps

ASSUME ProcConstants ==
  /\ NPROC \in Nat \ {0}
  /\ BootCPU \in CPU /\ 0 \notin CPU
  /\ NKTH \in Nat /\ NKTH < NPROC /\ MaxPid \in Nat
  /\ Killable \subseteq Event
  /\ Event \cap Nat = {}

Slot == 1 .. NPROC
States == {"UNUSED", "EMBRYO", "SLEEPING", "RUNNABLE", "RUNNING", "ZOMBIE",
           "KZOMBIE"}

VARIABLES
  state, pid, parent, killed, is_process, chan,  \* fields of struct proc
  kstack,     \* whether the slot has a kernel stack
  where,      \* "run": user code, or a kernel thread's routine;
              \* "sys": in a system call; "alloc": in fork, after allocproc;
              \* "exit": closing files
  via,        \* the function the process is to return from before it can
              \* go on there, "none" if it is there
  waits,      \* the event the loop around a sleep waits for, 0 if none
  np,         \* the child a fork is making, 0 if none
  run,        \* the slot each CPU runs, 0 for its scheduler
  scan,       \* the next slot of a scheduler's pass, 1 outside of one
  lock,       \* the CPU holding ptable.lock, 0 if it is free
  nextpid, initproc,
  booted,     \* kernel threads and first process main has dealt with
  setup,      \* the slot main is setting up, 0 if none
  panicked

slotVars == <<state, pid, parent, killed, is_process, chan, kstack>>
cpuVars == <<run, scan, lock>>
bootVars == <<initproc, booted, setup>>
procVars == <<where, via, waits, np>>
vars == <<slotVars, procVars, cpuVars, nextpid, bootVars, panicked>>

TypeOK ==
  /\ state \in [Slot -> States]
  /\ pid \in [Slot -> Nat]
  /\ parent \in [Slot -> Slot \cup {0}]
  /\ killed \in [Slot -> BOOLEAN]
  /\ is_process \in [Slot -> BOOLEAN]
  /\ chan \in [Slot -> Slot \cup {0} \cup Event]
  /\ kstack \in [Slot -> BOOLEAN]
  /\ where \in [Slot -> {"run", "sys", "alloc", "exit"}]
  /\ via \in [Slot -> {"none", "forkret", "yield", "wait", "check", "sleep",
                       "woken"}]
  /\ waits \in [Slot -> Event \cup {0}]
  /\ np \in [Slot -> Slot \cup {0}]
  /\ run \in [CPU -> Slot \cup {0}]
  /\ scan \in [CPU -> 1 .. NPROC + 1]
  /\ lock \in CPU \cup {0}
  /\ nextpid \in Nat /\ initproc \in Slot \cup {0} /\ booted \in Nat
  /\ setup \in Slot \cup {0}
  /\ panicked \in BOOLEAN

Init ==
  /\ state = [s \in Slot |-> "UNUSED"]
  /\ pid = [s \in Slot |-> 0]
  /\ parent = [s \in Slot |-> 0]
  /\ killed = [s \in Slot |-> FALSE]
  /\ is_process = [s \in Slot |-> FALSE]
  /\ chan = [s \in Slot |-> 0]
  /\ kstack = [s \in Slot |-> FALSE]
  /\ where = [s \in Slot |-> "run"]
  /\ via = [s \in Slot |-> "none"]
  /\ waits = [s \in Slot |-> 0]
  /\ np = [s \in Slot |-> 0]
  /\ run = [c \in CPU |-> 0]
  /\ scan = [c \in CPU |-> 1]
  /\ lock = 0
  /\ nextpid = 1 /\ initproc = 0 /\ booted = 0
  /\ setup = 0
  /\ panicked = FALSE

-----------------------------------------------------------------------------
FirstUnused ==
  {s \in Slot : state[s] = "UNUSED" /\ \A r \in 1 .. s - 1 : state[r] # "UNUSED"}

(* The states after wakeup1(ch). *)
Wake(st, ch) ==
  [s \in Slot |-> IF st[s] = "SLEEPING" /\ chan[s] = ch
                  THEN "RUNNABLE" ELSE st[s]]

(* The process a CPU runs is at w, and not inside sleep, yield or wait. *)
At(c, w) ==
  /\ ~panicked
  /\ run[c] # 0 /\ state[run[c]] = "RUNNING"
  /\ where[run[c]] = w /\ via[run[c]] = "none"

(* main, on the first CPU and while the others may already be scheduling,  *)
(* starts the kernel threads and then the first process.  This is the      *)
(* locked part of allocproc, which startkth repeats.                       *)
BootAlloc ==
  /\ ~panicked /\ lock = 0 /\ setup = 0 /\ booted =< NKTH
  /\ \E s \in FirstUnused :
       /\ state' = [state EXCEPT ![s] = "EMBRYO"]
       /\ pid' = [pid EXCEPT ![s] = nextpid]
       /\ setup' = s
  /\ nextpid' = nextpid + 1
  /\ UNCHANGED <<parent, killed, is_process, chan, kstack, procVars, cpuVars,
                 initproc, booted, panicked>>

(* The slot becomes a runnable process, or kernel thread, that starts in   *)
(* forkret.  No lock is held.                                              *)
SetUp(process) ==
  /\ ~panicked /\ setup # 0
  /\ state' = [state EXCEPT ![setup] = "RUNNABLE"]
  /\ is_process' = [is_process EXCEPT ![setup] = process]
  /\ kstack' = [kstack EXCEPT ![setup] = TRUE]
  /\ where' = [where EXCEPT ![setup] = "run"]
  /\ via' = [via EXCEPT ![setup] = "forkret"]
  /\ booted' = booted + 1
  /\ setup' = 0
  /\ UNCHANGED <<pid, parent, killed, chan, waits, np, cpuVars, nextpid,
                 panicked>>

StartKth == booted < NKTH /\ SetUp(FALSE) /\ UNCHANGED initproc

UserInit == booted = NKTH /\ SetUp(TRUE) /\ initproc' = setup

(* kalloc gives startkth no stack: main goes on without the thread. *)
KthFail ==
  /\ ~panicked /\ setup # 0 /\ booted < NKTH
  /\ is_process' = [is_process EXCEPT ![setup] = TRUE]
  /\ state' = [state EXCEPT ![setup] = "UNUSED"]
  /\ booted' = booted + 1
  /\ setup' = 0
  /\ UNCHANGED <<pid, parent, killed, chan, kstack, procVars, cpuVars, nextpid,
                 initproc, panicked>>

(* Without memory userinit panics, or faults on the null pointer that      *)
(* allocproc has returned.                                                 *)
UserInitFail ==
  /\ ~panicked /\ setup # 0 /\ booted = NKTH
  /\ panicked' = TRUE
  /\ UNCHANGED <<slotVars, procVars, cpuVars, nextpid, bootVars>>

Boot == BootAlloc \/ StartKth \/ UserInit

(* A system call starts: syscall tests proc->killed here, and again when   *)
(* the call is over.                                                       *)
Syscall(c) ==
  /\ At(c, "run") /\ is_process[run[c]] /\ ~killed[run[c]]
  /\ where' = [where EXCEPT ![run[c]] = "sys"]
  /\ UNCHANGED <<slotVars, via, waits, np, cpuVars, nextpid, bootVars,
                 panicked>>

(* A system call that does nothing to the process table returns. *)
SysRet(c) ==
  /\ At(c, "sys")
  /\ where' = [where EXCEPT ![run[c]] = "run"]
  /\ UNCHANGED <<slotVars, via, waits, np, cpuVars, nextpid, bootVars,
                 panicked>>

(* A trap in user space that the process must not cause. *)
Fault(c) ==
  /\ At(c, "run") /\ is_process[run[c]]
  /\ killed' = [killed EXCEPT ![run[c]] = TRUE]
  /\ UNCHANGED <<state, pid, parent, is_process, chan, kstack, procVars,
                 cpuVars, nextpid, bootVars, panicked>>

(* fork, as far as the locked part of allocproc. *)
Fork(c) ==
  /\ At(c, "sys") /\ lock = 0
  /\ nextpid =< MaxPid
  /\ \E s \in FirstUnused :
       /\ state' = [state EXCEPT ![s] = "EMBRYO"]
       /\ pid' = [pid EXCEPT ![s] = nextpid]
       /\ np' = [np EXCEPT ![run[c]] = s]
  /\ nextpid' = nextpid + 1
  /\ where' = [where EXCEPT ![run[c]] = "alloc"]
  /\ UNCHANGED <<parent, killed, is_process, chan, kstack, via, waits,
                 cpuVars, bootVars, panicked>>

(* The rest of allocproc, which holds no lock. *)
ForkStack(c) ==
  /\ At(c, "alloc")
  /\ LET s == np[run[c]] IN
       /\ ~kstack[s]
       /\ is_process' = [is_process EXCEPT ![s] = TRUE]
       /\ kstack' = [kstack EXCEPT ![s] = TRUE]
  /\ UNCHANGED <<state, pid, parent, killed, chan, procVars, cpuVars, nextpid,
                 bootVars, panicked>>

(* kalloc fails in allocproc, or copyuvm once there is a stack to free:    *)
(* the slot is given back.                                                 *)
ForkFail(c) ==
  /\ At(c, "alloc")
  /\ LET s == np[run[c]] IN
       /\ is_process' = [is_process EXCEPT ![s] = TRUE]
       /\ kstack' = [kstack EXCEPT ![s] = FALSE]
       /\ state' = [state EXCEPT ![s] = "UNUSED"]
  /\ np' = [np EXCEPT ![run[c]] = 0]
  /\ where' = [where EXCEPT ![run[c]] = "run"]
  /\ UNCHANGED <<pid, parent, killed, chan, via, waits, cpuVars, nextpid,
                 bootVars, panicked>>

(* The rest of fork. *)
ForkDone(c) ==
  /\ At(c, "alloc")
  /\ LET s == np[run[c]] IN
       /\ kstack[s]
       /\ parent' = [parent EXCEPT ![s] = run[c]]
       /\ state' = [state EXCEPT ![s] = "RUNNABLE"]
       /\ where' = [where EXCEPT ![s] = "run", ![run[c]] = "run"]
       /\ via' = [via EXCEPT ![s] = "forkret"]
  /\ np' = [np EXCEPT ![run[c]] = 0]
  /\ UNCHANGED <<pid, killed, is_process, chan, kstack, waits, cpuVars,
                 nextpid, bootVars, panicked>>

(* The call of exit, as a system call or by trap and syscall when the      *)
(* process has been killed; it may sleep while it closes its files.        *)
Exit(c) ==
  /\ At(c, "sys") \/ (At(c, "run") /\ is_process[run[c]] /\ killed[run[c]])
  /\ IF run[c] = initproc
     THEN panicked' = TRUE /\ UNCHANGED where
     ELSE where' = [where EXCEPT ![run[c]] = "exit"] /\ UNCHANGED panicked
  /\ UNCHANGED <<slotVars, via, waits, np, cpuVars, nextpid, bootVars>>

(* Mutant: exit does not wake the parent. *)
ExitNoWakeup(c) ==
  /\ At(c, "exit") /\ lock = 0
  /\ LET orphans == {s \in Slot : parent[s] = run[c]}
     IN parent' = [s \in Slot |-> IF s \in orphans THEN initproc
                                                    ELSE parent[s]]
  /\ state' = [state EXCEPT ![run[c]] = "ZOMBIE"]
  /\ lock' = c
  /\ UNCHANGED <<pid, killed, is_process, chan, kstack, procVars, run, scan,
                 nextpid, bootVars, panicked>>

(* Mutant: exit releases ptable.lock before it calls sched. *)
ExitUnlocked(c) ==
  /\ At(c, "exit") /\ lock = 0
  /\ state' = [Wake(state, parent[run[c]]) EXCEPT ![run[c]] = "ZOMBIE"]
  /\ parent' = [s \in Slot |-> IF parent[s] = run[c] THEN initproc
                                                      ELSE parent[s]]
  /\ UNCHANGED <<pid, killed, is_process, chan, kstack, procVars, cpuVars,
                 nextpid, bootVars, panicked>>

(* The locked part of exit, up to the call of sched. *)
ExitZombie(c) ==
  /\ At(c, "exit") /\ lock = 0
  /\ LET me == run[c]
         orphans == {s \in Slot : parent[s] = me}
         woken == Wake(state, parent[me])
     IN /\ parent' = [s \in Slot |-> IF s \in orphans THEN initproc
                                                      ELSE parent[s]]
        /\ state' = [(IF \E s \in orphans : state[s] = "ZOMBIE"
                      THEN Wake(woken, initproc) ELSE woken)
                     EXCEPT ![me] = "ZOMBIE"]
  /\ lock' = c
  /\ UNCHANGED <<pid, killed, is_process, chan, kstack, procVars, run, scan,
                 nextpid, bootVars, panicked>>

(* One turn of the loop of wait: reap the first exited child, return, or   *)
(* sleep on the process's own address.                                     *)
Wait(c) ==
  LET me == run[c]
      kids == {s \in Slot : parent[s] = me}
      dead == {s \in kids : state[s] = "ZOMBIE"}
  IN
  /\ ~panicked /\ me # 0
  /\ \/ At(c, "sys") /\ lock = 0
     \/ via[me] = "wait" /\ lock = c /\ state[me] = "RUNNING"
  /\ \/ \E s \in dead :
          /\ \A r \in dead : s =< r
          /\ kstack' = [kstack EXCEPT ![s] = FALSE]
          /\ pid' = [pid EXCEPT ![s] = 0]
          /\ parent' = [parent EXCEPT ![s] = 0]
          /\ killed' = [killed EXCEPT ![s] = FALSE]
          /\ state' = [state EXCEPT ![s] = "UNUSED"]
          /\ chan' = [chan EXCEPT ![me] = 0]
          /\ via' = [via EXCEPT ![me] = "none"]
          /\ where' = [where EXCEPT ![me] = "run"]
          /\ lock' = 0
     \/ /\ dead = {} /\ (kids = {} \/ killed[me])
        /\ chan' = [chan EXCEPT ![me] = 0]
        /\ via' = [via EXCEPT ![me] = "none"]
        /\ where' = [where EXCEPT ![me] = "run"]
        /\ lock' = 0
        /\ UNCHANGED <<state, pid, parent, killed, kstack>>
     \/ /\ dead = {} /\ kids # {} /\ ~killed[me]
        /\ chan' = [chan EXCEPT ![me] = me]
        /\ state' = [state EXCEPT ![me] = "SLEEPING"]
        /\ via' = [via EXCEPT ![me] = "wait"]
        /\ lock' = c
        /\ UNCHANGED <<pid, parent, killed, kstack, where>>
  /\ UNCHANGED <<is_process, waits, np, run, scan, nextpid, bootVars,
                 panicked>>

(* Mutant: kill does not wake a sleeper. *)
KillNoWake(c, n) ==
  /\ At(c, "sys") /\ lock = 0
  /\ \E s \in Slot :
       /\ pid[s] = n /\ \A r \in 1 .. s - 1 : pid[r] # n
       /\ killed' = [killed EXCEPT ![s] = TRUE]
  /\ where' = [where EXCEPT ![run[c]] = "run"]
  /\ UNCHANGED <<state, pid, parent, is_process, chan, kstack, via, waits, np,
                 cpuVars, nextpid, bootVars, panicked>>

(* kill: the first slot with this pid, whatever its state. *)
Kill(c, n) ==
  /\ At(c, "sys") /\ lock = 0
  /\ \E s \in Slot :
       /\ pid[s] = n /\ \A r \in 1 .. s - 1 : pid[r] # n
       /\ killed' = [killed EXCEPT ![s] = TRUE]
       /\ state' = [state EXCEPT ![s] = IF @ = "SLEEPING" THEN "RUNNABLE"
                                                          ELSE @]
  /\ where' = [where EXCEPT ![run[c]] = "run"]
  /\ UNCHANGED <<pid, parent, is_process, chan, kstack, via, waits, np,
                 cpuVars, nextpid, bootVars, panicked>>

-----------------------------------------------------------------------------
(* The lock that goes with e, such as tickslock, is held from the test of  *)
(* the condition until sleep has ptable.lock.                              *)
LockFree(e) == \A s \in Slot : ~(via[s] = "check" /\ waits[s] = e)

(* Kernel code of the process, or a kernel thread, finds that it must wait *)
(* for e; where proc->killed is tested, it is tested now.  A system call   *)
(* sleeps in one loop at most.                                             *)
Block(c, e) ==
  LET me == run[c] IN
  /\ \/ At(c, "run") /\ ~is_process[me]
     \/ At(c, "sys")
     \/ At(c, "exit") /\ e \notin Killable
     \/ ~panicked /\ me # 0 /\ via[me] = "woken" /\ waits[me] = e
  /\ is_process[me] /\ e \in Killable => ~killed[me]
  /\ LockFree(e)
  /\ waits' = [waits EXCEPT ![me] = e]
  /\ via' = [via EXCEPT ![me] = "check"]
  /\ UNCHANGED <<slotVars, where, np, cpuVars, nextpid, bootVars, panicked>>

(* sleep, from the acquisition of ptable.lock to the call of sched. *)
Sleep(c) ==
  LET me == run[c] IN
  /\ ~panicked /\ me # 0 /\ via[me] = "check" /\ lock = 0
  /\ chan' = [chan EXCEPT ![me] = waits[me]]
  /\ state' = [state EXCEPT ![me] = "SLEEPING"]
  /\ via' = [via EXCEPT ![me] = "sleep"]
  /\ lock' = c
  /\ UNCHANGED <<pid, parent, killed, is_process, kstack, where, waits, np,
                 run, scan, nextpid, bootVars, panicked>>

(* The loop around sleep ends: the condition holds, or proc->killed is set *)
(* and tested.                                                             *)
Unblock(c) ==
  LET me == run[c] IN
  /\ ~panicked /\ me # 0 /\ via[me] = "woken" /\ LockFree(waits[me])
  /\ waits' = [waits EXCEPT ![me] = 0]
  /\ via' = [via EXCEPT ![me] = "none"]
  /\ where' = [where EXCEPT ![me] = IF @ = "sys" THEN "run" ELSE @]
  /\ UNCHANGED <<slotVars, np, cpuVars, nextpid, bootVars, panicked>>

(* wakeup(e), called with the lock of e held. *)
Wakeup(e) ==
  /\ ~panicked /\ lock = 0 /\ LockFree(e)
  /\ state' = Wake(state, e)
  /\ UNCHANGED <<pid, parent, killed, is_process, chan, kstack, procVars, cpuVars,
                 nextpid, bootVars, panicked>>

(* Mutant: yield releases ptable.lock before it calls sched. *)
YieldUnlocked(c) ==
  LET me == run[c] IN
  /\ At(c, "run") /\ lock = 0
  /\ state' = [state EXCEPT ![me] = "RUNNABLE"]
  /\ via' = [via EXCEPT ![me] = "yield"]
  /\ UNCHANGED <<pid, parent, killed, is_process, chan, kstack, where, waits,
                 np, cpuVars, nextpid, bootVars, panicked>>

(* The timer interrupt: trap makes the process yield, unless it is in user *)
(* space and killed, in which case it calls exit.                          *)
Yield(c) ==
  LET me == run[c] IN
  /\ \E w \in {"run", "sys", "alloc", "exit"} : At(c, w)
  /\ ~(where[me] = "run" /\ is_process[me] /\ killed[me])
  /\ lock = 0
  /\ state' = [state EXCEPT ![me] = "RUNNABLE"]
  /\ via' = [via EXCEPT ![me] = "yield"]
  /\ lock' = c
  /\ UNCHANGED <<pid, parent, killed, is_process, chan, kstack, where, waits,
                 np, run, scan, nextpid, bootVars, panicked>>

(* A kernel thread's routine returns to exitkth. *)
ExitKth(c) ==
  /\ At(c, "run") /\ ~is_process[run[c]] /\ lock = 0
  /\ state' = [state EXCEPT ![run[c]] = "KZOMBIE"]
  /\ lock' = c
  /\ UNCHANGED <<pid, parent, killed, is_process, chan, kstack, procVars, run,
                 scan, nextpid, bootVars, panicked>>

(* Mutant: the scheduler starts again from the first slot after each run. *)
SwtchRestarts(c) ==
  LET me == run[c] IN
  /\ ~panicked /\ me # 0 /\ lock = c /\ state[me] # "RUNNING"
  /\ run' = [run EXCEPT ![c] = 0]
  /\ scan' = [scan EXCEPT ![c] = 1]
  /\ UNCHANGED <<slotVars, procVars, lock, nextpid, bootVars, panicked>>

(* sched: back to the scheduler, which clears away a finished kernel       *)
(* thread.                                                                 *)
Swtch(c) ==
  LET me == run[c] IN
  /\ ~panicked /\ me # 0 /\ lock = c /\ state[me] # "RUNNING"
  /\ IF state[me] = "KZOMBIE"
     THEN /\ kstack' = [kstack EXCEPT ![me] = FALSE]
          /\ pid' = [pid EXCEPT ![me] = 0]
          /\ state' = [state EXCEPT ![me] = "UNUSED"]
     ELSE UNCHANGED <<kstack, pid, state>>
  /\ run' = [run EXCEPT ![c] = 0]
  /\ scan' = [scan EXCEPT ![c] = me + 1]
  /\ UNCHANGED <<parent, killed, is_process, chan, procVars, lock, nextpid,
                 bootVars, panicked>>

(* The scheduler starts a pass over the table. *)
StartPass(c) ==
  /\ ~panicked /\ run[c] = 0 /\ lock = 0
  /\ c = BootCPU => booted > NKTH
  /\ lock' = c
  /\ UNCHANGED <<slotVars, procVars, run, scan, nextpid, bootVars, panicked>>

(* The scheduler goes on to the next runnable process of the pass and      *)
(* switches to it, or ends the pass.                                       *)
Pick(c) ==
  LET ready == {s \in scan[c] .. NPROC : state[s] = "RUNNABLE"} IN
  /\ ~panicked /\ run[c] = 0 /\ lock = c
  /\ \/ \E s \in ready :
          /\ \A r \in ready : s =< r
          /\ run' = [run EXCEPT ![c] = s]
          /\ state' = [state EXCEPT ![s] = "RUNNING"]
          /\ UNCHANGED lock
     \/ ready = {} /\ lock' = 0 /\ UNCHANGED <<run, state>>
  /\ scan' = [scan EXCEPT ![c] = 1]
  /\ UNCHANGED <<pid, parent, killed, is_process, chan, kstack, procVars,
                 nextpid, bootVars, panicked>>

(* The process that was switched to returns from sched, or starts in       *)
(* forkret, and releases ptable.lock.                                      *)
Resume(c) ==
  LET me == run[c] IN
  /\ ~panicked /\ me # 0 /\ lock = c /\ state[me] = "RUNNING"
  /\ via[me] \in {"yield", "forkret", "sleep"}
  /\ chan' = [chan EXCEPT ![me] = IF via[me] = "sleep" THEN 0 ELSE @]
  /\ via' = [via EXCEPT ![me] = IF @ = "sleep" THEN "woken" ELSE "none"]
  /\ lock' = 0
  /\ UNCHANGED <<state, pid, parent, killed, is_process, kstack, where, waits,
                 np, run, scan, nextpid, bootVars, panicked>>

-----------------------------------------------------------------------------
(* Steps a CPU goes on taking by itself. *)
Schedule(c) == StartPass(c) \/ Pick(c) \/ Swtch(c) \/ Resume(c)

(* Steps of the process a CPU runs. *)
Call(c) ==
  \/ Syscall(c) \/ SysRet(c) \/ Fault(c)
  \/ Fork(c) \/ ForkStack(c) \/ ForkFail(c) \/ ForkDone(c)
  \/ Exit(c) \/ ExitZombie(c) \/ ExitKth(c)
  \/ Wait(c)
  \/ \E n \in 0 .. MaxPid : Kill(c, n)
  \/ \E e \in Event : Block(c, e)
  \/ Sleep(c) \/ Unblock(c)
  \/ Yield(c)

Next ==
  \/ \E c \in CPU : Schedule(c) \/ Call(c)
  \/ \E e \in Event : Wakeup(e)
  \/ Boot \/ KthFail \/ UserInitFail

Spec == Init /\ [][Next]_vars

(* Timer interrupts come and a CPU does not stop; a process that is given  *)
(* a CPU again and again gets on with its system call, and the condition   *)
(* it sleeps for holds some day; init.c calls wait for ever.               *)
Fairness ==
  /\ \A c \in CPU :
       /\ WF_vars(Schedule(c))
       /\ WF_vars(Yield(c) \/ Sleep(c) \/ (lock = c /\ Wait(c)))
       /\ WF_vars(run[c] # 0 /\ killed[run[c]] /\ Exit(c))
  /\ \A s \in Slot :
       SF_vars(\E c \in CPU :
                 /\ run[c] = s
                 /\ \/ SysRet(c) \/ ForkStack(c) \/ ForkDone(c)
                    \/ ExitZombie(c) \/ Unblock(c))
  /\ SF_vars(\E c \in CPU : run[c] # 0 /\ run[c] = initproc /\ Syscall(c))
  /\ SF_vars(\E c \in CPU : run[c] # 0 /\ run[c] = initproc /\ Wait(c))
  /\ \A e \in Event : SF_vars(Wakeup(e))
  /\ WF_vars(Boot)

FairSpec == Spec /\ Fairness

-----------------------------------------------------------------------------
Live == {s \in Slot : state[s] \in {"SLEEPING", "RUNNABLE", "RUNNING"}}

(* A process runs on one CPU at a time, and a CPU is still on the stack of *)
(* a process that has given itself up (runnable, asleep or exited) only    *)
(* while it holds ptable.lock, so no other CPU can pick it up or reap it.  *)
OnOneCPU ==
  /\ \A c, d \in CPU : run[c] = run[d] /\ run[c] # 0 => c = d
  /\ \A s \in Slot : state[s] = "RUNNING" => \E c \in CPU : run[c] = s
  /\ \A c \in CPU : run[c] # 0 /\ state[run[c]] # "RUNNING" => lock = c

(* A kernel stack is freed neither under a CPU nor under a process that is *)
(* to run again, and a free slot keeps none: wait frees the stacks of      *)
(* processes, the scheduler those of kernel threads, and fork, without the *)
(* lock, that of a child it gives up.  The variables keep their types.     *)
StackOwned ==
  /\ TypeOK
  /\ \A c \in CPU : run[c] # 0 => kstack[run[c]]
  /\ \A s \in Live : kstack[s]
  /\ \A s \in Slot : state[s] = "UNUSED" => ~kstack[s]

(* kill (proc.c:455) wakes a process "from sleep if necessary": none that  *)
(* has been killed is left asleep in a loop that tests proc->killed.       *)
KillWakes ==
  \A s \in Slot :
    is_process[s] /\ killed[s] /\ state[s] = "SLEEPING" => waits[s] \notin Killable

(* The scheduler's passes starve nobody. *)
RunnableRuns ==
  \A s \in Slot : state[s] = "RUNNABLE" ~> state[s] # "RUNNABLE" \/ panicked

(* A killed process exits, whatever it was doing, unless it is init, whose *)
(* exit stops the machine.  The fairness makes this a claim about channels *)
(* that are woken again and again, as ticks is: a process killed between   *)
(* its test of proc->killed and its sleep (KillWakes) is otherwise left    *)
(* asleep, on a pipe or the console perhaps for ever.                      *)
KilledExits ==
  \A s \in Slot : killed[s] /\ is_process[s] /\ s \in Live
                    ~> s \notin Live \/ panicked

(* Init reaps every zombie it is left with. *)
OrphansReaped ==
  \A s \in Slot : state[s] = "ZOMBIE" /\ parent[s] = initproc
                    ~> state[s] # "ZOMBIE" \/ panicked
=============================================================================
