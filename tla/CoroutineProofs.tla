-------------------------- MODULE CoroutineProofs ---------------------------
(***************************************************************************)
(* Proofs about Coroutine for any number of coroutines and any sequence   *)
(* of calls.                                                               *)
(***************************************************************************)
EXTENDS Coroutine, TLAPS

-----------------------------------------------------------------------------
(* The inductive invariant.                                                *)

NoLapse == lapses = {}

(* What RunsLive says of a program without lapses. *)
InStep ==
  /\ co_list # 0 => life[co_list] = "live"
  /\ running \in Co => co_current = running

(* No coroutine is linked to another: co_new ends with an assignment to    *)
(* its own variable.                                                       *)
Unlinked == \A c \in Co : next[c] = 0

(* A coroutine that runs is the one co_run took from the list, and co_run  *)
(* has left the point of the host in host_context.                         *)
Running ==
  running \in Co =>
    /\ running = co_list /\ running = co_current
    /\ host # "idle" /\ context["host"] = "host"

(* Every live coroutine that does not run can be resumed, once, by its     *)
(* own slot.                                                               *)
Resumable ==
  \A c \in Co : life[c] = "live" /\ running # c => context[c] = c

(* co_run_all is in its loop only while tmp is not 0. *)
Typed == TypeOK /\ (host = "all" => tmp \in Co)

Core ==
  /\ Typed /\ InStep /\ crashed = FALSE
  /\ Unlinked /\ Running /\ Resumable

IInv == Typed /\ (NoLapse => Core)

-----------------------------------------------------------------------------
(* The host resumes the first coroutine of the list (co_run). *)
LEMMA HostResumes ==
  ASSUME Core, running = "host", co_list # 0, co_current' = co_list,
         host' \in {"run", "all"}, host' = "all" => tmp' \in Co, tmp' \in Ptr,
         Swtch("host", co_list), UNCHANGED <<co_list, next, life, lapses>>
  PROVE  Core'
<1>1. co_list \in Co /\ life[co_list] = "live" /\ running # co_list
  BY CoConstants DEF Core, Typed, InStep, TypeOK, Ptr
<1>2. context[co_list] = co_list /\ co_list \in Stack /\ "host" \in Stack
  BY <1>1 DEF Core, Typed, Resumable, Stack
<1>3. /\ context' = [context EXCEPT ![co_list] = "stale", !["host"] = "host"]
      /\ running' = co_list /\ crashed' = crashed
  BY <1>1, <1>2 DEF Swtch
<1>4. context \in [Stack -> Stack \cup {"none", "stale"}]
  BY DEF Core, Typed, InStep, TypeOK
<1>5. TypeOK'
  BY <1>1, <1>2, <1>3, <1>4 DEF Core, Typed, InStep, TypeOK
<1>6. context'["host"] = "host"
  BY <1>2, <1>3, <1>4
<1>7. Resumable'
  <2> SUFFICES ASSUME NEW c \in Co, life[c] = "live", co_list # c
               PROVE  context'[c] = c
    BY <1>3, Zenon DEF Resumable
  <2> QED
    BY <1>1, <1>2, <1>3, <1>4, CoConstants DEF Core, Typed, Resumable, Stack
<1> QED
  BY <1>1, <1>3, <1>5, <1>6, <1>7
     DEF Core, Typed, InStep, Unlinked, Running

(* The running coroutine gives the CPU back to the host (co_yield and      *)
(* co_exit at the end of the list).                                        *)
LEMMA HostResumed ==
  ASSUME Core, running \in Co, Swtch(co_current, "host"),
         co_current' \in Ptr, co_list' \in {co_list, 0},
         life' \in [Co -> {"free", "live", "exited"}],
         \A c \in Co : c # running => life'[c] = life[c],
         co_list' # 0 => life' = life,
         UNCHANGED <<next, host, tmp, lapses>>
  PROVE  Core'
<1>1. /\ co_current = running /\ running = co_list
      /\ context["host"] = "host" /\ "host" \in Stack /\ running \in Stack
      /\ "host" \notin Co
  BY CoConstants DEF Core, Typed, InStep, Running, Stack
<1>2. /\ context' = [context EXCEPT !["host"] = "stale", ![running] = running]
      /\ running' = "host" /\ crashed' = crashed
  BY <1>1 DEF Swtch
<1>3. context \in [Stack -> Stack \cup {"none", "stale"}]
  BY DEF Core, Typed, InStep, TypeOK
<1>4. TypeOK'
  BY <1>1, <1>2, <1>3 DEF Core, Typed, InStep, TypeOK, Ptr
<1>5. Resumable'
  <2> SUFFICES ASSUME NEW c \in Co, life'[c] = "live"
               PROVE  context'[c] = c
    BY DEF Resumable
  <2>1. CASE c = running
    BY <2>1, <1>1, <1>2, <1>3
  <2>2. CASE c # running
    BY <2>2, <1>1, <1>2, <1>3 DEF Core, Typed, Resumable, Stack
  <2> QED
    BY <2>1, <2>2
<1> QED
  BY <1>1, <1>2, <1>4, <1>5
     DEF Core, Typed, InStep, Unlinked, Running

LEMMA NewKeeps ==
  ASSUME Core, NEW c \in Co, CoNew(c), NoLapse, NoLapse'
  PROVE  Core'
<1>1. /\ life[c] = "free" /\ life' = [life EXCEPT ![c] = "live"]
      /\ next' = [next EXCEPT ![c] = 0]
      /\ context' = [context EXCEPT ![c] = c]
      /\ co_list' = IF co_list = 0 THEN c ELSE co_list
      /\ UNCHANGED <<co_current, running, host, tmp, crashed, lapses>>
  BY Zenon DEF CoNew, NoLapse
<1>2. TypeOK
  BY DEF Core, Typed, InStep
<1>3. c \in Stack /\ 0 \in Ptr /\ c \in Ptr
  BY DEF Stack, Ptr
<1>4. TypeOK'
  BY <1>1, <1>2, <1>3 DEF TypeOK
<1>5. running # c /\ co_list # c
  BY <1>1, CoConstants DEF Core, Typed, InStep, Running
<1>6. (co_list # 0 => life[co_list] = "live")'
  BY <1>1, <1>2, <1>5 DEF Core, Typed, InStep, TypeOK, Ptr
<1>7. Unlinked'
  BY <1>1, <1>2 DEF Core, Typed, Unlinked, TypeOK
<1>8. Running'
  BY <1>1, <1>2, <1>3, CoConstants DEF Core, Typed, Running, TypeOK, Stack
<1>9. Resumable'
  BY <1>1, <1>2, <1>3 DEF Core, Typed, Resumable, TypeOK, Stack
<1> QED
  BY <1>1, <1>4, <1>6, <1>7, <1>8, <1>9 DEF Core, Typed, InStep

LEMMA DestroyKeeps ==
  ASSUME Core, NEW c \in Co, CoDestroy(c), NoLapse, NoLapse'
  PROVE  Core'
<1>1. /\ life[c] \notin {"free", "live"} /\ life' = [life EXCEPT ![c] = "free"]
      /\ context' = [context EXCEPT ![c] = "stale"]
      /\ UNCHANGED <<co_list, co_current, next, running, host, tmp, crashed, lapses>>
  BY DEF CoDestroy, NoLapse
<1>2. /\ life \in [Co -> {"free", "live", "exited"}] /\ co_list \in Ptr
      /\ context \in [Stack -> Stack \cup {"none", "stale"}]
      /\ c \in Stack /\ c # "host"
  BY CoConstants DEF Core, Typed, TypeOK, Stack
<1>3. /\ life' \in [Co -> {"free", "live", "exited"}]
      /\ context' \in [Stack -> Stack \cup {"none", "stale"}]
  BY <1>1, <1>2
<1>4. /\ \A d \in Co : life'[d] = "live" <=> life[d] = "live"
      /\ \A d \in Stack : d # c => context'[d] = context[d]
  BY <1>1, <1>2
<1>5. TypeOK'
  BY <1>1, <1>2, <1>3 DEF Core, Typed, TypeOK
<1>6. InStep'
  BY <1>1, <1>2, <1>4 DEF Core, Typed, InStep, Ptr
<1>7. Resumable'
  BY <1>1, <1>2, <1>4 DEF Core, Typed, Resumable, Stack
<1>8. Running' /\ Unlinked'
  BY <1>1, <1>2, <1>4 DEF Core, Typed, Running, Unlinked, Stack
<1> QED
  BY <1>1, <1>5, <1>6, <1>7, <1>8 DEF Core, Typed

LEMMA HostBackKeeps ==
  ASSUME Core, HostBack
  PROVE  Core'
<1>1. host = "all" => tmp' = 0
  BY CoConstants DEF HostBack, Core, Typed, Unlinked
<1>2. /\ host' = "idle" /\ tmp' \in Ptr
      /\ UNCHANGED <<co_list, next, life, co_current, context, running, crashed, lapses>>
  BY <1>1 DEF HostBack, Core, Typed, InStep, TypeOK, Ptr
<1> QED
  BY <1>2, CoConstants
     DEF HostBack, Core, Typed, InStep, TypeOK, Unlinked, Running,
         Resumable

LEMMA YieldKeeps ==
  ASSUME Core, CoYield, NoLapse, NoLapse'
  PROVE  Core'
<1>1. running \in Co /\ co_current = running /\ co_current # 0
  BY CoConstants
     DEF CoYield, CoCalls, HostCalls, CalledFromHost, NoLapse, Core, Typed, InStep
<1>2. next[co_current] = 0
  BY <1>1 DEF Core, Typed, Unlinked
<1>3. /\ co_current' = 0 /\ Swtch(co_current, "host")
      /\ UNCHANGED <<co_list, next, life, host, tmp, lapses>>
  BY <1>1, <1>2 DEF CoYield, NoLapse
<1>4. life' \in [Co -> {"free", "live", "exited"}] /\ co_current' \in Ptr
  BY <1>3 DEF Core, Typed, InStep, TypeOK, Ptr
<1>5. /\ co_list' \in {co_list, 0} /\ UNCHANGED <<next, host, tmp, lapses>>
      /\ \A c \in Co : c # running => life'[c] = life[c]
      /\ co_list' # 0 => life' = life
  BY <1>3
<1> QED
  BY <1>1, <1>3, <1>4, <1>5, HostResumed, Zenon

LEMMA ExitKeeps ==
  ASSUME Core, CoExit, NoLapse, NoLapse'
  PROVE  Core'
<1>1. running \in Co /\ co_current = running
  BY CoConstants
     DEF CoExit, CoCalls, HostCalls, CalledFromHost, NoLapse, Core, Typed, InStep
<1>2. next[co_current] = 0
  BY <1>1 DEF Core, Typed, Unlinked
<1>3. /\ co_list' = 0 /\ Swtch(co_current, "host")
      /\ life' = [c \in Co |-> IF c = running THEN "exited" ELSE life[c]]
      /\ UNCHANGED <<co_current, next, host, tmp, lapses>>
  BY <1>2 DEF CoExit, NoLapse
<1>4. life' \in [Co -> {"free", "live", "exited"}] /\ co_current' \in Ptr
  BY <1>3 DEF Core, Typed, InStep, TypeOK
<1>5. /\ co_list' \in {co_list, 0} /\ UNCHANGED <<next, host, tmp, lapses>>
      /\ \A c \in Co : c # running => life'[c] = life[c]
      /\ co_list' # 0 => life' = life
  BY <1>3
<1> QED
  BY <1>1, <1>3, <1>4, <1>5, HostResumed, Zenon

LEMMA RunKeeps ==
  ASSUME Core, CoRun \/ CoRunAll
  PROVE  Core'
<1>1. CASE CoRun
  BY <1>1, HostResumes, Zenon DEF CoRun, HostCalls, Core, Typed, InStep, TypeOK
<1>2. CASE CoRunAll
  <2>1. co_list \in Co
    BY <1>2 DEF CoRunAll, Core, Typed, InStep, TypeOK, Ptr
  <2> QED
    BY <2>1, <1>2, HostResumes DEF CoRunAll, HostCalls, Ptr
<1> QED
  BY <1>1, <1>2

LEMMA CoreKeeps ==
  ASSUME Core, [Next]_vars, NoLapse, NoLapse'
  PROVE  Core'
<1>1. CASE UNCHANGED vars
  BY <1>1 DEF vars, Core, Typed, InStep, TypeOK, Unlinked, Running, Resumable
<1>2. CASE Next
  BY <1>2, NewKeeps, DestroyKeeps, RunKeeps, HostBackKeeps, YieldKeeps,
     ExitKeeps, Zenon DEF Next
<1> QED
  BY <1>1, <1>2

(* The variables keep their types, and a lapse is not forgotten. *)
LEMMA SwtchTyped ==
  ASSUME TypeOK, NEW a \in Stack, NEW b \in Stack, Swtch(a, b)
  PROVE  /\ context' \in [Stack -> Stack \cup {"none", "stale"}]
         /\ running' \in Stack /\ crashed' \in BOOLEAN
<1>1. context \in [Stack -> Stack \cup {"none", "stale"}] /\ running \in Stack
  BY DEF TypeOK
<1>2. CASE context[b] = "host" \/ (context[b] \in Co /\ life[context[b]] = "live")
  <2>1. /\ context' = [context EXCEPT ![b] = "stale", ![a] = running]
        /\ running' = context[b] /\ crashed' = crashed
    BY <1>2 DEF Swtch
  <2>2. context[b] \in Stack
    BY <1>2 DEF Stack
  <2> QED
    BY <1>1, <2>1, <2>2 DEF TypeOK
<1>3. CASE ~(context[b] = "host" \/ (context[b] \in Co /\ life[context[b]] = "live"))
  BY <1>1, <1>3 DEF Swtch
<1> QED
  BY <1>2, <1>3

LEMMA TypeKeeps ==
  ASSUME Typed, [Next]_vars
  PROVE  Typed' /\ (NoLapse' => NoLapse)
<1> USE CoConstants
<1>0. /\ Co \subseteq Stack /\ "host" \in Stack /\ Co \subseteq Ptr /\ 0 \in Ptr
      /\ \A p \in Ptr : p # 0 => p \in Co /\ next[p] \in Ptr
  BY DEF Stack, Ptr, Typed, TypeOK, NoLapse
<1>1. CASE UNCHANGED vars
  BY <1>1 DEF vars, Typed, TypeOK, NoLapse
<1>2. ASSUME NEW c \in Co, CoNew(c) PROVE Typed' /\ (NoLapse' => NoLapse)
  BY <1>0, <1>2 DEF CoNew, Typed, TypeOK, NoLapse, Ptr
<1>3. ASSUME NEW c \in Co, CoDestroy(c) PROVE Typed' /\ (NoLapse' => NoLapse)
  BY <1>0, <1>3 DEF CoDestroy, Typed, TypeOK, NoLapse
<1>4. CASE CoRun \/ CoRunAll
  <2>1. co_list \in Co /\ Swtch("host", co_list)
    BY <1>4, <1>0 DEF CoRun, CoRunAll, Typed, TypeOK, NoLapse
  <2>2. /\ context' \in [Stack -> Stack \cup {"none", "stale"}]
        /\ running' \in Stack /\ crashed' \in BOOLEAN
    BY <2>1, <1>0, SwtchTyped DEF Typed
  <2> QED
    BY <2>1, <2>2, <1>0, <1>4, Zenon DEF CoRun, CoRunAll, Typed, TypeOK, NoLapse
<1>5. CASE HostBack
  <2>1. tmp' \in Ptr
    BY <1>5, <1>0 DEF HostBack, Typed, TypeOK, NoLapse
  <2>2. CASE host = "all" /\ tmp' # 0 /\ co_list # 0
    <3>1. /\ co_list \in Co /\ Swtch("host", co_list) /\ co_current' = co_list
          /\ UNCHANGED <<host, co_list, next, life, lapses>>
      BY <2>2, <1>5, <1>0 DEF HostBack, Typed, TypeOK, NoLapse
    <3>2. /\ context' \in [Stack -> Stack \cup {"none", "stale"}]
          /\ running' \in Stack /\ crashed' \in BOOLEAN
      BY <3>1, <1>0, SwtchTyped DEF Typed
    <3> QED
      BY <3>1, <3>2, <2>1, <2>2, <1>0 DEF Typed, TypeOK, NoLapse
  <2>3. CASE ~(host = "all" /\ tmp' # 0 /\ co_list # 0)
    BY <2>1, <2>3, <1>0, <1>5 DEF HostBack, Typed, TypeOK, NoLapse
  <2> QED
    BY <2>2, <2>3
<1>6. CASE CoYield
  <2>1. CASE co_current = 0
    BY <2>1, <1>6 DEF CoYield, CalledFromHost, Typed, TypeOK, NoLapse
  <2>2. CASE co_current # 0
    <3> DEFINE to == IF next[co_current] # 0 THEN next[co_current] ELSE "host"
    <3>1. co_current \in Stack /\ to \in Stack /\ next[co_current] \in Ptr
      BY <2>2, <1>0 DEF Typed, TypeOK, NoLapse
    <3>2. Swtch(co_current, to) /\ co_current' = next[co_current]
      BY <2>2, <1>6 DEF CoYield
    <3> HIDE DEF to
    <3>3. /\ context' \in [Stack -> Stack \cup {"none", "stale"}]
          /\ running' \in Stack /\ crashed' \in BOOLEAN
      BY <3>1, <3>2, SwtchTyped DEF Typed
    <3> QED
      BY <3>1, <3>2, <3>3, <1>6 DEF CoYield, CalledFromHost, Typed, TypeOK, NoLapse
  <2> QED
    BY <2>1, <2>2
<1>7. CASE CoExit
  <2> DEFINE after == next[co_current]
             to == IF after # 0 THEN co_current ELSE "host"
  <2>1. co_current \in Stack /\ to \in Stack /\ after \in Ptr
    BY <1>0, <1>7 DEF CoExit, Typed, TypeOK, NoLapse
  <2>2. Swtch(co_current, to) /\ co_list' = after
    BY <1>7 DEF CoExit
  <2>3. next' \in [Co -> Ptr]
    <3>1. CASE UNCHANGED next
      BY <3>1 DEF Typed, TypeOK, NoLapse
    <3>2. CASE Unlink(after)
      <4>1. PICK prev :
              next' = IF prev = 0 THEN next ELSE [next EXCEPT ![prev] = after]
        BY <3>2 DEF Unlink
      <4> HIDE DEF after
      <4> QED
        BY <4>1, <2>1, Zenon DEF Typed, TypeOK
    <3> QED
      BY <3>1, <3>2, <1>7 DEF CoExit
  <2> HIDE DEF to, after
  <2>4. /\ context' \in [Stack -> Stack \cup {"none", "stale"}]
        /\ running' \in Stack /\ crashed' \in BOOLEAN
    BY <2>1, <2>2, SwtchTyped DEF Typed
  <2> QED
    BY <2>1, <2>2, <2>3, <2>4, <1>7 DEF CoExit, CalledFromHost, Typed, TypeOK, NoLapse
<1> QED
  BY <1>1, <1>2, <1>3, <1>4, <1>5, <1>6, <1>7 DEF Next

LEMMA Invariance == Spec => []IInv
<1>1. Init => IInv
  BY CoConstants, Zenon
     DEF Init, IInv, NoLapse, Core, Typed, InStep, TypeOK, Unlinked, Running,
         Resumable, Ptr, Stack
<1>2. IInv /\ [Next]_vars => IInv'
  BY CoreKeeps, TypeKeeps DEF IInv
<1> QED
  BY <1>1, <1>2, PTL DEF Spec

(* co_list never leads to a coroutine that has exited or whose memory has  *)
(* been handed out again, and co_current names the stack that runs, as     *)
(* long as there is no lapse.                                              *)
THEOREM RunsLiveTheorem == Spec => []RunsLive
<1>1. IInv => RunsLive
  BY DEF IInv, NoLapse, Core, Typed, InStep, RunsLive
<1> QED
  BY <1>1, Invariance, PTL

(* A swtch of coroutine.c that finds a stack pointer that was not saved or *)
(* has been used since comes after a lapse.                                *)
THEOREM NoStaleSwitchTheorem == Spec => []NoStaleSwitch
<1>1. IInv => NoStaleSwitch
  BY DEF IInv, NoLapse, Core, Typed, NoStaleSwitch
<1> QED
  BY <1>1, Invariance, PTL
=============================================================================
