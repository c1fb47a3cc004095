----------------------------- MODULE Coroutine ------------------------------
(***************************************************************************)
(* The user-level coroutines of coroutine.c.  The host and the coroutines  *)
(* each have a stack; swtch saves the point the running one has reached in *)
(* a slot and resumes the point it finds in another.  A saved point is     *)
(* good for one resumption: once its stack has run on, it is stale, and a  *)
(* switch to it is undefined.                                              *)
(*                                                                         *)
(* A coroutine is named by its address, which malloc hands out again after *)
(* co_destroy.  co_new does not set next: it is what the memory held, 0 if *)
(* it comes straight from sbrk, anything if the program has used it.       *)
(***************************************************************************)
EXTENDS Naturals, FiniteSets

CONSTANTS Co,          \* addresses of struct coroutine
          Heap         \* pointers that memory fresh from malloc may hold

ASSUME CoConstants ==
  /\ IsFiniteSet(Co) /\ 0 \notin Co /\ "host" \notin Co
  /\ Heap \subseteq Co \cup {0}

VARIABLES
  co_list, co_current, next,
  context,   \* each slot: "none", "stale", or whose stack it resumes; the
             \* slot of the host is host_context
  life,      \* each coroutine: "free", "live", or "exited"
  running,   \* whose stack the CPU is on
  host,      \* the host is in its own code, in co_run or in co_run_all
  tmp,       \* the variable of co_run_all
  crashed,
  lapses     \* what has happened that the code is not prepared for: "host",
             \* the host called co_yield or co_exit; "destroy", it destroyed
             \* a coroutine that had not exited; "heap", the memory of a new
             \* coroutine held a pointer where next lies

vars == <<co_list, co_current, next, context, life, running, host, tmp,
          crashed, lapses>>

Ptr == Co \cup {0}
Stack == Co \cup {"host"}

TypeOK ==
  /\ co_list \in Ptr /\ co_current \in Ptr /\ tmp \in Ptr
  /\ next \in [Co -> Ptr]
  /\ context \in [Stack -> Stack \cup {"none", "stale"}]
  /\ life \in [Co -> {"free", "live", "exited"}]
  /\ running \in Stack
  /\ host \in {"idle", "run", "all"}
  /\ crashed \in BOOLEAN
  /\ lapses \subseteq {"host", "destroy", "heap"}

Init ==
  /\ co_list = 0 /\ co_current = 0 /\ tmp = 0
  /\ next = [c \in Co |-> 0]
  /\ context = [s \in Stack |-> "none"]
  /\ life = [c \in Co |-> "free"]
  /\ running = "host" /\ host = "idle"
  /\ crashed = FALSE /\ lapses = {}

-----------------------------------------------------------------------------
(* swtch(&save->context, load->context): the argument is read before the   *)
(* running stack is saved, and the point it names is used up.  A switch to *)
(* a stale point or to a coroutine that has exited is undefined.           *)
Swtch(save, load) ==
  LET to == context[load] IN
  IF to = "host" \/ (to \in Co /\ life[to] = "live")
  THEN /\ context' = [context EXCEPT ![load] = "stale", ![save] = running]
       /\ running' = to
       /\ UNCHANGED crashed
  ELSE crashed' = TRUE /\ UNCHANGED <<context, running>>

(* The pointers met on the way from co_list along next. *)
Walk ==
  LET at[k \in 0 .. Cardinality(Co)] ==
        IF k = 0 THEN co_list
        ELSE IF at[k - 1] = 0 THEN 0 ELSE next[at[k - 1]]
  IN {at[k] : k \in 0 .. Cardinality(Co)}

HostCalls == ~crashed /\ running = "host" /\ host = "idle"
CoCalls == ~crashed /\ running \in Co /\ life[running] = "live"

(* co_new: the coroutine becomes the list if that is empty; otherwise the  *)
(* walk to the end of the list ends with head = co1, which links nothing.  *)
CoNew(c) ==
  /\ HostCalls \/ CoCalls
  /\ life[c] = "free" /\ 0 \in Walk
  /\ life' = [life EXCEPT ![c] = "live"]
  /\ \E p \in Heap :
       /\ next' = [next EXCEPT ![c] = p]
       /\ lapses' = IF p = 0 THEN lapses ELSE lapses \cup {"heap"}
  /\ context' = [context EXCEPT ![c] = c]
  /\ co_list' = IF co_list = 0 THEN c ELSE co_list
  /\ UNCHANGED <<co_current, running, host, tmp, crashed>>

(* co_run, as far as swtch. *)
CoRun ==
  /\ HostCalls /\ co_list # 0
  /\ co_current' = co_list
  /\ host' = "run"
  /\ Swtch("host", co_list)
  /\ UNCHANGED <<co_list, next, life, tmp, lapses>>

(* co_run_all, as far as its first co_run. *)
CoRunAll ==
  /\ HostCalls /\ co_list # 0
  /\ co_current' = co_list
  /\ tmp' = co_list
  /\ host' = "all"
  /\ Swtch("host", co_list)
  /\ UNCHANGED <<co_list, next, life, lapses>>

(* The host is back from swtch: co_run returns 1, and co_run_all goes on   *)
(* to the next element of the list, if any, with another co_run.           *)
HostBack ==
  /\ ~crashed /\ running = "host" /\ host \in {"run", "all"}
  /\ tmp' = IF host = "run" THEN tmp ELSE next[tmp]
  /\ IF host = "all" /\ tmp' # 0 /\ co_list # 0
     THEN /\ co_current' = co_list
          /\ Swtch("host", co_list)
          /\ UNCHANGED host
     ELSE /\ host' = IF host = "all" /\ tmp' # 0 THEN "all" ELSE "idle"
          /\ UNCHANGED <<co_current, context, running, crashed>>
  /\ UNCHANGED <<co_list, next, life, lapses>>

(* A call the coroutines are there to make is made by the host. *)
CalledFromHost ==
  lapses' = IF running = "host" THEN lapses \cup {"host"} ELSE lapses

(* co_yield.  Page 0 of a process is not mapped: 0->next kills it. *)
CoYield ==
  /\ CoCalls \/ HostCalls
  /\ CalledFromHost
  /\ IF co_current = 0
     THEN crashed' = TRUE /\ UNCHANGED <<co_current, context, running>>
     ELSE /\ co_current' = next[co_current]
          /\ Swtch(co_current,
                   IF next[co_current] # 0 THEN next[co_current] ELSE "host")
  /\ UNCHANGED <<co_list, next, life, host, tmp>>

(* Mutant: the last coroutine to exit stays on the list. *)
CoExitKept ==
  /\ CoCalls /\ co_current = co_list
  /\ life' = [life EXCEPT ![running] = "exited"]
  /\ Swtch(co_current, "host")
  /\ UNCHANGED <<co_list, co_current, next, host, tmp, lapses>>

(* Mutant: co_exit switches to the context of the exiting coroutine. *)
CoExitSelf ==
  /\ CoCalls /\ co_current = co_list
  /\ life' = [life EXCEPT ![running] = "exited"]
  /\ co_list' = 0
  /\ Swtch(co_current, co_current)
  /\ UNCHANGED <<co_current, next, host, tmp, lapses>>

(* co_exit unlinks co_current from the element before it: prev, which is   *)
(* not initialised when co_current is the first.                           *)
Unlink(after) ==
  \E prev \in IF co_current = co_list THEN Ptr
               ELSE {c \in Walk \ {0} : next[c] = co_current} :
    next' = IF prev = 0 THEN next ELSE [next EXCEPT ![prev] = after]

(* co_exit, called by a coroutine or reached by its return; it does        *)
(* nothing unless co_current is on the list.  If that is not the last one  *)
(* there, the switch is to its own context.                                *)
CoExit ==
  LET after == next[co_current] IN
  /\ CoCalls \/ HostCalls
  /\ co_current \in Walk \ {0}
  /\ CalledFromHost
  /\ life' = [c \in Co |-> IF c = running THEN "exited" ELSE life[c]]
  /\ IF after # 0 THEN Unlink(after) ELSE UNCHANGED next
  /\ co_list' = after
  /\ Swtch(co_current, IF after # 0 THEN co_current ELSE "host")
  /\ UNCHANGED <<co_current, host, tmp>>

(* co_destroy frees the stack and the structure, of a coroutine that has   *)
(* exited, as it should, or of one that has not.                           *)
CoDestroy(c) ==
  /\ HostCalls /\ life[c] # "free"
  /\ lapses' = IF life[c] = "live" THEN lapses \cup {"destroy"} ELSE lapses
  /\ life' = [life EXCEPT ![c] = "free"]
  /\ context' = [context EXCEPT ![c] = "stale"]
  /\ UNCHANGED <<co_list, co_current, next, running, host, tmp, crashed>>

Next ==
  \/ \E c \in Co : CoNew(c) \/ CoDestroy(c)
  \/ CoRun \/ CoRunAll \/ HostBack
  \/ CoYield \/ CoExit

Spec == Init /\ [][Next]_vars

-----------------------------------------------------------------------------
(* Without a lapse the list of live coroutines never holds one that has    *)
(* exited or been destroyed, and a stack that runs is the one co_current   *)
(* names: the switches of co_run, co_yield and co_exit keep the two in     *)
(* step, even when an address is used again.  The variables keep their     *)
(* types, lapses or not.                                                   *)
RunsLive ==
  /\ TypeOK
  /\ lapses = {} =>
       /\ co_list # 0 => life[co_list] = "live"
       /\ running \in Co => co_current = running

(* A switch to a point that was not saved, or has been resumed since, is   *)
(* the end of one of three lapses, and of nothing else that a sequence of  *)
(* calls can do.  One of them is a call coroutine.h:24 allows, "it should  *)
(* be safe to call co_yield from any non-coroutine context": co_yield does *)
(* not look at who calls it.                                               *)
NoStaleSwitch == crashed => lapses # {}

(* The same with co_yield from the host as safe as coroutine.h:24 wants    *)
(* it.  CoYielded.cfg shows that it is not.                                *)
HostMayYield == crashed => lapses \cap {"destroy", "heap"} # {}

(* coroutine.h:7 says that co_new will "append it to the global list of    *)
(* live coroutines": a live coroutine is on the list.                      *)
LiveListed == \A c \in Co : life[c] = "live" => c \in Walk
=============================================================================
