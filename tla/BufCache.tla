------------------------------ MODULE BufCache ------------------------------
(***************************************************************************)
(* The buffer cache (bio.c) with the sleep lock of each buffer             *)
(* (sleeplock.c) and the IDE driver that fills and writes the buffers      *)
(* (ide.c).                                                                *)
(*                                                                         *)
(* An action is one section under bcache.lock, under the spin lock of a    *)
(* sleep lock, or under idelock.  Between two of them other processes and  *)
(* the disk's interrupt come in.                                           *)
(***************************************************************************)
EXTENDS Integers, Sequences, FiniteSets, Functions

CONSTANTS Proc,
          Block,     \* numbers of the blocks that are used, never 0
          Val,       \* contents of a block
          NBUF,
          Nest,      \* <<m, n>>: a caller may ask for n while it holds m
          MaxDirty,  \* log.c pins this many blocks at most
          Reads      \* whether the disk's reads succeed, a set of Booleans

ASSUME BufConstants ==
  /\ IsFiniteSet(Proc) /\ 0 \notin Proc
  /\ Block \subseteq Nat \ {0} /\ NBUF \in Nat \ {0}
  /\ Nest \subseteq Block \X Block /\ MaxDirty \in Nat
  /\ 0 \in Val /\ Reads \subseteq BOOLEAN

Buf == 1 .. NBUF

VARIABLES
  lru,        \* bcache.head: the most recently used buffer comes first
  blockno, refcnt, valid, dirty, data,   \* the fields of struct buf
  locked,     \* its sleep lock: the process that has it, 0 if none
  idequeue,
  command,    \* what the disk is working on
  disk,
  pc,
  cur,        \* the buffer of a process's call in progress
  want,       \* the block it asked for
  held,       \* the buffers a process has got from bread
  panicked

bufVars == <<blockno, refcnt, valid, dirty, data>>
ideVars == <<idequeue, command, disk>>
procVars == <<pc, cur, want, held>>
vars == <<lru, bufVars, locked, ideVars, procVars, panicked>>

PCs == {"run", "lock", "asleep_lock", "iderw", "asleep_ide", "wait_ide",
        "brelse"}
Idle == [op |-> "none"]
Commands ==
  {Idle} \cup [op : {"read"}, block : Block]
         \cup [op : {"write"}, block : Block, data : Val]

TypeOK ==
  /\ lru \in [Buf -> Buf] /\ IsInjective(lru)
  /\ blockno \in [Buf -> Block \cup {0}]
  /\ refcnt \in [Buf -> 0 .. Cardinality(Proc)]
  /\ valid \in [Buf -> BOOLEAN] /\ dirty \in [Buf -> BOOLEAN]
  /\ data \in [Buf -> Val]
  /\ locked \in [Buf -> Proc \cup {0}]
  /\ idequeue \in Seq(Buf) /\ command \in Commands
  /\ disk \in [Block -> Val]
  /\ pc \in [Proc -> PCs] /\ cur \in [Proc -> Buf \cup {0}]
  /\ want \in [Proc -> Block \cup {0}] /\ held \in [Proc -> SUBSET Buf]
  /\ panicked \in BOOLEAN

(* binit; the buffers are zero-initialised memory. *)
Init ==
  /\ lru = [i \in Buf |-> NBUF + 1 - i]
  /\ blockno = [b \in Buf |-> 0] /\ refcnt = [b \in Buf |-> 0]
  /\ valid = [b \in Buf |-> FALSE] /\ dirty = [b \in Buf |-> FALSE]
  /\ data = [b \in Buf |-> 0] /\ locked = [b \in Buf |-> 0]
  /\ idequeue = <<>> /\ command = Idle
  /\ disk \in [Block -> Val]
  /\ pc = [p \in Proc |-> "run"] /\ cur = [p \in Proc |-> 0]
  /\ want = [p \in Proc |-> 0] /\ held = [p \in Proc |-> {}]
  /\ panicked = FALSE

-----------------------------------------------------------------------------
Cached(n) == {b \in Buf : blockno[b] = n}

(* Mutant: a buffer that log.c has pinned is recycled too. *)
RecyclableDirty == {i \in Buf : refcnt[lru[i]] = 0}

(* The buffers bget may use for another block, the least recently used     *)
(* last.                                                                   *)
Recyclable == {i \in Buf : refcnt[lru[i]] = 0 /\ ~dirty[lru[i]]}

(* Mutant: bget does not count the process that waits for the buffer. *)
BgetUncounted(p, n) ==
  /\ pc[p] = "run" /\ ~panicked /\ held[p] = {}
  /\ \E b \in IF Cached(n) # {} THEN Cached(n)
              ELSE {lru[i] : i \in Recyclable} :
       /\ blockno' = [blockno EXCEPT ![b] = n]
       /\ valid' = [valid EXCEPT ![b] = @ /\ blockno[b] = n]
       /\ cur' = [cur EXCEPT ![p] = b]
  /\ pc' = [pc EXCEPT ![p] = "lock"]
  /\ want' = [want EXCEPT ![p] = n]
  /\ UNCHANGED <<lru, refcnt, dirty, data, locked, ideVars, held, panicked>>

(* bget, up to the release of bcache.lock. *)
Bget(p, n) ==
  /\ pc[p] = "run" /\ ~panicked
  /\ \A b \in held[p] : <<blockno[b], n>> \in Nest
  /\ \/ \E b \in Cached(n) :
          /\ refcnt' = [refcnt EXCEPT ![b] = @ + 1]
          /\ cur' = [cur EXCEPT ![p] = b]
          /\ pc' = [pc EXCEPT ![p] = "lock"]
          /\ UNCHANGED <<blockno, valid, dirty, panicked>>
     \/ \E i \in Recyclable :
          /\ Cached(n) = {} /\ \A j \in Recyclable : j =< i
          /\ LET b == lru[i] IN
               /\ blockno' = [blockno EXCEPT ![b] = n]
               /\ valid' = [valid EXCEPT ![b] = FALSE]
               /\ dirty' = [dirty EXCEPT ![b] = FALSE]
               /\ refcnt' = [refcnt EXCEPT ![b] = 1]
               /\ cur' = [cur EXCEPT ![p] = b]
               /\ pc' = [pc EXCEPT ![p] = "lock"]
               /\ UNCHANGED panicked
     \/ /\ Cached(n) = {} /\ Recyclable = {}
        /\ panicked' = TRUE
        /\ UNCHANGED <<blockno, refcnt, valid, dirty, cur, pc>>
  /\ want' = [want EXCEPT ![p] = n]
  /\ UNCHANGED <<lru, data, locked, ideVars, held>>

(* acquiresleep, and bread's test of B_VALID, which only the owner of the  *)
(* lock can change.                                                        *)
AcquireSleep(p) ==
  LET b == cur[p] IN
  /\ pc[p] = "lock" /\ ~panicked
  /\ IF locked[b] # 0
     THEN /\ pc' = [pc EXCEPT ![p] = "asleep_lock"]
          /\ UNCHANGED <<locked, held>>
     ELSE /\ locked' = [locked EXCEPT ![b] = p]
          /\ held' = [held EXCEPT ![p] = @ \cup {b}]
          /\ pc' = [pc EXCEPT ![p] = IF valid[b] THEN "run" ELSE "iderw"]
  /\ UNCHANGED <<lru, bufVars, ideVars, cur, want, panicked>>

(* idestart: the data of a write goes to the disk with the command. *)
IdeStart(b) ==
  IF dirty[b] THEN [op |-> "write", block |-> blockno[b], data |-> data[b]]
              ELSE [op |-> "read", block |-> blockno[b]]

(* Mutant: iderw leaves it to the interrupt to start the disk. *)
IdeRwNoStart(p) ==
  /\ pc[p] = "iderw" /\ ~panicked
  /\ idequeue' = Append(idequeue, cur[p])
  /\ pc' = [pc EXCEPT ![p] = "asleep_ide"]
  /\ UNCHANGED <<lru, bufVars, locked, command, disk, cur, want, held,
                 panicked>>

(* iderw, from the acquisition of idelock to the sleep. *)
IdeRw(p) ==
  /\ pc[p] = "iderw" /\ ~panicked
  /\ idequeue' = Append(idequeue, cur[p])
  /\ command' = IF idequeue = <<>> THEN IdeStart(cur[p]) ELSE command
  /\ pc' = [pc EXCEPT ![p] = "asleep_ide"]
  /\ UNCHANGED <<lru, bufVars, locked, disk, cur, want, held, panicked>>

(* The test of iderw after a wakeup. *)
IdeWait(p) ==
  /\ pc[p] = "wait_ide" /\ ~panicked
  /\ pc' = [pc EXCEPT ![p] = IF valid[cur[p]] /\ ~dirty[cur[p]] THEN "run"
                                                         ELSE "asleep_ide"]
  /\ UNCHANGED <<lru, bufVars, locked, ideVars, cur, want, held, panicked>>

(* The disk has done what it was told, and ideintr takes its interrupt.    *)
(* When a read has failed the data stays as it was and is valid all the    *)
(* same.                                                                   *)
IdeIntr(ok) ==
  /\ command # Idle /\ ~panicked
  /\ disk' = IF command.op = "write"
             THEN [disk EXCEPT ![command.block] = command.data] ELSE disk
  /\ LET b == Head(idequeue) IN
       /\ idequeue' = Tail(idequeue)
       /\ data' = IF dirty[b] \/ ~ok THEN data
                  ELSE [data EXCEPT ![b] = disk[command.block]]
       /\ valid' = [valid EXCEPT ![b] = TRUE]
       /\ dirty' = [dirty EXCEPT ![b] = FALSE]
       /\ pc' = [p \in Proc |-> IF pc[p] = "asleep_ide" /\ cur[p] = b
                                THEN "wait_ide" ELSE pc[p]]
  /\ command' = IF Tail(idequeue) = <<>> THEN Idle
                ELSE IdeStart(Head(Tail(idequeue)))
  /\ UNCHANGED <<lru, blockno, refcnt, locked, cur, want, held, panicked>>

(* A caller changes its buffer and hands it to log_write, which pins it. *)
LogWrite(p, b, v) ==
  /\ pc[p] = "run" /\ b \in held[p] /\ ~panicked
  /\ Cardinality({c \in Buf : dirty[c]} \cup {b}) =< MaxDirty
  /\ data' = [data EXCEPT ![b] = v]
  /\ dirty' = [dirty EXCEPT ![b] = TRUE]
  /\ UNCHANGED <<lru, blockno, refcnt, valid, locked, ideVars, procVars,
                 panicked>>

(* A caller changes its buffer and calls bwrite. *)
Bwrite(p, b, v) ==
  /\ pc[p] = "run" /\ b \in held[p] /\ ~panicked
  /\ data' = [data EXCEPT ![b] = v]
  /\ dirty' = [dirty EXCEPT ![b] = TRUE]
  /\ cur' = [cur EXCEPT ![p] = b]
  /\ want' = [want EXCEPT ![p] = blockno[b]]
  /\ pc' = [pc EXCEPT ![p] = "iderw"]
  /\ UNCHANGED <<lru, blockno, refcnt, valid, locked, ideVars, held, panicked>>

(* Mutant: the waiters are not woken. *)
ReleaseSleepQuiet(p, b) ==
  /\ pc[p] = "run" /\ b \in held[p] /\ ~panicked
  /\ locked' = [locked EXCEPT ![b] = 0]
  /\ held' = [held EXCEPT ![p] = @ \ {b}]
  /\ cur' = [cur EXCEPT ![p] = b]
  /\ pc' = [pc EXCEPT ![p] = "brelse"]
  /\ UNCHANGED <<lru, bufVars, ideVars, want, panicked>>

(* brelse, first the sleep lock with its wakeup ... *)
ReleaseSleep(p, b) ==
  /\ pc[p] = "run" /\ b \in held[p] /\ ~panicked
  /\ locked' = [locked EXCEPT ![b] = 0]
  /\ held' = [held EXCEPT ![p] = @ \ {b}]
  /\ cur' = [cur EXCEPT ![p] = b]
  /\ pc' = [q \in Proc |-> IF q = p THEN "brelse"
                           ELSE IF pc[q] = "asleep_lock" /\ cur[q] = b
                           THEN "lock" ELSE pc[q]]
  /\ UNCHANGED <<lru, bufVars, ideVars, want, panicked>>

(* The list with b moved from where it is to the head. *)
MoveToHead(b) ==
  LET at == CHOOSE i \in Buf : lru[i] = b
  IN [i \in Buf |-> IF i = 1 THEN b ELSE IF i =< at THEN lru[i - 1] ELSE lru[i]]

(* ... then, under bcache.lock, the reference and the place in the list. *)
Brelse(p) ==
  LET b == cur[p] IN
  /\ pc[p] = "brelse" /\ ~panicked
  /\ refcnt' = [refcnt EXCEPT ![b] = @ - 1]
  /\ lru' = IF refcnt[b] = 1 THEN MoveToHead(b) ELSE lru
  /\ pc' = [pc EXCEPT ![p] = "run"]
  /\ cur' = [cur EXCEPT ![p] = 0] /\ want' = [want EXCEPT ![p] = 0]
  /\ UNCHANGED <<blockno, valid, dirty, data, locked, ideVars, held, panicked>>

(* The steps of a call in progress. *)
Progress(p) == AcquireSleep(p) \/ IdeRw(p) \/ IdeWait(p) \/ Brelse(p)

Next ==
  \/ \E ok \in Reads : IdeIntr(ok)
  \/ \E p \in Proc :
       \/ Progress(p)
       \/ \E n \in Block : Bget(p, n)
       \/ \E b \in Buf :
            \/ ReleaseSleep(p, b)
            \/ \E v \in Val : LogWrite(p, b, v) \/ Bwrite(p, b, v)

Spec == Init /\ [][Next]_vars

(* The disk answers, and a call that can go on does. *)
FairSpec ==
  /\ Spec /\ WF_vars(\E ok \in Reads : IdeIntr(ok))
  /\ \A p \in Proc : WF_vars(Progress(p))

-----------------------------------------------------------------------------
Content(n) ==
  IF \E b \in Cached(n) : valid[b]
  THEN data[CHOOSE b \in Cached(n) : valid[b]] ELSE disk[n]

Owner(n) ==
  IF \E p \in Proc, b \in Cached(n) : b \in held[p]
  THEN CHOOSE p \in Proc : \E b \in Cached(n) : b \in held[p] ELSE 0

Store == INSTANCE BlockStore
           WITH mem <- [n \in Block |-> Content(n)],
                owner <- [n \in Block |-> Owner(n)]

(* The cache is one store of blocks, each in the hands of one process at a *)
(* time ("Only one process at a time can use a buffer", bio.c:14): reading *)
(* a block in, writing it out and recycling its buffer change nothing.     *)
OneStore == Store!Spec

(* bread returns the block it was asked for, read from the disk, and in no *)
(* other hands, although bget lets bcache.lock go before it sleeps for the *)
(* buffer; and iderw has something to do (its panic).  The variables keep  *)
(* their types.                                                            *)
BreadReturns ==
  /\ TypeOK
  /\ \A p \in Proc :
       /\ pc[p] \in {"iderw", "asleep_ide", "wait_ide"} =>
            blockno[cur[p]] = want[p] /\ locked[cur[p]] = p
       /\ pc[p] = "iderw" => ~valid[cur[p]] \/ dirty[cur[p]]
       /\ pc[p] = "run" => \A b \in held[p] : valid[b] /\ locked[b] = p

(* Nobody sleeps for a buffer that is free, and not everybody who has a    *)
(* buffer sleeps for another one.                                          *)
NobodyStuck ==
  LET asleep == {p \in Proc : pc[p] = "asleep_lock"} IN
  /\ \A p \in asleep : locked[cur[p]] # 0
  /\ asleep # {} => \E q \in Proc \ asleep : held[q] # {}

(* A read or a write that has been asked for ends, whatever else is queued *)
(* for the disk, unless bget has panicked.                                 *)
IdeReturns ==
  \A p \in Proc :
    pc[p] \in {"iderw", "asleep_ide", "wait_ide"} ~> pc[p] = "run" \/ panicked
=============================================================================
