-------------------------------- MODULE Log ---------------------------------
(***************************************************************************)
(* The redo log of log.c: begin_op / log_write / end_op called by several  *)
(* processes, the commit done by the last end_op, crashes at any moment,   *)
(* and the recovery that initlog runs before the first system call.        *)
(*                                                                         *)
(* Grain of atomicity.  A section under log.lock is one step; so is one    *)
(* disk write (a block is one sector).  The tests log_write makes before   *)
(* it takes the lock are a step of their own.  sleep(&log, &log.lock)      *)
(* releases the lock and sleeps in one step.                               *)
(*                                                                         *)
(* Disk addresses are relative to log.start: address 0 is the header,      *)
(* 1 .. NLOG-1 are the log blocks, and the file system's own blocks start  *)
(* at NLOG, where mkfs puts the inodes.                                    *)
(***************************************************************************)
EXTENDS Naturals, Sequences, FiniteSets

CONSTANTS Proc,         \* processes that make file-system calls
          Val,          \* block contents
          MAXOPBLOCKS,  \* what begin_op reserves for one call
          LOGSIZE,      \* blocks the in-memory header has room for
          NLOG,         \* sb.nlog: blocks of the on-disk log, header included
          NHOME,        \* blocks of the file system outside the log
          OpBlocks      \* a call that writes this many blocks is short

ASSUME LogConstants ==
  /\ MAXOPBLOCKS \in Nat \ {0} /\ LOGSIZE \in Nat /\ NLOG \in Nat \ {0}
  /\ NHOME \in Nat /\ OpBlocks \in Nat
  /\ OpBlocks =< MAXOPBLOCKS /\ MAXOPBLOCKS =< LOGSIZE
  /\ IsFiniteSet(Proc)

Home == NLOG .. (NLOG + NHOME - 1)
Addr == 1 .. (NLOG + NHOME - 1)

VARIABLES
  disk,         \* the blocks on the disk, but for the log header
  hdr,          \* the log header on the disk: the block numbers it lists
  buf,          \* what bread(a) gives: the cached block or else the disk's
  dirty,        \* buffers with B_DIRTY, which bget does not recycle
  lh,           \* log.lh, the header in memory
  outstanding,  \* log.outstanding
  committing,   \* log.committing
  pc,           \* where each process is
  blk,          \* the buffer each process has locked, 0 for none
  wrote,        \* the blocks the current call of a process has written
  short,        \* no call of the transaction wrote more than OpBlocks blocks
  tail,         \* the loop counter of write_log and install_trans
  mode          \* "up", "panic", or the step of recover_from_log

diskVars == <<disk, hdr, buf, dirty>>
logVars  == <<lh, outstanding, committing, tail>>
vars == <<diskVars, logVars, pc, blk, wrote, short, mode>>

PCs == {"out", "asleep", "op", "logging", "commit", "write_log",
        "install", "finish"}
Modes == {"read_head", "install", "up", "panic"}

TypeOK ==
  /\ disk \in [Addr -> Val]
  /\ buf \in [Addr -> Val]
  /\ hdr \in Seq(Home) /\ lh \in Seq(Home)
  /\ dirty \subseteq Addr
  /\ outstanding \in Nat
  /\ committing \in BOOLEAN
  /\ pc \in [Proc -> PCs]
  /\ blk \in [Proc -> Home \cup {0}]
  /\ wrote \in [Proc -> SUBSET Home]
  /\ short \in BOOLEAN
  /\ tail \in Nat
  /\ mode \in Modes

(* A formatted disk, before the machine is switched on. *)
Init ==
  /\ disk \in [Addr -> Val]
  /\ buf = disk
  /\ hdr = <<>> /\ lh = <<>>
  /\ dirty = {}
  /\ outstanding = 0 /\ committing = FALSE
  /\ pc = [p \in Proc |-> "out"]
  /\ blk = [p \in Proc |-> 0]
  /\ wrote = [p \in Proc |-> {}] /\ short = TRUE
  /\ tail = 0
  /\ mode = "read_head"

-----------------------------------------------------------------------------
(* bwrite: the block goes to the disk and iderw clears B_DIRTY. *)
BWrite(a, v) ==
  /\ disk' = [disk EXCEPT ![a] = v]
  /\ buf' = [buf EXCEPT ![a] = v]
  /\ dirty' = dirty \ {a}

(* Mutant: a wakeup that wakes nobody. *)
WokenNobody(f) == f

(* wakeup(&log): every process asleep in begin_op tries again. *)
Woken(f) == [p \in Proc |-> IF f[p] = "asleep" THEN "out" ELSE f[p]]

(* One turn of the loop of install_trans. *)
InstallBlock ==
  /\ tail < Len(lh)
  /\ BWrite(lh[tail + 1], buf[tail + 1])
  /\ tail' = tail + 1
  /\ UNCHANGED <<hdr, lh, outstanding, committing, blk, wrote, short>>

(* Mutant: the log is erased before its last block is installed. *)
EraseEarly ==
  /\ tail + 1 >= Len(lh)
  /\ lh' = <<>>
  /\ hdr' = <<>>
  /\ short' = TRUE
  /\ UNCHANGED <<disk, buf, dirty, outstanding, committing, tail, blk, wrote>>

(* log.lh.n = 0; write_head(): the log is erased. *)
EraseLog ==
  /\ tail = Len(lh)
  /\ lh' = <<>>
  /\ hdr' = <<>>
  /\ short' = TRUE
  /\ UNCHANGED <<disk, buf, dirty, outstanding, committing, tail, blk, wrote>>

(* Mutant: the blocks already in the log are left out. *)
LogSpaceLowOps == (outstanding + 1) * MAXOPBLOCKS > LOGSIZE

LogSpaceLow == Len(lh) + (outstanding + 1) * MAXOPBLOCKS > LOGSIZE

(* begin_op: from acquire(&log.lock) to the sleep or to the return. *)
BeginOp(p) ==
  /\ mode = "up" /\ pc[p] = "out"
  /\ IF committing \/ LogSpaceLow
     THEN /\ pc' = [pc EXCEPT ![p] = "asleep"]
          /\ UNCHANGED <<outstanding, wrote>>
     ELSE /\ pc' = [pc EXCEPT ![p] = "op"]
          /\ outstanding' = outstanding + 1
          /\ wrote' = [wrote EXCEPT ![p] = {}]
  /\ UNCHANGED <<diskVars, lh, committing, tail, blk, short, mode>>

(* The caller's bread and update of b, then the tests of log_write, which  *)
(* are made without log.lock.  The buffer stays locked until brelse.  A    *)
(* call may write any number of blocks: filewrite (file.c:133) cuts a long *)
(* write into pieces of more than MAXOPBLOCKS of them.                     *)
LogWriteCheck(p, b, v) ==
  /\ mode = "up" /\ pc[p] = "op"
  /\ \A q \in Proc : blk[q] # b
  /\ buf' = [buf EXCEPT ![b] = v]
  /\ IF Len(lh) >= LOGSIZE \/ Len(lh) >= NLOG - 1 \/ outstanding < 1
     THEN mode' = "panic" /\ UNCHANGED <<pc, blk>>
     ELSE /\ pc' = [pc EXCEPT ![p] = "logging"]
          /\ blk' = [blk EXCEPT ![p] = b]
          /\ UNCHANGED mode
  /\ UNCHANGED <<disk, hdr, dirty, logVars, wrote, short>>

(* The locked part of log_write, with absorption, and the caller's brelse. *)
LogWrite(p) ==
  /\ mode = "up" /\ pc[p] = "logging"
  /\ lh' = IF \E i \in 1 .. Len(lh) : lh[i] = blk[p]
           THEN lh ELSE Append(lh, blk[p])
  /\ dirty' = dirty \cup {blk[p]}
  /\ wrote' = [wrote EXCEPT ![p] = @ \cup {blk[p]}]
  /\ short' = (short /\ Cardinality(wrote[p] \cup {blk[p]}) =< OpBlocks)
  /\ pc' = [pc EXCEPT ![p] = "op"]
  /\ blk' = [blk EXCEPT ![p] = 0]
  /\ UNCHANGED <<disk, hdr, buf, outstanding, committing, tail, mode>>

(* The first locked part of end_op. *)
EndOp(p) ==
  /\ mode = "up" /\ pc[p] = "op"
  /\ outstanding' = outstanding - 1
  /\ IF committing
     THEN mode' = "panic" /\ UNCHANGED <<committing, pc>>
     ELSE /\ UNCHANGED mode
          /\ IF outstanding' = 0
             THEN /\ committing' = TRUE
                  /\ pc' = [pc EXCEPT ![p] = "commit"]
             ELSE /\ pc' = Woken([pc EXCEPT ![p] = "out"])
                  /\ UNCHANGED committing
  /\ UNCHANGED <<diskVars, lh, tail, blk, wrote, short>>

(* commit: nothing to do for an empty log. *)
Commit(p) ==
  /\ mode = "up" /\ pc[p] = "commit"
  /\ pc' = [pc EXCEPT ![p] = IF lh = <<>> THEN "finish" ELSE "write_log"]
  /\ tail' = 0
  /\ UNCHANGED <<diskVars, lh, outstanding, committing, blk, wrote, short, mode>>

(* One turn of the loop of write_log. *)
WriteLog(p) ==
  /\ mode = "up" /\ pc[p] = "write_log" /\ tail < Len(lh)
  /\ BWrite(tail + 1, buf[lh[tail + 1]])
  /\ tail' = tail + 1
  /\ UNCHANGED <<hdr, lh, outstanding, committing, pc, blk, wrote, short,
                 mode>>

(* Mutant: commit installs without having written the header. *)
WriteHeadSkipped(p) ==
  /\ mode = "up" /\ pc[p] = "write_log" /\ tail = Len(lh)
  /\ pc' = [pc EXCEPT ![p] = "install"]
  /\ tail' = 0
  /\ UNCHANGED <<diskVars, lh, outstanding, committing, blk, wrote, short, mode>>

(* write_head after write_log: the point of commit. *)
WriteHead(p) ==
  /\ mode = "up" /\ pc[p] = "write_log" /\ tail = Len(lh)
  /\ hdr' = lh
  /\ pc' = [pc EXCEPT ![p] = "install"]
  /\ tail' = 0
  /\ UNCHANGED <<disk, buf, dirty, lh, outstanding, committing, blk, wrote,
                 short, mode>>

InstallTrans(p) ==
  /\ mode = "up" /\ pc[p] = "install"
  /\ InstallBlock
  /\ UNCHANGED <<pc, mode>>

ClearLog(p) ==
  /\ mode = "up" /\ pc[p] = "install"
  /\ EraseLog
  /\ pc' = [pc EXCEPT ![p] = "finish"]
  /\ UNCHANGED mode

(* The second locked part of end_op. *)
FinishCommit(p) ==
  /\ mode = "up" /\ pc[p] = "finish"
  /\ committing' = FALSE
  /\ pc' = Woken([pc EXCEPT ![p] = "out"])
  /\ UNCHANGED <<diskVars, lh, outstanding, tail, blk, wrote, short, mode>>

(* initlog, called by the first process before it returns to user space. *)
ReadHead ==
  /\ mode = "read_head"
  /\ lh' = hdr
  /\ tail' = 0
  /\ mode' = "install"
  /\ UNCHANGED <<diskVars, outstanding, committing, pc, blk, wrote, short>>

RecoverInstall ==
  /\ mode = "install"
  /\ InstallBlock
  /\ UNCHANGED <<pc, mode>>

RecoverClear ==
  /\ mode = "install"
  /\ EraseLog
  /\ mode' = "up"
  /\ UNCHANGED pc

(* bget recycles a clean buffer nobody holds: its block is read again from *)
(* the disk when it is next wanted.                                        *)
Recycle(a) ==
  /\ mode # "panic"
  /\ a \notin dirty
  /\ \A p \in Proc : blk[p] # a
  /\ buf' = [buf EXCEPT ![a] = disk[a]]
  /\ UNCHANGED <<disk, hdr, dirty, logVars, pc, blk, wrote, short, mode>>

(* Power failure, or the reset after a panic: only the disk is left. *)
Crash ==
  /\ buf' = disk
  /\ dirty' = {}
  /\ lh' = <<>>
  /\ outstanding' = 0 /\ committing' = FALSE
  /\ pc' = [p \in Proc |-> "out"]
  /\ blk' = [p \in Proc |-> 0]
  /\ wrote' = [p \in Proc |-> {}] /\ short' = TRUE
  /\ tail' = 0
  /\ mode' = "read_head"
  /\ UNCHANGED <<disk, hdr>>

ProcNext(p) ==
  \/ BeginOp(p)
  \/ \E b \in Home, v \in Val : LogWriteCheck(p, b, v)
  \/ LogWrite(p)
  \/ EndOp(p)
  \/ Commit(p)
  \/ WriteLog(p)
  \/ WriteHead(p)
  \/ InstallTrans(p)
  \/ ClearLog(p)
  \/ FinishCommit(p)

Recovery == ReadHead \/ RecoverInstall \/ RecoverClear

Next ==
  \/ \E p \in Proc : ProcNext(p)
  \/ Recovery
  \/ \E a \in Addr : Recycle(a)
  \/ Crash

Spec == Init /\ [][Next]_vars

(* The scheduler runs every runnable process again and again, the disk     *)
(* answers every request, and a system call writes finitely many blocks    *)
(* before it calls end_op.                                                 *)
Fairness ==
  /\ WF_vars(Recovery)
  /\ \A p \in Proc : WF_vars(ProcNext(p)) /\ SF_vars(EndOp(p))

FairSpec == Spec /\ Fairness

-----------------------------------------------------------------------------
InOp == {p \in Proc : pc[p] \in {"op", "logging"}}
Committers ==
  {p \in Proc : pc[p] \in {"commit", "write_log", "install", "finish"}}
Listed(h) == {h[i] : i \in 1 .. Len(h)}
Held == {blk[p] : p \in Proc} \ {0}

(* The blocks a restart from a disk with header h and blocks d ends up     *)
(* with: the header's blocks come from the log, the others from their own  *)
(* place.                                                                  *)
RecoverFrom(h, d) ==
  [b \in Home |-> IF b \in Listed(h)
                  THEN d[CHOOSE i \in 1 .. Len(h) : h[i] = b]
                  ELSE d[b]]

Recovered == RecoverFrom(hdr, disk)

(* The blocks as file-system calls see them; until recovery is over no     *)
(* call can run.                                                           *)
Seen ==
  IF mode \in {"up", "panic"} THEN [b \in Home |-> buf[b]] ELSE Recovered

Abs == INSTANCE AtomicDisk
         WITH Block <- Home, durable <- Recovered, mem <- Seen, active <- InOp

(* log.c:11-15: calls become durable together, and only when none is in    *)
(* progress; a crash at any step, of the commit or of the recovery itself, *)
(* leaves a disk that recovers to such a moment.                           *)
Atomicity == Abs!Spec

(* The write-ahead rule: a block of the file system is overwritten on the  *)
(* disk only while the on-disk header lists it, that is when its new       *)
(* content can be found in the log again.                                  *)
WriteAhead ==
  [][\A b \in Home : disk'[b] # disk[b] => b \in Listed(hdr)]_vars

(* begin_op's sleep misses no wakeup: while a process sleeps, some other   *)
(* process is still due to call wakeup(&log) in end_op.                    *)
NoLostWakeup ==
  \A p \in Proc : pc[p] = "asleep" => committing \/ outstanding > 0

(* When no call is in progress and no commit is running, everything the    *)
(* finished calls wrote is on the disk, the log is empty and no buffer is  *)
(* pinned.                                                                 *)
QuiescentDurable ==
  mode = "up" /\ outstanding = 0 /\ ~committing =>
    /\ hdr = <<>> /\ lh = <<>> /\ dirty = {}
    /\ \A b \in Home : disk[b] = buf[b]

(* bget may recycle any clean buffer that nobody holds: a block that       *)
(* differs from the disk is pinned with B_DIRTY or locked by its writer.   *)
UpdatesPinned ==
  \A b \in Home : buf[b] # disk[b] /\ mode = "up" => b \in dirty \cup Held

(* The room begin_op has set aside for the calls of the processes S, which *)
(* have written the blocks w, and that they have not used: one element per *)
(* block a call may still add.                                             *)
ReservedBy(S, w) ==
  {r \in S \X (1 .. MAXOPBLOCKS) : r[2] > Cardinality(w[r[1]])}

(* The most blocks a transaction of short calls has. *)
MaxLog == LOGSIZE - (MAXOPBLOCKS - OpBlocks)

(* begin_op's arithmetic (log.c:132) while the calls of the transaction    *)
(* are short: the log and what the calls in progress may still append fit  *)
(* in what is reserved, and the transaction does not grow beyond MaxLog,   *)
(* although log_write makes its own test without the lock.                 *)
Reservation ==
  mode \in {"up", "panic"} /\ short =>
    /\ \A p \in InOp :
         wrote[p] \subseteq Listed(lh) /\ Cardinality(wrote[p]) =< OpBlocks
    /\ Len(lh) + Cardinality(ReservedBy(InOp, wrote)) =< LOGSIZE
    /\ Len(lh) =< MaxLog

(* The log has not outgrown the header in memory (LOGSIZE) or the blocks   *)
(* the disk has for it (NLOG - 1).                                         *)
LogFits == Len(lh) =< LOGSIZE /\ Len(lh) =< NLOG - 1

(* log.c has three panics.  "log_write outside of trans" and               *)
(* "log.committing" are never reached; "too big a transaction" is, by      *)
(* calls that are not short, or when LOGSIZE or NLOG is too small.         *)
PanicOnlyFull ==
  mode = "panic" =>
    /\ Len(lh) >= LOGSIZE \/ Len(lh) >= NLOG - 1
    /\ ~short \/ MaxLog >= LOGSIZE \/ MaxLog >= NLOG - 1

(* A process asleep in begin_op is woken, unless the machine stops. *)
SleeperWoken ==
  \A p \in Proc : pc[p] = "asleep" ~> pc[p] # "asleep" \/ mode = "panic"
=============================================================================
