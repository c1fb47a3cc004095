-------------------------- MODULE LogControlProofs --------------------------
(***************************************************************************)
(* Proofs about the control state of log.c: who commits, who waits, and    *)
(* that the blocks of the calls in progress fit into the log.              *)
(***************************************************************************)
EXTENDS Log, FiniteSetTheorems, TLAPS

-----------------------------------------------------------------------------
(* The types of the control state.  disk and buf are left to TypeOK.       *)
ControlTypes ==
  /\ hdr \in Seq(Home) /\ lh \in Seq(Home)
  /\ outstanding \in Nat
  /\ committing \in BOOLEAN
  /\ pc \in [Proc -> PCs]
  /\ blk \in [Proc -> Home \cup {0}]
  /\ wrote \in [Proc -> SUBSET Home]
  /\ short \in BOOLEAN
  /\ tail \in Nat
  /\ mode \in Modes

(* log.outstanding counts the calls in progress; there is one committer at *)
(* most, and none while a call is in progress; an idle log is empty.       *)
Control ==
  /\ ControlTypes
  /\ outstanding = Cardinality(InOp)
  /\ committing <=> Committers # {}
  /\ \A p, q \in Committers : p = q
  /\ committing => InOp = {}
  /\ mode \notin {"up", "panic"} => pc = [p \in Proc |-> "out"]
  /\ \A p \in Proc : blk[p] # 0 <=> pc[p] = "logging"
  /\ mode \in {"up", "panic"} /\ InOp = {} /\ ~committing => lh = <<>>
  /\ \A p \in Proc : pc[p] = "finish" => lh = <<>>
  /\ NoLostWakeup

(* The processes inside a call are finitely many, and none exactly when    *)
(* their number is 0: outstanding counts them.                             *)
LEMMA InOpFinite == IsFiniteSet(InOp) /\ (Cardinality(InOp) = 0 <=> InOp = {})
                    /\ Cardinality(InOp) \in Nat
<1>1. IsFiniteSet(InOp)
  BY LogConstants, FS_Subset DEF InOp
<1> QED
  BY <1>1, FS_CardinalityType, FS_EmptySet

(* wakeup(&log) leaves every process at a program point, and nobody        *)
(* asleep.                                                                 *)
LEMMA WokenType ==
  ASSUME NEW f \in [Proc -> PCs]
  PROVE  /\ Woken(f) \in [Proc -> PCs]
         /\ \A p \in Proc : /\ Woken(f)[p] # "asleep"
                            /\ f[p] # "asleep" => Woken(f)[p] = f[p]
                            /\ f[p] = "asleep" => Woken(f)[p] = "out"
BY DEF Woken, PCs

(* Control holds when the machine is switched on.                          *)
LEMMA ControlInit == Init => Control
<1> SUFFICES ASSUME Init PROVE Control
  OBVIOUS
<1>1. InOp = {} /\ Committers = {}
  BY DEF Init, InOp, Committers
<1>2. Cardinality(InOp) = 0
  BY <1>1, FS_EmptySet
<1>3. ControlTypes
  <2>1. <<>> \in Seq(Home)
    OBVIOUS
  <2>2. committing \in BOOLEAN
    BY Zenon DEF Init
  <2>3. [p \in Proc |-> 0] \in [Proc -> Home \cup {0}]
    OBVIOUS
  <2> QED
    BY <2>1, <2>2, <2>3 DEF Init, ControlTypes, PCs, Modes
<1>4. ~committing
  BY DEF Init
<1> QED
  BY <1>1, <1>2, <1>3, <1>4 DEF Init, Control, NoLostWakeup

(* begin_op preserves Control: it counts itself in, or sleeps while        *)
(* somebody is due to wake it.                                             *)
LEMMA ControlBeginOp ==
  ASSUME Control, NEW p \in Proc, BeginOp(p)
  PROVE  Control'
<1> USE DEF Control, ControlTypes, PCs, Modes
<1>1. CASE committing \/ LogSpaceLow
  <2>1. InOp' = InOp /\ Committers' = Committers
    BY <1>1 DEF BeginOp, InOp, Committers
  <2>2. ~committing => outstanding > 0
    <3> SUFFICES ASSUME ~committing, outstanding = 0 PROVE FALSE
      OBVIOUS
    <3>1. InOp = {}
      BY InOpFinite
    <3>2. Len(lh) = 0
      BY <3>1 DEF BeginOp
    <3> QED
      BY <3>2, <1>1, LogConstants DEF LogSpaceLow
  <2> QED
    BY <1>1, <2>1, <2>2 DEF BeginOp, NoLostWakeup, diskVars
<1>2. CASE ~(committing \/ LogSpaceLow)
  <2>1. InOp' = InOp \cup {p} /\ p \notin InOp /\ Committers' = Committers
    BY <1>2 DEF BeginOp, InOp, Committers
  <2>2. Cardinality(InOp') = outstanding + 1
    BY Zenon, <2>1, InOpFinite, FS_AddElement
  <2> QED
    BY <1>2, <2>1, <2>2 DEF BeginOp, NoLostWakeup, diskVars
<1> QED
  BY <1>1, <1>2

(* The unlocked part of log_write preserves Control: it locks a buffer     *)
(* nobody holds.                                                           *)
LEMMA ControlLogWriteCheck ==
  ASSUME Control, NEW p \in Proc, NEW b \in Home, NEW v \in Val,
         LogWriteCheck(p, b, v)
  PROVE  Control'
<1> USE DEF Control, ControlTypes, PCs, Modes
<1>1. InOp' = InOp /\ Committers' = Committers
  BY DEF LogWriteCheck, InOp, Committers
<1>2. b # 0
  BY LogConstants DEF Home
<1> QED
  BY <1>1, <1>2 DEF LogWriteCheck, NoLostWakeup, logVars

(* The locked part of log_write preserves Control.                         *)
LEMMA ControlLogWrite ==
  ASSUME Control, NEW p \in Proc, LogWrite(p)
  PROVE  Control'
<1> USE DEF Control, ControlTypes, PCs, Modes
<1>1. InOp' = InOp /\ Committers' = Committers
  BY DEF LogWrite, InOp, Committers
<1>2. p \in InOp
  BY DEF LogWrite, InOp
<1>3. blk[p] \in Home
  BY DEF LogWrite
<1>4. lh' \in Seq(Home)
  BY <1>3 DEF LogWrite
<1>5. \A q \in Proc : pc[q] # "finish"
  BY <1>2 DEF Committers
<1> QED
  BY <1>1, <1>2, <1>3, <1>4, <1>5 DEF LogWrite, NoLostWakeup

(* end_op preserves Control: the last call out becomes the one committer.  *)
LEMMA ControlEndOp ==
  ASSUME Control, NEW p \in Proc, EndOp(p)
  PROVE  Control'
<1> USE DEF Control, ControlTypes, PCs, Modes
<1>1. p \in InOp /\ ~committing
  BY DEF EndOp, InOp
<1>2. Cardinality(InOp \ {p}) = outstanding - 1
  BY Zenon, <1>1, InOpFinite, FS_RemoveElement
<1>3. IsFiniteSet(InOp \ {p}) /\ Cardinality(InOp \ {p}) \in Nat
  BY InOpFinite, FS_RemoveElement, FS_CardinalityType
<1>4. Committers = {}
  BY <1>1
<1>5. CASE outstanding' = 0
  <2>1. InOp' = InOp \ {p} /\ Committers' = {p}
    BY <1>1, <1>4, <1>5 DEF EndOp, InOp, Committers
  <2>2. InOp' = {}
    BY Zenon, <2>1, <1>2, <1>3, <1>5, FS_EmptySet DEF EndOp
  <2> QED
    BY ZenonT(30), <1>1, <1>2, <1>3, <1>4, <1>5, <2>1, <2>2
       DEF EndOp, NoLostWakeup, diskVars
<1>6. CASE outstanding' # 0
  <2> DEFINE f == [pc EXCEPT ![p] = "out"]
  <2>1. f \in [Proc -> PCs]
    OBVIOUS
  <2>2. pc' = Woken(f)
    BY <1>1, <1>6 DEF EndOp
  <2> HIDE DEF f
  <2>3. /\ pc' \in [Proc -> PCs]
        /\ \A q \in Proc : pc'[q] # "asleep"
        /\ \A q \in Proc : f[q] # "asleep" => pc'[q] = f[q]
        /\ \A q \in Proc : f[q] = "asleep" => pc'[q] = "out"
    BY <2>1, <2>2, WokenType
  <2>4. InOp' = InOp \ {p} /\ Committers' = {}
    BY <1>1, <1>4, <2>3 DEF EndOp, InOp, Committers, f
  <2>5. InOp' # {}
    BY Zenon, <2>4, <1>2, <1>6, FS_EmptySet DEF EndOp
  <2> QED
    BY Zenon, <1>1, <1>2, <1>3, <1>4, <1>6, <2>3, <2>4, <2>5
       DEF EndOp, NoLostWakeup, diskVars, f, Committers
<1> QED
  BY <1>5, <1>6

(* The steps of the committer before its last one. *)
LEMMA ControlCommitSteps ==
  ASSUME Control, NEW p \in Proc,
         \/ Commit(p) \/ WriteLog(p) \/ WriteHead(p)
         \/ InstallTrans(p) \/ ClearLog(p)
  PROVE  Control'
<1> USE DEF Control, ControlTypes, PCs, Modes
<1>0. p \in Committers
  BY DEF Commit, WriteLog, WriteHead, InstallTrans, ClearLog, Committers
<1>1. InOp' = InOp /\ Committers' = Committers
  BY DEF Commit, WriteLog, WriteHead, InstallTrans, ClearLog, InOp,
         Committers, InstallBlock
<1>2. CASE Commit(p)
  BY <1>0, <1>1, <1>2 DEF Commit, NoLostWakeup, diskVars, Committers
<1>3. CASE WriteLog(p)
  BY <1>0, <1>1, <1>3 DEF WriteLog, NoLostWakeup, Committers
<1>4. CASE WriteHead(p)
  BY <1>0, <1>1, <1>4 DEF WriteHead, NoLostWakeup, Committers
<1>5. CASE InstallTrans(p)
  BY <1>0, <1>1, <1>5 DEF InstallTrans, InstallBlock, NoLostWakeup, Committers
<1>6. CASE ClearLog(p)
  <2>1. lh' = <<>> /\ hdr' = <<>> /\ <<>> \in Seq(Home)
    BY <1>6 DEF ClearLog, EraseLog
  <2> QED
    BY <1>0, <1>1, <1>6, <2>1 DEF ClearLog, EraseLog, NoLostWakeup, Committers
<1> QED
  BY <1>2, <1>3, <1>4, <1>5, <1>6

(* The end of a commit preserves Control: it wakes the sleepers and leaves *)
(* no committer.                                                           *)
LEMMA ControlFinishCommit ==
  ASSUME Control, NEW p \in Proc, FinishCommit(p)
  PROVE  Control'
<1> USE DEF Control, ControlTypes, PCs, Modes
<1> DEFINE f == [pc EXCEPT ![p] = "out"]
<1>1. f \in [Proc -> PCs]
  OBVIOUS
<1>2. pc' = Woken(f)
  BY DEF FinishCommit
<1> HIDE DEF f
<1>3. /\ pc' \in [Proc -> PCs]
      /\ \A q \in Proc : pc'[q] # "asleep"
      /\ \A q \in Proc : f[q] # "asleep" => pc'[q] = f[q]
      /\ \A q \in Proc : f[q] = "asleep" => pc'[q] = "out"
  BY <1>1, <1>2, WokenType
<1>4. p \in Committers /\ InOp = {}
  BY DEF FinishCommit, Committers
<1>5. InOp' = {} /\ Committers' = {}
  BY <1>3, <1>4 DEF InOp, Committers, f
<1>6. ~committing' /\ committing' \in BOOLEAN
  BY Zenon DEF FinishCommit
<1>7. \A q \in Proc : blk'[q] # 0 <=> pc'[q] = "logging"
  BY ZenonT(30), <1>3 DEF FinishCommit, f
<1> QED
  BY ZenonT(30), <1>3, <1>4, <1>5, <1>6, <1>7 DEF FinishCommit, NoLostWakeup, diskVars

(* The steps of a commit, of recovery, of the cache and a crash preserve   *)
(* Control.                                                                *)
LEMMA ControlOther ==
  ASSUME Control,
         \/ Recovery \/ Crash \/ UNCHANGED vars
         \/ \E a \in Addr : Recycle(a)
  PROVE  Control'
<1> USE DEF Control, ControlTypes, PCs, Modes
<1>1. CASE Recovery
  <2>1. InOp' = InOp /\ Committers' = Committers /\ pc' = pc
    BY <1>1 DEF Recovery, ReadHead, RecoverInstall, RecoverClear, InOp,
                Committers
  <2>2. InOp = {} /\ Committers = {}
    BY <1>1 DEF Recovery, ReadHead, RecoverInstall, RecoverClear, InOp,
                Committers
  <2>0. <<>> \in Seq(Home)
    OBVIOUS
  <2>3. lh' \in Seq(Home) /\ hdr' \in Seq(Home)
    BY Zenon, <1>1, <2>0 DEF Recovery, ReadHead, RecoverInstall, RecoverClear,
                InstallBlock, EraseLog, diskVars
  <2>4. /\ mode' \in {"up", "panic"} => lh' = <<>>
        /\ pc' = [p \in Proc |-> "out"]
    BY <1>1, <2>1 DEF Recovery, ReadHead, RecoverInstall, RecoverClear, EraseLog
  <2>5. short' \in BOOLEAN
    BY Zenon, <1>1 DEF Recovery, ReadHead, RecoverInstall, RecoverClear,
                InstallBlock, EraseLog
  <2>6. outstanding' = outstanding /\ committing' = committing /\ blk' = blk
        /\ wrote' = wrote /\ tail' \in Nat /\ mode' \in Modes
    BY <1>1 DEF Recovery, ReadHead, RecoverInstall, RecoverClear,
                InstallBlock, EraseLog
  <2> QED
    BY <2>1, <2>2, <2>3, <2>4, <2>5, <2>6 DEF NoLostWakeup
<1>2. CASE Crash
  <2>1. InOp' = {} /\ Committers' = {}
    BY <1>2 DEF Crash, InOp, Committers
  <2>2. Cardinality(InOp') = 0
    BY <2>1, FS_EmptySet
  <2>3. ~committing' /\ committing' \in BOOLEAN
    BY Zenon, <1>2 DEF Crash
  <2>4. ControlTypes'
    BY <1>2, <2>3 DEF Crash
  <2> QED
    BY <1>2, <2>1, <2>2, <2>3, <2>4 DEF Crash, NoLostWakeup
<1>3. CASE UNCHANGED vars
  BY <1>3 DEF vars, diskVars, logVars, InOp, Committers, NoLostWakeup
<1>4. CASE \E a \in Addr : Recycle(a)
  BY <1>4 DEF Recycle, logVars, InOp, Committers, NoLostWakeup
<1> QED
  BY <1>1, <1>2, <1>3, <1>4

(* The control invariant holds in every state, whatever the constants. *)
THEOREM ControlInvariant == Spec => []Control
<1>1. Init => Control
  BY ControlInit
<1>2. Control /\ [Next]_vars => Control'
  <2> SUFFICES ASSUME Control, [Next]_vars PROVE Control'
    OBVIOUS
  <2> QED
    BY ControlBeginOp, ControlLogWriteCheck, ControlLogWrite, ControlEndOp,
       ControlCommitSteps, ControlFinishCommit, ControlOther
       DEF Next, ProcNext
<1> QED
  BY <1>1, <1>2, PTL DEF Spec

(* begin_op's sleep never misses the wakeup(&log) of end_op, for any       *)
(* number of processes and any sizes with MAXOPBLOCKS =< LOGSIZE.          *)
THEOREM SleepersHaveWaker == Spec => []NoLostWakeup
<1>1. Control => NoLostWakeup
  BY DEF Control
<1> QED
  BY <1>1, ControlInvariant, PTL

-----------------------------------------------------------------------------
(* The set of blocks a call has written is finite.                         *)
LEMMA WroteFinite ==
  ASSUME NEW S \in SUBSET Home
  PROVE  IsFiniteSet(S) /\ Cardinality(S) \in Nat
<1>1. IsFiniteSet(Home)
  BY LogConstants, FS_Interval DEF Home
<1> QED
  BY <1>1, FS_Subset, FS_CardinalityType

(* The set of blocks reserved and not yet logged is finite.                *)
LEMMA ReservedFinite ==
  ASSUME NEW S, IsFiniteSet(S), NEW w
  PROVE  /\ IsFiniteSet(ReservedBy(S, w))
         /\ Cardinality(ReservedBy(S, w)) \in Nat
         /\ Cardinality(ReservedBy(S, w)) =< Cardinality(S) * MAXOPBLOCKS
<1>1. IsFiniteSet(1 .. MAXOPBLOCKS) /\ Cardinality(1 .. MAXOPBLOCKS) = MAXOPBLOCKS
  BY LogConstants, FS_Interval
<1>2. /\ IsFiniteSet(S \X (1 .. MAXOPBLOCKS))
      /\ Cardinality(S \X (1 .. MAXOPBLOCKS)) = Cardinality(S) * MAXOPBLOCKS
  BY Zenon, <1>1, FS_Product
<1>3. ReservedBy(S, w) \in SUBSET (S \X (1 .. MAXOPBLOCKS))
  BY DEF ReservedBy
<1> QED
  BY <1>2, <1>3, FS_Subset, FS_CardinalityType

LEMMA PairsWithOne ==
  ASSUME NEW p, NEW K, IsFiniteSet(K)
  PROVE  IsFiniteSet({p} \X K) /\ Cardinality({p} \X K) = 1 * Cardinality(K)
<1>1. IsFiniteSet({p}) /\ Cardinality({p}) = 1
  BY FS_Singleton, Zenon
<1>2. Cardinality({p} \X K) = Cardinality({p}) * Cardinality(K)
  BY <1>1, FS_Product, Zenon
<1>3. IsFiniteSet({p} \X K)
  BY <1>1, FS_Product, Zenon
<1> QED
  BY <1>1, <1>2, <1>3, Zenon

(* A call in progress keeps the part of its reservation it cannot use. *)
LEMMA ReservedSlack ==
  ASSUME NEW S, IsFiniteSet(S), NEW p \in S, NEW w, w[p] \in SUBSET Home,
         OpBlocks =< MAXOPBLOCKS, Cardinality(w[p]) =< OpBlocks
  PROVE  MAXOPBLOCKS - OpBlocks =< Cardinality(ReservedBy(S, w))
<1> DEFINE T == {p} \X ((OpBlocks + 1) .. MAXOPBLOCKS)
<1>1. /\ IsFiniteSet((OpBlocks + 1) .. MAXOPBLOCKS)
      /\ Cardinality((OpBlocks + 1) .. MAXOPBLOCKS) = MAXOPBLOCKS - OpBlocks
  BY LogConstants, FS_Interval
<1>3. Cardinality(T) = 1 * (MAXOPBLOCKS - OpBlocks)
  BY <1>1, PairsWithOne, Zenon
<1>4. Cardinality(w[p]) \in Nat
  BY WroteFinite
<1>5. T \in SUBSET ReservedBy(S, w)
  BY <1>4, LogConstants DEF ReservedBy
<1>6. Cardinality(T) =< Cardinality(ReservedBy(S, w))
  BY <1>5, ReservedFinite, FS_Subset
<1> QED
  BY <1>3, <1>6, LogConstants

(* A call that writes one more block uses one unit of its reservation. *)
LEMMA ReservedUsed ==
  ASSUME NEW S, IsFiniteSet(S), NEW p \in S, NEW w, NEW b, NEW u,
         w[p] \in SUBSET Home, b \notin w[p],
         Cardinality(w[p]) < MAXOPBLOCKS,
         u[p] = w[p] \cup {b}, \A q \in S : q # p => u[q] = w[q]
  PROVE  /\ Cardinality(u[p]) = Cardinality(w[p]) + 1
         /\ Cardinality(ReservedBy(S, u)) = Cardinality(ReservedBy(S, w)) - 1
<1> DEFINE c == Cardinality(w[p])
<1>1. IsFiniteSet(w[p]) /\ c \in Nat
  BY WroteFinite
<1>3. Cardinality(u[p]) = c + 1
  BY Zenon, <1>1, FS_AddElement
<1>4. <<p, c + 1>> \in ReservedBy(S, w)
  BY <1>1, LogConstants DEF ReservedBy
<1> HIDE DEF c
<1>5. ReservedBy(S, u) = ReservedBy(S, w) \ {<<p, c + 1>>}
  <2>1. ASSUME NEW r \in S \X (1 .. MAXOPBLOCKS)
        PROVE  r \in ReservedBy(S, u) <=>
                 r \in ReservedBy(S, w) /\ r # <<p, c + 1>>
    <3>1. CASE r[1] = p
      <4>1. r \in ReservedBy(S, u) <=> r[2] > c + 1
        BY <3>1, <1>3 DEF ReservedBy
      <4>2. r \in ReservedBy(S, w) <=> r[2] > c
        BY <3>1 DEF ReservedBy, c
      <4>3. r # <<p, c + 1>> <=> r[2] # c + 1
        BY <3>1
      <4>4. r[2] \in Nat
        BY LogConstants
      <4> QED
        BY <4>1, <4>2, <4>3, <4>4, <1>1
    <3>2. CASE r[1] # p
      BY <3>2 DEF ReservedBy
    <3> QED
      BY <3>1, <3>2
  <2> QED
    BY <2>1 DEF ReservedBy
<1>6. Cardinality(ReservedBy(S, u)) = Cardinality(ReservedBy(S, w)) - 1
  <2> DEFINE R == ReservedBy(S, w)
             x == <<p, c + 1>>
  <2>1. IsFiniteSet(R) /\ x \in R
    BY <1>4, ReservedFinite
  <2> HIDE DEF R, x
  <2>2. Cardinality(R \ {x}) = Cardinality(R) - 1
    BY Zenon, <2>1, FS_RemoveElement
  <2> QED
    BY <1>5, <2>2 DEF R, x
<1> QED
  BY <1>3, <1>6 DEF c

(* MaxLog is a length the log in memory has room for.                      *)
LEMMA MaxLogType == MaxLog \in Nat /\ MaxLog =< LOGSIZE
BY LogConstants DEF MaxLog

(* Reservation holds when the machine is switched on.                      *)
LEMMA ReservationInit == Init => Reservation
BY DEF Init, Reservation

(* Steps that leave calls, blocks written and log length alone. *)
LEMMA ReservationStutter ==
  ASSUME Reservation, InOp' = InOp, wrote' = wrote, lh' = lh, short' = short,
         mode' \in {"up", "panic"} => mode \in {"up", "panic"}
  PROVE  Reservation'
BY DEF Reservation

(* begin_op preserves Reservation: its test makes room for the whole call. *)
LEMMA ReservationBeginOp ==
  ASSUME Control, Control', Reservation, NEW p \in Proc, BeginOp(p)
  PROVE  Reservation'
<1>0. /\ ControlTypes
      /\ outstanding' = Cardinality(InOp')
  BY DEF Control
<1>1. CASE committing \/ LogSpaceLow
  <2>1. InOp' = InOp /\ wrote' = wrote
    BY <1>0, <1>1 DEF BeginOp, InOp, ControlTypes
  <2>2. lh' = lh /\ mode' = mode /\ short' = short
    BY DEF BeginOp, diskVars
  <2> QED
    BY <2>1, <2>2, ReservationStutter
<1>2. CASE ~(committing \/ LogSpaceLow)
  <2>1. InOp' = InOp \cup {p} /\ p \notin InOp
    BY <1>0, <1>2 DEF BeginOp, InOp, ControlTypes
  <2>2. lh' = lh /\ mode' = mode /\ short' = short /\ mode = "up"
    BY DEF BeginOp, diskVars
  <2>3. Len(lh) + (outstanding + 1) * MAXOPBLOCKS =< LOGSIZE
    BY <1>0, <1>2, LogConstants DEF LogSpaceLow, ControlTypes
  <2>4. outstanding + 1 = Cardinality(InOp')
    BY <1>0, <1>2 DEF BeginOp
  <2>5. IsFiniteSet(InOp')
    BY <2>1, InOpFinite, FS_AddElement
  <2>6. /\ Cardinality(ReservedBy(InOp', wrote')) \in Nat
        /\ Cardinality(ReservedBy(InOp', wrote'))
             =< Cardinality(InOp') * MAXOPBLOCKS
    BY <2>5, ReservedFinite
  <2>7. Len(lh) + Cardinality(ReservedBy(InOp', wrote')) =< LOGSIZE
    <3> DEFINE r == Cardinality(ReservedBy(InOp', wrote'))
               m == (outstanding + 1) * MAXOPBLOCKS
    <3>1. m \in Nat /\ r \in Nat /\ Len(lh) \in Nat
      BY <1>0, <2>6, LogConstants DEF ControlTypes
    <3>2. r =< m /\ Len(lh) + m =< LOGSIZE
      BY <2>3, <2>4, <2>6
    <3> HIDE DEF r, m
    <3>3. Len(lh) + r =< LOGSIZE
      BY <3>1, <3>2, LogConstants
    <3> QED
      BY <3>3 DEF r
  <2>8. wrote'[p] = {} /\ Cardinality(wrote'[p]) = 0
    BY Zenon, <1>0, <1>2, FS_EmptySet DEF BeginOp, ControlTypes
  <2>9. \A q \in InOp : wrote'[q] = wrote[q]
    BY <1>0, <1>2, <2>1 DEF BeginOp, InOp, ControlTypes
  <2>10. ASSUME NEW q \in InOp', short
         PROVE  /\ wrote'[q] \subseteq Listed(lh)
                /\ Cardinality(wrote'[q]) =< OpBlocks
    <3>1. CASE q = p
      BY <3>1, <2>8, LogConstants
    <3>2. CASE q \in InOp
      BY <2>10, <3>2, <2>2, <2>9 DEF Reservation
    <3> QED
      BY <3>1, <3>2, <2>1
  <2> QED
    BY <2>2, <2>7, <2>10 DEF Reservation, Listed
<1> QED
  BY <1>1, <1>2

(* A header with one block appended lists that block besides those it      *)
(* listed.                                                                 *)
LEMMA ListedAppend ==
  ASSUME NEW s \in Seq(Home), NEW b \in Home
  PROVE  /\ Len(Append(s, b)) = Len(s) + 1
         /\ Listed(Append(s, b)) = Listed(s) \cup {b}
<1>1. /\ Len(Append(s, b)) = Len(s) + 1 /\ Len(s) \in Nat
      /\ \A i \in 1 .. Len(s) : Append(s, b)[i] = s[i]
      /\ Append(s, b)[Len(s) + 1] = b
  OBVIOUS
<1>2. 1 .. Len(Append(s, b)) = (1 .. Len(s)) \cup {Len(s) + 1}
  BY <1>1
<1> QED
  BY <1>1, <1>2 DEF Listed

(* The locked part of log_write preserves Reservation: a new block uses up *)
(* one of the places the call has reserved.                                *)
LEMMA ReservationLogWrite ==
  ASSUME Control, Reservation, NEW p \in Proc, LogWrite(p)
  PROVE  Reservation'
<1> SUFFICES ASSUME short' PROVE Reservation'
  BY DEF Reservation
<1>0. ControlTypes /\ blk[p] # 0
  BY DEF Control, LogWrite
<1>1. InOp' = InOp /\ p \in InOp /\ InOp \in SUBSET Proc /\ mode = "up"
  BY <1>0 DEF LogWrite, InOp, ControlTypes
<1>2. blk[p] \in Home
  BY <1>0 DEF LogWrite, ControlTypes
<1>3. /\ Listed(lh') = Listed(lh) \cup {blk[p]}
      /\ Len(lh') \in Nat
      /\ Len(lh') = IF blk[p] \in Listed(lh) THEN Len(lh) ELSE Len(lh) + 1
  <2>1. lh' = IF blk[p] \in Listed(lh) THEN lh ELSE Append(lh, blk[p])
    BY DEF LogWrite, Listed
  <2>2. lh \in Seq(Home) /\ Len(lh) \in Nat
    BY <1>0 DEF ControlTypes
  <2> QED
    BY <1>2, <2>1, <2>2, ListedAppend DEF Listed
<1>4. /\ wrote' = [wrote EXCEPT ![p] = @ \cup {blk[p]}]
      /\ \A q \in InOp \ {p} : wrote'[q] = wrote[q]
      /\ mode' = mode
  BY <1>0, <1>1 DEF LogWrite, InOp, ControlTypes
<1>5. wrote'[p] = wrote[p] \cup {blk[p]} /\ wrote \in [Proc -> SUBSET Home]
  BY <1>0, <1>4 DEF ControlTypes
<1>6. wrote[p] \in SUBSET Home /\ Cardinality(wrote[p]) \in Nat
  BY <1>5, WroteFinite
<1>r. /\ \A q \in InOp :
           wrote[q] \subseteq Listed(lh) /\ Cardinality(wrote[q]) =< OpBlocks
      /\ Len(lh) + Cardinality(ReservedBy(InOp, wrote)) =< LOGSIZE
  <2>1. short
    BY DEF LogWrite
  <2> QED
    BY <1>1, <2>1 DEF Reservation
<1>o. Cardinality(wrote'[p]) =< OpBlocks
  BY <1>5 DEF LogWrite
<1>7. /\ Cardinality(wrote'[p]) =< OpBlocks
      /\ Len(lh') + Cardinality(ReservedBy(InOp, wrote')) =< LOGSIZE
  <2>0. Cardinality(ReservedBy(InOp, wrote)) \in Nat
    BY InOpFinite, ReservedFinite
  <2>1. CASE blk[p] \in wrote[p]
    <3>1. wrote' = wrote
      BY <2>1, <1>4, <1>5
    <3>2. blk[p] \in Listed(lh)
      BY <2>1, <1>1, <1>r
    <3> QED
      BY <3>1, <3>2, <1>3, <1>o, <1>r
  <2>2. CASE blk[p] \notin wrote[p]
    <3>1. Cardinality(wrote'[p]) = Cardinality(wrote[p]) + 1
      BY <2>2, <1>5, <1>6, WroteFinite, FS_AddElement
    <3>2. Cardinality(wrote[p]) < MAXOPBLOCKS
      BY <3>1, <1>o, <1>6, LogConstants
    <3>3. /\ Cardinality(wrote'[p]) = Cardinality(wrote[p]) + 1
          /\ Cardinality(ReservedBy(InOp, wrote'))
               = Cardinality(ReservedBy(InOp, wrote)) - 1
      <4> DEFINE S == InOp
                 w == wrote
                 u == wrote'
                 b == blk[p]
      <4>1. /\ IsFiniteSet(S) /\ p \in S
            /\ w[p] \in SUBSET Home /\ b \notin w[p]
            /\ Cardinality(w[p]) < MAXOPBLOCKS
            /\ u[p] = w[p] \cup {b}
            /\ \A q \in S : q # p => u[q] = w[q]
        BY <3>2, <2>2, <1>1, <1>4, <1>5, <1>6, InOpFinite
      <4> HIDE DEF S, w, u, b
      <4>2. /\ Cardinality(u[p]) = Cardinality(w[p]) + 1
            /\ Cardinality(ReservedBy(S, u))
                 = Cardinality(ReservedBy(S, w)) - 1
        BY SMTT(30), <4>1, ReservedUsed
      <4> QED
        BY <4>2 DEF S, w, u, b
    <3> QED
      BY <3>3, <1>0, <1>3, <1>6, <1>o, <1>r, <2>0, LogConstants
         DEF ControlTypes
  <2> QED
    BY <2>1, <2>2
<1>8. Len(lh') =< MaxLog
  <2>1. wrote'[p] \in SUBSET Home
    BY <1>2, <1>5, <1>6
  <2>2. MAXOPBLOCKS - OpBlocks =< Cardinality(ReservedBy(InOp, wrote'))
    BY <1>1, <1>7, <2>1, InOpFinite, ReservedSlack, LogConstants
  <2>3. Cardinality(ReservedBy(InOp, wrote')) \in Nat
    BY InOpFinite, ReservedFinite
  <2> QED
    BY <1>3, <1>7, <2>2, <2>3, LogConstants DEF MaxLog
<1>9. \A q \in InOp : wrote'[q] \subseteq Listed(lh')
  BY SMTT(30), <1>1, <1>3, <1>4, <1>5, <1>r
<1>10. \A q \in InOp : Cardinality(wrote'[q]) =< OpBlocks
  BY <1>4, <1>7, <1>r
<1> QED
  BY ZenonT(30), <1>1, <1>7, <1>8, <1>9, <1>10 DEF Reservation

(* The unlocked test of log_write leaves the log alone.                    *)
LEMMA ReservationLogWriteCheck ==
  ASSUME Control, Reservation, NEW p \in Proc, NEW b \in Home,
         NEW v \in Val, LogWriteCheck(p, b, v)
  PROVE  Reservation'
<1>1. InOp' = InOp /\ mode = "up"
  BY DEF LogWriteCheck, InOp, Control, ControlTypes
<1>2. wrote' = wrote /\ lh' = lh /\ short' = short
  BY DEF LogWriteCheck, logVars
<1> QED
  BY <1>1, <1>2, ReservationStutter

(* end_op preserves Reservation: it gives back what the call did not use.  *)
LEMMA ReservationEndOp ==
  ASSUME Control, Reservation, NEW p \in Proc, EndOp(p)
  PROVE  Reservation'
<1>0. ControlTypes /\ p \in InOp /\ ~committing
  BY DEF Control, EndOp, InOp
<1>1. lh' = lh /\ wrote' = wrote /\ short' = short /\ mode' = mode
  BY <1>0 DEF EndOp, diskVars
<1>2. \A q \in InOp' : q \in InOp
  BY <1>0 DEF EndOp, InOp, ControlTypes, Woken
<1>3. ReservedBy(InOp', wrote') \in SUBSET ReservedBy(InOp, wrote)
  BY <1>1, <1>2 DEF ReservedBy
<1>4. Cardinality(ReservedBy(InOp', wrote'))
        =< Cardinality(ReservedBy(InOp, wrote))
  BY <1>3, InOpFinite, ReservedFinite, FS_Subset
<1>5. IsFiniteSet(InOp')
  BY <1>2, InOpFinite, FS_Subset
<1>6. /\ Cardinality(ReservedBy(InOp', wrote')) \in Nat
      /\ Cardinality(ReservedBy(InOp, wrote)) \in Nat
  BY <1>5, InOpFinite, ReservedFinite
<1>7. Len(lh) \in Nat
  BY <1>0 DEF ControlTypes
<1>8. mode' \in {"up", "panic"} /\ short' =>
        Len(lh') + Cardinality(ReservedBy(InOp', wrote')) =< LOGSIZE
  BY <1>1, <1>4, <1>6, <1>7, LogConstants DEF Reservation
<1> QED
  BY <1>1, <1>2, <1>8 DEF Reservation

(* Steps of a state in which no call is in progress. *)
LEMMA ReservationNoCalls ==
  ASSUME Reservation, InOp' = {}, lh' \in Seq(Home),
         \/ lh' = <<>>
         \/ mode' \notin {"up", "panic"}
         \/ lh' = lh /\ mode' = mode /\ short' = short
  PROVE  Reservation'
<1>1. mode' \in {"up", "panic"} /\ short' => Len(lh') =< MaxLog
  <2>1. CASE lh' = <<>>
    BY <2>1, MaxLogType
  <2>2. CASE lh' = lh /\ mode' = mode /\ short' = short
    BY <2>2 DEF Reservation
  <2> QED
    BY <2>1, <2>2
<1>2. ReservedBy(InOp', wrote') = {}
  BY DEF ReservedBy
<1>3. Cardinality(ReservedBy(InOp', wrote')) = 0
  BY <1>2, FS_EmptySet
<1>4. mode' \in {"up", "panic"} /\ short' => Len(lh') + 0 =< LOGSIZE
  <2>1. Len(lh') \in Int => (Len(lh') =< MaxLog => Len(lh') + 0 =< LOGSIZE)
    BY MaxLogType, LogConstants
  <2> QED
    BY <1>1, <2>1
<1> QED
  BY <1>1, <1>3, <1>4 DEF Reservation

(* Every step preserves Reservation.                                       *)
LEMMA ReservationNext ==
  ASSUME Control, Control', Reservation, [Next]_vars
  PROVE  Reservation'
<1>0. ControlTypes
  BY DEF Control
<1>5. lh' \in Seq(Home)
  BY DEF Control, ControlTypes
<1>1. ASSUME NEW p \in Proc,
             \/ Commit(p) \/ WriteLog(p) \/ WriteHead(p) \/ InstallTrans(p)
             \/ ClearLog(p) \/ FinishCommit(p)
      PROVE  Reservation'
  <2>1. InOp = {}
    BY <1>1 DEF Control, Committers, Commit, WriteLog, WriteHead,
                InstallTrans, ClearLog, FinishCommit
  <2>2. InOp' = {}
    BY <1>0, <1>1, <2>1 DEF InOp, ControlTypes, Commit, WriteLog, WriteHead,
                InstallTrans, ClearLog, FinishCommit, Woken
  <2>3. CASE ClearLog(p)
    <3>1. lh' = <<>>
      BY <2>3 DEF ClearLog, EraseLog
    <3> QED
      BY <1>5, <2>2, <3>1, ReservationNoCalls
  <2>4. CASE \/ Commit(p) \/ WriteLog(p) \/ WriteHead(p)
             \/ InstallTrans(p) \/ FinishCommit(p)
    <3>1. lh' = lh /\ mode' = mode /\ short' = short
      BY <2>4 DEF Commit, WriteLog, WriteHead, InstallTrans, FinishCommit,
                  InstallBlock
    <3> QED
      BY Zenon, <1>5, <2>2, <3>1, ReservationNoCalls
  <2> QED
    BY <1>1, <2>3, <2>4
<1>2. CASE Recovery \/ Crash
  <2>1. InOp' = {}
    BY <1>2 DEF Control, InOp, Recovery, ReadHead, RecoverInstall,
                RecoverClear, Crash
  <2>2. lh' = <<>> \/ mode' \notin {"up", "panic"}
    BY <1>2 DEF Recovery, ReadHead, RecoverInstall, RecoverClear, Crash,
                EraseLog
  <2> QED
    BY <1>5, <2>1, <2>2, ReservationNoCalls
<1>3. CASE (\E a \in Addr : Recycle(a)) \/ UNCHANGED vars
  <2>1. InOp' = InOp /\ wrote' = wrote
    BY <1>3 DEF Recycle, vars, InOp
  <2>2. lh' = lh /\ mode' = mode /\ short' = short
    BY <1>3 DEF Recycle, vars, logVars
  <2> QED
    BY <2>1, <2>2, ReservationStutter
<1> QED
  BY SMTT(30), <1>1, <1>2, <1>3, ReservationBeginOp, ReservationLogWriteCheck,
     ReservationLogWrite, ReservationEndOp DEF Next, ProcNext

(* The arithmetic of begin_op (log.c:132): while the calls of the          *)
(* transaction are short, the log and what the calls in progress may still *)
(* append fit in what begin_op has reserved.  Nothing is assumed of the    *)
(* calls, which may write any number of blocks.                            *)
THEOREM ReservationInvariant == Spec => [](Control /\ Reservation)
<1>1. Init => Reservation
  BY ReservationInit
<1>2. Control /\ Control' /\ Reservation /\ [Next]_vars => Reservation'
  BY ReservationNext
<1> QED
  BY <1>1, <1>2, ControlInvariant, PTL DEF Spec

(* LogFits for the header on the disk. *)
HeadFits == Len(hdr) =< LOGSIZE /\ Len(hdr) =< NLOG - 1

(* What begin_op's test is for: as long as every call is short, neither    *)
(* the log in memory nor the log on the disk overflows, although log_write *)
(* makes its own test without the lock.  The log on the disk must have     *)
(* MaxLog blocks besides its header; with MAXOPBLOCKS = 10 and             *)
(* LOGSIZE = NLOG = 30 that holds for calls of up to nine blocks and not   *)
(* for calls of ten.                                                       *)
THEOREM LogNeverOverflows ==
  ASSUME MaxLog =< NLOG - 1
  PROVE  Spec /\ []short => [](LogFits /\ HeadFits)
<1> DEFINE Fits == LogFits /\ HeadFits
<1>1. Init => Fits
  BY LogConstants DEF Init, LogFits, HeadFits
<1>2. Control' /\ Reservation' /\ short' /\ Fits /\ [Next]_vars => Fits'
  <2> SUFFICES ASSUME Control', Reservation', short', Fits, [Next]_vars
               PROVE  Fits'
    OBVIOUS
  <2>1. mode' \in {"up", "panic"} => LogFits'
    <3>1. Len(lh)' \in Nat
      BY DEF Control, ControlTypes
    <3> QED
      BY <3>1, MaxLogType, LogConstants DEF Reservation, LogFits
  <2>2. hdr' \in {hdr, lh, <<>>}
    BY ZenonT(30) DEF Next, ProcNext, BeginOp, LogWriteCheck, LogWrite, EndOp,
       Commit, WriteLog, WriteHead, InstallTrans, ClearLog, FinishCommit,
       Recovery, ReadHead, RecoverInstall, RecoverClear, Recycle, Crash,
       InstallBlock, EraseLog, BWrite, diskVars, vars
  <2>3. mode' \notin {"up", "panic"} => lh' \in {hdr, lh, <<>>}
    BY ZenonT(30) DEF Next, ProcNext, BeginOp, LogWriteCheck, LogWrite, EndOp,
       Commit, WriteLog, WriteHead, InstallTrans, ClearLog, FinishCommit,
       Recovery, ReadHead, RecoverInstall, RecoverClear, Recycle, Crash,
       InstallBlock, EraseLog, logVars, vars
  <2>4. Len(<<>>) =< LOGSIZE /\ Len(<<>>) =< NLOG - 1
    BY LogConstants
  <2> QED
    BY <2>1, <2>2, <2>3, <2>4 DEF LogFits, HeadFits
<1> QED
  BY <1>1, <1>2, ReservationInvariant, PTL DEF Spec

(* Of the three panics of log.c only "too big a transaction" is reached:   *)
(* "log_write outside of trans" and "log.committing" are not, for any      *)
(* calls.  It is reached only with a full log, and never by short calls if *)
(* LOGSIZE and NLOG leave a block to spare.                                *)
THEOREM PanicsOnlyWhenFull == Spec => []PanicOnlyFull
<1> DEFINE Full == mode = "panic" => Len(lh) >= LOGSIZE \/ Len(lh) >= NLOG - 1
<1>1. Init => Full
  BY SMTT(30) DEF Init
<1>2. Full /\ Control /\ [Next]_vars => Full'
  <2> SUFFICES ASSUME Full, Control, [Next]_vars
               PROVE  Full'
    OBVIOUS
  <2>0. ControlTypes
    BY DEF Control
  <2>1. ASSUME NEW p \in Proc, NEW b \in Home, NEW v \in Val,
               LogWriteCheck(p, b, v)
        PROVE  Full'
    <3>1. p \in InOp
      BY <2>1 DEF LogWriteCheck, InOp
    <3>2. outstanding >= 1 /\ outstanding \in Nat
      BY <2>0, <3>1, InOpFinite DEF Control, ControlTypes
    <3>3. ~(outstanding < 1)
      BY <3>2
    <3>4. lh' = lh /\ mode = "up"
      BY <2>1 DEF LogWriteCheck, logVars
    <3> QED
      BY <2>1, <3>3, <3>4 DEF LogWriteCheck
  <2>2. ASSUME NEW p \in Proc, EndOp(p)
        PROVE  Full'
    BY <2>2 DEF EndOp, Control, InOp
  <2>3. CASE UNCHANGED vars
    BY <2>3 DEF vars, logVars
  <2>4. CASE Next /\ mode' # "panic"
    BY <2>4
  <2> QED
    BY ZenonT(30), <2>1, <2>2, <2>3, <2>4
       DEF Next, ProcNext, BeginOp, LogWrite, Commit, WriteLog,
           WriteHead, InstallTrans, ClearLog, FinishCommit, Recovery,
           ReadHead, RecoverInstall, RecoverClear, Recycle, Crash
<1>3. Full /\ Control /\ Reservation => PanicOnlyFull
  <2> SUFFICES ASSUME Full, Control, Reservation, mode = "panic"
               PROVE  ~short \/ MaxLog >= LOGSIZE \/ MaxLog >= NLOG - 1
    BY DEF PanicOnlyFull
  <2>1. Len(lh) \in Nat
    BY DEF Control, ControlTypes
  <2> QED
    BY <2>1, MaxLogType, LogConstants DEF Reservation
<1> QED
  BY <1>1, <1>2, <1>3, ReservationInvariant, PTL DEF Spec
=============================================================================
