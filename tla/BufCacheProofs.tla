--------------------------- MODULE BufCacheProofs ---------------------------
(***************************************************************************)
(* Proofs about BufCache, continued from BufTransferProofs: changing and   *)
(* giving back a buffer, the invariant, the properties of the cache that   *)
(* follow from it and that the cache implements BlockStore.                *)
(***************************************************************************)
EXTENDS BufTransferProofs

-----------------------------------------------------------------------------
(* A buffer its owner can use is not with the disk. *)
LEMMA MineOnly ==
  ASSUME IInv, NEW p \in Proc, pc[p] = "run", NEW b \in held[p]
  PROVE  /\ b \in Buf /\ valid[b] /\ blockno[b] \in Block /\ locked[b] = p
         /\ \A q \in Proc : q # p => b \notin held[q]
         /\ \A q \in Proc : pc[q] \in InIde => cur[q] \in Buf \ {b}
         /\ \A i \in 1 .. Len(idequeue) : idequeue[i] \in Buf \ {b}
         /\ idequeue # <<>> => idequeue[1] \in Buf \ {b}
<1>1. b \in Buf /\ blockno[b] # 0 /\ valid[b] /\ locked[b] = p
  BY HasShapes DEF IInv, Shapes, Owned, InIde
<1>2. blockno[b] \in Block
  BY <1>1 DEF IInv, TypeOK
<1>3. \A q \in Proc : q # p => b \notin held[q]
  BY <1>1 DEF IInv, Owned
<1>4. \A q \in Proc : pc[q] \in InIde => cur[q] \in Buf \ {b}
  BY HasShapes, <1>3 DEF IInv, Calls, InIde, Shapes
<1>5. \A i \in 1 .. Len(idequeue) : idequeue[i] \in Buf \ {b}
  BY <1>4 DEF IInv, Queue, InIde
<1>6. idequeue # <<>> => 1 \in 1 .. Len(idequeue)
  BY HasShapes DEF IInv, Shapes
<1> QED
  BY <1>1, <1>2, <1>3, <1>4, <1>5, <1>6

(* The owner changes the content of its buffer and marks it dirty. *)
LEMMA ChangeKeeps ==
  ASSUME IInv, NEW p \in Proc, NEW b \in held[p], NEW v \in Val, pc[p] = "run",
         data' = [data EXCEPT ![b] = v], dirty' = [dirty EXCEPT ![b] = TRUE],
         UNCHANGED <<lru, blockno, refcnt, valid, locked, ideVars, held,
                     panicked>>,
         \/ UNCHANGED <<pc, cur, want>>
         \/ /\ pc' = [pc EXCEPT ![p] = "iderw"]
            /\ cur' = [cur EXCEPT ![p] = b]
            /\ want' = [want EXCEPT ![p] = blockno[b]]
  PROVE  IInv'
<1>1. /\ TypeOK /\ Shapes /\ b \in Buf /\ valid[b] /\ blockno[b] \in Block
      /\ \A q \in Proc : pc[q] \in InIde => cur[q] \in Buf \ {b}
      /\ idequeue # <<>> => idequeue[1] \in Buf \ {b}
  BY HasShapes, MineOnly DEF IInv
<1>2. \A q \in Proc : q # p => /\ pc'[q] = pc[q] /\ cur'[q] = cur[q]
                               /\ want'[q] = want[q]
  BY <1>1 DEF Shapes
<1>3. \/ pc'[p] = "run"
      \/ pc'[p] = "iderw" /\ cur'[p] = b /\ want'[p] = blockno[b]
  BY <1>1 DEF Shapes
<1>4. dirty'[b] /\ \A c \in Buf : c # b => /\ dirty'[c] = dirty[c]
                                           /\ data'[c] = data[c]
  BY <1>1 DEF Shapes
<1>5. TypeOK'
  <2>1. pc' \in [Proc -> PCs]
    BY <1>1, Zenon DEF TypeOK, PCs
  <2>2. cur' \in [Proc -> Buf \cup {0}]
    BY <1>1, Zenon DEF TypeOK
  <2>3. want' \in [Proc -> Block \cup {0}]
    BY <1>1, ZenonT(30) DEF TypeOK
  <2> QED
    BY <1>1, <2>1, <2>2, <2>3, SMTT(30) DEF TypeOK, ideVars
<1>6. Counted'
  <2>1. \A c \in Buf : Refs(c)' = Refs(c)
    BY <1>2, <1>3 DEF Refs, Waiting
  <2> QED
    BY <2>1 DEF IInv, Counted
<1>7. Owned'
  BY <1>2, <1>3 DEF IInv, Owned, InIde
<1>8. Calls'
  <2> SUFFICES ASSUME NEW q \in Proc PROVE Calls!(q)'
    BY DEF Calls
  <2>1. CASE q = p
    BY <1>1, <1>3, <1>4, <2>1, SMTT(30) DEF Waiting, InIde
  <2>2. CASE q # p
    BY <1>1, <1>2, <1>4, <2>2, SMTT(30) DEF IInv, Calls, InIde
  <2> QED
    BY <2>1, <2>2
<1>9. Queue'
  <2>1. \A q \in Proc : pc[q] = "asleep_ide" =>
          pc'[q] = "asleep_ide" /\ cur'[q] = cur[q]
    BY <1>2, SMTT(30)
  <2>2. idequeue # <<>> => IdeStart(idequeue[1])' = IdeStart(idequeue[1])
    BY <1>1, <1>4, SMTT(30) DEF IdeStart, ideVars
  <2> QED
    BY <2>1, <2>2, SMTT(30) DEF IInv, Queue, ideVars
<1>10. Clean'
  BY <1>1, <1>4, SMTT(30) DEF IInv, Clean, ideVars
<1> QED
  BY <1>5, <1>6, <1>7, <1>8, <1>9, <1>10 DEF IInv, Listed, OneBuffer

LEMMA ReleaseKeeps ==
  ASSUME IInv, NEW p \in Proc, NEW b \in Buf, ReleaseSleep(p, b)
  PROVE  IInv'
<1>1. /\ pc[p] = "run" /\ b \in held[p] /\ TypeOK /\ Shapes
      /\ locked' = [locked EXCEPT ![b] = 0]
      /\ held' = [held EXCEPT ![p] = @ \ {b}]
      /\ cur' = [cur EXCEPT ![p] = b]
      /\ UNCHANGED <<lru, bufVars, ideVars, want, panicked>>
  BY HasShapes DEF ReleaseSleep, IInv
<1>2. pc' = [q \in Proc |-> IF q = p THEN "brelse"
                           ELSE IF pc[q] = "asleep_lock" /\ cur[q] = b
                           THEN "lock" ELSE pc[q]]
  BY DEF ReleaseSleep
<1>3. \A q \in Proc : q # p => b \notin held[q]
  BY <1>1, MineOnly
<1>4. /\ pc'[p] = "brelse" /\ cur'[p] = b /\ held'[p] = held[p] \ {b}
      /\ \A q \in Proc : q # p =>
           /\ cur'[q] = cur[q] /\ held'[q] = held[q]
           /\ pc'[q] = IF pc[q] = "asleep_lock" /\ cur[q] = b THEN "lock"
                       ELSE pc[q]
  BY <1>1, <1>2 DEF Shapes
<1>5. locked'[b] = 0 /\ \A c \in Buf : c # b => locked'[c] = locked[c]
  BY <1>1 DEF Shapes
<1>6. TypeOK'
  <2>1. pc' \in [Proc -> PCs]
    BY <1>1, <1>2 DEF TypeOK, PCs
  <2>2. locked' \in [Buf -> Proc \cup {0}] /\ cur' \in [Proc -> Buf \cup {0}]
    BY <1>1 DEF TypeOK
  <2>3. held' \in [Proc -> SUBSET Buf]
    BY <1>1 DEF TypeOK
  <2> QED
    BY <1>1, <2>1, <2>2, <2>3, SMTT(30) DEF TypeOK, bufVars, ideVars
<1>7. Counted'
  <2>1. \A c \in Buf : Refs(c)' = Refs(c)
    <3> SUFFICES ASSUME NEW c \in Buf, NEW q \in Proc
                 PROVE  q \in Refs(c)' <=> q \in Refs(c)
      BY DEF Refs
    <3>1. CASE q = p
      BY <1>1, <1>4, <3>1, SMTT(30) DEF Refs, Waiting
    <3>2. CASE q # p
      BY <1>4, <3>2 DEF Refs, Waiting
    <3> QED
      BY <3>1, <3>2
  <2> QED
    BY <1>1, <2>1, SMTT(30) DEF IInv, Counted, bufVars
<1>8. Owned'
  <2> SUFFICES ASSUME NEW q \in Proc, NEW c \in Buf PROVE Owned!(q, c)'
    BY DEF Owned
  <2>1. c \in held'[q] <=> locked'[c] = q
    <3>1. c \in held[q] <=> locked[c] = q
      BY DEF IInv, Owned
    <3>2. CASE c = b
      BY <1>3, <1>4, <1>5, <3>2, BufConstants
    <3>3. CASE c # b
      BY <1>4, <1>5, <3>1, <3>3
    <3> QED
      BY <3>2, <3>3
  <2>2. c \in held'[q] => c \in held[q]
    BY <1>4
  <2>3. pc[q] \in InIde => pc'[q] = pc[q] /\ cur'[q] = cur[q]
    BY <1>1, <1>4, SMTT(30) DEF InIde
  <2> QED
    BY <1>1, <2>1, <2>2, <2>3, SMTT(30) DEF IInv, Owned, bufVars
<1>9. Calls'
  <2> SUFFICES ASSUME NEW q \in Proc PROVE Calls!(q)'
    BY Zenon DEF Calls
  <2>1. CASE q = p
    BY <1>4, <2>1 DEF Waiting, InIde
  <2>2. CASE q # p
    <3>1. /\ cur'[q] = cur[q] /\ held'[q] = held[q]
          /\ UNCHANGED <<blockno, valid, dirty, want>>
      BY <1>1, <1>4, <2>2, SMTT(30) DEF bufVars
    <3>2. pc'[q] = "asleep_lock" => locked'[cur'[q]] # 0
      <4> SUFFICES ASSUME pc'[q] = "asleep_lock" PROVE locked'[cur'[q]] # 0
        OBVIOUS
      <4>1. pc[q] = "asleep_lock" /\ cur[q] # b
        BY <1>4, <2>2
      <4>2. cur[q] \in Buf /\ locked[cur[q]] # 0
        BY <4>1 DEF IInv, Calls, Waiting
      <4> QED
        BY <1>5, <3>1, <4>1, <4>2
    <3>3. \/ pc'[q] = pc[q]
          \/ pc[q] = "asleep_lock" /\ pc'[q] = "lock"
      BY <1>4, <2>2
    <3> QED
      BY <3>1, <3>2, <3>3 DEF IInv, Calls, Waiting, InIde
  <2> QED
    BY <2>1, <2>2, SMTT(30)
<1>10. Queue'
  <2>1. \A q \in Proc : pc[q] = "asleep_ide" =>
          pc'[q] = "asleep_ide" /\ cur'[q] = cur[q]
    BY <1>1, <1>4, SMTT(30)
  <2> QED
    BY <1>1, <2>1, QueueStays DEF bufVars, ideVars
<1> QED
  BY <1>1, <1>6, <1>7, <1>8, <1>9, <1>10, SMTT(30)
     DEF IInv, Listed, OneBuffer, Clean, bufVars, ideVars

-----------------------------------------------------------------------------
(* The list keeps every buffer once. *)
LEMMA HeadMoved ==
  ASSUME lru \in [Buf -> Buf], IsInjective(lru), Listed, NEW b \in Buf
  PROVE  LET new == MoveToHead(b) IN
         /\ new \in [Buf -> Buf] /\ IsInjective(new)
         /\ \A c \in Buf : \E i \in Buf : new[i] = c
<1> DEFINE at == CHOOSE i \in Buf : lru[i] = b
<1> DEFINE new == MoveToHead(b)
<1>1. at \in Buf /\ lru[at] = b
  BY DEF Listed
<1> HIDE DEF at
<1>2. NBUF \in Nat /\ 1 \in Buf /\ at \in 1 .. NBUF
  BY <1>1, BufConstants DEF Buf
<1>3. new = [i \in Buf |-> IF i = 1 THEN b
                           ELSE IF i =< at THEN lru[i - 1] ELSE lru[i]]
  BY DEF MoveToHead, at
<1>4. \A i \in Buf : i # 1 => i - 1 \in Buf
  BY BufConstants DEF Buf
<1>5. new \in [Buf -> Buf]
  BY <1>3, <1>4
<1>6. \A i, j \in Buf : lru[i] = lru[j] => i = j
  BY DEF IsInjective
<1>7. \A i, j \in Buf : new[i] = new[j] => i = j
  <2> SUFFICES ASSUME NEW i \in Buf, NEW j \in Buf, new[i] = new[j]
               PROVE  i = j
    OBVIOUS
  <2> DEFINE old(k) == IF k = 1 THEN at ELSE IF k =< at THEN k - 1 ELSE k
  <2>1. \A k \in Buf : old(k) \in Buf /\ new[k] = lru[old(k)]
    BY <1>1, <1>3, <1>4
  <2>2. old(i) = old(j)
    BY <1>6, <2>1
  <2>3. i \in 1 .. NBUF /\ j \in 1 .. NBUF
    BY DEF Buf
  <2> QED
    BY <1>2, <2>2, <2>3
<1>8. \A c \in Buf : \E i \in Buf : new[i] = c
  <2> SUFFICES ASSUME NEW c \in Buf PROVE \E i \in Buf : new[i] = c
    OBVIOUS
  <2>1. PICK k \in Buf : lru[k] = c
    BY DEF Listed
  <2>2. k \in 1 .. NBUF
    BY DEF Buf
  <2>3. CASE k = at
    BY <1>1, <1>2, <1>3, <2>1, <2>3
  <2>4. CASE k < at
    <3>1. k + 1 \in Buf /\ k + 1 # 1 /\ k + 1 =< at /\ (k + 1) - 1 = k
      BY <1>2, <2>2, <2>4 DEF Buf
    <3> QED
      BY <1>3, <2>1, <3>1
  <2>5. CASE k > at
    <3>1. k # 1 /\ ~ k =< at
      BY <1>2, <2>2, <2>5
    <3> QED
      BY <1>3, <2>1, <3>1
  <2> QED
    BY <1>2, <2>2, <2>3, <2>4, <2>5
<1> QED
  BY <1>5, <1>7, <1>8 DEF IsInjective

LEMMA BrelseKeeps ==
  ASSUME IInv, NEW p \in Proc, Brelse(p)
  PROVE  IInv'
<1>0. PICK b \in Buf : b = cur[p]
  BY DEF IInv, Calls, Brelse, Waiting
<1>1. /\ pc[p] = "brelse" /\ TypeOK /\ Shapes /\ b \notin held[p]
      /\ refcnt' = [refcnt EXCEPT ![b] = @ - 1]
      /\ lru' = IF refcnt[b] = 1 THEN MoveToHead(b) ELSE lru
      /\ pc' = [pc EXCEPT ![p] = "run"]
      /\ cur' = [cur EXCEPT ![p] = 0] /\ want' = [want EXCEPT ![p] = 0]
      /\ UNCHANGED <<blockno, valid, dirty, data, locked, ideVars, held,
                     panicked>>
  BY HasShapes, <1>0 DEF Brelse, IInv, Calls, Waiting
<1>2. /\ pc'[p] = "run"
      /\ \A q \in Proc : q # p => /\ pc'[q] = pc[q] /\ cur'[q] = cur[q]
                                  /\ want'[q] = want[q]
  BY <1>1, SMTT(30) DEF Shapes
<1>3. Counted'
  <2>1. p \in Refs(b) /\ Refs(b)' = Refs(b) \ {p}
    BY <1>0, <1>1, <1>2, SMTT(30) DEF Refs, Waiting
  <2>2. \A c \in Buf : c # b => Refs(c)' = Refs(c)
    BY <1>0, <1>1, <1>2 DEF Refs, Waiting
  <2>3. Cardinality(Refs(b) \ {p}) = Cardinality(Refs(b)) - 1
    BY <2>1, RefsFinite, FS_RemoveElement, Zenon
  <2>4. refcnt'[b] = refcnt[b] - 1 /\ \A c \in Buf : c # b => refcnt'[c] = refcnt[c]
    BY <1>1 DEF Shapes
  <2> QED
    BY <1>1, <2>1, <2>2, <2>3, <2>4, SMTT(30) DEF IInv, Counted
<1>4. TypeOK' /\ Listed'
  <2>1. \A c \in Buf : refcnt'[c] \in 0 .. Cardinality(Proc)
    BY <1>3, PrimedRefs DEF Counted
  <2>2. refcnt' \in [Buf -> 0 .. Cardinality(Proc)]
    BY <1>1, <2>1 DEF TypeOK
  <2>3. lru' \in [Buf -> Buf] /\ IsInjective(lru') /\ Listed'
    <3>1. lru \in [Buf -> Buf] /\ IsInjective(lru) /\ Listed
      BY DEF IInv, TypeOK
    <3>2. CASE lru' = lru
      BY <3>1, <3>2 DEF Listed
    <3>3. CASE lru' = MoveToHead(b)
      BY <3>1, <3>3, HeadMoved, Zenon DEF Listed
    <3> QED
      BY <1>1, <3>2, <3>3
  <2>4. pc' \in [Proc -> PCs] /\ cur' \in [Proc -> Buf \cup {0}]
        /\ want' \in [Proc -> Block \cup {0}]
    BY <1>1 DEF TypeOK, PCs
  <2> QED
    BY <1>1, <2>2, <2>3, <2>4, SMTT(30) DEF TypeOK, ideVars
<1>5. Owned'
  BY <1>1, <1>2 DEF IInv, Owned, InIde
<1>6. Calls'
  <2> SUFFICES ASSUME NEW q \in Proc PROVE Calls!(q)'
    BY Zenon DEF Calls
  <2> QED
    BY <1>1, <1>2, SMTT(30) DEF IInv, Calls, Waiting, InIde
<1>7. Queue'
  <2>1. \A q \in Proc : pc[q] = "asleep_ide" =>
          pc'[q] = "asleep_ide" /\ cur'[q] = cur[q]
    BY <1>1, <1>2, SMTT(30)
  <2> QED
    BY <1>1, <2>1, QueueStays DEF ideVars
<1> QED
  BY <1>1, <1>3, <1>4, <1>5, <1>6, <1>7, SMTT(30) DEF IInv, OneBuffer, Clean, ideVars

-----------------------------------------------------------------------------
LEMMA InitHolds == Init => IInv
<1> SUFFICES ASSUME Init PROVE IInv
  OBVIOUS
<1>1. NBUF \in Nat /\ \A i \in Buf : NBUF + 1 - i \in Buf
  BY BufConstants DEF Buf
<1>2. lru \in [Buf -> Buf] /\ \A i \in Buf : lru[i] = NBUF + 1 - i
  BY <1>1 DEF Init
<1>3. IsInjective(lru)
  <2>1. \A i, j \in Buf : NBUF + 1 - i = NBUF + 1 - j => i = j
    BY <1>1 DEF Buf
  <2> QED
    BY <1>2, <2>1 DEF IsInjective
<1>4. Listed
  <2>1. \A b \in Buf : NBUF + 1 - (NBUF + 1 - b) = b
    BY <1>1 DEF Buf
  <2> QED
    BY <1>1, <1>2, <2>1 DEF Listed
<1>5. Counted
  <2>1. \A b \in Buf : Refs(b) = {}
    BY DEF Init, Refs, Waiting
  <2> QED
    BY <2>1, FS_EmptySet, Zenon DEF Init, Counted
<1>6. TypeOK
  <2>1. refcnt \in [Buf -> 0 .. Cardinality(Proc)]
    BY BufConstants, FS_CardinalityType DEF Init
  <2>2. data \in [Buf -> Val] /\ idequeue \in Seq(Buf) /\ command \in Commands
    BY BufConstants DEF Init, Commands
  <2> QED
    BY <1>2, <1>3, <2>1, <2>2, Zenon DEF Init, TypeOK, PCs
<1>7. Owned /\ Calls /\ Queue
  BY BufConstants DEF Init, Owned, Calls, Queue, Waiting, InIde
<1>8. OneBuffer /\ Clean
  BY DEF Init, OneBuffer, Clean
<1> QED
  BY <1>4, <1>5, <1>6, <1>7, <1>8 DEF IInv

LEMMA NextKeeps ==
  ASSUME Ordered, IInv, [Next]_vars
  PROVE  IInv'
<1>1. CASE UNCHANGED vars
  <2>1. UNCHANGED <<lru, blockno, refcnt, valid, dirty, data, locked, idequeue,
                    command, disk, pc, cur, want, held, panicked>>
    BY <1>1 DEF vars, bufVars, ideVars, procVars
  <2>2. TypeOK' /\ Listed' /\ OneBuffer' /\ Owned' /\ Calls' /\ Clean'
    BY <2>1, SMTT(30) DEF IInv, TypeOK, Listed, OneBuffer, Owned, Calls, Clean
  <2>3. Counted' /\ Queue'
    BY <2>1, Zenon DEF IInv, Counted, Refs, Queue, IdeStart
  <2> QED
    BY <2>2, <2>3 DEF IInv
<1>2. ASSUME NEW ok \in Reads, IdeIntr(ok) PROVE IInv'
  BY <1>2, IntrKeeps
<1>3. ASSUME NEW p \in Proc, Progress(p) PROVE IInv'
  BY <1>3, AcquireKeeps, IdeRwKeeps, IdeWaitKeeps, BrelseKeeps DEF Progress
<1>4. ASSUME NEW p \in Proc, NEW n \in Block, Bget(p, n) PROVE IInv'
  BY <1>4, BgetKeeps
<1>5. ASSUME NEW p \in Proc, NEW b \in Buf, ReleaseSleep(p, b) PROVE IInv'
  BY <1>5, ReleaseKeeps
<1>6. ASSUME NEW p \in Proc, NEW b \in Buf, NEW v \in Val,
             LogWrite(p, b, v) \/ Bwrite(p, b, v)
      PROVE  IInv'
  <2>1. /\ b \in held[p] /\ pc[p] = "run"
        /\ data' = [data EXCEPT ![b] = v] /\ dirty' = [dirty EXCEPT ![b] = TRUE]
        /\ UNCHANGED <<lru, blockno, refcnt, valid, locked, ideVars, held,
                       panicked>>
    BY <1>6 DEF LogWrite, Bwrite, procVars
  <2>2. \/ UNCHANGED <<pc, cur, want>>
        \/ /\ pc' = [pc EXCEPT ![p] = "iderw"]
           /\ cur' = [cur EXCEPT ![p] = b]
           /\ want' = [want EXCEPT ![p] = blockno[b]]
    BY <1>6 DEF LogWrite, Bwrite, procVars
  <2> QED
    BY <2>1, <2>2, ChangeKeeps, Zenon
<1> QED
  BY <1>1, <1>2, <1>3, <1>4, <1>5, <1>6 DEF Next

LEMMA Invariance ==
  ASSUME Ordered
  PROVE  Spec => []IInv
<1>1. Init => IInv
  BY InitHolds
<1>2. IInv /\ [Next]_vars => IInv'
  BY NextKeeps
<1> QED
  BY <1>1, <1>2, PTL DEF Spec

(* bread returns the block it was asked for, read and locked, and iderw    *)
(* never panics, for any number of processes, blocks and buffers: the      *)
(* reference count that bget takes under bcache.lock is what keeps the     *)
(* buffer while the process sleeps for it.                                 *)
THEOREM BreadTheorem ==
  ASSUME Ordered
  PROVE  Spec => []BreadReturns
<1>1. IInv => BreadReturns
  <2> SUFFICES ASSUME IInv PROVE BreadReturns
    OBVIOUS
  <2>1. ASSUME NEW p \in Proc
        PROVE  /\ pc[p] \in InIde => blockno[cur[p]] = want[p]
                                     /\ locked[cur[p]] = p
               /\ pc[p] = "iderw" => ~valid[cur[p]] \/ dirty[cur[p]]
               /\ pc[p] = "run" => \A b \in held[p] : valid[b] /\ locked[b] = p
    <3>1. held[p] \subseteq Buf
      BY HasShapes, SMTT(30) DEF IInv, Shapes
    <3> QED
      BY <3>1 DEF IInv, Calls, Owned, InIde
  <2> QED
    BY <2>1 DEF IInv, BreadReturns, InIde
<1> QED
  BY <1>1, Invariance, PTL

-----------------------------------------------------------------------------
(* In a finite set some element is below no other. *)
LEMMA TopExists ==
  ASSUME NEW S, IsFiniteSet(S), S # {}, NEW f \in [S -> Nat]
  PROVE  \E p \in S : \A q \in S : ~ f[p] < f[q]
<1> DEFINE above(p) == {q \in S : f[p] < f[q]}
<1> DEFINE sizes == {Cardinality(above(p)) : p \in S}
<1>1. \A p \in S : /\ IsFiniteSet(above(p)) /\ Cardinality(above(p)) \in Nat
  <2> SUFFICES ASSUME NEW p \in S
               PROVE  IsFiniteSet(above(p)) /\ Cardinality(above(p)) \in Nat
    OBVIOUS
  <2>1. above(p) \subseteq S
    OBVIOUS
  <2>2. IsFiniteSet(above(p))
    BY <2>1, FS_Subset
  <2> QED
    BY <2>2, FS_CardinalityType
<1>2. sizes \subseteq Nat /\ sizes # {}
  BY <1>1, Zenon
<1>3. PICK m \in sizes : \A k \in sizes : ~ <<k, m>> \in OpToRel(<, Nat)
  BY <1>2, NatLessThanWellFounded, WFMin, Zenon
<1>4. PICK p \in S : m = Cardinality(above(p))
  OBVIOUS
<1>5. ASSUME NEW q \in S, f[p] < f[q] PROVE FALSE
  <2>1. above(q) \subseteq above(p) /\ q \in above(p) /\ q \notin above(q)
    BY <1>5
  <2>2. /\ IsFiniteSet(above(p)) /\ Cardinality(above(p)) \in Nat
        /\ IsFiniteSet(above(q)) /\ Cardinality(above(q)) \in Nat
    BY <1>1
  <2>3. Cardinality(above(q)) =< Cardinality(above(p)) /\ above(q) # above(p)
    BY <2>1, <2>2, FS_Subset
  <2>4. Cardinality(above(q)) # Cardinality(above(p))
    BY <2>1, <2>2, <2>3, FS_Subset
  <2>5. Cardinality(above(q)) < m
    BY <1>4, <2>2, <2>3, <2>4
  <2>6. Cardinality(above(q)) \in sizes
    BY Zenon
  <2> QED
    BY <1>2, <1>3, <2>5, <2>6, Zenon DEF OpToRel
<1> QED
  BY <1>4, <1>5

(* No process sleeps for a free buffer, and among those that hold one      *)
(* there is always one that does not sleep for another: sleep locks and    *)
(* nested breads do not deadlock.                                          *)
THEOREM NobodyStuckTheorem ==
  ASSUME Ordered
  PROVE  Spec => []NobodyStuck
<1>1. IInv => NobodyStuck
  <2> SUFFICES ASSUME IInv PROVE NobodyStuck
    OBVIOUS
  <2> DEFINE asleep == {p \in Proc : pc[p] = "asleep_lock"}
  <2>1. \A p \in asleep : /\ cur[p] \in Buf /\ locked[cur[p]] \in Proc
                          /\ cur[p] \in held[locked[cur[p]]]
    BY HasShapes, SMTT(30) DEF IInv, Calls, Waiting, Owned, Shapes
  <2>2. ASSUME asleep # {} PROVE \E q \in Proc \ asleep : held[q] # {}
    <3>1. PICK rank \in [Block -> Nat] :
            \A m, n \in Block : <<m, n>> \in Nest => rank[m] < rank[n]
      BY DEF Ordered
    <3> DEFINE f == [p \in asleep |-> rank[want[p]]]
    <3>2. \A p \in asleep : want[p] \in Block
      BY DEF IInv, Calls
    <3>3. f \in [asleep -> Nat] /\ IsFiniteSet(asleep)
      <4>1. f \in [asleep -> Nat]
        BY <3>1, <3>2
      <4>2. asleep \subseteq Proc
        OBVIOUS
      <4> QED
        BY <4>1, <4>2, BufConstants, FS_Subset
    <3> HIDE DEF f
    <3>4. PICK p \in asleep : \A q \in asleep : ~ f[p] < f[q]
      BY <2>2, <3>3, TopExists
    <3> DEFINE q == locked[cur[p]]
    <3>5. q \in Proc /\ cur[p] \in held[q]
      BY <2>1
    <3>6. ASSUME q \in asleep PROVE FALSE
      <4>1. <<blockno[cur[p]], want[q]>> \in Nest /\ blockno[cur[p]] = want[p]
        BY <3>5, <3>6 DEF IInv, Calls
      <4>2. rank[want[p]] < rank[want[q]]
        BY <3>1, <3>2, <3>6, <4>1
      <4> QED
        BY <3>4, <3>6, <4>2, Zenon DEF f
    <3> QED
      BY <3>5, <3>6
  <2> QED
    BY <2>1, <2>2, BufConstants DEF NobodyStuck
<1> QED
  BY <1>1, Invariance, PTL

-----------------------------------------------------------------------------
(* A block is either in no buffer, or seen through its only one. *)
LEMMA View ==
  ASSUME IInv, NEW n \in Block
  PROVE  \/ /\ \A b \in Buf : blockno[b] # n
            /\ Content(n) = disk[n] /\ Owner(n) = 0
         \/ \E b \in Buf :
              /\ blockno[b] = n
              /\ Content(n) = IF valid[b] THEN data[b] ELSE disk[n]
              /\ Owner(n) = locked[b]
<1>1. CASE \A b \in Buf : blockno[b] # n
  BY <1>1 DEF Content, Owner, Cached
<1>2. ASSUME NEW b \in Buf, blockno[b] = n
      PROVE  /\ Content(n) = IF valid[b] THEN data[b] ELSE disk[n]
             /\ Owner(n) = locked[b]
  <2>1. n # 0 /\ Cached(n) = {b}
    BY <1>2, BufConstants DEF IInv, OneBuffer, Cached
  <2>2. \A p \in Proc : b \in held[p] <=> locked[b] = p
    BY DEF IInv, Owned
  <2>3. locked[b] \in Proc \cup {0}
    BY HasShapes DEF IInv, Shapes
  <2>4. Owner(n) = locked[b]
    BY <2>1, <2>2, <2>3, BufConstants DEF Owner
  <2> QED
    BY <2>1, <2>4 DEF Content
<1> QED
  BY <1>1, <1>2

LEMMA NextView ==
  ASSUME IInv', NEW n \in Block
  PROVE  \/ /\ \A b \in Buf : blockno'[b] # n
            /\ Content(n)' = disk'[n] /\ Owner(n)' = 0
         \/ \E b \in Buf :
              /\ blockno'[b] = n
              /\ Content(n)' = IF valid'[b] THEN data'[b] ELSE disk'[n]
              /\ Owner(n)' = locked'[b]
<1>1. CASE \A b \in Buf : blockno'[b] # n
  BY <1>1 DEF Content, Owner, Cached
<1>2. ASSUME NEW b \in Buf, blockno'[b] = n
      PROVE  /\ Content(n)' = IF valid'[b] THEN data'[b] ELSE disk'[n]
             /\ Owner(n)' = locked'[b]
  <2>1. n # 0 /\ Cached(n)' = {b}
    BY <1>2, BufConstants DEF IInv, OneBuffer, Cached
  <2>2. \A p \in Proc : b \in held'[p] <=> locked'[b] = p
    BY DEF IInv, Owned
  <2>3. locked'[b] \in Proc \cup {0}
    BY DEF IInv, TypeOK
  <2>4. Owner(n)' = locked'[b]
    BY <2>1, <2>2, <2>3, BufConstants DEF Owner
  <2> QED
    BY <2>1, <2>4 DEF Content
<1> QED
  BY <1>1, <1>2

(* The steps of bget, which may give a block another buffer, are not seen. *)
LEMMA BgetUnseen ==
  ASSUME ReadsSucceed, IInv, IInv', NEW p \in Proc, NEW n \in Block, Bget(p, n),
         NEW m \in Block
  PROVE  Content(m)' = Content(m) /\ Owner(m)' = Owner(m)
<1>1. UNCHANGED <<data, locked, disk, held>>
  BY DEF Bget, ideVars
<1>2. CASE UNCHANGED <<blockno, valid>>
  BY <1>1, <1>2 DEF Content, Owner, Cached
<1>3. ASSUME NEW i \in Recyclable, Cached(n) = {},
             blockno' = [blockno EXCEPT ![lru[i]] = n],
             valid' = [valid EXCEPT ![lru[i]] = FALSE]
      PROVE  Content(m)' = Content(m) /\ Owner(m)' = Owner(m)
  <2> DEFINE b == lru[i]
  <2>1. b \in Buf /\ refcnt[b] = 0 /\ ~dirty[b] /\ m # 0 /\ n # 0
    BY BufConstants DEF Recyclable, IInv, TypeOK
  <2>2. locked[b] = 0
    <3>1. Refs(b) = {}
      BY <2>1, RefsFinite, SMTT(30) DEF IInv, Counted
    <3> QED
      BY HasShapes, <2>1, <3>1 DEF IInv, Refs, Owned, Shapes
  <2>3. valid[b] /\ blockno[b] = m => data[b] = disk[m]
    BY <2>1 DEF IInv, Clean
  <2>4. /\ blockno'[b] = n /\ ~valid'[b]
        /\ \A c \in Buf : c # b => /\ blockno'[c] = blockno[c]
                                   /\ valid'[c] = valid[c]
        /\ \A c \in Buf : blockno[c] # n
    BY HasShapes, <1>3, <2>1, SMTT(30) DEF IInv, Shapes, Cached
  <2>5. \A c \in Buf : blockno[c] = m /\ blockno[b] = m => c = b
    BY <2>1, SMTT(30) DEF IInv, OneBuffer
  <2> HIDE DEF b
  <2>6. \/ /\ \A c \in Buf : blockno[c] # m
           /\ Content(m) = disk[m] /\ Owner(m) = 0
        \/ \E c \in Buf :
             /\ blockno[c] = m
             /\ Content(m) = IF valid[c] THEN data[c] ELSE disk[m]
             /\ Owner(m) = locked[c]
    BY View, Zenon
  <2>7. \/ /\ \A c \in Buf : blockno'[c] # m
           /\ Content(m)' = disk'[m] /\ Owner(m)' = 0
        \/ \E c \in Buf :
             /\ blockno'[c] = m
             /\ Content(m)' = IF valid'[c] THEN data'[c] ELSE disk'[m]
             /\ Owner(m)' = locked'[c]
    BY NextView, Zenon
  <2>8. \A c, d \in Buf : blockno[c] = m /\ blockno[d] = m => c = d
    BY <2>1 DEF IInv, OneBuffer
  <2>9. CASE m = n
    BY <1>1, <2>1, <2>2, <2>4, <2>6, <2>7, <2>9, SMTT(30)
  <2>10. CASE m # n /\ blockno[b] = m
    BY <1>1, <2>1, <2>2, <2>3, <2>4, <2>5, <2>6, <2>7, <2>10
  <2>11. CASE m # n /\ blockno[b] # m
    BY <1>1, <2>1, <2>4, <2>6, <2>7, <2>8, <2>11
  <2> QED
    BY <2>9, <2>10, <2>11
<1> QED
  BY <1>2, <1>3 DEF Bget

(* Neither is the answer of the disk. *)
LEMMA IntrUnseen ==
  ASSUME ReadsSucceed, IInv, IInv', NEW ok \in Reads, IdeIntr(ok),
         NEW m \in Block
  PROVE  Content(m)' = Content(m) /\ Owner(m)' = Owner(m)
<1> DEFINE b == Head(idequeue)
<1>1. /\ command # Idle /\ UNCHANGED <<blockno, held, locked>>
      /\ valid' = [valid EXCEPT ![b] = TRUE] /\ TypeOK /\ Shapes
  BY HasShapes, SMTT(30) DEF IdeIntr, IInv
<1>2. /\ b \in Buf /\ blockno[b] \in Block /\ command.block = blockno[b]
      /\ command.op = "write" <=> dirty[b]
      /\ dirty[b] => command.data = data[b]
      /\ ~valid[b] \/ dirty[b]
  BY <1>1, HeadOfQueue, SMTT(30)
<1>3. /\ disk' = IF dirty[b] THEN [disk EXCEPT ![blockno[b]] = data[b]] ELSE disk
      /\ data' = IF dirty[b] THEN data
                 ELSE [data EXCEPT ![b] = disk[blockno[b]]]
  BY <1>2, Zenon DEF IdeIntr, ReadsSucceed
<1>4. dirty[b] => valid[b]
  BY <1>2 DEF IInv, Clean
<1>5. valid'[b] /\ data'[b] = IF valid[b] THEN data[b] ELSE disk[blockno[b]]
  BY <1>1, <1>2, <1>3, <1>4 DEF Shapes
<1>6. \A c \in Buf : c # b => valid'[c] = valid[c] /\ data'[c] = data[c]
  BY <1>1, <1>2, <1>3 DEF Shapes
<1>7. m # blockno[b] => disk'[m] = disk[m]
  BY <1>1, <1>2, <1>3 DEF Shapes
<1>8. Owner(m)' = Owner(m)
  BY <1>1, SMTT(30) DEF Owner, Cached
<1>9. \A c, d \in Buf : blockno[c] = m /\ blockno[d] = m => c = d
  BY BufConstants DEF IInv, OneBuffer
<1> HIDE DEF b
<1>10. \/ /\ \A c \in Buf : blockno[c] # m
          /\ Content(m) = disk[m]
       \/ \E c \in Buf : /\ blockno[c] = m
                         /\ Content(m) = IF valid[c] THEN data[c] ELSE disk[m]
  BY View
<1>11. \/ /\ \A c \in Buf : blockno[c] # m
          /\ Content(m)' = disk'[m]
       \/ \E c \in Buf :
            /\ blockno[c] = m
            /\ Content(m)' = IF valid'[c] THEN data'[c] ELSE disk'[m]
  BY <1>1, NextView
<1> QED
  BY <1>2, <1>5, <1>6, <1>7, <1>8, <1>9, <1>10, <1>11, SMTT(30)

(* A caller's change of its buffer is a change of the block. *)
LEMMA WriteChanges ==
  ASSUME IInv, IInv', NEW p \in Proc, NEW b \in Buf, NEW v \in Val,
         LogWrite(p, b, v) \/ Bwrite(p, b, v)
  PROVE  \E n \in Block : Store!Change(p, n, v)
<1>1. /\ pc[p] = "run" /\ b \in held[p] /\ TypeOK /\ Shapes
      /\ data' = [data EXCEPT ![b] = v]
      /\ UNCHANGED <<blockno, valid, locked, disk, held>>
  BY HasShapes DEF LogWrite, Bwrite, ideVars, procVars, IInv
<1>2. valid[b] /\ locked[b] = p /\ \E n \in Block : n = blockno[b]
  BY <1>1, MineOnly, ZenonT(30)
<1> PICK n \in Block : n = blockno[b]
  BY <1>2
<1>3. data'[b] = v /\ \A c \in Buf : c # b => data'[c] = data[c]
  BY <1>1, SMTT(30) DEF Shapes
<1>4. \A m \in Block : \A c, d \in Buf : blockno[c] = m /\ blockno[d] = m => c = d
  BY BufConstants DEF IInv, OneBuffer
<1>5. \A m \in Block : Owner(m)' = Owner(m)
  BY <1>1, SMTT(30) DEF Owner, Cached
<1>6. Owner(n) = p
  BY <1>2, <1>4, View, SMTT(30)
<1>7. Content(n)' = v
  <2>1. \E c \in Buf : /\ blockno'[c] = n
                       /\ Content(n)' = IF valid'[c] THEN data'[c] ELSE disk'[n]
    BY <1>1, NextView, SMTT(30)
  <2> QED
    BY <1>1, <1>2, <1>3, <1>4, <2>1, SMTT(30)
<1>8. ASSUME NEW m \in Block, m # n PROVE Content(m)' = Content(m)
  <2>1. \/ (\A c \in Buf : blockno[c] # m) /\ Content(m) = disk[m]
        \/ \E c \in Buf : /\ blockno[c] = m
                          /\ Content(m) = IF valid[c] THEN data[c] ELSE disk[m]
    BY View, Zenon
  <2>2. \/ (\A c \in Buf : blockno[c] # m) /\ Content(m)' = disk[m]
        \/ \E c \in Buf : /\ blockno[c] = m
                          /\ Content(m)' = IF valid[c] THEN data'[c] ELSE disk[m]
    BY <1>1, NextView
  <2> QED
    BY <1>3, <1>4, <1>8, <2>1, <2>2, Zenon
<1>9. [m \in Block |-> Content(m)'] =
        [[m \in Block |-> Content(m)] EXCEPT ![n] = v]
  BY <1>7, <1>8, Zenon
<1> QED
  BY <1>5, <1>6, <1>9, Zenon DEF Store!Change

(* acquiresleep takes the block, releasesleep gives it back. *)
LEMMA LocksMove ==
  ASSUME IInv, IInv', NEW q \in Proc \cup {0}, NEW b \in Buf,
         NEW n \in Block, blockno[b] = n, locked' = [locked EXCEPT ![b] = q],
         UNCHANGED <<blockno, valid, data, disk>>
  PROVE  /\ Owner(n) = locked[b] /\ Owner(n)' = q
         /\ \A m \in Block \ {n} : Owner(m)' = Owner(m)
         /\ \A m \in Block : Content(m)' = Content(m)
<1>1. locked'[b] = q /\ \A c \in Buf : c # b => locked'[c] = locked[c]
  BY HasShapes DEF IInv, Shapes
<1>2. \A m \in Block : \A c, d \in Buf : blockno[c] = m /\ blockno[d] = m => c = d
  BY BufConstants DEF IInv, OneBuffer
<1>3. \A m \in Block : \/ (\A c \in Buf : blockno[c] # m) /\ Owner(m) = 0
                       \/ \E c \in Buf : blockno[c] = m /\ Owner(m) = locked[c]
  BY View
<1>4. \A m \in Block : \/ (\A c \in Buf : blockno[c] # m) /\ Owner(m)' = 0
                       \/ \E c \in Buf : blockno[c] = m /\ Owner(m)' = locked'[c]
  BY NextView
<1>5. \A m \in Block : Content(m)' = Content(m)
  BY DEF Content, Cached
<1>6. Owner(n) = locked[b] /\ Owner(n)' = q
  BY <1>1, <1>2, <1>3, <1>4
<1>7. \A m \in Block \ {n} : Owner(m)' = Owner(m)
  BY <1>1, <1>2, <1>3, <1>4
<1> QED
  BY <1>5, <1>6, <1>7

(* The buffer cache with its recycling and the queue of the disk is one    *)
(* store of blocks, each in one process's hands at a time, for any number  *)
(* of processes, blocks and buffers: taking the sleep lock of a buffer     *)
(* takes the block, log_write and bwrite change it, brelse gives it back,  *)
(* and nothing else is seen.                                               *)
THEOREM OneStoreTheorem ==
  ASSUME Ordered, ReadsSucceed
  PROVE  Spec => OneStore
<1> DEFINE mem == [n \in Block |-> Content(n)]
<1> DEFINE owner == [n \in Block |-> Owner(n)]
<1>1. Init => Store!Init
  <2> SUFFICES ASSUME Init PROVE Store!Init
    OBVIOUS
  <2>1. \A n \in Block : Content(n) = disk[n] /\ Owner(n) = 0
    BY BufConstants DEF Init, Content, Owner, Cached
  <2>2. disk \in [Block -> Val]
    BY DEF Init
  <2> QED
    BY <2>1, <2>2 DEF Store!Init
<1>2. IInv /\ IInv' /\ [Next]_vars => [Store!Next]_<<mem, owner>>
  <2> SUFFICES ASSUME IInv, IInv', [Next]_vars PROVE [Store!Next]_<<mem, owner>>
    OBVIOUS
  <2>1. ASSUME \A m \in Block : Content(m)' = Content(m) /\ Owner(m)' = Owner(m)
        PROVE  UNCHANGED <<mem, owner>>
    BY <2>1
  <2>2. ASSUME UNCHANGED <<blockno, valid, data, disk, held>>
        PROVE  UNCHANGED <<mem, owner>>
    BY <2>2 DEF Content, Owner, Cached
  <2>3. ASSUME NEW ok \in Reads, IdeIntr(ok) PROVE UNCHANGED <<mem, owner>>
    BY <2>1, <2>3, IntrUnseen
  <2>4. ASSUME NEW p \in Proc, NEW n \in Block, Bget(p, n)
        PROVE  UNCHANGED <<mem, owner>>
    BY <2>1, <2>4, BgetUnseen
  <2>5. ASSUME NEW p \in Proc, IdeRw(p) \/ IdeWait(p) \/ Brelse(p)
        PROVE  UNCHANGED <<mem, owner>>
    <3>1. UNCHANGED <<blockno, valid, data, disk, held>>
      BY <2>5, Zenon DEF IdeRw, IdeWait, Brelse, bufVars, ideVars
    <3> QED
      BY <2>2, <3>1, Zenon
  <2>6. ASSUME NEW p \in Proc, AcquireSleep(p)
        PROVE  [Store!Next]_<<mem, owner>>
    <3>1. CASE locked[cur[p]] # 0
      BY <2>2, <2>6, <3>1, SMTT(30) DEF AcquireSleep, bufVars, ideVars
    <3>2. CASE locked[cur[p]] = 0
      <4>1. PICK b \in Buf, n \in Block : b = cur[p] /\ blockno[b] = n
        BY <2>6, SMTT(30) DEF AcquireSleep, IInv, Calls, Waiting
      <4>2. /\ locked' = [locked EXCEPT ![b] = p] /\ locked[b] = 0
            /\ UNCHANGED <<blockno, valid, data, disk>>
        BY <2>6, <3>2, <4>1 DEF AcquireSleep, bufVars, ideVars
      <4>3. p \in Proc \cup {0} /\ blockno[b] = n
        BY <4>1
      <4>4. /\ Owner(n) = locked[b] /\ Owner(n)' = p
            /\ \A m \in Block \ {n} : Owner(m)' = Owner(m)
            /\ \A m \in Block : Content(m)' = Content(m)
        BY <4>2, <4>3, LocksMove, Zenon
      <4>5. Store!Take(p, n)
        BY <4>2, <4>4, Zenon DEF Store!Take
      <4> QED
        BY <4>5 DEF Store!Next
    <3> QED
      BY <3>1, <3>2, SMTT(30)
  <2>7. ASSUME NEW p \in Proc, NEW b \in Buf, ReleaseSleep(p, b) PROVE Store!Next
    <3>1. /\ pc[p] = "run" /\ b \in held[p]
          /\ locked' = [locked EXCEPT ![b] = 0]
          /\ UNCHANGED <<blockno, valid, data, disk>>
      BY <2>7 DEF ReleaseSleep, bufVars, ideVars
    <3>2. locked[b] = p /\ blockno[b] \in Block
      BY <3>1, MineOnly
    <3> PICK n \in Block : n = blockno[b]
      BY <3>2
    <3>3. /\ Owner(n) = p /\ Owner(n)' = 0
          /\ \A m \in Block \ {n} : Owner(m)' = Owner(m)
          /\ \A m \in Block : Content(m)' = Content(m)
      BY <3>1, <3>2, LocksMove, Zenon
    <3>4. Store!Give(p, n)
      BY <3>3 DEF Store!Give
    <3> QED
      BY <3>4 DEF Store!Next
  <2>8. ASSUME NEW p \in Proc, NEW b \in Buf, NEW v \in Val,
               LogWrite(p, b, v) \/ Bwrite(p, b, v)
        PROVE  Store!Next
    BY <2>8, WriteChanges DEF Store!Next
  <2>9. CASE UNCHANGED vars
    BY <2>2, <2>9 DEF vars, bufVars, ideVars, procVars
  <2> QED
    BY <2>3, <2>4, <2>5, <2>6, <2>7, <2>8, <2>9 DEF Next, Progress
<1> QED
  BY <1>1, <1>2, Invariance, PTL DEF Spec, OneStore, Store!Spec
=============================================================================
