-------------------------- MODULE BufTransferProofs -------------------------
(***************************************************************************)
(* Proofs about BufCache for any processes, blocks and number of buffers,  *)
(* when the blocks a caller holds together are taken in one order: the     *)
(* inductive invariant, and that finding a buffer, locking it and sending  *)
(* it to the disk and back keep it.                                        *)
(***************************************************************************)
EXTENDS BufCache, FiniteSetTheorems, WellFoundedInduction, TLAPS

(* The callers that hold a block while they ask for another: an indirect   *)
(* block before the bitmap (bmap, itrunc), a log block before a home block *)
(* (write_log, install_trans), never in a circle.                          *)
Ordered ==
  \E rank \in [Block -> Nat] :
    \A m, n \in Block : <<m, n>> \in Nest => rank[m] < rank[n]

(* The disk reports no failed read. *)
ReadsSucceed == Reads \subseteq {TRUE}

-----------------------------------------------------------------------------
(* The inductive invariant.                                                *)

(* The processes between bget's test and the sleep lock, or between the    *)
(* sleep lock and the end of brelse; those inside iderw.                   *)
Waiting == {"lock", "asleep_lock", "brelse"}
InIde == {"iderw", "asleep_ide", "wait_ide"}

(* The processes that count for b->refcnt. *)
Refs(b) ==
  {p \in Proc : b \in held[p] \/ (pc[p] \in Waiting /\ cur[p] = b)}

Listed == \A b \in Buf : \E i \in Buf : lru[i] = b

Counted == \A b \in Buf : refcnt[b] = Cardinality(Refs(b))

(* A block has one buffer. *)
OneBuffer ==
  \A b, c \in Buf : blockno[b] = blockno[c] /\ blockno[b] # 0 => b = c

(* The buffers in use are locked, and read unless their process is at it. *)
Owned ==
  \A p \in Proc, b \in Buf :
    /\ b \in held[p] <=> locked[b] = p
    /\ b \in held[p] => /\ blockno[b] # 0
                        /\ valid[b] \/ (pc[p] \in InIde /\ cur[p] = b)

(* What a process knows of its call in progress. *)
Calls ==
  \A p \in Proc :
    /\ pc[p] \in Waiting => cur[p] \in Buf /\ cur[p] \notin held[p]
    /\ pc[p] \in {"lock", "asleep_lock"} =>
         /\ want[p] \in Block /\ blockno[cur[p]] = want[p]
         /\ \A b \in held[p] : <<blockno[b], want[p]>> \in Nest
    /\ pc[p] = "asleep_lock" => locked[cur[p]] # 0
    /\ pc[p] \in InIde => cur[p] \in held[p] /\ blockno[cur[p]] = want[p]
    /\ pc[p] \in {"iderw", "asleep_ide"} => ~valid[cur[p]] \/ dirty[cur[p]]
    /\ pc[p] = "wait_ide" => valid[cur[p]] /\ ~dirty[cur[p]]

(* Who is in the queue of the disk sleeps for it, and the disk works on    *)
(* the first.                                                              *)
Queue ==
  /\ \A i \in 1 .. Len(idequeue) :
       \E p \in Proc : pc[p] = "asleep_ide" /\ cur[p] = idequeue[i]
  /\ \A i, j \in 1 .. Len(idequeue) : idequeue[i] = idequeue[j] => i = j
  /\ command = IF idequeue = <<>> THEN Idle ELSE IdeStart(idequeue[1])

(* What is not dirty is on the disk. *)
Clean ==
  \A b \in Buf :
    /\ dirty[b] => valid[b]
    /\ ReadsSucceed /\ valid[b] /\ ~dirty[b] /\ blockno[b] # 0 =>
         data[b] = disk[blockno[b]]

IInv ==
  /\ TypeOK /\ Listed /\ Counted /\ OneBuffer
  /\ Owned /\ Calls /\ Queue /\ Clean

-----------------------------------------------------------------------------
(* The part of TypeOK that says which variables are functions. *)
Shapes ==
  /\ blockno \in [Buf -> Block \cup {0}]
  /\ refcnt \in [Buf -> 0 .. Cardinality(Proc)]
  /\ valid \in [Buf -> BOOLEAN] /\ dirty \in [Buf -> BOOLEAN]
  /\ data \in [Buf -> Val] /\ locked \in [Buf -> Proc \cup {0}]
  /\ disk \in [Block -> Val]
  /\ pc \in [Proc -> PCs] /\ cur \in [Proc -> Buf \cup {0}]
  /\ want \in [Proc -> Block \cup {0}] /\ held \in [Proc -> SUBSET Buf]

LEMMA HasShapes ==
  ASSUME IInv
  PROVE  Shapes
BY SMTT(30) DEF IInv, TypeOK, Shapes

(* A reference count is at most the number of processes, and counting      *)
(* follows the set.                                                        *)
LEMMA RefsFinite ==
  ASSUME NEW b
  PROVE  /\ IsFiniteSet(Refs(b)) /\ Refs(b) \subseteq Proc
         /\ Cardinality(Refs(b)) \in 0 .. Cardinality(Proc)
         /\ Cardinality(Refs(b)) = 0 <=> Refs(b) = {}
<1>1. Refs(b) \subseteq Proc /\ IsFiniteSet(Proc)
  BY BufConstants DEF Refs
<1>2. IsFiniteSet(Refs(b)) /\ Cardinality(Refs(b)) =< Cardinality(Proc)
  BY <1>1, FS_Subset
<1>3. Cardinality(Refs(b)) \in Nat /\ Cardinality(Proc) \in Nat
  BY <1>1, <1>2, FS_CardinalityType
<1>4. Cardinality(Refs(b)) = 0 <=> Refs(b) = {}
  BY <1>2, FS_EmptySet
<1> QED
  BY <1>1, <1>2, <1>3, <1>4

LEMMA PrimedRefs ==
  ASSUME NEW b
  PROVE  /\ Refs(b)' \subseteq Proc /\ IsFiniteSet(Refs(b)')
         /\ Cardinality(Refs(b)') \in 0 .. Cardinality(Proc)
<1>1. Refs(b)' \subseteq Proc /\ IsFiniteSet(Proc)
  BY BufConstants DEF Refs
<1>2. IsFiniteSet(Refs(b)') /\ Cardinality(Refs(b)') =< Cardinality(Proc)
  BY <1>1, FS_Subset
<1> QED
  BY <1>1, <1>2, FS_CardinalityType

(* No order has a block before itself. *)
LEMMA NotNested ==
  ASSUME Ordered, NEW n \in Block
  PROVE  <<n, n>> \notin Nest
<1>1. PICK rank \in [Block -> Nat] :
        \A m, k \in Block : <<m, k>> \in Nest => rank[m] < rank[k]
  BY DEF Ordered
<1>2. rank[n] \in Nat /\ ~ rank[n] < rank[n]
  BY <1>1
<1> QED
  BY <1>1, <1>2

(* Two processes do not hold one buffer, nor does one hold two of a block. *)
LEMMA OneOwner ==
  ASSUME IInv, NEW p \in Proc, NEW q \in Proc, NEW b \in held[p],
         NEW c \in held[q], blockno[b] = blockno[c]
  PROVE  p = q /\ b = c /\ b \in Buf
<1>1. b \in Buf /\ c \in Buf
  BY DEF IInv, TypeOK
<1>2. b = c
  BY <1>1 DEF IInv, Owned, OneBuffer
<1> QED
  BY <1>1, <1>2 DEF IInv, Owned

(* A step that leaves the disk, the buffers and those who wait for the     *)
(* disk alone leaves the queue as it should be.                            *)
LEMMA QueueStays ==
  ASSUME IInv, UNCHANGED <<idequeue, command, blockno, dirty, data>>,
         \A q \in Proc : pc[q] = "asleep_ide" =>
           pc'[q] = "asleep_ide" /\ cur'[q] = cur[q]
  PROVE  Queue'
<1>1. \A b : IdeStart(b)' = IdeStart(b)
  BY DEF IdeStart
<1> QED
  BY <1>1 DEF IInv, Queue

-----------------------------------------------------------------------------
LEMMA HitKeeps ==
  ASSUME Ordered, IInv, NEW p \in Proc, NEW n \in Block, NEW b \in Cached(n),
         pc[p] = "run", \A c \in held[p] : <<blockno[c], n>> \in Nest,
         refcnt' = [refcnt EXCEPT ![b] = @ + 1],
         cur' = [cur EXCEPT ![p] = b],
         pc' = [pc EXCEPT ![p] = "lock"],
         want' = [want EXCEPT ![p] = n],
         UNCHANGED <<blockno, valid, dirty, panicked, lru, data, locked,
                     ideVars, held>>
  PROVE  IInv'
<1> USE DEF ideVars
<1>1. TypeOK /\ Shapes /\ b \in Buf /\ blockno[b] = n /\ n # 0
  BY HasShapes, BufConstants DEF IInv, Cached
<1>2. b \notin held[p]
  BY <1>1, NotNested, Zenon
<1>3. Refs(b)' = Refs(b) \cup {p} /\ p \notin Refs(b)
  BY <1>1, <1>2 DEF Refs, Waiting, Shapes
<1>4. \A c \in Buf : c # b => Refs(c)' = Refs(c)
  BY <1>1 DEF Refs, Waiting, Shapes
<1>5. Counted'
  <2>1. Cardinality(Refs(b) \cup {p}) = Cardinality(Refs(b)) + 1
    BY <1>3, RefsFinite, FS_AddElement, Zenon
  <2>2. refcnt[b] = Cardinality(Refs(b)) /\ refcnt'[b] = refcnt[b] + 1
    BY <1>1 DEF IInv, Counted, Shapes
  <2>3. \A c \in Buf : c # b => refcnt'[c] = refcnt[c]
    BY <1>1 DEF Shapes
  <2> QED
    BY <1>3, <1>4, <2>1, <2>2, <2>3 DEF IInv, Counted
<1>6. TypeOK'
  <2>1. \A c \in Buf : refcnt'[c] \in 0 .. Cardinality(Proc)
    BY <1>5, PrimedRefs DEF Counted
  <2>2. refcnt' \in [Buf -> 0 .. Cardinality(Proc)]
    BY <1>1, <2>1 DEF TypeOK
  <2> QED
    BY <1>1, <2>2 DEF TypeOK, PCs
<1>7. Owned'
  BY <1>1 DEF IInv, Owned, Shapes, InIde
<1>8. Calls'
  BY <1>1, <1>2 DEF IInv, Calls, Shapes, InIde, Waiting
<1>9. Queue'
  BY <1>1, Zenon DEF IInv, Queue, Shapes, IdeStart
<1> QED
  BY <1>5, <1>6, <1>7, <1>8, <1>9 DEF IInv, Listed, OneBuffer, Clean

LEMMA RecycleKeeps ==
  ASSUME IInv, NEW p \in Proc, NEW n \in Block, NEW b \in Buf,
         pc[p] = "run", \A c \in held[p] : <<blockno[c], n>> \in Nest,
         Cached(n) = {}, refcnt[b] = 0, ~dirty[b],
         blockno' = [blockno EXCEPT ![b] = n],
         valid' = [valid EXCEPT ![b] = FALSE],
         dirty' = [dirty EXCEPT ![b] = FALSE],
         refcnt' = [refcnt EXCEPT ![b] = 1],
         cur' = [cur EXCEPT ![p] = b],
         pc' = [pc EXCEPT ![p] = "lock"],
         want' = [want EXCEPT ![p] = n],
         UNCHANGED <<panicked, lru, data, locked, ideVars, held>>
  PROVE  IInv'
<1> USE DEF ideVars
<1>1. TypeOK /\ Shapes /\ n # 0 /\ \A c \in Buf : blockno[c] # n
  BY HasShapes, BufConstants DEF IInv, Cached
<1>2. Refs(b) = {}
  BY RefsFinite DEF IInv, Counted
<1>3. \A q \in Proc : /\ b \notin held[q] /\ locked[b] # q
                      /\ pc[q] \in Waiting => cur[q] # b
                      /\ pc[q] \in InIde => cur[q] # b
  BY <1>2 DEF IInv, Refs, Owned, Calls
<1>4. Refs(b)' = {p} /\ \A c \in Buf : c # b => Refs(c)' = Refs(c)
  BY <1>1, <1>3 DEF Refs, Waiting, Shapes
<1>5. Counted'
  <2>1. refcnt'[b] = 1 /\ \A c \in Buf : c # b => refcnt'[c] = refcnt[c]
    BY <1>1 DEF Shapes
  <2>2. Cardinality({p}) = 1
    BY FS_Singleton, Zenon
  <2> QED
    BY <1>4, <2>1, <2>2, Zenon DEF IInv, Counted
<1>6. TypeOK'
  <2>1. \A c \in Buf : refcnt'[c] \in 0 .. Cardinality(Proc)
    BY <1>5, PrimedRefs DEF Counted
  <2>2. refcnt' \in [Buf -> 0 .. Cardinality(Proc)]
    BY <1>1, <2>1 DEF TypeOK
  <2> QED
    BY <1>1, <2>2 DEF TypeOK, PCs
<1>7. \A c \in Buf : c # b => /\ blockno'[c] = blockno[c]
                             /\ valid'[c] = valid[c] /\ dirty'[c] = dirty[c]
  BY <1>1 DEF Shapes
<1>8. blockno'[b] = n /\ ~valid'[b] /\ ~dirty'[b]
  BY <1>1 DEF Shapes
<1>9. OneBuffer'
  BY <1>1, <1>7, <1>8 DEF IInv, OneBuffer
<1>10. Owned'
  BY <1>1, <1>3, <1>7 DEF IInv, Owned, Shapes, InIde
<1>11. Calls'
  <2> SUFFICES ASSUME NEW q \in Proc PROVE Calls!(q)'
    BY DEF Calls
  <2>1. CASE q = p
    BY <2>1, <1>1, <1>3, <1>7, <1>8 DEF Shapes, InIde, Waiting
  <2>2. CASE q # p
    <3>1. pc'[q] = pc[q] /\ cur'[q] = cur[q] /\ want'[q] = want[q]
      BY <2>2, <1>1 DEF Shapes
    <3>2. held[q] \subseteq Buf \ {b}
      BY <1>1, <1>3 DEF Shapes
    <3>3. pc[q] \in Waiting \cup InIde => cur[q] \in Buf \ {b}
      BY <1>3, <3>2 DEF IInv, Calls
    <3>4. \A c \in held[q] : blockno'[c] = blockno[c]
      BY <3>2, <1>7
    <3>5. pc[q] \in Waiting \cup InIde =>
            /\ blockno'[cur[q]] = blockno[cur[q]]
            /\ valid'[cur[q]] = valid[cur[q]] /\ dirty'[cur[q]] = dirty[cur[q]]
      BY <3>3, <1>7, Zenon
    <3> QED
      BY <3>1, <3>3, <3>4, <3>5, Zenon DEF IInv, Calls, Waiting, InIde
  <2> QED
    BY <2>1, <2>2, Zenon
<1>12. Queue'
  <2>1. \A i \in 1 .. Len(idequeue) : idequeue[i] \in Buf \ {b}
    BY <1>1, <1>3 DEF IInv, Queue, InIde, TypeOK
  <2>2. idequeue # <<>> => 1 \in 1 .. Len(idequeue)
    BY <1>1 DEF Shapes
  <2>3. idequeue # <<>> => IdeStart(idequeue[1])' = IdeStart(idequeue[1])
    BY <2>1, <2>2, <1>7 DEF IdeStart
  <2>4. \A q \in Proc : pc[q] = "asleep_ide" =>
          pc'[q] = "asleep_ide" /\ cur'[q] = cur[q]
    BY <1>1 DEF Shapes
  <2> QED
    BY <2>3, <2>4 DEF IInv, Queue
<1>13. Clean'
  BY <1>7, <1>8 DEF IInv, Clean
<1> QED
  BY <1>5, <1>6, <1>9, <1>10, <1>11, <1>12, <1>13 DEF IInv, Listed

LEMMA BgetKeeps ==
  ASSUME Ordered, IInv, NEW p \in Proc, NEW n \in Block, Bget(p, n)
  PROVE  IInv'
<1>1. /\ pc[p] = "run" /\ want' = [want EXCEPT ![p] = n]
      /\ \A b \in held[p] : <<blockno[b], n>> \in Nest
      /\ UNCHANGED <<lru, data, locked, ideVars, held>>
  BY DEF Bget
<1>2. ASSUME NEW b \in Cached(n),
             refcnt' = [refcnt EXCEPT ![b] = @ + 1],
             cur' = [cur EXCEPT ![p] = b],
             pc' = [pc EXCEPT ![p] = "lock"],
             UNCHANGED <<blockno, valid, dirty, panicked>>
      PROVE  IInv'
  BY <1>1, <1>2, HitKeeps, Zenon
<1>3. ASSUME NEW i \in Recyclable, Cached(n) = {},
             blockno' = [blockno EXCEPT ![lru[i]] = n],
             valid' = [valid EXCEPT ![lru[i]] = FALSE],
             dirty' = [dirty EXCEPT ![lru[i]] = FALSE],
             refcnt' = [refcnt EXCEPT ![lru[i]] = 1],
             cur' = [cur EXCEPT ![p] = lru[i]],
             pc' = [pc EXCEPT ![p] = "lock"],
             UNCHANGED panicked
      PROVE  IInv'
  <2>1. lru[i] \in Buf /\ refcnt[lru[i]] = 0 /\ ~dirty[lru[i]]
    BY DEF Recyclable, IInv, TypeOK
  <2> QED
    BY <1>1, <1>3, <2>1, RecycleKeeps, Zenon
<1>4. ASSUME panicked' = TRUE,
             UNCHANGED <<blockno, refcnt, valid, dirty, cur, pc>>
      PROVE  IInv'
  <2>1. \A q \in Proc : pc[q] \in {"lock", "asleep_lock"} \cup InIde =>
          want'[q] = want[q]
    BY <1>1 DEF IInv, Shapes, InIde
  <2>2. TypeOK'
    BY <1>1, <1>4 DEF IInv, TypeOK, ideVars
  <2>3. Counted'
    BY <1>1, <1>4 DEF IInv, Counted, Refs
  <2>4. Calls'
    BY <1>1, <1>4, <2>1 DEF IInv, Calls
  <2> QED
    BY <1>1, <1>4, <2>2, <2>3, <2>4
       DEF IInv, Listed, OneBuffer, Owned, Queue, Clean, IdeStart, ideVars
<1> QED
  BY <1>2, <1>3, <1>4, Zenon DEF Bget

-----------------------------------------------------------------------------
LEMMA AcquireKeeps ==
  ASSUME IInv, NEW p \in Proc, AcquireSleep(p)
  PROVE  IInv'
<1> DEFINE b == cur[p]
<1>1. TypeOK /\ Shapes /\ b \in Buf /\ b \notin held[p] /\ pc[p] = "lock"
  BY HasShapes DEF IInv, Calls, AcquireSleep, Waiting
<1>2. /\ want[p] \in Block /\ blockno[b] = want[p] /\ blockno[b] # 0
  BY <1>1, BufConstants DEF IInv, Calls
<1>3. UNCHANGED <<lru, bufVars, ideVars, cur, want, panicked>>
  BY DEF AcquireSleep
<1>4. CASE locked[b] # 0
  <2>1. pc' = [pc EXCEPT ![p] = "asleep_lock"] /\ UNCHANGED <<locked, held>>
    BY <1>4 DEF AcquireSleep
  <2>2. TypeOK'
    BY <1>1, <1>3, <2>1 DEF TypeOK, PCs, bufVars, ideVars
  <2>3. Counted'
    <3>1. \A c \in Buf : Refs(c)' = Refs(c)
      BY <1>1, <1>3, <2>1 DEF Shapes, Refs, Waiting
    <3> QED
      BY <1>3, <3>1 DEF IInv, Counted, bufVars
  <2>4. Owned'
    BY <1>1, <1>3, <2>1 DEF IInv, Shapes, Owned, InIde, bufVars
  <2>5. Calls'
    BY <1>1, <1>2, <1>3, <1>4, <2>1, SMTT(30)
       DEF IInv, Calls, Waiting, InIde, bufVars
  <2>6. Queue'
    <3>1. \A q \in Proc : pc[q] = "asleep_ide" =>
            pc'[q] = "asleep_ide" /\ cur'[q] = cur[q]
      BY <1>1, <1>3, <2>1 DEF Shapes
    <3> QED
      BY <1>3, <3>1, QueueStays DEF bufVars, ideVars
  <2> QED
    BY <1>3, <2>2, <2>3, <2>4, <2>5, <2>6
       DEF IInv, Listed, OneBuffer, Clean, bufVars, ideVars
<1>5. CASE locked[b] = 0
  <2>1. /\ locked' = [locked EXCEPT ![b] = p]
        /\ held' = [held EXCEPT ![p] = @ \cup {b}]
        /\ pc' = [pc EXCEPT ![p] = IF valid[b] THEN "run" ELSE "iderw"]
    BY <1>5 DEF AcquireSleep
  <2>2. \A q \in Proc : b \notin held[q]
    BY <1>1, <1>5, BufConstants DEF IInv, Owned
  <2>3. TypeOK'
    BY <1>1, <1>3, <2>1 DEF TypeOK, PCs, bufVars, ideVars
  <2>4. \A q \in Proc, c \in Buf : c \in held'[q] <=>
          c \in held[q] \/ (q = p /\ c = b)
    BY <1>1, <2>1 DEF Shapes
  <2>5. \A c \in Buf : Refs(c)' = Refs(c)
    BY <1>1, <1>3, <2>1, <2>4, SMTT(30) DEF Shapes, Refs, Waiting
  <2>6. Counted'
    BY <1>3, <2>5 DEF IInv, Counted, bufVars
  <2>7. Owned'
    <3> SUFFICES ASSUME NEW q \in Proc, NEW c \in Buf PROVE Owned!(q, c)'
      BY DEF Owned
    <3>1. CASE c = b
      <4>1. locked'[c] = p
        BY <1>1, <2>1, <3>1 DEF Shapes
      <4>2. pc'[p] = IF valid[b] THEN "run" ELSE "iderw"
        BY <1>1, <2>1 DEF Shapes
      <4> QED
        BY <1>2, <1>3, <2>2, <2>4, <3>1, <4>1, <4>2 DEF InIde, bufVars
    <3>2. CASE c # b
      <4>1. locked'[c] = locked[c]
        BY <1>1, <2>1, <3>2 DEF Shapes
      <4>2. pc[q] \in InIde /\ cur[q] = c => pc'[q] = pc[q]
        BY <1>1, <2>1, <3>2 DEF Shapes, InIde
      <4> QED
        BY <1>3, <2>4, <3>2, <4>1, <4>2 DEF IInv, Owned, bufVars
    <3> QED
      BY <3>1, <3>2
  <2>8. Calls'
    <3> SUFFICES ASSUME NEW q \in Proc PROVE Calls!(q)'
      BY DEF Calls
    <3>1. CASE q = p
      BY <1>1, <1>2, <1>3, <2>1, <3>1
         DEF Shapes, Calls, Waiting, InIde, bufVars
    <3>2. CASE q # p
      <4>1. pc'[q] = pc[q] /\ held'[q] = held[q]
        BY <1>1, <2>1, <3>2 DEF Shapes
      <4>2. locked'[cur[q]] = locked[cur[q]] \/ locked'[cur[q]] = p
        BY <1>1, <2>1 DEF Shapes
      <4> QED
        BY <1>3, <4>1, <4>2, BufConstants DEF IInv, Calls, bufVars
    <3> QED
      BY <3>1, <3>2
  <2>9. Queue'
    <3>1. \A q \in Proc : pc[q] = "asleep_ide" =>
            pc'[q] = "asleep_ide" /\ cur'[q] = cur[q]
      BY <1>1, <1>3, <2>1 DEF Shapes
    <3> QED
      BY <1>3, <3>1, QueueStays DEF bufVars, ideVars
  <2> QED
    BY <1>3, <2>3, <2>6, <2>7, <2>8, <2>9
       DEF IInv, Listed, OneBuffer, Clean, bufVars, ideVars
<1> QED
  BY <1>4, <1>5

(* The place of a process in iderw is not a reference. *)
LEMMA IdeRwKeeps ==
  ASSUME IInv, NEW p \in Proc, IdeRw(p)
  PROVE  IInv'
<1> DEFINE b == cur[p]
<1>1. /\ TypeOK /\ Shapes /\ pc[p] = "iderw" /\ b \in held[p] /\ b \in Buf
      /\ blockno[b] \in Block
  BY HasShapes DEF IInv, Shapes, Calls, IdeRw, InIde, Owned
<1>2. /\ idequeue' = Append(idequeue, b)
      /\ command' = IF idequeue = <<>> THEN IdeStart(b) ELSE command
      /\ pc' = [pc EXCEPT ![p] = "asleep_ide"]
      /\ UNCHANGED <<lru, bufVars, locked, disk, cur, want, held, panicked>>
  BY DEF IdeRw
<1>3. IdeStart(b) \in Commands
  BY <1>1 DEF IdeStart, Commands, Shapes
<1>4. TypeOK'
  BY <1>1, <1>2, <1>3 DEF TypeOK, PCs, bufVars
<1>5. Counted'
  <2>1. \A c \in Buf : Refs(c)' = Refs(c)
    BY <1>1, <1>2 DEF Shapes, Refs, Waiting
  <2> QED
    BY <1>2, <2>1 DEF IInv, Counted, bufVars
<1>6. Owned'
  BY <1>1, <1>2 DEF IInv, Shapes, Owned, InIde, bufVars
<1>7. Calls'
  BY <1>1, <1>2 DEF IInv, Shapes, Calls, Waiting, InIde, bufVars
<1>8. Queue'
  <2>1. \A i \in 1 .. Len(idequeue) : idequeue[i] # b
    <3> SUFFICES ASSUME NEW i \in 1 .. Len(idequeue), idequeue[i] = b
                 PROVE  FALSE
      OBVIOUS
    <3>1. PICK q \in Proc : pc[q] = "asleep_ide" /\ cur[q] = b
      BY DEF IInv, Queue
    <3>2. b \in held[q]
      BY <3>1 DEF IInv, Calls, InIde
    <3> QED
      BY <1>1, <3>1, <3>2, OneOwner
  <2>2. /\ idequeue \in Seq(Buf) /\ Len(idequeue) \in Nat
        /\ Len(idequeue') = Len(idequeue) + 1 /\ idequeue' # <<>>
        /\ \A i \in 1 .. Len(idequeue) : idequeue'[i] = idequeue[i]
        /\ idequeue'[Len(idequeue) + 1] = b
    BY <1>1, <1>2 DEF TypeOK
  <2>3. \A i \in 1 .. Len(idequeue') :
          \E q \in Proc : pc'[q] = "asleep_ide" /\ cur'[q] = idequeue'[i]
    <3> SUFFICES ASSUME NEW i \in 1 .. Len(idequeue')
                 PROVE  \E q \in Proc : pc'[q] = "asleep_ide"
                                       /\ cur'[q] = idequeue'[i]
      OBVIOUS
    <3>1. CASE i \in 1 .. Len(idequeue)
      <4>1. PICK q \in Proc : pc[q] = "asleep_ide" /\ cur[q] = idequeue[i]
        BY <3>1 DEF IInv, Queue
      <4> QED
        BY <1>1, <1>2, <2>2, <3>1, <4>1 DEF Shapes
    <3>2. CASE i = Len(idequeue) + 1
      BY <1>1, <1>2, <2>2, <3>2 DEF Shapes
    <3> QED
      BY <2>2, <3>1, <3>2
  <2>4. \A i, j \in 1 .. Len(idequeue') : idequeue'[i] = idequeue'[j] => i = j
    BY <2>1, <2>2 DEF IInv, Queue
  <2>5. command' = IdeStart(idequeue'[1])
    <3>1. CASE idequeue = <<>>
      BY <1>2, <2>2, <3>1
    <3>2. CASE idequeue # <<>>
      <4>1. 1 \in 1 .. Len(idequeue)
        BY <2>2, <3>2
      <4> QED
        BY <1>2, <2>2, <3>2, <4>1 DEF IInv, Queue
    <3> QED
      BY <3>1, <3>2
  <2>6. IdeStart(idequeue[1])' = IdeStart(idequeue'[1])
    BY <1>2 DEF IdeStart, bufVars
  <2> QED
    BY <2>2, <2>3, <2>4, <2>5, <2>6 DEF Queue
<1> QED
  BY <1>2, <1>4, <1>5, <1>6, <1>7, <1>8, SMTT(30)
     DEF IInv, Listed, OneBuffer, Clean, bufVars

LEMMA IdeWaitKeeps ==
  ASSUME IInv, NEW p \in Proc, IdeWait(p)
  PROVE  IInv'
<1>1. TypeOK /\ Shapes /\ pc[p] = "wait_ide" /\ valid[cur[p]] /\ ~dirty[cur[p]]
  BY HasShapes, SMTT(30) DEF IInv, Calls, IdeWait
<1>2. /\ pc' = [pc EXCEPT ![p] = "run"]
      /\ UNCHANGED <<lru, bufVars, locked, ideVars, cur, want, held, panicked>>
  BY <1>1, Zenon DEF IdeWait
<1>3. TypeOK'
  BY <1>1, <1>2 DEF TypeOK, PCs, bufVars, ideVars
<1>4. Counted'
  <2>1. \A c \in Buf : Refs(c)' = Refs(c)
    BY <1>1, <1>2 DEF Shapes, Refs, Waiting
  <2> QED
    BY <1>2, <2>1 DEF IInv, Counted, bufVars
<1>5. Owned'
  BY <1>1, <1>2 DEF IInv, Shapes, Owned, InIde, bufVars
<1>6. Calls'
  BY <1>1, <1>2, SMTT(30) DEF IInv, Shapes, Calls, Waiting, InIde, bufVars
<1>7. Queue'
  <2>1. \A q \in Proc : pc[q] = "asleep_ide" =>
          pc'[q] = "asleep_ide" /\ cur'[q] = cur[q]
    BY <1>1, <1>2 DEF Shapes
  <2> QED
    BY <1>2, <2>1, QueueStays DEF bufVars, ideVars
<1> QED
  BY <1>2, <1>3, <1>4, <1>5, <1>6, <1>7
     DEF IInv, Listed, OneBuffer, Clean, bufVars, ideVars

-----------------------------------------------------------------------------
(* What the invariant says of the command the disk has done: it is for the *)
(* first buffer of the queue, whose process sleeps.                        *)
LEMMA HeadOfQueue ==
  ASSUME IInv, command # Idle
  PROVE  LET b == Head(idequeue) IN
         /\ idequeue # <<>> /\ b = idequeue[1] /\ 1 \in 1 .. Len(idequeue)
         /\ b \in Buf /\ blockno[b] \in Block /\ command = IdeStart(b)
         /\ command.block = blockno[b]
         /\ command.op = "write" <=> dirty[b]
         /\ dirty[b] => command.data = data[b]
         /\ ~valid[b] \/ dirty[b]
         /\ \E p \in Proc : /\ pc[p] = "asleep_ide" /\ cur[p] = b
                            /\ b \in held[p]
                            /\ \A q \in Proc : b \in held[q] => q = p
<1> DEFINE b == Head(idequeue)
<1>1. idequeue # <<>> /\ idequeue \in Seq(Buf)
  BY DEF IInv, Queue, TypeOK
<1>2. b = idequeue[1] /\ 1 \in 1 .. Len(idequeue) /\ b \in Buf
  BY <1>1
<1>3. PICK p \in Proc : pc[p] = "asleep_ide" /\ cur[p] = b
  BY <1>2 DEF IInv, Queue
<1>4. b \in held[p] /\ (~valid[b] \/ dirty[b])
  BY <1>3 DEF IInv, Calls, InIde
<1>5. blockno[b] \in Block
  BY HasShapes, <1>2, <1>4 DEF IInv, Owned, Shapes
<1>6. command = IdeStart(b)
  BY <1>1, <1>2 DEF IInv, Queue
<1>7. \A q \in Proc : b \in held[q] => q = p
  BY <1>2, <1>4 DEF IInv, Owned
<1>8. /\ command.block = blockno[b]
      /\ command.op = "write" <=> dirty[b]
      /\ dirty[b] => command.data = data[b]
  BY <1>6 DEF IdeStart
<1> QED
  BY <1>1, <1>2, <1>3, <1>4, <1>5, <1>6, <1>7, <1>8

(* What follows in the queue. *)
LEMMA RestOfQueue ==
  ASSUME NEW S, NEW q \in Seq(S), q # <<>>
  PROVE  /\ Tail(q) \in Seq(S) /\ Len(q) \in Nat /\ Len(Tail(q)) = Len(q) - 1
         /\ \A i \in 1 .. Len(Tail(q)) : /\ i + 1 \in 1 .. Len(q)
                                         /\ Tail(q)[i] = q[i + 1]
                                         /\ Tail(q)[i] \in S
         /\ Tail(q) # <<>> => /\ Head(Tail(q)) = Tail(q)[1]
                              /\ 1 \in 1 .. Len(Tail(q))
OBVIOUS

LEMMA IntrKeeps ==
  ASSUME IInv, NEW ok \in Reads, IdeIntr(ok)
  PROVE  IInv'
<1> DEFINE b == Head(idequeue)
<1> DEFINE n == blockno[b]
<1>1. TypeOK /\ Shapes /\ command # Idle
  BY HasShapes DEF IInv, IdeIntr
<1>2. /\ idequeue # <<>> /\ b = idequeue[1] /\ 1 \in 1 .. Len(idequeue)
      /\ b \in Buf /\ n \in Block /\ n # 0 /\ command.block = n
      /\ command.op = "write" <=> dirty[b]
      /\ dirty[b] => command.data = data[b]
      /\ ~valid[b] \/ dirty[b]
  BY <1>1, HeadOfQueue, BufConstants
<1>3. PICK p \in Proc : /\ pc[p] = "asleep_ide" /\ cur[p] = b /\ b \in held[p]
                        /\ \A q \in Proc : b \in held[q] => q = p
  BY <1>1, HeadOfQueue
<1>4. /\ idequeue' = Tail(idequeue)
      /\ valid' = [valid EXCEPT ![b] = TRUE]
      /\ dirty' = [dirty EXCEPT ![b] = FALSE]
      /\ command' = IF Tail(idequeue) = <<>> THEN Idle
                    ELSE IdeStart(Head(Tail(idequeue)))
      /\ UNCHANGED <<lru, blockno, refcnt, locked, cur, want, held, panicked>>
  BY DEF IdeIntr
<1>5. /\ disk' = IF dirty[b] THEN [disk EXCEPT ![n] = data[b]] ELSE disk
      /\ data' = IF dirty[b] \/ ~ok THEN data
                 ELSE [data EXCEPT ![b] = disk[n]]
  BY <1>2, Zenon DEF IdeIntr
<1>6. pc' = [pc EXCEPT ![p] = "wait_ide"]
  <2>1. \A q \in Proc : pc[q] = "asleep_ide" /\ cur[q] = b <=> q = p
    BY <1>3 DEF IInv, Calls, InIde
  <2>2. pc' = [q \in Proc |-> IF pc[q] = "asleep_ide" /\ cur[q] = b
                              THEN "wait_ide" ELSE pc[q]]
    BY DEF IdeIntr
  <2> QED
    BY <1>1, <2>1, <2>2, Zenon DEF Shapes
<1>7. \A c \in Buf : c # b => /\ valid'[c] = valid[c] /\ dirty'[c] = dirty[c]
                              /\ data'[c] = data[c]
  BY <1>1, <1>2, <1>4, <1>5 DEF Shapes
<1>8. valid'[b] /\ ~dirty'[b]
  BY <1>1, <1>2, <1>4 DEF Shapes
<1> DEFINE rest == Tail(idequeue)
<1>9. /\ rest \in Seq(Buf) /\ Len(idequeue) \in Nat
      /\ Len(rest) = Len(idequeue) - 1
      /\ \A i \in 1 .. Len(rest) : /\ i + 1 \in 1 .. Len(idequeue)
                                   /\ rest[i] = idequeue[i + 1] /\ rest[i] \in Buf
      /\ rest # <<>> => Head(rest) = rest[1] /\ 1 \in 1 .. Len(rest)
  BY <1>1, <1>2, RestOfQueue DEF TypeOK
<1>10. \A i \in 1 .. Len(rest) :
         \E q \in Proc : q # p /\ pc[q] = "asleep_ide" /\ cur[q] = rest[i]
  <2> SUFFICES ASSUME NEW i \in 1 .. Len(rest)
               PROVE  \E q \in Proc : /\ q # p /\ pc[q] = "asleep_ide"
                                      /\ cur[q] = rest[i]
    OBVIOUS
  <2>1. i + 1 \in 1 .. Len(idequeue) /\ rest[i] = idequeue[i + 1] /\ i + 1 # 1
    BY <1>9
  <2>2. PICK q \in Proc : pc[q] = "asleep_ide" /\ cur[q] = idequeue[i + 1]
    BY <2>1 DEF IInv, Queue
  <2>3. idequeue[i + 1] # b
    BY <1>2, <2>1 DEF IInv, Queue
  <2> QED
    BY <1>3, <2>1, <2>2, <2>3
<1>11. rest # <<>> => /\ rest[1] \in Buf /\ rest[1] # b
                      /\ blockno[rest[1]] \in Block
  <2> SUFFICES ASSUME rest # <<>>
               PROVE  /\ rest[1] \in Buf /\ rest[1] # b
                      /\ blockno[rest[1]] \in Block
    OBVIOUS
  <2>1. rest[1] \in Buf /\ 1 \in 1 .. Len(rest)
    BY <1>9
  <2>2. PICK q \in Proc : q # p /\ pc[q] = "asleep_ide" /\ cur[q] = rest[1]
    BY <1>10, <2>1
  <2>3. rest[1] \in held[q]
    BY <2>2 DEF IInv, Calls, InIde
  <2> QED
    BY <1>1, <1>3, <2>1, <2>2, <2>3 DEF IInv, Owned, Shapes
<1>12. TypeOK'
  <2>1. command' \in Commands
    <3>1. rest # <<>> => IdeStart(rest[1]) \in Commands
      BY <1>1, <1>11 DEF IdeStart, Commands, TypeOK
    <3> QED
      BY <1>4, <1>9, <3>1 DEF Commands
  <2>2. data' \in [Buf -> Val] /\ disk' \in [Block -> Val]
    BY <1>1, <1>2, <1>5 DEF TypeOK
  <2>3. pc' \in [Proc -> PCs]
    BY <1>1, <1>6 DEF TypeOK, PCs
  <2>4. valid' \in [Buf -> BOOLEAN] /\ dirty' \in [Buf -> BOOLEAN]
    BY <1>1, <1>4, Zenon DEF TypeOK
  <2> QED
    BY <1>1, <1>4, <1>9, <2>1, <2>2, <2>3, <2>4, Zenon DEF TypeOK
<1>13. Counted'
  <2>1. \A c \in Buf : Refs(c)' = Refs(c)
    BY <1>1, <1>3, <1>4, <1>6 DEF Shapes, Refs, Waiting
  <2> QED
    BY <1>4, <2>1 DEF IInv, Counted
<1>14. Owned'
  <2> SUFFICES ASSUME NEW q \in Proc, NEW c \in Buf PROVE Owned!(q, c)'
    BY DEF Owned
  <2>1. valid[c] => valid'[c]
    BY <1>7, <1>8
  <2>2. c # b /\ pc[q] \in InIde /\ cur[q] = c => pc'[q] = pc[q]
    BY <1>1, <1>3, <1>6, SMTT(30) DEF Shapes
  <2> QED
    BY <1>4, <1>8, <2>1, <2>2, Zenon DEF IInv, Owned
<1>15. Calls'
  <2> SUFFICES ASSUME NEW q \in Proc PROVE Calls!(q)'
    BY DEF Calls
  <2>1. CASE q = p
    BY <1>1, <1>3, <1>4, <1>6, <1>8, <2>1
       DEF IInv, Shapes, Calls, Waiting, InIde
  <2>2. CASE q # p
    <3>1. pc'[q] = pc[q]
      BY <1>1, <1>6, <2>2 DEF Shapes
    <3>2. pc[q] \in InIde => cur[q] # b /\ cur[q] \in Buf
      BY <1>1, <1>3, <2>2 DEF IInv, Calls, Shapes
    <3> QED
      BY <1>4, <1>7, <3>1, <3>2 DEF IInv, Calls, Waiting, InIde
  <2> QED
    BY <2>1, <2>2, Zenon
<1>16. Queue'
  <2>1. \A i \in 1 .. Len(rest) :
          \E q \in Proc : pc'[q] = "asleep_ide" /\ cur'[q] = rest[i]
    <3> SUFFICES ASSUME NEW i \in 1 .. Len(rest)
                 PROVE  \E q \in Proc : pc'[q] = "asleep_ide" /\ cur'[q] = rest[i]
      OBVIOUS
    <3>1. PICK q \in Proc : q # p /\ pc[q] = "asleep_ide" /\ cur[q] = rest[i]
      BY <1>10
    <3> QED
      BY <1>1, <1>4, <1>6, <3>1 DEF Shapes
  <2>2. \A i, j \in 1 .. Len(rest) : rest[i] = rest[j] => i = j
    <3> SUFFICES ASSUME NEW i \in 1 .. Len(rest), NEW j \in 1 .. Len(rest),
                        rest[i] = rest[j]
                 PROVE  i = j
      OBVIOUS
    <3>1. i + 1 = j + 1
      BY <1>9 DEF IInv, Queue
    <3> QED
      BY <3>1
  <2>3. ASSUME rest # <<>> PROVE IdeStart(idequeue[1])' = IdeStart(rest[1])
    <3> DEFINE c == rest[1]
    <3>1. /\ dirty'[c] = dirty[c] /\ data'[c] = data[c]
          /\ blockno'[c] = blockno[c]
      BY <1>4, <1>7, <1>11, <2>3, Zenon
    <3> QED
      BY <1>4, <3>1, Zenon DEF IdeStart
  <2> QED
    BY <1>4, <1>9, <2>1, <2>2, <2>3 DEF Queue
<1>17. Clean'
  <2> SUFFICES ASSUME NEW c \in Buf PROVE Clean!(c)'
    BY DEF Clean
  <2>1. CASE c = b
    <3>1. ReadsSucceed => data'[b] = disk'[n]
      BY <1>1, <1>2, <1>5, Zenon DEF Shapes, ReadsSucceed
    <3> QED
      BY <1>4, <1>8, <2>1, <3>1
  <2>2. CASE c # b
    <3>1. blockno[c] # 0 => disk'[blockno[c]] = disk[blockno[c]]
      <4> SUFFICES ASSUME blockno[c] # 0
                   PROVE  disk'[blockno[c]] = disk[blockno[c]]
        OBVIOUS
      <4>1. blockno[c] # n /\ blockno[c] \in Block
        BY <1>1, <1>2, <2>2, SMTT(30) DEF IInv, OneBuffer, Shapes
      <4> QED
        BY <1>1, <1>2, <1>5, <4>1 DEF Shapes
    <3> QED
      BY <1>4, <1>7, <2>2, <3>1 DEF IInv, Clean
  <2> QED
    BY <2>1, <2>2
<1> QED
  BY <1>4, <1>12, <1>13, <1>14, <1>15, <1>16, <1>17
     DEF IInv, Listed, OneBuffer
=============================================================================
