----------------------------- MODULE PipeProofs -----------------------------
(***************************************************************************)
(* Proofs about Pipe for any number of processes, any size of the ring and *)
(* any wrap of its counters, whatever is written: the arithmetic of the    *)
(* counters, who may be asleep, when the page is freed, and that Pipe      *)
(* implements Channel.                                                     *)
(***************************************************************************)
EXTENDS Pipe, TLAPS

-----------------------------------------------------------------------------
(* Arithmetic modulo m.                                                    *)

(* The remainder is the only one.                                          *)
LEMMA ModUnique ==
  ASSUME NEW m \in Int, m > 0, NEW a \in Int, NEW k \in Int,
         NEW r \in 0 .. m - 1, a = k * m + r
  PROVE  a % m = r
BY SMT

(* Division with remainder.                                                *)
LEMMA ModDivides ==
  ASSUME NEW m \in Int, m > 0, NEW a \in Int
  PROVE  a % m \in 0 .. m - 1 /\ \E k \in Int : a = k * m + (a % m)
<1>1. a % m \in 0 .. m - 1
  BY SMT
<1>2. a \div m \in Int /\ a = m * (a \div m) + (a % m)
  BY SMT
<1>3. m * (a \div m) = (a \div m) * m
  BY <1>2
<1> QED
  BY <1>1, <1>2, <1>3

(* What one addition or subtraction of a counter can make of a remainder.  *)
LEMMA ModNear ==
  ASSUME NEW m \in Int, m > 0, NEW a \in Int, -m =< a, a < 2 * m
  PROVE  a % m = IF a < 0 THEN a + m ELSE IF a < m THEN a ELSE a - m
BY SMT

(* Adding or taking away a multiple of m leaves the remainder.             *)
LEMMA ModShift ==
  ASSUME NEW m \in Int, m > 0, NEW a \in Int, NEW w \in Int, w % m = 0
  PROVE  (a - w) % m = a % m
<1>1. PICK j \in Int : w = j * m + (w % m)
  BY ModDivides
<1>2. PICK k \in Int : a = k * m + (a % m)
  BY ModDivides, Zenon
<1>3. a % m \in 0 .. m - 1
  BY ModDivides
<1>4. a - w = (k - j) * m + (a % m)
  <2>1. (k - j) * m = k * m - j * m
    OBVIOUS
  <2> QED
    BY <1>1, <1>2, <1>3, <2>1
<1>5. k - j \in Int /\ a - w \in Int
  OBVIOUS
<1> QED
  BY <1>3, <1>4, <1>5, ModUnique, Zenon

(* Numbers less than m apart have different remainders.                    *)
LEMMA ModApart ==
  ASSUME NEW m \in Int, m > 0, NEW a \in Int, NEW b \in Int, a < b, b - a < m
  PROVE  a % m # b % m
<1> SUFFICES ASSUME a % m = b % m PROVE FALSE
  OBVIOUS
<1>1. PICK j \in Int : a = j * m + (a % m)
  BY ModDivides, Zenon
<1>2. PICK k \in Int : b = k * m + (b % m)
  BY ModDivides, Zenon
<1>3. a % m \in Int
  BY ModDivides
<1>4. b - a = (k - j) * m
  BY <1>1, <1>2, <1>3
<1>5. CASE k - j =< 0
  BY <1>4, <1>5
<1>6. CASE k - j >= 1
  BY <1>4, <1>6
<1> QED
  BY <1>5, <1>6

(* The smaller of two numbers.                                             *)
LEMMA MinOfTwo ==
  ASSUME NEW a \in Int, NEW b \in Int
  PROVE  Min({a, b}) = IF a =< b THEN a ELSE b
<1>1. \E x \in {a, b} : \A y \in {a, b} : x =< y
  OBVIOUS
<1> QED
  BY <1>1 DEF Min

-----------------------------------------------------------------------------
(* The two counters of the ring, r and w, count modulo Wrap.               *)
Count == 0 .. Wrap - 1

(* The sizes as integers.                                                  *)
LEMMA Sizes ==
  /\ PIPESIZE \in Int /\ PIPESIZE > 0
  /\ Wrap \in Int /\ Wrap > PIPESIZE /\ Wrap % PIPESIZE = 0
BY PipeConstants

(* The number of bytes between two counters.                               *)
LEMMA Distance ==
  ASSUME NEW r \in Count, NEW w \in Count
  PROVE  (w - r) % Wrap = IF r =< w THEN w - r ELSE w - r + Wrap
<1>1. -Wrap =< w - r /\ w - r < 2 * Wrap /\ w - r \in Int /\ Wrap > 0
  BY Sizes DEF Count
<1>2. w - r < Wrap /\ (w - r < 0 <=> ~(r =< w))
  BY Sizes DEF Count
<1> QED
  BY <1>1, <1>2, ModNear, Sizes

(* A counter that goes on by n, at most the size of the ring.              *)
LEMMA Advance ==
  ASSUME NEW r \in Count, NEW n \in 0 .. PIPESIZE
  PROVE  /\ (r + n) % Wrap = IF r + n < Wrap THEN r + n ELSE r + n - Wrap
         /\ (r + n) % Wrap \in Count
<1>1. PICK a \in Int : a = r + n
  BY Sizes DEF Count
<1>2. -Wrap =< a /\ a < 2 * Wrap /\ ~(a < 0) /\ Wrap > 0
  BY <1>1, Sizes DEF Count
<1>3. a % Wrap = IF a < Wrap THEN a ELSE a - Wrap
  BY <1>2, ModNear, Sizes
<1>4. a % Wrap \in Count
  BY <1>2, <1>3, Sizes DEF Count
<1> QED
  BY <1>1, <1>3, <1>4, Sizes DEF Count

(* n bytes more, when there is room for them.                              *)
LEMMA DistanceGrows ==
  ASSUME NEW r \in Count, NEW w \in Count, NEW n \in 0 .. PIPESIZE,
         ((w - r) % Wrap) + n =< PIPESIZE
  PROVE  (((w + n) % Wrap) - r) % Wrap = ((w - r) % Wrap) + n
<1> DEFINE v == (w + n) % Wrap
<1>1. v = (IF w + n < Wrap THEN w + n ELSE w + n - Wrap) /\ v \in Count
  BY Advance
<1>2. (w - r) % Wrap = IF r =< w THEN w - r ELSE w - r + Wrap
  BY Distance
<1> HIDE DEF v
<1>3. (v - r) % Wrap = IF r =< v THEN v - r ELSE v - r + Wrap
  BY <1>1, Distance
<1> QED
  BY <1>1, <1>2, <1>3, Sizes DEF Count, v

(* n bytes less, when there are as many.                                   *)
LEMMA DistanceShrinks ==
  ASSUME NEW r \in Count, NEW w \in Count, NEW n \in 0 .. PIPESIZE,
         n =< (w - r) % Wrap
  PROVE  (w - ((r + n) % Wrap)) % Wrap = ((w - r) % Wrap) - n
<1> DEFINE v == (r + n) % Wrap
<1>1. v = (IF r + n < Wrap THEN r + n ELSE r + n - Wrap) /\ v \in Count
  BY Advance
<1>2. (w - r) % Wrap = IF r =< w THEN w - r ELSE w - r + Wrap
  BY Distance
<1> HIDE DEF v
<1>3. (w - v) % Wrap = IF v =< w THEN w - v ELSE w - v + Wrap
  BY <1>1, Distance
<1> QED
  BY <1>1, <1>2, <1>3, Sizes DEF Count, v

(* Where a counter has wrapped the place in the ring is the same, because  *)
(* the size of the ring divides Wrap: 512 and 2^32 in the code.            *)
LEMMA SamePlace ==
  ASSUME NEW r \in Int, NEW i \in Int, NEW v \in Int, v = r \/ v = r - Wrap
  PROVE  (v + i) % PIPESIZE = (r + i) % PIPESIZE
<1>1. CASE v = r
  BY <1>1
<1>2. CASE v = r - Wrap
  <2> DEFINE a == r + i
  <2>1. v + i = a - Wrap /\ a \in Int
    BY <1>2, Sizes
  <2> HIDE DEF a
  <2>2. (a - Wrap) % PIPESIZE = a % PIPESIZE
    BY <2>1, ModShift, Sizes, Zenon
  <2> QED
    BY <2>1, <2>2 DEF a
<1> QED
  BY <1>1, <1>2

(* A counter is PIPESIZE ahead of another exactly when it has the value    *)
(* pipewrite compares it with.                                             *)
LEMMA FullTest ==
  ASSUME NEW r \in Count, NEW w \in Count
  PROVE  w = (r + PIPESIZE) % Wrap <=> (w - r) % Wrap = PIPESIZE
<1>1. (w - r) % Wrap = IF r =< w THEN w - r ELSE w - r + Wrap
  BY Distance
<1>2. PIPESIZE \in 0 .. PIPESIZE
  BY Sizes
<1>3. (r + PIPESIZE) % Wrap = IF r + PIPESIZE < Wrap THEN r + PIPESIZE
                              ELSE r + PIPESIZE - Wrap
  BY <1>2, Advance
<1> QED
  BY <1>1, <1>3, Sizes DEF Count

(* What pipewrite and piperead test: as many bytes as the ring has room    *)
(* for, and none.                                                          *)
LEMMA FullEmpty ==
  ASSUME nread \in Count, nwrite \in Count
  PROVE  /\ Used \in Count
         /\ Empty <=> Used = 0
         /\ Full <=> Used = PIPESIZE
<1>1. Used = IF nread =< nwrite THEN nwrite - nread ELSE nwrite - nread + Wrap
  BY Distance DEF Used
<1>2. Used \in Count /\ (nread = nwrite <=> Used = 0)
  BY <1>1, Sizes DEF Count
<1> QED
  BY <1>2, FullTest DEF Full, Empty, Used

-----------------------------------------------------------------------------
(* The inductive invariant.                                                *)

(* p->lock is held over a step only by the process on its way to sleep.    *)
Locked == \A p \in Proc : pc[p] \in {"sleepr", "sleepw"} <=> lock = p

(* SleepersNeeded, and the same of a process that still has p->lock: there *)
(* even a killed writer cannot have come in between.                       *)
Sleepers ==
  /\ \A p \in Proc : /\ pc[p] = "sleepr" => writeopen /\ Empty
                     /\ pc[p] = "sleepw" => Full /\ readopen
  /\ SleepersNeeded

(* The open flags follow the descriptors: an end is open as long as        *)
(* somebody has it or is the one to close it, and who is inside piperead   *)
(* or pipewrite has it.                                                    *)
Ends ==
  /\ page = "none" =>
       \A p \in Proc : pc[p] \in {"unborn", "idle"} /\ holds[p] = {}
  /\ \A p \in Proc :
       /\ pc[p] \in {"read", "sleepr", "asleepr"} => "r" \in holds[p]
       /\ pc[p] \in {"write", "sleepw", "asleepw"} => "w" \in holds[p]
       /\ pc[p] = "unborn" => holds[p] = {}
  /\ \A p, q \in Proc :
       /\ pc[p] = "close_r" =>
            "r" \notin holds[q] /\ (pc[q] = "close_r" => q = p)
       /\ pc[p] = "close_w" =>
            "w" \notin holds[q] /\ (pc[q] = "close_w" => q = p)
  /\ readopen <=> \E p \in Proc : "r" \in holds[p] \/ pc[p] = "close_r"
  /\ writeopen <=> \E p \in Proc : "w" \in holds[p] \/ pc[p] = "close_w"
  /\ page = "used" <=> readopen \/ writeopen

(* The ring holds at most PIPESIZE bytes, none before there is a pipe, and *)
(* only a call of pipewrite has bytes to write.                            *)
Fits ==
  /\ Used =< PIPESIZE
  /\ page = "none" => Empty
  /\ \A p \in Proc :
       pc[p] \notin {"write", "sleepw", "asleepw"} => todo[p] = <<>>

IInv == TypeOK /\ Fits /\ Locked /\ Sleepers /\ Ends

(* pipealloc: the only holder of the new ends is the caller.               *)
LEMMA PipeAllocKeeps ==
  ASSUME IInv, PipeAlloc
  PROVE  IInv'
<1> USE PipeConstants DEF IInv, PipeAlloc, ends, ring
<1>1. TypeOK'
  BY DEF TypeOK, PCs
<1>2. Fits'
  BY DEF TypeOK, Fits, Used, Empty, Ends, PCs
<1>3. Locked'
  BY DEF TypeOK, Locked, PCs
<1>4. Sleepers'
  BY DEF TypeOK, Locked, Sleepers, SleepersNeeded, Ends, Empty, Full, PCs
<1>5. Ends'
  BY DEF TypeOK, Ends, PCs
<1> QED
  BY <1>1, <1>2, <1>3, <1>4, <1>5

(* A call of read by a process that has the read end.                      *)
LEMMA CallReadKeeps ==
  ASSUME IInv, NEW p \in Proc, CallRead(p)
  PROVE  IInv'
<1> USE PipeConstants DEF IInv, CallRead, ends, ring
<1>1. TypeOK'
  BY DEF TypeOK, PCs
<1>2. Fits'
  BY DEF TypeOK, Fits, Used, Empty, Ends, PCs
<1>3. Locked'
  BY DEF TypeOK, Locked, PCs
<1>4. Sleepers'
  BY DEF TypeOK, Locked, Sleepers, SleepersNeeded, Ends, Empty, Full, PCs
<1>5. Ends'
  BY DEF TypeOK, Ends, PCs
<1> QED
  BY <1>1, <1>2, <1>3, <1>4, <1>5

(* A call of write by a process that has the write end.                    *)
LEMMA CallWriteKeeps ==
  ASSUME IInv, NEW p \in Proc, NEW bytes \in Writes, CallWrite(p, bytes)
  PROVE  IInv'
<1> USE PipeConstants DEF IInv, CallWrite, ends, ring
<1>1. TypeOK'
  BY DEF TypeOK, PCs
<1>2. Fits'
  BY DEF TypeOK, Fits, Used, Empty, Ends, PCs
<1>3. Locked'
  BY DEF TypeOK, Locked, PCs
<1>4. Sleepers'
  BY DEF TypeOK, Locked, Sleepers, SleepersNeeded, Ends, Empty, Full, PCs
<1>5. Ends'
  BY DEF TypeOK, Ends, PCs
<1> QED
  BY <1>1, <1>2, <1>3, <1>4, <1>5

(* fileclose: the last holder of an end becomes the one that closes it.    *)
LEMMA CloseKeeps ==
  ASSUME IInv, NEW p \in Proc, NEW e \in {"r", "w"}, Close(p, e)
  PROVE  IInv'
<1> USE PipeConstants DEF IInv, Close, ends, ring
<1>1. TypeOK'
  BY DEF TypeOK, PCs
<1>2. Fits'
  BY DEF TypeOK, Fits, Used, Empty, Ends, PCs
<1>3. Locked'
  BY DEF TypeOK, Locked, PCs
<1>4. Sleepers'
  BY DEF TypeOK, Locked, Sleepers, SleepersNeeded, Ends, Empty, Full, PCs
<1>5. Ends'
  BY DEF TypeOK, Ends, PCs
<1> QED
  BY <1>1, <1>2, <1>3, <1>4, <1>5

(* fork hands on the ends its caller has, so none that is being closed.    *)
LEMMA ForkKeeps ==
  ASSUME IInv, NEW p \in Proc, NEW q \in Proc, Fork(p, q)
  PROVE  IInv'
<1> USE PipeConstants DEF IInv, Fork, ends, ring
<1>1. TypeOK'
  BY DEF TypeOK, PCs
<1>2. Fits'
  BY DEF TypeOK, Fits, Used, Empty, Ends, PCs
<1>3. Locked'
  BY DEF TypeOK, Locked, PCs
<1>4. Sleepers'
  BY DEF TypeOK, Locked, Sleepers, SleepersNeeded, Ends, Empty, Full, PCs
<1>5. Ends'
  BY DEF TypeOK, Ends, PCs
<1> QED
  BY <1>1, <1>2, <1>3, <1>4, <1>5

(* sleep lets p->lock go with the process asleep: what it tested still     *)
(* holds.                                                                  *)
LEMMA SleepKeeps ==
  ASSUME IInv, NEW p \in Proc, Sleep(p)
  PROVE  IInv'
<1> USE PipeConstants DEF IInv, Sleep, ends, ring
<1>1. TypeOK'
  BY DEF TypeOK, PCs
<1>2. Fits'
  BY DEF TypeOK, Fits, Used, Empty, Ends, PCs
<1>3. Locked'
  BY DEF TypeOK, Locked, PCs
<1>4. Sleepers'
  BY DEF TypeOK, Locked, Sleepers, SleepersNeeded, Ends, Empty, Full, PCs
<1>5. Ends'
  BY DEF TypeOK, Ends, PCs
<1> QED
  BY <1>1, <1>2, <1>3, <1>4, <1>5

(* Ends is about who has which end: a call that goes from one point to     *)
(* another inside its function, or returns, leaves it alone.               *)
LEMMA EndsKept ==
  ASSUME TypeOK, Ends, UNCHANGED <<ends, holds>>,
         \A p \in Proc :
           \/ pc'[p] = pc[p]
           \/ /\ pc[p] \notin {"unborn", "close_r", "close_w"}
              /\ \/ pc'[p] = "idle"
                 \/ pc'[p] \in {"read", "sleepr", "asleepr"} /\ "r" \in holds[p]
                 \/ pc'[p] \in {"write", "sleepw", "asleepw"} /\ "w" \in holds[p]
  PROVE  Ends'
<1> USE DEF ends
<1>1. \A p \in Proc : /\ pc'[p] = "close_r" <=> pc[p] = "close_r"
                      /\ pc'[p] = "close_w" <=> pc[p] = "close_w"
                      /\ pc'[p] = "unborn" <=> pc[p] = "unborn"
  OBVIOUS
<1>2. \A p \in Proc :
        /\ pc'[p] \in {"read", "sleepr", "asleepr"} => "r" \in holds[p]
        /\ pc'[p] \in {"write", "sleepw", "asleepw"} => "w" \in holds[p]
  BY DEF Ends
<1>3. page = "none" =>
        \A p \in Proc : pc'[p] \in {"unborn", "idle"} /\ holds[p] = {}
  BY DEF Ends
<1> QED
  BY <1>1, <1>2, <1>3 DEF Ends

(* kill makes a sleeper try again.                                         *)
LEMMA KillKeeps ==
  ASSUME IInv, NEW p \in Proc, Kill(p)
  PROVE  IInv'
<1> USE PipeConstants DEF IInv, Kill, ends, ring
<1>1. TypeOK'
  BY DEF TypeOK, PCs
<1>2. \A q \in Proc : \/ pc'[q] = pc[q]
                      \/ pc[q] = "asleepr" /\ pc'[q] = "read"
                      \/ pc[q] = "asleepw" /\ pc'[q] = "write"
  BY DEF TypeOK
<1>3. Fits' /\ Locked'
  <2>1. Used' = Used /\ Empty' = Empty
    BY Zenon DEF Used, Empty
  <2> QED
    BY <1>2, <2>1 DEF Fits, Locked
<1>4. Sleepers'
  <2>1. Empty' = Empty /\ Full' = Full
    BY Zenon DEF Empty, Full
  <2>2. \A q \in Proc : killed[q] => killed'[q]
    BY DEF TypeOK
  <2> QED
    BY <1>2, <2>1, <2>2 DEF Sleepers, SleepersNeeded
<1>5. Ends'
  <2>1. UNCHANGED <<ends, holds>>
    OBVIOUS
  <2>2. \A q \in Proc : /\ pc[q] = "asleepr" => "r" \in holds[q]
                        /\ pc[q] = "asleepw" => "w" \in holds[q]
    BY DEF Ends
  <2> QED
    BY <1>2, <2>1, <2>2, EndsKept
<1> QED
  BY <1>1, <1>3, <1>4, <1>5

(* pipeclose: the sleepers of the other end wake up, and nobody is between *)
(* the test and the sleep, since p->lock is free.  The page goes with the  *)
(* second end.                                                             *)
LEMMA PipeCloseKeeps ==
  ASSUME IInv, NEW p \in Proc, PipeClose(p)
  PROVE  IInv'
<1> USE PipeConstants DEF IInv
<1>1. /\ lock = 0
      /\ UNCHANGED <<data, nread, nwrite, lock, holds, todo, got, killed>>
      /\ page' = IF readopen' \/ writeopen' THEN page ELSE "freed"
  BY DEF PipeClose, ring
<1>2. \A q \in Proc : pc[q] \notin {"sleepr", "sleepw"}
  BY <1>1 DEF Locked
<1>3. TypeOK'
  BY ZenonT(30) DEF TypeOK, PCs, PipeClose, WakeReaders, WakeWriters, ring
<1>4. Fits' /\ Locked'
  <2>1. \A q \in Proc : \/ pc'[q] = pc[q]
                        \/ pc[q] \in {"close_r", "close_w"} /\ pc'[q] = "idle"
                        \/ pc[q] = "asleepr" /\ pc'[q] = "read"
                        \/ pc[q] = "asleepw" /\ pc'[q] = "write"
    <3>1. pc \in [Proc -> PCs] /\ pc[p] \in {"close_r", "close_w"}
      BY DEF TypeOK, PipeClose
    <3>2. \/ pc' = WakeReaders([pc EXCEPT ![p] = "idle"])
          \/ pc' = WakeWriters([pc EXCEPT ![p] = "idle"])
      BY Zenon DEF PipeClose
    <3> QED
      BY <3>1, <3>2 DEF WakeReaders, WakeWriters
  <2>2. Used' = Used /\ Empty' = Empty /\ (page' = "none" => page = "none")
    BY <1>1, Zenon DEF Used, Empty
  <2> QED
    BY <1>1, <2>1, <2>2 DEF Fits, Locked
<1>5. CASE pc[p] = "close_w"
  <2>1. /\ writeopen' = FALSE /\ readopen' = readopen /\ pc'[p] = "idle"
        /\ \A q \in Proc : q # p =>
             pc'[q] = IF pc[q] = "asleepr" THEN "read" ELSE pc[q]
    BY <1>5 DEF TypeOK, PipeClose, WakeReaders
  <2>2. Sleepers'
    BY <1>1, <1>2, <2>1 DEF Sleepers, SleepersNeeded, Empty, Full
  <2>3. Ends'
    <3>1. page = "used" /\ writeopen
      BY <1>5 DEF Ends
    <3>2. \A q \in Proc : "w" \notin holds[q] /\ pc'[q] # "close_w"
      BY <1>5, <2>1 DEF Ends
    <3>3. \A q \in Proc : pc'[q] = "close_r" <=> pc[q] = "close_r"
      BY <1>5, <2>1
    <3>4. \A q \in Proc :
            /\ pc'[q] \in {"read", "sleepr", "asleepr"} => "r" \in holds[q]
            /\ pc'[q] \in {"write", "sleepw", "asleepw"} => "w" \in holds[q]
            /\ pc'[q] = "unborn" => holds[q] = {}
      BY <2>1 DEF Ends
    <3>5. page' # "none" /\ (page' = "used" <=> readopen' \/ writeopen')
      BY <1>1, <2>1, <3>1
    <3> QED
      BY <1>1, <2>1, <3>2, <3>3, <3>4, <3>5 DEF Ends
  <2> QED
    BY <1>3, <1>4, <2>2, <2>3
<1>6. CASE pc[p] = "close_r"
  <2>1. /\ readopen' = FALSE /\ writeopen' = writeopen /\ pc'[p] = "idle"
        /\ \A q \in Proc : q # p =>
             pc'[q] = IF pc[q] = "asleepw" THEN "write" ELSE pc[q]
    BY <1>6 DEF TypeOK, PipeClose, WakeWriters
  <2>2. Sleepers'
    BY <1>1, <1>2, <2>1 DEF Sleepers, SleepersNeeded, Empty, Full
  <2>3. Ends'
    <3>1. page = "used" /\ readopen
      BY <1>6 DEF Ends
    <3>2. \A q \in Proc : "r" \notin holds[q] /\ pc'[q] # "close_r"
      BY <1>6, <2>1 DEF Ends
    <3>3. \A q \in Proc : pc'[q] = "close_w" <=> pc[q] = "close_w"
      BY <1>6, <2>1
    <3>4. \A q \in Proc :
            /\ pc'[q] \in {"read", "sleepr", "asleepr"} => "r" \in holds[q]
            /\ pc'[q] \in {"write", "sleepw", "asleepw"} => "w" \in holds[q]
            /\ pc'[q] = "unborn" => holds[q] = {}
      BY <2>1 DEF Ends
    <3>5. page' # "none" /\ (page' = "used" <=> readopen' \/ writeopen')
      BY <1>1, <2>1, <3>1
    <3> QED
      BY <1>1, <2>1, <3>2, <3>3, <3>4, <3>5 DEF Ends
  <2> QED
    BY <1>3, <1>4, <2>2, <2>3
<1> QED
  BY <1>5, <1>6 DEF PipeClose

(* What piperead does to the counters when it does not sleep: it takes n   *)
(* bytes, all there are if it has room for them.                           *)
LEMMA ReadStep ==
  ASSUME IInv, NEW p \in Proc, NEW m \in 1 .. PIPESIZE, PipeRead(p, m),
         ~(Empty /\ writeopen)
  PROVE  \E n \in 0 .. PIPESIZE :
           /\ n =< Used /\ (Empty <=> n = 0)
           /\ got' = [i \in 1 .. n |-> data[(nread + i - 1) % PIPESIZE]]
           /\ nread' = (nread + n) % Wrap /\ nread' \in Count
           /\ Used' = Used - n
<1>1. nread \in Count /\ nwrite \in Count /\ Used =< PIPESIZE
  BY DEF IInv, TypeOK, Count, Fits
<1>2. Used \in Count /\ (Empty <=> Used = 0)
  BY <1>1, FullEmpty
<1>3. Used \in Int /\ m \in Int /\ m > 0 /\ Used >= 0
  BY <1>2, Sizes DEF Count
<1>4. PICK n \in Int : n = Min({m, Used})
  BY <1>3, MinOfTwo
<1>5. n \in 0 .. PIPESIZE /\ n =< Used /\ (Used = 0 <=> n = 0)
  BY <1>1, <1>3, <1>4, MinOfTwo, Sizes
<1>6. /\ got' = [i \in 1 .. n |-> data[(nread + i - 1) % PIPESIZE]]
      /\ nread' = (nread + n) % Wrap /\ nwrite' = nwrite
  BY <1>4, Zenon DEF PipeRead
<1>7. nread' \in Count
  BY <1>1, <1>5, <1>6, Advance
<1>8. Used' = Used - n
  BY <1>1, <1>5, <1>6, DistanceShrinks DEF Used
<1> QED
  BY <1>2, <1>5, <1>6, <1>7, <1>8

(* piperead sleeps only on an empty ring with a writer, and wakes every    *)
(* writer when it has taken a byte.                                        *)
LEMMA PipeReadKeeps ==
  ASSUME IInv, NEW p \in Proc, NEW m \in 1 .. PIPESIZE, PipeRead(p, m)
  PROVE  IInv'
<1> USE PipeConstants DEF IInv
<1>1. /\ pc[p] = "read" /\ lock = 0 /\ "r" \in holds[p]
      /\ UNCHANGED <<page, readopen, writeopen, data, nwrite, holds, todo,
                     killed>>
  BY DEF PipeRead, ends, Ends
<1>2. \A q \in Proc : pc[q] \notin {"sleepr", "sleepw"}
  BY <1>1 DEF Locked
<1>3. UNCHANGED <<ends, holds>>
  BY <1>1 DEF ends
<1>4. CASE Empty /\ writeopen
  <2>1. /\ UNCHANGED <<nread, got>>
        /\ \/ pc' = [pc EXCEPT ![p] = "idle"] /\ lock' = lock
           \/ pc' = [pc EXCEPT ![p] = "sleepr"] /\ lock' = p
    BY <1>4 DEF PipeRead
  <2>2. TypeOK'
    <3>1. pc' \in [Proc -> PCs] /\ lock' \in Proc \cup {0}
      BY <2>1, Zenon DEF TypeOK, PCs
    <3> QED
      BY <1>1, <2>1, <3>1 DEF TypeOK
  <2>3. Fits' /\ Locked'
    BY <1>1, <1>2, <2>1 DEF TypeOK, Fits, Locked, Used, Empty
  <2>4. Sleepers'
    BY <1>1, <1>4, <2>1 DEF TypeOK, Sleepers, SleepersNeeded, Empty, Full
  <2>5. Ends'
    <3>1. \A q \in Proc : \/ pc'[q] = pc[q]
                          \/ q = p /\ pc'[q] \in {"idle", "sleepr"}
      BY <2>1 DEF TypeOK
    <3> QED
      BY <1>1, <1>3, <3>1, EndsKept
  <2> QED
    BY <2>2, <2>3, <2>4, <2>5
<1>5. CASE ~(Empty /\ writeopen)
  <2>1. PICK n \in 0 .. PIPESIZE :
          /\ n =< Used /\ (Empty <=> n = 0)
          /\ got' = [i \in 1 .. n |-> data[(nread + i - 1) % PIPESIZE]]
          /\ nread' = (nread + n) % Wrap /\ nread' \in Count
          /\ Used' = Used - n
    BY <1>5, ReadStep
  <2>2. /\ pc' = WakeWriters([pc EXCEPT ![p] = "idle"]) /\ lock' = lock
    BY <1>5 DEF PipeRead
  <2>3. /\ pc' \in [Proc -> PCs] /\ pc'[p] = "idle"
        /\ \A q \in Proc : q # p =>
             pc'[q] = IF pc[q] = "asleepw" THEN "write" ELSE pc[q]
    BY <2>2 DEF TypeOK, PCs, WakeWriters
  <2>4. TypeOK'
    <3>1. \A i \in 1 .. n : data[(nread + i - 1) % PIPESIZE] \in Val
      <4>1. \A i \in 1 .. n : (nread + i - 1) % PIPESIZE \in 0 .. PIPESIZE - 1
        <5> TAKE i \in 1 .. n
        <5>1. PICK a \in Int : a = nread + i - 1
          BY DEF TypeOK
        <5>2. a % PIPESIZE \in 0 .. PIPESIZE - 1
          BY ModDivides, Sizes
        <5> QED
          BY <5>1, <5>2 DEF TypeOK
      <4> QED
        BY <4>1 DEF TypeOK
    <3>2. got' \in Seq(Val)
      BY <2>1, <3>1
    <3> QED
      BY <1>1, <2>1, <2>2, <2>3, <3>2, Zenon DEF TypeOK, Count
  <2>5. Fits'
    <3>1. Used' =< PIPESIZE
      <4>1. Used \in Int
        BY FullEmpty DEF TypeOK, Count
      <4> QED
        BY <2>1, <4>1, Sizes DEF Fits
    <3>2. page # "none"
      BY <1>1, SMTT(30) DEF Ends
    <3> QED
      BY <1>1, <2>3, <3>1, <3>2 DEF Fits
  <2>6. Locked'
    BY <1>1, <1>2, <2>2, <2>3, Zenon DEF Locked
  <2>7. Sleepers'
    <3>1. \A q \in Proc : /\ pc'[q] \notin {"sleepr", "sleepw", "asleepw"}
                          /\ pc'[q] = "asleepr" => pc[q] = "asleepr"
      BY <1>2, <2>3
    <3>2. Empty => Empty'
      <4>1. (Empty <=> Used = 0) /\ nread \in Count /\ nwrite \in Count
        BY FullEmpty DEF TypeOK, Count
      <4>2. Empty => nread' = nread
        <5>1. (nread + n) % Wrap = IF nread + n < Wrap THEN nread + n
                                   ELSE nread + n - Wrap
          BY <4>1, Advance, SMTT(30)
        <5> QED
          BY <2>1, <4>1, <5>1, Sizes DEF Count
      <4> QED
        BY <1>1, <4>2 DEF Empty
    <3> QED
      BY <1>1, <3>1, <3>2 DEF Sleepers, SleepersNeeded
  <2>8. Ends'
    <3>1. \A q \in Proc : pc[q] = "asleepw" => "w" \in holds[q]
      BY DEF Ends
    <3> QED
      BY <1>1, <1>3, <2>3, <3>1, EndsKept, SMTT(30)
  <2> QED
    BY <2>4, <2>5, <2>6, <2>7, <2>8
<1> QED
  BY <1>4, <1>5

(* What pipewrite does under one hold of the lock: n bytes go in, and      *)
(* either they are all it has or the ring is full.                         *)
Written(p, n) ==
  /\ n =< Len(todo[p]) /\ Used + n =< PIPESIZE
  /\ n = Len(todo[p]) \/ Used + n = PIPESIZE
  /\ data' = [k \in 0 .. PIPESIZE - 1 |->
                IF \E i \in 1 .. n : k = (nwrite + i - 1) % PIPESIZE
                THEN todo[p][CHOOSE i \in 1 .. n :
                               k = (nwrite + i - 1) % PIPESIZE]
                ELSE data[k]]
  /\ nwrite' = (nwrite + n) % Wrap /\ nwrite' \in Count /\ nread' = nread
  /\ Used' = Used + n
  /\ \/ /\ n = Len(todo[p])
        /\ pc' = WakeReaders([pc EXCEPT ![p] = "idle"])
        /\ todo' = [todo EXCEPT ![p] = <<>>] /\ lock' = lock
     \/ /\ n < Len(todo[p]) /\ (~readopen \/ killed[p])
        /\ pc' = [pc EXCEPT ![p] = "idle"]
        /\ todo' = [todo EXCEPT ![p] = <<>>] /\ lock' = lock
     \/ /\ n < Len(todo[p]) /\ readopen
        /\ pc' = WakeReaders([pc EXCEPT ![p] = "sleepw"])
        /\ todo' = [todo EXCEPT ![p] = SubSeq(todo[p], n + 1, Len(todo[p]))]
        /\ lock' = p

(* Waking the readers moves no other process.                              *)
LEMMA WakeReadersType ==
  ASSUME NEW f \in [Proc -> PCs]
  PROVE  /\ WakeReaders(f) \in [Proc -> PCs]
         /\ \A p \in Proc :
              WakeReaders(f)[p] = IF f[p] = "asleepr" THEN "read" ELSE f[p]
BY DEF WakeReaders, PCs

(* pipewrite writes in that way.                                           *)
LEMMA WriteStep ==
  ASSUME IInv, NEW p \in Proc, PipeWrite(p)
  PROVE  \E n \in 0 .. PIPESIZE : Written(p, n)
<1>1. nread \in Count /\ nwrite \in Count /\ Used =< PIPESIZE
  BY DEF IInv, TypeOK, Count, Fits
<1>2. Used \in Int /\ Used >= 0
  BY <1>1, FullEmpty, Sizes DEF Count
<1>3. /\ todo \in [Proc -> Seq(Val)]
      /\ todo[p] \in Seq(Val) /\ Len(todo[p]) \in Nat
  BY DEF IInv, TypeOK
<1>4. PIPESIZE - Used \in Int /\ PIPESIZE - Used >= 0
  BY <1>1, <1>2, Sizes
<1>5. PICK n \in Int : n = Min({Len(todo[p]), PIPESIZE - Used})
  BY <1>3, <1>4, MinOfTwo
<1>6. /\ n \in 0 .. PIPESIZE /\ n =< Len(todo[p]) /\ Used + n =< PIPESIZE
      /\ n = Len(todo[p]) \/ Used + n = PIPESIZE
  BY <1>2, <1>3, <1>4, <1>5, MinOfTwo, Sizes
<1> DEFINE rest == SubSeq(todo[p], n + 1, Len(todo[p]))
<1>7. rest = <<>> <=> n = Len(todo[p])
  <2>1. Len(rest) = Len(todo[p]) - n /\ rest \in Seq(Val)
    BY <1>3, <1>6
  <2> HIDE DEF rest
  <2>2. (rest # <<>> => Len(rest) # 0) /\ Len(<<>>) = 0
    BY <2>1
  <2>3. Len(rest) = 0 <=> n = Len(todo[p])
    BY <1>3, <1>6, <2>1
  <2> QED
    BY <2>2, <2>3
<1>8. /\ data' = [k \in 0 .. PIPESIZE - 1 |->
                    IF \E i \in 1 .. n : k = (nwrite + i - 1) % PIPESIZE
                    THEN todo[p][CHOOSE i \in 1 .. n :
                                   k = (nwrite + i - 1) % PIPESIZE]
                    ELSE data[k]]
      /\ nwrite' = (nwrite + n) % Wrap /\ nread' = nread
  BY <1>5 DEF PipeWrite
<1>9. nwrite' \in Count /\ Used' = Used + n
  <2>1. nwrite' \in Count
    BY <1>1, <1>6, <1>8, Advance
  <2>2. Used' = Used + n
    BY <1>1, <1>6, <1>8, DistanceGrows DEF Used
  <2> QED
    BY <2>1, <2>2
<1>10. /\ IF rest = <<>>
          THEN pc' = WakeReaders([pc EXCEPT ![p] = "idle"]) /\ lock' = lock
          ELSE IF ~readopen \/ killed[p]
          THEN pc' = [pc EXCEPT ![p] = "idle"] /\ lock' = lock
          ELSE pc' = WakeReaders([pc EXCEPT ![p] = "sleepw"]) /\ lock' = p
       /\ todo' = [todo EXCEPT ![p] = IF pc'[p] = "idle" THEN <<>> ELSE rest]
  BY <1>5, Zenon DEF PipeWrite
<1>11. /\ [pc EXCEPT ![p] = "idle"] \in [Proc -> PCs]
       /\ [pc EXCEPT ![p] = "sleepw"] \in [Proc -> PCs]
       /\ [pc EXCEPT ![p] = "idle"][p] = "idle"
       /\ [pc EXCEPT ![p] = "sleepw"][p] = "sleepw"
  BY DEF IInv, TypeOK, PCs
<1>12. /\ WakeReaders([pc EXCEPT ![p] = "idle"])[p] = "idle"
       /\ WakeReaders([pc EXCEPT ![p] = "sleepw"])[p] = "sleepw"
  BY <1>11, WakeReadersType, Zenon
<1>13. n # Len(todo[p]) => n < Len(todo[p])
  BY <1>3, <1>6
<1> HIDE DEF rest
<1>14. \/ /\ n = Len(todo[p])
          /\ pc' = WakeReaders([pc EXCEPT ![p] = "idle"])
          /\ todo' = [todo EXCEPT ![p] = <<>>] /\ lock' = lock
       \/ /\ n < Len(todo[p]) /\ (~readopen \/ killed[p])
          /\ pc' = [pc EXCEPT ![p] = "idle"]
          /\ todo' = [todo EXCEPT ![p] = <<>>] /\ lock' = lock
       \/ /\ n < Len(todo[p]) /\ readopen
          /\ pc' = WakeReaders([pc EXCEPT ![p] = "sleepw"])
          /\ todo' = [todo EXCEPT ![p] = rest] /\ lock' = p
  <2>1. CASE rest = <<>>
    <3>1. pc'[p] = "idle"
      BY <1>10, <1>12, <2>1
    <3> QED
      BY <1>7, <1>10, <2>1, <3>1
  <2>2. CASE rest # <<>> /\ (~readopen \/ killed[p])
    <3>1. pc'[p] = "idle"
      BY <1>10, <1>11, <2>2
    <3> QED
      BY <1>7, <1>10, <1>13, <2>2, <3>1
  <2>3. CASE rest # <<>> /\ ~(~readopen \/ killed[p])
    <3>1. pc'[p] = "sleepw"
      BY <1>10, <1>12, <2>3
    <3> QED
      BY <1>7, <1>10, <1>13, <2>3, <3>1
  <2> QED
    BY <2>1, <2>2, <2>3
<1> QED
  BY <1>6, <1>8, <1>9, <1>14, Zenon DEF Written, rest

(* pipewrite leaves a reader asleep over bytes only when it was killed,    *)
(* and sleeps itself only on a full ring with a reader.  A writer that     *)
(* returns because the read end is closed has no reader to wake.           *)
LEMMA PipeWriteKeeps ==
  ASSUME IInv, NEW p \in Proc, PipeWrite(p)
  PROVE  IInv'
<1> USE PipeConstants DEF IInv
<1>1. PICK n \in 0 .. PIPESIZE : Written(p, n)
  BY WriteStep
<1>2. /\ pc[p] = "write" /\ lock = 0 /\ "w" \in holds[p]
      /\ UNCHANGED <<page, readopen, writeopen, holds, got, killed>>
  BY DEF PipeWrite, ends, Ends
<1>3. \A q \in Proc : pc[q] \notin {"sleepr", "sleepw"}
  BY <1>2 DEF Locked
<1>4. /\ nread \in Count /\ nwrite \in Count
      /\ nwrite' \in Count /\ nread' = nread
      /\ Used \in Int /\ Used >= 0 /\ Used' = Used + n
      /\ Used + n =< PIPESIZE /\ (n < Len(todo[p]) => Used + n = PIPESIZE)
  <2>1. nread \in Count /\ nwrite \in Count
    BY DEF TypeOK, Count
  <2>2. Used \in Int /\ Used >= 0
    BY <2>1, FullEmpty DEF Count
  <2>3. /\ nwrite' \in Count /\ nread' = nread /\ Used' = Used + n
        /\ Used + n =< PIPESIZE /\ (n = Len(todo[p]) \/ Used + n = PIPESIZE)
    BY <1>1 DEF Written
  <2>4. Len(todo[p]) \in Nat
    BY SMTT(30) DEF TypeOK
  <2> QED
    BY <2>1, <2>2, <2>3, <2>4
<1>5. /\ pc' \in [Proc -> PCs]
      /\ \A q \in Proc : q # p =>
           \/ pc'[q] = pc[q]
           \/ pc[q] = "asleepr" /\ pc'[q] = "read"
      /\ \/ pc'[p] = "idle" /\ lock' = 0
         \/ pc'[p] = "sleepw" /\ lock' = p /\ readopen /\ n < Len(todo[p])
      /\ \/ \A q \in Proc : pc'[q] # "asleepr"
         \/ n < Len(todo[p]) /\ (~readopen \/ killed[p])
  <2>1. /\ [pc EXCEPT ![p] = "idle"] \in [Proc -> PCs]
        /\ [pc EXCEPT ![p] = "sleepw"] \in [Proc -> PCs]
    BY DEF TypeOK, PCs
  <2>2. CASE pc' = WakeReaders([pc EXCEPT ![p] = "idle"]) /\ lock' = lock
    BY <1>2, <2>1, <2>2, WakeReadersType, Zenon DEF TypeOK
  <2>3. CASE /\ pc' = WakeReaders([pc EXCEPT ![p] = "sleepw"]) /\ lock' = p
             /\ n < Len(todo[p]) /\ readopen
    BY <2>1, <2>3, WakeReadersType, ZenonT(30) DEF TypeOK
  <2>4. CASE /\ pc' = [pc EXCEPT ![p] = "idle"] /\ lock' = lock
             /\ n < Len(todo[p]) /\ (~readopen \/ killed[p])
    BY <1>2, <2>1, <2>4, SMTT(30) DEF TypeOK
  <2> QED
    BY <1>1, <2>2, <2>3, <2>4 DEF Written
<1>6. TypeOK'
  <2>1. todo' \in [Proc -> Seq(Val)]
    <3>1. <<>> \in Seq(Val)
      OBVIOUS
    <3>2. n + 1 \in Nat \ {0} /\ todo[p] \in Seq(Val)
      BY DEF TypeOK
    <3>3. SubSeq(todo[p], n + 1, Len(todo[p])) \in Seq(Val)
      BY <3>2
    <3> QED
      BY <1>1, <3>1, <3>3, Zenon DEF Written, TypeOK
  <2>2. data' \in [0 .. PIPESIZE - 1 -> Val]
    <3>1. \A i \in 1 .. n : todo[p][i] \in Val
      <4>1. todo[p] \in Seq(Val) /\ n =< Len(todo[p])
        BY <1>1 DEF TypeOK, Written
      <4> QED
        BY <4>1
    <3> SUFFICES ASSUME NEW k \in 0 .. PIPESIZE - 1
                 PROVE  (IF \E i \in 1 .. n : k = (nwrite + i - 1) % PIPESIZE
                         THEN todo[p][CHOOSE i \in 1 .. n :
                                        k = (nwrite + i - 1) % PIPESIZE]
                         ELSE data[k]) \in Val
      BY <1>1, Zenon DEF Written
    <3>2. data[k] \in Val
      BY DEF TypeOK
    <3> QED
      BY <3>1, <3>2, Zenon
  <2> QED
    BY <1>2, <1>4, <1>5, <2>1, <2>2, SMTT(30) DEF TypeOK, Count
<1>7. Fits'
  <2>1. \A q \in Proc : q # p => todo'[q] = todo[q]
    BY <1>1 DEF Written, TypeOK
  <2>2. pc'[p] = "idle" => todo'[p] = <<>>
    <3>1. [pc EXCEPT ![p] = "sleepw"] \in [Proc -> PCs]
      BY DEF TypeOK, PCs
    <3>2. WakeReaders([pc EXCEPT ![p] = "sleepw"])[p] = "sleepw"
      BY <3>1, WakeReadersType, Zenon DEF TypeOK
    <3> QED
      BY <1>1, <3>2 DEF Written, TypeOK
  <2>3. \A q \in Proc : pc'[q] \notin {"write", "sleepw", "asleepw"} =>
          todo'[q] = <<>>
    BY <1>5, <2>1, <2>2 DEF Fits
  <2>4. page # "none"
    BY <1>2 DEF Ends
  <2> QED
    BY <1>2, <1>4, <2>3, <2>4 DEF Fits
<1>8. Locked'
  BY <1>3, <1>5, SMTT(30) DEF Locked
<1>9. Sleepers'
  <2>1. (Full' <=> Used' = PIPESIZE) /\ (Full <=> Used = PIPESIZE)
    BY <1>4, FullTest DEF Full, Used
  <2>2. Full => Full'
    BY <1>4, <2>1, Sizes
  <2>3. pc'[p] = "sleepw" => Full' /\ readopen
    BY <1>4, <1>5, <2>1
  <2>4. \A q \in Proc : pc'[q] = "asleepw" => Full' /\ readopen
    BY <1>5, <2>2 DEF Sleepers, SleepersNeeded
  <2>5. \A q \in Proc : pc'[q] = "asleepr" => writeopen /\ killed[p]
    <3>1. \A q \in Proc : pc[q] = "asleepr" => writeopen /\ readopen
      BY SMTT(30) DEF Sleepers, SleepersNeeded, Ends
    <3> QED
      BY <1>5, <3>1, SMTT(30)
  <2> QED
    BY <1>2, <1>3, <1>5, <2>3, <2>4, <2>5 DEF Sleepers, SleepersNeeded
<1>10. Ends'
  <2>1. UNCHANGED <<ends, holds>>
    BY <1>2, SMTT(30) DEF ends
  <2>2. \A q \in Proc : pc[q] = "asleepr" => "r" \in holds[q]
    BY DEF Ends
  <2> QED
    BY <1>2, <1>5, <2>1, <2>2, EndsKept
<1> QED
  BY <1>6, <1>7, <1>8, <1>9, <1>10

-----------------------------------------------------------------------------
(* Before pipe() is called nobody has an end of it.                        *)
LEMMA IInvInit == Init => IInv
<1> SUFFICES ASSUME Init PROVE IInv
  OBVIOUS
<1>1. /\ readopen \in BOOLEAN /\ writeopen \in BOOLEAN
      /\ killed \in [Proc -> BOOLEAN]
  BY Zenon DEF Init
<1>2. nread \in Count /\ nwrite \in Count
  BY Sizes DEF Init, Count
<1>3. <<>> \in Seq(Val)
  OBVIOUS
<1>4. TypeOK
  BY <1>1, <1>2, <1>3, PipeConstants DEF Init, TypeOK, PCs, Count
<1>5. Empty /\ Used = 0
  BY <1>2, FullEmpty DEF Init, Empty
<1>6. Fits
  BY <1>5, Sizes DEF Init, Fits
<1>7. Locked /\ Sleepers
  BY PipeConstants DEF Init, Locked, Sleepers, SleepersNeeded
<1>8. Ends
  BY DEF Init, Ends
<1> QED
  BY <1>4, <1>6, <1>7, <1>8 DEF IInv

(* Every step of every process keeps the inductive invariant.              *)
LEMMA IInvStep == IInv /\ [Next]_vars => IInv'
<1> SUFFICES ASSUME IInv, [Next]_vars PROVE IInv'
  OBVIOUS
<1>1. ASSUME NEW p \in Proc, Progress(p) PROVE IInv'
  BY <1>1, PipeWriteKeeps, PipeReadKeeps, SleepKeeps, PipeCloseKeeps DEF Progress
<1>2. CASE PipeAlloc
  BY <1>2, PipeAllocKeeps
<1>3. ASSUME NEW p \in Proc,
             \/ CallRead(p) \/ (\E bytes \in Writes : CallWrite(p, bytes))
             \/ (\E e \in {"r", "w"} : Close(p, e))
             \/ (\E q \in Proc : Fork(p, q)) \/ Kill(p)
      PROVE  IInv'
  BY <1>3, CallReadKeeps, CallWriteKeeps, CloseKeeps, ForkKeeps, KillKeeps,
     SMTT(30)
<1>4. CASE UNCHANGED vars
  BY <1>4 DEF vars, ends, ring, IInv, TypeOK, Fits, Locked, Sleepers,
              SleepersNeeded, Ends, Used, Empty, Full
<1> QED
  BY <1>1, <1>2, <1>3, <1>4 DEF Next

(* The inductive invariant holds in every reachable state.                 *)
LEMMA PipeInvariant == Spec => []IInv
BY IInvInit, IInvStep, PTL DEF Spec

(* No wakeup of pipe.c is lost: for any number of readers and writers and  *)
(* any size of the ring, who sleeps has a reason to, but for readers left  *)
(* asleep by a writer that was killed.                                     *)
THEOREM SleepersTheorem == Spec => []SleepersNeeded
<1>1. IInv => SleepersNeeded
  BY DEF IInv, Sleepers
<1> QED
  BY <1>1, PipeInvariant, PTL

(* pipeclose frees the page with the second end and never while a process  *)
(* has an end of the pipe or is inside one of its functions.               *)
THEOREM FreedTheorem == Spec => []FreedLast
<1>1. IInv => FreedLast
  <2> SUFFICES ASSUME IInv PROVE FreedLast
    BY SMTT(30)
  <2>1. ASSUME NEW p \in Proc, pc[p] \notin {"unborn", "idle"} \/ holds[p] # {}
        PROVE  page = "used"
    <3>1. pc[p] \in PCs /\ holds[p] \subseteq {"r", "w"}
      BY SMTT(30) DEF IInv, TypeOK
    <3>2. "r" \in holds[p] \/ "w" \in holds[p] \/ pc[p] \in {"close_r", "close_w"}
      BY <2>1, <3>1 DEF IInv, Ends, PCs
    <3> QED
      BY <3>2 DEF IInv, Ends
  <2>2. ASSUME page = "used"
        PROVE  \E p \in Proc : pc[p] \notin {"unborn", "idle"} \/ holds[p] # {}
    BY <2>2 DEF IInv, Ends
  <2> QED
    BY <2>1, <2>2 DEF FreedLast, IInv
<1> QED
  BY <1>1, PipeInvariant, PTL

-----------------------------------------------------------------------------
(* The ring as a sequence of bytes.                                        *)

(* A place in the ring.                                                    *)
LEMMA InRing ==
  ASSUME NEW a \in Int
  PROVE  a % PIPESIZE \in 0 .. PIPESIZE - 1
BY ModDivides, Sizes

(* u bytes of a ring d from the counter r on.                              *)
From(d, r, u) == [i \in 1 .. u |-> d[(r + i - 1) % PIPESIZE]]

(* They are a sequence.                                                    *)
LEMMA FromSeq ==
  ASSUME NEW d \in [0 .. PIPESIZE - 1 -> Val], NEW r \in Count,
         NEW u \in 0 .. PIPESIZE
  PROVE  /\ From(d, r, u) \in Seq(Val) /\ Len(From(d, r, u)) = u
         /\ \A i \in 1 .. u : From(d, r, u)[i] = d[(r + i - 1) % PIPESIZE]
<1>1. \A i \in 1 .. u : d[(r + i - 1) % PIPESIZE] \in Val
  <2> TAKE i \in 1 .. u
  <2>1. PICK a \in Int : a = r + i - 1
    BY DEF Count
  <2>2. d[a % PIPESIZE] \in Val
    BY InRing, SMTT(30)
  <2> QED
    BY <2>1, <2>2
<1> QED
  BY <1>1, Sizes DEF From

(* The bytes in the ring are as many as the counters say.                  *)
LEMMA BytesSeq ==
  ASSUME IInv
  PROVE  /\ Used \in 0 .. PIPESIZE /\ Used \in Nat
         /\ Bytes \in Seq(Val) /\ Len(Bytes) = Used
         /\ \A i \in 1 .. Used : Bytes[i] = data[(nread + i - 1) % PIPESIZE]
<1>1. Used \in 0 .. PIPESIZE /\ Used \in Nat
  BY FullEmpty, Sizes DEF IInv, TypeOK, Fits, Count
<1>2. data \in [0 .. PIPESIZE - 1 -> Val] /\ nread \in Count
  BY DEF IInv, TypeOK, Count
<1>3. Bytes = From(data, nread, Used)
  BY DEF Bytes, From
<1> QED
  BY <1>1, <1>2, <1>3, FromSeq, Zenon

(* The places pipewrite fills come after those in use, wrapped or not.     *)
LEMMA WritePlace ==
  ASSUME IInv, NEW j \in Int
  PROVE  (nwrite + j - 1) % PIPESIZE = (nread + Used + j - 1) % PIPESIZE
<1>1. nread \in Count /\ nwrite \in Count
  BY DEF IInv, TypeOK, Count
<1>2. Used = IF nread =< nwrite THEN nwrite - nread ELSE nwrite - nread + Wrap
  BY <1>1, Distance DEF Used
<1>3. PICK r \in Int : r = nread + Used
  BY <1>1, <1>2, Sizes DEF Count
<1>4. PICK i \in Int : i = j - 1
  OBVIOUS
<1>5. nwrite \in Int /\ (nwrite = r \/ nwrite = r - Wrap)
  BY <1>1, <1>2, <1>3, Sizes DEF Count
<1>6. (nwrite + i) % PIPESIZE = (r + i) % PIPESIZE
  BY <1>5, SamePlace
<1>7. nwrite + j - 1 = nwrite + i /\ nread + Used + j - 1 = r + i
  BY <1>1, <1>2, <1>3, <1>4, Sizes DEF Count
<1> QED
  BY <1>6, <1>7

(* Bytes already in the ring stay where they are.                          *)
LEMMA OldBytes ==
  ASSUME IInv, NEW p \in Proc, NEW n \in 0 .. PIPESIZE, Written(p, n),
         NEW i \in 1 .. Used
  PROVE  data'[(nread + i - 1) % PIPESIZE] = data[(nread + i - 1) % PIPESIZE]
<1>1. /\ Used \in Nat /\ nread \in Int /\ nwrite \in Int /\ n \in Int
      /\ Used + n =< PIPESIZE
  BY BytesSeq DEF IInv, TypeOK, Written
<1>2. PICK a \in Int : a = nread + i - 1
  BY <1>1
<1>3. ~ \E j \in 1 .. n : a % PIPESIZE = (nwrite + j - 1) % PIPESIZE
  <2> SUFFICES ASSUME NEW j \in 1 .. n
               PROVE  a % PIPESIZE # (nwrite + j - 1) % PIPESIZE
    OBVIOUS
  <2>1. PICK b \in Int : b = nread + Used + j - 1
    BY <1>1
  <2>2. (nwrite + j - 1) % PIPESIZE = b % PIPESIZE
    BY <2>1, WritePlace
  <2>3. a < b /\ b - a < PIPESIZE
    BY <1>1, <1>2, <2>1, Sizes
  <2>4. a % PIPESIZE # b % PIPESIZE
    BY <2>3, ModApart, Sizes
  <2> QED
    BY <2>2, <2>4
<1>4. a % PIPESIZE \in 0 .. PIPESIZE - 1
  BY InRing
<1>5. data'[a % PIPESIZE] = data[a % PIPESIZE]
  BY <1>3, <1>4, Zenon DEF Written
<1> QED
  BY <1>2, <1>5, SMTT(30)

(* The bytes written come after them, in order.                            *)
LEMMA NewBytes ==
  ASSUME IInv, NEW p \in Proc, NEW n \in 0 .. PIPESIZE, Written(p, n),
         NEW j \in 1 .. n
  PROVE  data'[(nread + Used + j - 1) % PIPESIZE] = todo[p][j]
<1>1. /\ Used \in Nat /\ nread \in Int /\ nwrite \in Int /\ n \in Int
      /\ Used + n =< PIPESIZE
  BY BytesSeq DEF IInv, TypeOK, Written
<1>2. PICK b \in Int : b = nread + Used + j - 1
  BY <1>1
<1>3. b % PIPESIZE = (nwrite + j - 1) % PIPESIZE
  BY <1>2, WritePlace
<1>4. \A i \in 1 .. n : b % PIPESIZE = (nwrite + i - 1) % PIPESIZE => i = j
  <2> SUFFICES ASSUME NEW i \in 1 .. n, i # j
               PROVE  b % PIPESIZE # (nwrite + i - 1) % PIPESIZE
    OBVIOUS
  <2>1. PICK a \in Int : a = nread + Used + i - 1
    BY <1>1
  <2>2. (nwrite + i - 1) % PIPESIZE = a % PIPESIZE
    BY <2>1, WritePlace
  <2>3. \/ a < b /\ b - a < PIPESIZE
        \/ b < a /\ a - b < PIPESIZE
    BY <1>1, <1>2, <2>1, Sizes
  <2>4. a % PIPESIZE # b % PIPESIZE
    BY <2>3, ModApart, Sizes
  <2> QED
    BY <2>2, <2>4
<1>5. (CHOOSE i \in 1 .. n : b % PIPESIZE = (nwrite + i - 1) % PIPESIZE) = j
  BY <1>3, <1>4, Zenon
<1>6. b % PIPESIZE \in 0 .. PIPESIZE - 1
  BY InRing
<1>7. data'[b % PIPESIZE] = todo[p][j]
  BY <1>3, <1>5, <1>6, Zenon DEF Written
<1> QED
  BY <1>2, <1>7, SMTT(30)

INSTANCE SequenceTheorems

(* pipewrite appends a prefix of what it has to write.                     *)
LEMMA WritePuts ==
  ASSUME IInv, IInv', NEW p \in Proc, PipeWrite(p)
  PROVE  Ch!Put(p)
<1>1. PICK n \in 0 .. PIPESIZE : Written(p, n)
  BY WriteStep
<1>2. /\ Used \in Nat /\ Bytes \in Seq(Val) /\ Len(Bytes) = Used
      /\ \A i \in 1 .. Used : Bytes[i] = data[(nread + i - 1) % PIPESIZE]
  BY BytesSeq
<1>3. /\ Bytes' \in Seq(Val) /\ Len(Bytes') = Used + n /\ nread' = nread
      /\ \A i \in 1 .. Used + n :
           Bytes'[i] = data'[(nread + i - 1) % PIPESIZE]
  <2>1. /\ Used' \in Nat /\ Bytes' \in Seq(Val) /\ Len(Bytes') = Used'
        /\ \A i \in 1 .. Used' : Bytes'[i] = data'[(nread' + i - 1) % PIPESIZE]
    <3>1. Used' \in 0 .. PIPESIZE
      BY <1>1, <1>2 DEF Written
    <3>2. data' \in [0 .. PIPESIZE - 1 -> Val] /\ nread' \in Count
      BY DEF IInv, TypeOK, Count
    <3>3. Bytes' = From(data', nread', Used')
      BY DEF Bytes, From
    <3>4. Used' \in Nat
      BY <3>1, Sizes
    <3> QED
      BY <3>1, <3>2, <3>3, <3>4, FromSeq, ZenonT(30)
  <2>2. Used' = Used + n /\ nread' = nread
    BY <1>1 DEF Written
  <2> QED
    BY <2>1, <2>2
<1> DEFINE new == SubSeq(todo[p], 1, n)
<1>4. /\ todo[p] \in Seq(Val) /\ Len(todo[p]) \in Nat
      /\ n \in 0 .. Len(todo[p]) /\ n \in Nat
  BY <1>1 DEF IInv, TypeOK, Written
<1>5. /\ new \in Seq(Val) /\ Len(new) = n
      /\ \A j \in 1 .. n : new[j] = todo[p][j]
  BY <1>4
<1> HIDE DEF new
<1>6. Bytes' = Bytes \o new
  <2>1. /\ Bytes \o new \in Seq(Val) /\ Len(Bytes \o new) = Used + n
        /\ \A i \in 1 .. Used + n :
             (Bytes \o new)[i] = IF i =< Used THEN Bytes[i] ELSE new[i - Used]
    BY <1>2, <1>5, ConcatProperties, ZenonT(30)
  <2>2. ASSUME NEW i \in 1 .. Used + n PROVE Bytes'[i] = (Bytes \o new)[i]
    <3>1. CASE i =< Used
      <4>1. i \in 1 .. Used
        BY <1>2, <1>4, <3>1
      <4>2. data'[(nread + i - 1) % PIPESIZE] = data[(nread + i - 1) % PIPESIZE]
        BY <1>1, <4>1, OldBytes
      <4> QED
        BY <1>2, <1>3, <2>1, <3>1, <4>1, <4>2
    <3>2. CASE ~(i =< Used)
      <4>1. PICK j \in 1 .. n : j = i - Used
        BY <1>2, <1>4, <3>2
      <4>2. nread + Used + j - 1 = nread + i - 1
        BY <1>2, <1>4, <4>1 DEF IInv, TypeOK
      <4>3. data'[(nread + Used + j - 1) % PIPESIZE] = todo[p][j]
        BY <1>1, NewBytes
      <4>4. Bytes'[i] = todo[p][j]
        BY <1>3, <4>2, <4>3
      <4>5. (Bytes \o new)[i] = new[j]
        BY <2>1, <3>2, <4>1, SMTT(30)
      <4> QED
        BY <1>5, <4>4, <4>5
    <3> QED
      BY <3>1, <3>2, Zenon
  <2>3. /\ Len(Bytes') = Len(Bytes \o new)
        /\ \A i \in 1 .. Len(Bytes') : Bytes'[i] = (Bytes \o new)[i]
    BY <1>3, <2>1, <2>2
  <2> QED
    BY <1>3, <2>1, <2>3, SeqEqual, Zenon
<1>7. Len(Bytes) + n =< PIPESIZE
  BY <1>1, <1>2 DEF Written
<1>8. SubSeq(todo[p], n + 1, Len(todo[p])) = <<>> \/ Len(Bytes) + n = PIPESIZE
  <2>1. n = Len(todo[p]) \/ Used + n = PIPESIZE
    BY <1>1 DEF Written
  <2>2. n = Len(todo[p]) => SubSeq(todo[p], n + 1, Len(todo[p])) = <<>>
    BY <1>4, SubSeqEmpty
  <2> QED
    BY <1>2, <2>1, <2>2
<1>9. \/ todo' = [todo EXCEPT ![p] = SubSeq(todo[p], n + 1, Len(todo[p]))]
      \/ todo' = [todo EXCEPT ![p] = <<>>]
  BY <1>1, Zenon DEF Written
<1>10. got' = got
  BY DEF PipeWrite
<1> QED
  BY <1>4, <1>6, <1>7, <1>8, <1>9, <1>10, Zenon DEF Ch!Put, new

(* piperead takes a prefix and leaves the rest, or goes to sleep.          *)
LEMMA ReadGets ==
  ASSUME IInv, IInv', NEW p \in Proc, NEW m \in 1 .. PIPESIZE, PipeRead(p, m),
         ~(Empty /\ writeopen)
  PROVE  Ch!Get
<1>1. PICK n \in 0 .. PIPESIZE :
        /\ n =< Used
        /\ got' = [i \in 1 .. n |-> data[(nread + i - 1) % PIPESIZE]]
        /\ nread' = (nread + n) % Wrap /\ Used' = Used - n
  BY ReadStep
<1>2. /\ Used \in Nat /\ Bytes \in Seq(Val) /\ Len(Bytes) = Used
      /\ \A i \in 1 .. Used : Bytes[i] = data[(nread + i - 1) % PIPESIZE]
  BY BytesSeq
<1>3. nread \in Count /\ n \in Nat /\ n \in 0 .. Len(Bytes)
  BY <1>1, <1>2 DEF IInv, TypeOK, Count
<1>4. got' = SubSeq(Bytes, 1, n)
  <2>1. /\ SubSeq(Bytes, 1, n) \in Seq(Val) /\ Len(SubSeq(Bytes, 1, n)) = n
        /\ \A i \in 1 .. n : SubSeq(Bytes, 1, n)[i] = Bytes[i]
    BY <1>2, <1>3
  <2>2. got' \in Seq(Val)
    BY DEF IInv, TypeOK
  <2>3. Len(got') = n /\ \A i \in 1 .. n : got'[i] = Bytes[i]
    BY <1>1, <1>2, <1>3
  <2> QED
    BY <2>1, <2>2, <2>3, SeqEqual
<1>5. Bytes' = SubSeq(Bytes, n + 1, Len(Bytes))
  <2> DEFINE rest == SubSeq(Bytes, n + 1, Len(Bytes))
  <2>1. /\ rest \in Seq(Val) /\ Len(rest) = Used - n
        /\ \A i \in 1 .. Used - n : rest[i] = Bytes[n + i]
    BY <1>2, <1>3
  <2>2. /\ Bytes' \in Seq(Val) /\ Len(Bytes') = Used'
        /\ \A i \in 1 .. Used' : Bytes'[i] = data'[(nread' + i - 1) % PIPESIZE]
    <3>1. Used' \in 0 .. PIPESIZE
      <4>1. Used \in 0 .. PIPESIZE
        BY BytesSeq
      <4> QED
        BY <1>1, <4>1, Sizes
    <3>2. data' \in [0 .. PIPESIZE - 1 -> Val] /\ nread' \in Count
      BY DEF IInv, TypeOK, Count
    <3>3. Bytes' = From(data', nread', Used')
      BY DEF Bytes, From
    <3>4. Used' \in Nat
      BY <3>1, Sizes, SMTT(30)
    <3> QED
      BY <3>1, <3>2, <3>3, <3>4, FromSeq, Zenon
  <2> HIDE DEF rest
  <2>3. ASSUME NEW i \in 1 .. Used - n PROVE Bytes'[i] = rest[i]
    <3>1. data' = data
      BY DEF PipeRead
    <3>2. PICK r \in Int : r = nread + n
      BY <1>3 DEF Count
    <3>3. PICK k \in Int : k = i - 1
      BY <1>2, <1>3
    <3>4. nread' \in Int /\ (nread' = r \/ nread' = r - Wrap)
      <4>1. (nread + n) % Wrap = IF nread + n < Wrap THEN nread + n
                                 ELSE nread + n - Wrap
        BY <1>3, Advance
      <4> QED
        BY <1>1, <1>3, <3>2, <4>1, Sizes DEF Count
    <3>5. (nread' + k) % PIPESIZE = (r + k) % PIPESIZE
      BY <3>4, SamePlace
    <3>6. /\ nread' + i - 1 = nread' + k /\ nread + (n + i) - 1 = r + k
          /\ n + i \in 1 .. Used
      BY <1>2, <1>3, <3>2, <3>3, <3>4, SMTT(30) DEF Count
    <3>7. Bytes[n + i] = data[(nread + (n + i) - 1) % PIPESIZE]
      BY <1>2, <3>6
    <3>8. Bytes'[i] = data[(nread' + i - 1) % PIPESIZE]
      BY <1>1, <2>2, <3>1
    <3> QED
      BY <2>1, <3>5, <3>6, <3>7, <3>8, SMTT(30)
  <2> QED
    BY <1>1, <2>1, <2>2, <2>3, SeqEqual, Zenon DEF rest
<1>6. todo' = todo
  BY DEF PipeRead
<1> QED
  BY <1>3, <1>4, <1>5, <1>6 DEF Ch!Get

(* The ring with its two wrapping counters is a bounded FIFO channel: for  *)
(* any number of readers and writers, any size of the ring, any multiple   *)
(* of it at which the counters wrap and any bytes, each hold of the lock   *)
(* by pipewrite or piperead is one step of the channel.                    *)
THEOREM FifoTheorem == Spec => Fifo
<1>1. Init => Ch!Init
  <2> SUFFICES ASSUME Init PROVE Ch!Init
    OBVIOUS
  <2>1. Used = 0
    <3>1. nread \in Count /\ nwrite \in Count /\ Empty
      BY Sizes DEF Init, Count, Empty
    <3> QED
      BY <3>1, FullEmpty
  <2>2. Bytes = <<>>
    BY <2>1 DEF Bytes
  <2> QED
    BY <2>2 DEF Init, Ch!Init
<1>2. IInv /\ IInv' /\ [Next]_vars => [Ch!Next]_(Ch!vars)
  <2> SUFFICES ASSUME IInv, IInv', [Next]_vars PROVE [Ch!Next]_(Ch!vars)
    OBVIOUS
  <2>1. ASSUME NEW p \in Proc, PipeWrite(p) PROVE Ch!Next
    BY <2>1, WritePuts DEF Ch!Next
  <2>2. ASSUME NEW p \in Proc, NEW m \in 1 .. PIPESIZE, PipeRead(p, m)
        PROVE  [Ch!Next]_(Ch!vars)
    <3>1. CASE ~(Empty /\ writeopen)
      BY <2>2, <3>1, ReadGets DEF Ch!Next
    <3>2. CASE Empty /\ writeopen
      BY <2>2, <3>2 DEF PipeRead, Ch!vars, Bytes, Used
    <3> QED
      BY <3>1, <3>2
  <2>3. ASSUME NEW p \in Proc, NEW bytes \in Writes, CallWrite(p, bytes)
        PROVE  Ch!Next
    <3>1. todo[p] = <<>> /\ todo \in [Proc -> Seq(Val)]
      BY <2>3, Zenon DEF CallWrite, IInv, Fits, TypeOK
    <3>2. todo' = [todo EXCEPT ![p] = bytes] /\ UNCHANGED <<Bytes, got>>
      BY <2>3 DEF CallWrite, ring, Bytes, Used
    <3>3. todo'[p] = bytes
      BY <3>1, <3>2
    <3>4. Ch!Ask(p)
      BY <3>1, <3>2, <3>3 DEF Ch!Ask
    <3> QED
      BY <3>4, SMTT(30) DEF Ch!Next
  <2>4. CASE PipeAlloc
    <3>1. Used = 0 /\ Used' = 0
      <4>1. nread \in Count /\ nwrite \in Count /\ Empty
        BY <2>4 DEF PipeAlloc, IInv, TypeOK, Fits, Count
      <4>2. 0 \in Count
        BY Sizes DEF Count
      <4>3. (0 - 0) % Wrap = 0
        BY <4>2, Distance DEF Count
      <4> QED
        BY <2>4, <4>1, <4>3, FullEmpty, SMTT(30) DEF PipeAlloc, Used
    <3>2. Bytes = <<>> /\ Bytes' = <<>>
      BY <3>1 DEF Bytes
    <3> QED
      BY <2>4, <3>2 DEF PipeAlloc, Ch!vars
  <2>5. ASSUME UNCHANGED <<data, nread, nwrite, todo, got>>
        PROVE  UNCHANGED Ch!vars
    BY <2>5 DEF Ch!vars, Bytes, Used
  <2>6. ASSUME NEW p \in Proc,
               \/ Sleep(p) \/ PipeClose(p) \/ CallRead(p) \/ Kill(p)
               \/ (\E e \in {"r", "w"} : Close(p, e))
               \/ (\E q \in Proc : Fork(p, q))
        PROVE  UNCHANGED <<data, nread, nwrite, todo, got>>
    BY <2>6 DEF Sleep, PipeClose, CallRead, Kill, Close, Fork, ring
  <2>7. CASE UNCHANGED vars
    BY <2>5, <2>7 DEF vars, ring
  <2> QED
    BY <2>1, <2>2, <2>3, <2>4, <2>5, <2>6, <2>7 DEF Next, Progress
<1> QED
  BY <1>1, <1>2, PipeInvariant, PTL DEF Spec, Fifo, Ch!Spec
=============================================================================
