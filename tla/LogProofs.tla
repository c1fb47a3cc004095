----------------------------- MODULE LogProofs ------------------------------
(***************************************************************************)
(* Proofs about the blocks of log.c: what the log, the cache and the home  *)
(* blocks hold at each step of a commit and of a recovery, and that the    *)
(* redo log of module Log implements AtomicDisk.                           *)
(***************************************************************************)
EXTENDS LogControlProofs

-----------------------------------------------------------------------------
Distinct(h) == \A i, j \in 1 .. Len(h) : h[i] = h[j] => i = j
Installing == \E p \in Proc : pc[p] = "install"

(* How disk, cache and log relate while the machine is up. *)
UpData ==
  /\ \A a \in 1 .. (NLOG - 1) : buf[a] = disk[a]
  /\ \A b \in Home : buf[b] # disk[b] => b \in dirty \cup Held
  /\ ~Installing => hdr = <<>> /\ dirty = Listed(lh)
  /\ \A p \in Proc : pc[p] = "write_log" =>
       tail =< Len(lh) /\ \A i \in 1 .. tail : disk[i] = buf[lh[i]]
  /\ \A p \in Proc : pc[p] = "install" =>
       /\ hdr = lh /\ tail =< Len(lh)
       /\ \A i \in 1 .. Len(lh) : disk[i] = buf[lh[i]]
       /\ dirty = {lh[i] : i \in (tail + 1) .. Len(lh)}

Data ==
  /\ disk \in [Addr -> Val] /\ buf \in [Addr -> Val] /\ dirty \subseteq Addr
  /\ Distinct(lh) /\ Distinct(hdr)
  /\ mode \in {"read_head", "install"} => buf = disk /\ dirty = {}
  /\ mode = "install" =>
       /\ lh = hdr /\ tail =< Len(lh)
       /\ \A i \in 1 .. tail : disk[lh[i]] = disk[i]
  /\ mode = "up" => UpData

(* The log's blocks and the file system's are disjoint. *)
LEMMA Addresses ==
  /\ \A b \in Home : b \in Addr /\ b \in Nat /\ b >= NLOG
  /\ \A a \in 1 .. (NLOG - 1) : a \in Addr /\ a \in Nat /\ a \notin Home
BY LogConstants DEF Home, Addr

(* Data holds when the machine is switched on.                             *)
LEMMA DataInit == Init => Data
<1>1. Distinct(<<>>)
  BY DEF Distinct
<1> QED
  BY <1>1 DEF Init, Data

(* begin_op preserves Data: it changes no block.                           *)
LEMMA DataBeginOp ==
  ASSUME Control, Data, NEW p \in Proc, BeginOp(p)
  PROVE  Data'
<1>0. ControlTypes
  BY DEF Control
<1>1. UNCHANGED <<disk, hdr, buf, dirty, lh, tail, blk, mode>>
  BY DEF BeginOp, diskVars
<1>2. /\ Installing' <=> Installing
      /\ \A q \in Proc : pc'[q] \in {"write_log", "install"} => pc'[q] = pc[q]
  BY <1>0 DEF BeginOp, Installing, ControlTypes
<1>3. Held' = Held
  BY <1>1 DEF Held
<1>4. UpData => UpData'
  BY <1>1, <1>2, <1>3 DEF UpData
<1> QED
  BY <1>1, <1>4 DEF Data

(* An update of a locked buffer preserves Data: the block differs from the *)
(* disk only while it is held.                                             *)
LEMMA DataLogWriteCheck ==
  ASSUME Control, Data, NEW p \in Proc, NEW b \in Home, NEW v \in Val,
         LogWriteCheck(p, b, v)
  PROVE  Data'
<1>0. ControlTypes /\ mode = "up" /\ UpData
  BY DEF Control, Data, LogWriteCheck
<1>1. UNCHANGED <<disk, hdr, dirty, lh, tail>> /\ buf' = [buf EXCEPT ![b] = v]
  BY DEF LogWriteCheck, logVars
<1>2. buf' \in [Addr -> Val]
  BY Zenon, <1>1 DEF Data
<1>3. ~Installing /\ \A q \in Proc : pc[q] \notin {"write_log", "install"}
  <2>1. p \in InOp
    BY DEF LogWriteCheck, InOp
  <2> QED
    BY <2>1 DEF Control, Committers, Installing
<1>4. ASSUME mode' = "up"
      PROVE  UpData'
  <2>1. /\ pc' = [pc EXCEPT ![p] = "logging"]
        /\ blk' = [blk EXCEPT ![p] = b]
    BY <1>4 DEF LogWriteCheck
  <2>2. ~Installing' /\ \A q \in Proc : pc'[q] \notin {"write_log", "install"}
    BY <1>0, <1>3, <2>1 DEF Installing, ControlTypes
  <2>3. \A a \in 1 .. (NLOG - 1) : buf'[a] = disk[a]
    BY <1>0, <1>1, Addresses DEF UpData, Data
  <2>4. ASSUME NEW c \in Home, buf'[c] # disk[c]
        PROVE  c \in dirty \cup Held'
    <3>1. CASE c = b
      <4>1. b \in Held'
        BY <1>0, <2>1, LogConstants DEF Held, ControlTypes, Home
      <4> QED
        BY <3>1, <4>1
    <3>2. CASE c # b
      <4>1. c \in dirty \cup Held
        BY <1>0, <1>1, <2>4, <3>2, Addresses DEF UpData, Data
      <4>2. \A q \in Proc : blk[q] # 0 => q # p
        BY <1>0 DEF Control, LogWriteCheck
      <4>3. \A q \in Proc : blk[q] = c => blk'[q] = c
        BY <1>0, <2>1, <4>2, LogConstants DEF ControlTypes, Home
      <4> QED
        BY <4>1, <4>3 DEF Held
    <3> QED
      BY <3>1, <3>2
  <2> QED
    BY <1>0, <1>1, <1>3, <2>2, <2>3, <2>4 DEF UpData, Listed
<1>5. mode' \in {"up", "panic"}
  BY DEF LogWriteCheck
<1> QED
  BY <1>1, <1>2, <1>4, <1>5 DEF Data

(* Appending a block that a header does not list keeps its blocks          *)
(* distinct.                                                               *)
LEMMA DistinctAppend ==
  ASSUME NEW h \in Seq(Home), NEW b \in Home, Distinct(h), b \notin Listed(h)
  PROVE  Distinct(Append(h, b))
<1>1. /\ Len(Append(h, b)) = Len(h) + 1 /\ Len(h) \in Nat
      /\ \A i \in 1 .. Len(h) : Append(h, b)[i] = h[i]
      /\ Append(h, b)[Len(h) + 1] = b
  OBVIOUS
<1>2. 1 .. Len(Append(h, b)) = (1 .. Len(h)) \cup {Len(h) + 1}
  BY <1>1
<1>3. \A i \in 1 .. Len(h) : h[i] # b
  BY DEF Listed
<1> QED
  BY <1>1, <1>2, <1>3 DEF Distinct

(* The locked part of log_write preserves Data: the block it lets go is    *)
(* pinned.                                                                 *)
LEMMA DataLogWrite ==
  ASSUME Control, Data, NEW p \in Proc, LogWrite(p)
  PROVE  Data'
<1>0. ControlTypes /\ mode = "up" /\ UpData /\ mode' = "up"
  BY DEF Control, Data, LogWrite
<1>1. UNCHANGED <<disk, hdr, buf, tail>> /\ dirty' = dirty \cup {blk[p]}
  BY DEF LogWrite
<1>2. blk[p] \in Home
  BY <1>0 DEF Control, ControlTypes, LogWrite
<1>3. ~Installing /\ \A q \in Proc : pc[q] \notin {"write_log", "install"}
  <2>1. p \in InOp
    BY DEF LogWrite, InOp
  <2> QED
    BY <2>1 DEF Control, Committers, Installing
<1>4. ~Installing' /\ \A q \in Proc : pc'[q] \notin {"write_log", "install"}
  BY <1>0, <1>3 DEF Installing, ControlTypes, LogWrite
<1>5. Distinct(lh') /\ Listed(lh') = Listed(lh) \cup {blk[p]}
  <2>0. lh \in Seq(Home) /\ Distinct(lh)
    BY <1>0 DEF ControlTypes, Data
  <2>1. CASE blk[p] \in Listed(lh)
    <3>1. lh' = lh
      BY <2>1 DEF LogWrite, Listed
    <3> QED
      BY <2>0, <2>1, <3>1
  <2>2. CASE blk[p] \notin Listed(lh)
    <3>1. lh' = Append(lh, blk[p])
      BY <2>2 DEF LogWrite, Listed
    <3> QED
      BY <1>2, <2>0, <2>2, <3>1, ListedAppend, DistinctAppend
  <2> QED
    BY <2>1, <2>2
<1>6. \A b \in Home : b \in Held => b \in Held' \cup {blk[p]}
  BY <1>0 DEF Held, LogWrite, ControlTypes
<1>7. UpData'
  BY <1>0, <1>1, <1>3, <1>4, <1>5, <1>6 DEF UpData
<1> QED
  BY <1>0, <1>1, <1>2, <1>5, <1>7, Addresses DEF Data

(* end_op preserves Data: a commit starts with the header on disk empty.   *)
LEMMA DataEndOp ==
  ASSUME Control, Data, NEW p \in Proc, EndOp(p)
  PROVE  Data'
<1>0. ControlTypes /\ mode = "up" /\ UpData /\ ~committing /\ mode' = "up"
  BY DEF Control, Data, EndOp, InOp
<1>1. UNCHANGED <<disk, hdr, buf, dirty, lh, tail, blk>>
  BY DEF EndOp, diskVars
<1>2. /\ Installing' <=> Installing
      /\ \A q \in Proc : pc'[q] \in {"write_log", "install"} => pc'[q] = pc[q]
  BY <1>0 DEF EndOp, Installing, ControlTypes, Woken
<1>3. Held' = Held
  BY <1>1 DEF Held
<1>4. UpData'
  BY <1>0, <1>1, <1>2, <1>3 DEF UpData
<1> QED
  BY <1>0, <1>1, <1>4 DEF Data

(* The start of commit preserves Data.                                     *)
LEMMA DataCommit ==
  ASSUME Control, Data, NEW p \in Proc, Commit(p) \/ FinishCommit(p)
  PROVE  Data'
<1>0. ControlTypes /\ mode = "up" /\ UpData /\ mode' = "up" /\ p \in Committers
  BY DEF Control, Data, Commit, FinishCommit, Committers
<1>1. UNCHANGED <<disk, hdr, buf, dirty, lh, blk>>
  BY DEF Commit, FinishCommit, diskVars
<1>2. \A q \in Proc : pc[q] \notin {"write_log", "install"}
  BY <1>0 DEF Control, Committers, Commit, FinishCommit
<1>3. ~Installing /\ ~Installing'
  BY <1>0, <1>2 DEF Commit, FinishCommit, Installing, ControlTypes, Woken
<1>4. \A q \in Proc : pc'[q] = "write_log" => tail' = 0
  BY <1>0, <1>2 DEF Commit, FinishCommit, ControlTypes, Woken
<1>5. Held' = Held
  BY <1>1 DEF Held
<1>6. UpData'
  BY <1>0, <1>1, <1>3, <1>4, <1>5 DEF UpData, Installing, ControlTypes
<1> QED
  BY <1>0, <1>1, <1>6 DEF Data

(* A turn of write_log preserves Data: one more log block equals the       *)
(* cached block it stands for.                                             *)
LEMMA DataWriteLog ==
  ASSUME Control, LogFits, Data, NEW p \in Proc, WriteLog(p)
  PROVE  Data'
<1>0. ControlTypes /\ mode = "up" /\ UpData /\ mode' = "up" /\ p \in Committers
  BY DEF Control, Data, WriteLog, Committers
<1>1. /\ UNCHANGED <<hdr, lh, blk, pc>> /\ tail' = tail + 1
      /\ disk' = [disk EXCEPT ![tail + 1] = buf[lh[tail + 1]]]
      /\ buf' = [buf EXCEPT ![tail + 1] = buf[lh[tail + 1]]]
      /\ dirty' = dirty \ {tail + 1}
      /\ tail \in Nat /\ tail < Len(lh) /\ Len(lh) \in Nat
  BY <1>0 DEF WriteLog, BWrite, ControlTypes
<1>2. tail + 1 \in 1 .. (NLOG - 1) /\ tail + 1 \in Addr /\ tail + 1 \notin Home
  BY <1>1, LogConstants, Addresses DEF LogFits
<1>3. lh[tail + 1] \in Home
  BY <1>0, <1>1 DEF ControlTypes
<1>4. disk' \in [Addr -> Val] /\ buf' \in [Addr -> Val]
  BY Zenon, <1>1, <1>3, Addresses DEF Data
<1>5. ~Installing /\ ~Installing' /\ Held' = Held
  BY <1>0, <1>1 DEF Control, Committers, WriteLog, Installing, Held
<1>6. dirty' = Listed(lh)
  BY <1>0, <1>1, <1>2, <1>5 DEF UpData, Listed, ControlTypes
<1>7. /\ \A b \in Home : disk'[b] = disk[b] /\ buf'[b] = buf[b]
      /\ \A a \in 1 .. (NLOG - 1) : a # tail + 1 =>
           disk'[a] = disk[a] /\ buf'[a] = buf[a]
      /\ disk'[tail + 1] = buf[lh[tail + 1]]
      /\ buf'[tail + 1] = buf[lh[tail + 1]]
  BY <1>1, <1>2, Addresses DEF Data
<1>8. \A i \in 1 .. (tail + 1) : disk'[i] = buf'[lh[i]]
  <2> TAKE i \in 1 .. (tail + 1)
  <2>1. lh[i] \in Home /\ i \in 1 .. (NLOG - 1)
    <3>1. i \in 1 .. Len(lh)
      BY <1>1
    <3>2. lh[i] \in Home
      BY <1>0, <3>1 DEF ControlTypes
    <3> QED
      BY <1>1, <1>2, <3>2, LogConstants
  <2>2. i # tail + 1 => disk[i] = buf[lh[i]]
    BY <1>0, <1>1 DEF UpData, WriteLog
  <2> QED
    BY <1>7, <2>1, <2>2
<1>9. UpData'
  BY <1>0, <1>1, <1>5, <1>6, <1>7, <1>8 DEF UpData, Installing
<1> QED
  BY <1>0, <1>1, <1>4, <1>6, <1>9, Addresses DEF Data, Listed, ControlTypes

(* write_head preserves Data: when the header is written the log is        *)
(* complete.                                                               *)
LEMMA DataWriteHead ==
  ASSUME Control, Data, NEW p \in Proc, WriteHead(p)
  PROVE  Data'
<1>0. ControlTypes /\ mode = "up" /\ UpData /\ mode' = "up" /\ p \in Committers
  BY DEF Control, Data, WriteHead, Committers
<1>1. /\ UNCHANGED <<disk, buf, dirty, lh, blk>> /\ tail' = 0 /\ hdr' = lh
      /\ tail = Len(lh) /\ pc' = [pc EXCEPT ![p] = "install"]
  BY DEF WriteHead
<1>2. ~Installing /\ Held' = Held
  BY <1>0, <1>1 DEF Control, Committers, WriteHead, Installing, Held
<1>3. \A q \in Proc : /\ pc'[q] # "write_log"
                      /\ pc'[q] = "install" => q = p
  BY <1>0, <1>1 DEF ControlTypes, Control, Committers
<1>4. dirty = {lh[i] : i \in (0 + 1) .. Len(lh)}
  BY <1>0, <1>2 DEF UpData, Listed
<1>5. \A i \in 1 .. Len(lh) : disk[i] = buf[lh[i]]
  BY <1>0, <1>1 DEF UpData, WriteHead
<1>6. Installing'
  BY <1>0, <1>1 DEF Installing, ControlTypes
<1>7. UpData'
  BY <1>0, <1>1, <1>2, <1>3, <1>4, <1>5, <1>6 DEF UpData, ControlTypes
<1> QED
  BY <1>0, <1>1, <1>7 DEF Data

(* What one turn of install_trans does to disk and cache. *)
LEMMA InstallEffect ==
  ASSUME ControlTypes, LogFits, Data, InstallBlock
  PROVE  /\ tail \in Nat /\ Len(lh) \in Nat /\ tail < Len(lh)
         /\ tail + 1 \in 1 .. Len(lh) /\ tail + 1 \in 1 .. (NLOG - 1)
         /\ lh[tail + 1] \in Home
         /\ disk' \in [Addr -> Val] /\ buf' \in [Addr -> Val]
         /\ \A a \in Addr : a # lh[tail + 1] =>
              disk'[a] = disk[a] /\ buf'[a] = buf[a]
         /\ disk'[lh[tail + 1]] = buf[tail + 1]
         /\ buf'[lh[tail + 1]] = buf[tail + 1]
         /\ dirty' = dirty \ {lh[tail + 1]}
         /\ tail' = tail + 1 /\ UNCHANGED <<hdr, lh, blk>>
<1>1. tail \in Nat /\ Len(lh) \in Nat /\ tail < Len(lh)
  BY DEF ControlTypes, InstallBlock
<1>2. tail + 1 \in 1 .. Len(lh) /\ tail + 1 \in 1 .. (NLOG - 1)
  BY <1>1, LogConstants DEF LogFits
<1>3. lh[tail + 1] \in Home
  BY <1>2 DEF ControlTypes
<1>4. lh[tail + 1] \in Addr /\ tail + 1 \in Addr
  BY <1>2, <1>3, Addresses
<1> QED
  BY <1>1, <1>2, <1>3, <1>4 DEF InstallBlock, BWrite, Data

(* A turn of install_trans preserves Data: one more home block equals its  *)
(* copy in the log.                                                        *)
LEMMA DataInstallTrans ==
  ASSUME Control, LogFits, Data, NEW p \in Proc, InstallTrans(p)
  PROVE  Data'
<1>0. /\ ControlTypes /\ mode = "up" /\ UpData /\ mode' = "up"
      /\ p \in Committers /\ pc[p] = "install" /\ pc' = pc /\ InstallBlock
  BY DEF Control, Data, InstallTrans, Committers
<1> DEFINE d == lh[tail + 1]
<1>1. /\ tail \in Nat /\ Len(lh) \in Nat /\ tail < Len(lh)
      /\ tail + 1 \in 1 .. Len(lh) /\ tail + 1 \in 1 .. (NLOG - 1)
      /\ d \in Home
      /\ disk' \in [Addr -> Val] /\ buf' \in [Addr -> Val]
      /\ \A a \in Addr : a # d => disk'[a] = disk[a] /\ buf'[a] = buf[a]
      /\ disk'[d] = buf[tail + 1]
      /\ buf'[d] = buf[tail + 1]
      /\ dirty' = dirty \ {d}
      /\ tail' = tail + 1 /\ UNCHANGED <<hdr, lh, blk>>
  BY <1>0, InstallEffect
<1>2. buf[tail + 1] = disk[tail + 1] /\ disk[tail + 1] = buf[d]
  BY <1>0, <1>1 DEF UpData
<1> HIDE DEF d
<1>3. \A a \in Addr : buf'[a] = buf[a]
  BY <1>1, <1>2
<1>4. \A a \in 1 .. (NLOG - 1) : a \in Addr /\ disk'[a] = disk[a]
  BY <1>1, Addresses
<1>5. \A i \in 1 .. Len(lh) : disk'[i] = buf'[lh[i]]
  <2> TAKE i \in 1 .. Len(lh)
  <2>1. i \in 1 .. (NLOG - 1)
    BY <1>1, LogConstants DEF LogFits
  <2>2. lh[i] \in Home
    BY <1>0 DEF ControlTypes
  <2> QED
    BY <1>0, <1>3, <1>4, <2>1, <2>2, Addresses DEF UpData
<1>6. dirty' = {lh[i] : i \in ((tail + 1) + 1) .. Len(lh)}
  <2>1. dirty = {lh[i] : i \in (tail + 1) .. Len(lh)}
    BY <1>0 DEF UpData
  <2>2. (tail + 1) .. Len(lh) = {tail + 1} \cup (((tail + 1) + 1) .. Len(lh))
    BY <1>1
  <2>3. \A i \in ((tail + 1) + 1) .. Len(lh) : lh[i] # d
    BY <1>1 DEF Data, Distinct, d
  <2> QED
    BY <1>1, <2>1, <2>2, <2>3 DEF d
<1>7. \A b \in Home : buf'[b] # disk'[b] => b \in dirty' \cup Held'
  <2> SUFFICES ASSUME NEW b \in Home, buf'[b] # disk'[b]
               PROVE  b \in dirty' \cup Held'
    OBVIOUS
  <2>1. b # d /\ b \in Addr
    BY <1>1, Addresses
  <2>2. b \in dirty \cup Held
    BY <1>0, <1>1, <2>1 DEF UpData
  <2> QED
    BY <1>1, <2>1, <2>2 DEF Held
<1>8. Installing /\ \A q \in Proc : pc[q] # "write_log"
  BY SMTT(30), <1>0 DEF Installing, Control, Committers
<1>9. UpData'
  BY <1>0, <1>1, <1>3, <1>4, <1>5, <1>6, <1>7, <1>8
     DEF UpData, Installing
<1> QED
  BY <1>0, <1>1, <1>9 DEF Data

(* Erasing the header after the installation preserves Data: nothing       *)
(* differs from the disk any more.                                         *)
LEMMA DataClearLog ==
  ASSUME Control, Data, NEW p \in Proc, ClearLog(p)
  PROVE  Data'
<1>0. /\ ControlTypes /\ mode = "up" /\ UpData /\ mode' = "up"
      /\ p \in Committers /\ pc[p] = "install"
  BY DEF Control, Data, ClearLog, Committers
<1>1. /\ UNCHANGED <<disk, buf, dirty, tail, blk>> /\ lh' = <<>> /\ hdr' = <<>>
      /\ pc' = [pc EXCEPT ![p] = "finish"] /\ tail = Len(lh)
  BY DEF ClearLog, EraseLog
<1>2. ~Installing' /\ \A q \in Proc : pc'[q] \notin {"write_log", "install"}
  BY <1>0, <1>1 DEF Control, ControlTypes, Committers, Installing
<1>3. dirty = {}
  <2>1. (tail + 1) .. Len(lh) = {}
    BY <1>0, <1>1 DEF ControlTypes
  <2> QED
    BY <1>0, <2>1 DEF UpData
<1>4. Listed(<<>>) = {} /\ Distinct(<<>>) /\ Held' = Held
  BY <1>1 DEF Listed, Distinct, Held
<1>5. UpData'
  BY <1>0, <1>1, <1>2, <1>3, <1>4 DEF UpData
<1> QED
  BY <1>0, <1>1, <1>4, <1>5 DEF Data

(* The steps of recover_from_log preserve Data.                            *)
LEMMA DataRecovery ==
  ASSUME Control, LogFits, Data, Recovery
  PROVE  Data'
<1>0. ControlTypes
  BY DEF Control
<1>1. CASE ReadHead
  BY <1>0, <1>1 DEF ReadHead, diskVars, Data, ControlTypes
<1>2. CASE RecoverInstall
  <2>0. InstallBlock /\ mode = "install" /\ mode' = "install"
    BY <1>2 DEF RecoverInstall
  <2> DEFINE d == lh[tail + 1]
  <2>1. /\ tail \in Nat /\ Len(lh) \in Nat /\ tail < Len(lh)
        /\ tail + 1 \in 1 .. Len(lh) /\ tail + 1 \in 1 .. (NLOG - 1)
        /\ d \in Home
        /\ disk' \in [Addr -> Val] /\ buf' \in [Addr -> Val]
        /\ \A a \in Addr : a # d => disk'[a] = disk[a] /\ buf'[a] = buf[a]
        /\ disk'[d] = buf[tail + 1]
        /\ buf'[d] = buf[tail + 1]
        /\ dirty' = dirty \ {d}
        /\ tail' = tail + 1 /\ UNCHANGED <<hdr, lh, blk>>
    BY <1>0, <2>0, InstallEffect
  <2> HIDE DEF d
  <2>2. buf = disk /\ dirty = {} /\ lh = hdr
    BY <2>0 DEF Data
  <2>3. buf' = disk' /\ dirty' = {}
    <3>1. \A a \in Addr : buf'[a] = disk'[a]
      BY <2>1, <2>2
    <3> QED
      BY <2>1, <2>2, <3>1
  <2>4. \A i \in 1 .. (tail + 1) : disk'[lh[i]] = disk'[i]
    <3> TAKE i \in 1 .. (tail + 1)
    <3>1. i \in 1 .. Len(lh) /\ i \in 1 .. (NLOG - 1)
      BY <2>1, LogConstants
    <3>2. lh[i] \in Home /\ i # d /\ i \in Addr
      BY <1>0, <2>1, <3>1, Addresses DEF ControlTypes
    <3>3. CASE i = tail + 1
      BY <2>1, <2>2, <3>2, <3>3 DEF d
    <3>4. CASE i # tail + 1
      <4>1. disk[lh[i]] = disk[i] /\ lh[i] # d
        BY <2>0, <2>1, <3>1, <3>4 DEF Data, Distinct, d
      <4> QED
        BY <2>1, <3>2, <4>1, Addresses
    <3> QED
      BY <3>3, <3>4
  <2> QED
    BY <2>0, <2>1, <2>2, <2>3, <2>4 DEF Data
<1>3. CASE RecoverClear
  <2>1. /\ buf = disk /\ dirty = {} /\ pc = [q \in Proc |-> "out"]
        /\ pc' = pc /\ mode' = "up"
        /\ UNCHANGED <<disk, buf, dirty, tail, blk>> /\ lh' = <<>> /\ hdr' = <<>>
    BY <1>3 DEF RecoverClear, EraseLog, Data, Control
  <2>2. Listed(<<>>) = {} /\ Distinct(<<>>)
    BY DEF Listed, Distinct
  <2>3. UpData'
    BY <2>1, <2>2 DEF UpData, Installing
  <2> QED
    BY <2>1, <2>2, <2>3 DEF Data
<1> QED
  BY <1>1, <1>2, <1>3 DEF Recovery

(* The end of a commit, the recycling of a buffer and a crash preserve     *)
(* Data.                                                                   *)
LEMMA DataOther ==
  ASSUME Control, Data,
         Crash \/ UNCHANGED vars \/ \E a \in Addr : Recycle(a)
  PROVE  Data'
<1>1. CASE Crash
  BY <1>1 DEF Crash, Data, Distinct
<1>2. CASE UNCHANGED vars
  BY <1>2 DEF vars, diskVars, logVars, Data, UpData, Installing, Held
<1>3. ASSUME NEW a \in Addr, Recycle(a)
      PROVE  Data'
  <2>1. /\ UNCHANGED <<disk, hdr, dirty, lh, tail, pc, blk, mode>>
        /\ buf' = [buf EXCEPT ![a] = disk[a]]
    BY <1>3 DEF Recycle, logVars
  <2>2. mode = "up" => buf[a] = disk[a]
    <3>1. a \notin dirty \cup Held
      BY <1>3 DEF Recycle, Held
    <3>2. a \in Home \/ a \in 1 .. (NLOG - 1)
      BY LogConstants DEF Home, Addr
    <3> QED
      BY <3>1, <3>2 DEF Data, UpData
  <2>3. mode # "panic" => buf' = buf
    <3>1. mode # "panic" => buf[a] = disk[a]
      BY SMTT(30), <2>2 DEF Data, Control, ControlTypes, Modes
    <3> QED
      BY <2>1, <3>1 DEF Data
  <2>4. Held' = Held /\ (Installing' <=> Installing) /\ buf' = buf
    BY <1>3, <2>1, <2>3 DEF Held, Installing, Recycle
  <2> QED
    BY SMTT(30), <2>1, <2>4 DEF Data, UpData
<1> QED
  BY <1>1, <1>2, <1>3

(* The inductive invariant of the log. *)
IInv == Control /\ LogFits /\ Data

(* The inductive invariant of log.c, as long as the log does not overflow: *)
(* control state and block contents together.                              *)
THEOREM LogInvariant == Spec /\ []LogFits => []IInv
<1>1. Init => Data
  BY DataInit
<1>2. Control /\ LogFits /\ Data /\ [Next]_vars => Data'
  BY DataBeginOp, DataLogWriteCheck, DataLogWrite, DataEndOp, DataCommit,
     DataWriteLog, DataWriteHead, DataInstallTrans, DataClearLog,
     DataRecovery, DataOther
     DEF Next, ProcNext
<1> QED
  BY <1>1, <1>2, ControlInvariant, PTL DEF Spec, IInv

(* Every variable of the log keeps its type (log.c:39-47), as long as the  *)
(* log does not overflow.                                                  *)
THEOREM TypeCorrect == Spec /\ []LogFits => []TypeOK
<1>1. IInv => TypeOK
  BY DEF IInv, Control, ControlTypes, Data, TypeOK
<1> QED
  BY <1>1, LogInvariant, PTL

(* A finished call is durable once no call is in progress: nothing is left *)
(* in the cache or in the log that the disk does not have.                 *)
THEOREM QuiescentIsDurable == Spec /\ []LogFits => []QuiescentDurable
<1>1. IInv => QuiescentDurable
  <2> SUFFICES ASSUME IInv, mode = "up", outstanding = 0, ~committing
               PROVE  /\ hdr = <<>> /\ lh = <<>> /\ dirty = {}
                      /\ \A b \in Home : disk[b] = buf[b]
    BY DEF QuiescentDurable
  <2>1. InOp = {} /\ lh = <<>> /\ Committers = {}
    BY InOpFinite DEF IInv, Control
  <2>2. ~Installing /\ Held = {}
    <3>1. \A p \in Proc : pc[p] # "install" /\ blk[p] = 0
      BY <2>1 DEF IInv, Control, InOp, Committers
    <3> QED
      BY <3>1 DEF Installing, Held
  <2>3. UpData /\ Listed(<<>>) = {}
    BY DEF IInv, Data, Listed
  <2> QED
    BY <2>1, <2>2, <2>3 DEF UpData
<1> QED
  BY <1>1, LogInvariant, PTL

(* No update that is not on the disk can be lost by recycling its buffer. *)
THEOREM UpdatesArePinned == Spec /\ []LogFits => []UpdatesPinned
<1>1. IInv => UpdatesPinned
  BY DEF IInv, Data, UpData, UpdatesPinned
<1> QED
  BY <1>1, LogInvariant, PTL

(* The write-ahead rule: home blocks change on the disk only while the     *)
(* on-disk header lists them.                                              *)
THEOREM HomeBlocksWrittenAfterLog == Spec /\ []LogFits => WriteAhead
<1> DEFINE A == \A b \in Home : disk'[b] # disk[b] => b \in Listed(hdr)
<1>1. IInv /\ [Next]_vars => [A]_vars
  <2> SUFFICES ASSUME IInv, Next PROVE A
    OBVIOUS
  <2>0. Control /\ ControlTypes /\ LogFits /\ Data
    BY DEF IInv, Control
  <2>1. ASSUME NEW p \in Proc, WriteLog(p)
        PROVE  A
    <3>1. tail + 1 \in 1 .. (NLOG - 1)
      BY <2>0, <2>1, LogConstants
         DEF WriteLog, ControlTypes, LogFits
    <3>2. disk' = [disk EXCEPT ![tail + 1] = buf[lh[tail + 1]]]
      BY <2>1 DEF WriteLog, BWrite
    <3> QED
      BY <2>0, <3>1, <3>2, Addresses DEF Data
  <2>2. ASSUME InstallBlock, hdr = lh
        PROVE  A
    <3>1. /\ tail + 1 \in 1 .. Len(lh)
          /\ \A a \in Addr : a # lh[tail + 1] => disk'[a] = disk[a]
      BY <2>0, <2>2, InstallEffect
    <3> QED
      BY <2>2, <3>1, Addresses DEF Listed
  <2>3. ASSUME NEW p \in Proc, InstallTrans(p)
        PROVE  A
    <3>1. hdr = lh /\ InstallBlock
      BY <2>0, <2>3 DEF InstallTrans, Data, UpData
    <3> QED
      BY <2>2, <3>1
  <2>4. CASE RecoverInstall
    <3>1. hdr = lh /\ InstallBlock
      BY <2>0, <2>4 DEF RecoverInstall, Data
    <3> QED
      BY <2>2, <3>1
  <2>5. disk' = disk => A
    BY SMTT(30)
  <2>6. \/ disk' = disk
        \/ \E p \in Proc : WriteLog(p) \/ InstallTrans(p)
        \/ RecoverInstall
    BY Zenon DEF Next, ProcNext, BeginOp, LogWriteCheck, LogWrite, EndOp, Commit,
           WriteHead, ClearLog, FinishCommit, Recovery, ReadHead,
           RecoverClear, EraseLog, Recycle, Crash, diskVars
  <2> QED
    BY <2>1, <2>3, <2>4, <2>5, <2>6
<1> QED
  BY <1>1, LogInvariant, PTL DEF Spec, WriteAhead

-----------------------------------------------------------------------------
(* What recovery finds for the i-th block of a header with distinct blocks *)
(* is the i-th block of the log.                                           *)
LEMMA RecoverFromAt ==
  ASSUME NEW h \in Seq(Home), Distinct(h), NEW d
  PROVE  /\ \A i \in 1 .. Len(h) : RecoverFrom(h, d)[h[i]] = d[i]
         /\ \A b \in Home : b \notin Listed(h) => RecoverFrom(h, d)[b] = d[b]
<1>1. ASSUME NEW i \in 1 .. Len(h)
      PROVE  RecoverFrom(h, d)[h[i]] = d[i]
  <2> DEFINE c == CHOOSE j \in 1 .. Len(h) : h[j] = h[i]
  <2>1. c \in 1 .. Len(h) /\ h[c] = h[i]
    OBVIOUS
  <2>2. c = i
    BY <2>1 DEF Distinct
  <2>3. h[i] \in Home /\ h[i] \in Listed(h)
    BY DEF Listed
  <2> QED
    BY Zenon, <2>2, <2>3 DEF RecoverFrom
<1>2. ASSUME NEW b \in Home, b \notin Listed(h)
      PROVE  RecoverFrom(h, d)[b] = d[b]
  BY <1>2 DEF RecoverFrom
<1> QED
  BY <1>1, <1>2

(* Writing a listed block in its own place changes nothing a restart sees. *)
LEMMA InstallInvisible ==
  ASSUME ControlTypes, LogFits, Data, InstallBlock, hdr = lh
  PROVE  Recovered' = Recovered
<1>0. /\ tail + 1 \in 1 .. Len(lh) /\ lh[tail + 1] \in Home
      /\ \A a \in Addr : a # lh[tail + 1] => disk'[a] = disk[a]
      /\ UNCHANGED <<hdr, lh>>
  BY InstallEffect
<1>1. lh \in Seq(Home) /\ Distinct(lh) /\ Len(lh) \in Nat
  BY DEF ControlTypes, Data
<1>2. \A i \in 1 .. Len(lh) : disk'[i] = disk[i]
  <2> TAKE i \in 1 .. Len(lh)
  <2>1. i \in 1 .. (NLOG - 1)
    BY <1>1, LogConstants DEF LogFits
  <2> QED
    BY <1>0, <2>1, Addresses
<1>3. ASSUME NEW b \in Home
      PROVE  RecoverFrom(lh, disk')[b] = RecoverFrom(lh, disk)[b]
  <2>1. CASE b \in Listed(lh)
    <3>1. PICK i \in 1 .. Len(lh) : lh[i] = b
      BY <2>1 DEF Listed
    <3> QED
      BY <1>1, <1>2, <3>1, RecoverFromAt
  <2>2. CASE b \notin Listed(lh)
    <3>1. b # lh[tail + 1]
      BY <1>0, <2>2 DEF Listed
    <3>2. disk'[b] = disk[b]
      BY <1>0, <3>1, Addresses
    <3> QED
      BY <1>1, <2>2, <3>2, RecoverFromAt
  <2> QED
    BY <2>1, <2>2
<1> QED
  BY <1>0, <1>3 DEF Recovered, RecoverFrom

(* An empty header makes a restart see the home blocks. *)
LEMMA RecoverEmpty ==
  ASSUME NEW d
  PROVE  RecoverFrom(<<>>, d) = [b \in Home |-> d[b]]
BY DEF RecoverFrom, Listed

(* With every listed block installed, erasing the log is invisible. *)
LEMMA EraseInvisible ==
  ASSUME ControlTypes, Data, EraseLog,
         \A i \in 1 .. Len(hdr) : disk[hdr[i]] = disk[i]
  PROVE  Recovered' = Recovered
<1>1. hdr' = <<>> /\ disk' = disk
  BY DEF EraseLog
<1>2. Recovered' = [b \in Home |-> disk[b]]
  BY <1>1, RecoverEmpty DEF Recovered
<1>3. ASSUME NEW b \in Home
      PROVE  RecoverFrom(hdr, disk)[b] = disk[b]
  <2>0. hdr \in Seq(Home) /\ Distinct(hdr)
    BY DEF ControlTypes, Data
  <2>1. CASE b \in Listed(hdr)
    <3>1. PICK i \in 1 .. Len(hdr) : hdr[i] = b
      BY <2>1 DEF Listed
    <3> QED
      BY <2>0, <3>1, RecoverFromAt
  <2>2. CASE b \notin Listed(hdr)
    BY <2>0, <2>2, RecoverFromAt
  <2> QED
    BY <2>1, <2>2
<1> QED
  BY Zenon, <1>2, <1>3 DEF Recovered, RecoverFrom

(* A formatted disk is an initial state of the atomic disk.                *)
LEMMA RefineInit == Init /\ Data => Abs!Init
<1> SUFFICES ASSUME Init, Data PROVE Abs!Init
  OBVIOUS
<1>1. Recovered = [b \in Home |-> disk[b]]
  BY RecoverEmpty DEF Init, Recovered
<1>2. Recovered \in [Home -> Val]
  BY <1>1, Addresses DEF Data
<1>3. Seen = Recovered /\ InOp = {}
  BY DEF Init, Seen, InOp
<1> QED
  BY <1>2, <1>3 DEF Abs!Init

(* begin_op is Begin of the atomic disk, or a stutter when it sleeps.      *)
LEMMA RefineBeginOp ==
  ASSUME ControlTypes, NEW p \in Proc, BeginOp(p)
  PROVE  Abs!Begin(p) \/ UNCHANGED <<Recovered, Seen, InOp>>
<1>1. UNCHANGED <<Recovered, Seen>>
  BY DEF BeginOp, diskVars, Recovered, Seen
<1>2. CASE committing \/ LogSpaceLow
  <2>1. InOp' = InOp
    BY <1>2 DEF BeginOp, ControlTypes, InOp
  <2> QED
    BY <1>1, <2>1
<1>3. CASE ~(committing \/ LogSpaceLow)
  <2>1. p \notin InOp /\ InOp' = InOp \cup {p}
    BY <1>3 DEF BeginOp, ControlTypes, InOp
  <2> QED
    BY <1>1, <2>1 DEF Abs!Begin
<1> QED
  BY <1>2, <1>3

(* The update of a buffer before log_write is Write of the atomic disk.    *)
LEMMA RefineLogWriteCheck ==
  ASSUME ControlTypes, Data, NEW p \in Proc, NEW b \in Home, NEW v \in Val,
         LogWriteCheck(p, b, v)
  PROVE  Abs!Write(p, b, v)
<1>1. p \in InOp /\ InOp' = InOp
  BY DEF LogWriteCheck, ControlTypes, InOp
<1>2. Recovered' = Recovered
  BY DEF LogWriteCheck, Recovered
<1>3. Seen = [c \in Home |-> buf[c]] /\ Seen' = [c \in Home |-> buf'[c]]
  BY DEF LogWriteCheck, Seen
<1>4. Seen' = [Seen EXCEPT ![b] = v]
  BY <1>3, Addresses DEF LogWriteCheck, Data
<1> QED
  BY <1>1, <1>2, <1>4 DEF Abs!Write

(* end_op is End of the atomic disk.                                       *)
LEMMA RefineEndOp ==
  ASSUME Control, NEW p \in Proc, EndOp(p)
  PROVE  Abs!End(p)
<1>1. UNCHANGED <<Recovered, Seen>>
  BY DEF EndOp, diskVars, Recovered, Seen
<1>2. p \in InOp
  BY DEF EndOp, InOp
<1>3. ~committing
  BY <1>2 DEF Control
<1>4. \A q \in Proc :
        pc'[q] \in {"op", "logging"} <=> q # p /\ pc[q] \in {"op", "logging"}
  BY <1>3 DEF EndOp, Control, ControlTypes, Woken
<1>5. InOp' = InOp \ {p}
  BY <1>4 DEF InOp
<1> QED
  BY <1>1, <1>2, <1>5 DEF Abs!End

(* Steps that touch neither the disk nor the contents of a buffer. *)
LEMMA RefineQuiet ==
  ASSUME ControlTypes, NEW p \in Proc,
         LogWrite(p) \/ Commit(p) \/ FinishCommit(p)
  PROVE  UNCHANGED <<Recovered, Seen, InOp>>
<1>1. UNCHANGED <<Recovered, Seen>>
  BY DEF LogWrite, Commit, FinishCommit, diskVars, Recovered, Seen
<1>2. \A q \in Proc :
        pc'[q] \in {"op", "logging"} <=> pc[q] \in {"op", "logging"}
  BY DEF LogWrite, Commit, FinishCommit, ControlTypes, Woken
<1>3. InOp' = InOp
  BY <1>2 DEF InOp
<1> QED
  BY <1>1, <1>3

(* write_log copies blocks into a log whose header is still empty. *)
LEMMA RefineWriteLog ==
  ASSUME Control, LogFits, Data, NEW p \in Proc, WriteLog(p)
  PROVE  UNCHANGED <<Recovered, Seen, InOp>>
<1>1. InOp' = InOp
  BY DEF WriteLog, InOp
<1>2. mode = "up" /\ UpData /\ pc[p] = "write_log" /\ UNCHANGED <<hdr, mode>>
  BY DEF WriteLog, Data
<1>3. ~Installing
  <2>1. p \in Committers
    BY <1>2 DEF Committers
  <2>2. \A q \in Proc : pc[q] = "install" => q \in Committers
    BY DEF Committers
  <2> QED
    BY <1>2, <2>1, <2>2 DEF Control, Installing
<1>4. hdr = <<>>
  BY <1>2, <1>3 DEF UpData
<1>5. tail + 1 \in 1 .. (NLOG - 1)
  <2>1. tail \in Nat /\ Len(lh) \in Nat /\ tail < Len(lh)
    BY DEF WriteLog, Control, ControlTypes
  <2> QED
    BY <2>1, LogConstants DEF LogFits
<1>6. \A b \in Home : disk'[b] = disk[b] /\ buf'[b] = buf[b]
  BY <1>5, Addresses DEF WriteLog, BWrite, Data
<1>7. Recovered' = Recovered
  BY <1>2, <1>4, <1>6, RecoverEmpty DEF Recovered
<1>8. Seen' = Seen
  BY <1>2, <1>6 DEF Seen
<1> QED
  BY <1>1, <1>7, <1>8

(* The write of the header makes all the ended calls durable at once. *)
LEMMA RefineWriteHead ==
  ASSUME Control, Data, NEW p \in Proc, WriteHead(p)
  PROVE  Abs!Commit
<1>1. mode = "up" /\ UpData /\ pc[p] = "write_log" /\ mode' = mode
      /\ hdr' = lh /\ disk' = disk /\ buf' = buf /\ tail = Len(lh)
  BY DEF WriteHead, Data
<1>2. p \in Committers
  BY <1>1 DEF Committers
<1>3. InOp = {}
  BY <1>2 DEF Control
<1>4. \A q \in Proc :
        pc'[q] \in {"op", "logging"} <=> pc[q] \in {"op", "logging"}
  BY DEF WriteHead, Control, ControlTypes
<1>5. InOp' = InOp
  BY <1>4 DEF InOp
<1>6. Seen = [b \in Home |-> buf[b]] /\ Seen' = Seen
  BY <1>1 DEF Seen
<1>7. lh \in Seq(Home) /\ Distinct(lh)
  BY DEF Control, ControlTypes, Data
<1>8. ASSUME NEW b \in Home
      PROVE  RecoverFrom(lh, disk)[b] = buf[b]
  <2>1. CASE b \in Listed(lh)
    <3>1. PICK i \in 1 .. Len(lh) : lh[i] = b
      BY <2>1 DEF Listed
    <3>2. disk[i] = buf[b]
      BY <1>1, <3>1 DEF UpData
    <3> QED
      BY <1>7, <3>1, <3>2, RecoverFromAt
  <2>2. CASE b \notin Listed(lh)
    <3>1. ~Installing
      BY <1>1, <1>2 DEF Control, Installing, Committers
    <3>2. b \notin dirty
      BY <1>1, <2>2, <3>1 DEF UpData
    <3>3. b \notin Held
      <4>1. \A q \in Proc : blk[q] = 0
        BY <1>3 DEF Control, InOp
      <4> QED
        BY <4>1 DEF Held
    <3>4. buf[b] = disk[b]
      BY <1>1, <3>2, <3>3 DEF UpData
    <3> QED
      BY <1>7, <2>2, <3>4, RecoverFromAt
  <2> QED
    BY <2>1, <2>2
<1>9. Recovered' = Seen
  BY ZenonT(30), <1>1, <1>6, <1>8 DEF Recovered, RecoverFrom
<1> QED
  BY <1>3, <1>5, <1>6, <1>9 DEF Abs!Commit

(* A turn of install_trans is a stutter: recovery finds the same block in  *)
(* the log.                                                                *)
LEMMA RefineInstallTrans ==
  ASSUME Control, LogFits, Data, NEW p \in Proc, InstallTrans(p)
  PROVE  UNCHANGED <<Recovered, Seen, InOp>>
<1>1. mode = "up" /\ UpData /\ pc[p] = "install" /\ UNCHANGED <<pc, mode>>
      /\ InstallBlock /\ ControlTypes
  BY DEF InstallTrans, Data, Control
<1>2. InOp' = InOp
  BY <1>1 DEF InOp
<1>3. hdr = lh /\ \A i \in 1 .. Len(lh) : disk[i] = buf[lh[i]]
  BY <1>1 DEF UpData
<1>4. Recovered' = Recovered
  BY <1>1, <1>3, InstallInvisible
<1>5. tail + 1 \in 1 .. Len(lh) /\ lh[tail + 1] \in Home
  BY <1>1, InstallEffect
<1>6. buf[tail + 1] = buf[lh[tail + 1]]
  <2>1. tail + 1 \in 1 .. (NLOG - 1)
    <3>1. Len(lh) \in Nat
      BY <1>1 DEF ControlTypes
    <3> QED
      BY <1>5, <3>1, LogConstants DEF LogFits
  <2>2. buf[tail + 1] = disk[tail + 1]
    BY <1>1, <2>1 DEF UpData
  <2> QED
    BY <1>3, <1>5, <2>2
<1>7. \A b \in Home : buf'[b] = buf[b]
  BY <1>1, <1>5, <1>6, Addresses DEF InstallBlock, BWrite, Data
<1>8. Seen' = Seen
  BY <1>1, <1>7 DEF Seen
<1> QED
  BY <1>2, <1>4, <1>8

(* Erasing the header is a stutter once every block is installed.          *)
LEMMA RefineClearLog ==
  ASSUME Control, Data, NEW p \in Proc, ClearLog(p)
  PROVE  UNCHANGED <<Recovered, Seen, InOp>>
<1>1. mode = "up" /\ UpData /\ pc[p] = "install" /\ EraseLog
      /\ mode' = mode /\ buf' = buf /\ ControlTypes /\ tail = Len(lh)
  BY DEF ClearLog, EraseLog, Data, Control
<1>2. \A q \in Proc :
        pc'[q] \in {"op", "logging"} <=> pc[q] \in {"op", "logging"}
  BY DEF ClearLog, Control, ControlTypes
<1>3. InOp' = InOp
  BY <1>2 DEF InOp
<1>4. Seen' = Seen
  BY <1>1 DEF Seen
<1>5. hdr = lh /\ lh \in Seq(Home) /\ dirty = {}
      /\ \A i \in 1 .. Len(lh) : disk[i] = buf[lh[i]]
  <2>1. Len(lh) \in Nat
    BY <1>1 DEF ControlTypes
  <2>2. (tail + 1) .. Len(lh) = {}
    BY <1>1, <2>1
  <2> QED
    BY <1>1, <2>2 DEF UpData, ControlTypes
<1>6. Held = {}
  <2>1. p \in Committers
    BY <1>1 DEF Committers
  <2>2. \A q \in Proc : blk[q] = 0
    BY <2>1 DEF Control, InOp
  <2> QED
    BY <2>2 DEF Held
<1>7. \A i \in 1 .. Len(hdr) : disk[hdr[i]] = disk[i]
  <2> TAKE i \in 1 .. Len(hdr)
  <2>1. hdr[i] \in Home
    BY <1>5
  <2>2. buf[hdr[i]] = disk[hdr[i]]
    BY <1>1, <1>5, <1>6, <2>1 DEF UpData
  <2> QED
    BY <1>5, <2>2
<1>8. Recovered' = Recovered
  BY <1>1, <1>7, EraseInvisible
<1> QED
  BY <1>3, <1>4, <1>8

(* Recovery may be cut short and repeated: no step of it changes what the  *)
(* next recovery would find.                                               *)
LEMMA RefineRecovery ==
  ASSUME Control, LogFits, Data, Recovery
  PROVE  UNCHANGED <<Recovered, Seen, InOp>>
<1>1. InOp' = InOp
  BY DEF Recovery, ReadHead, RecoverInstall, RecoverClear, InOp
<1>2. CASE ReadHead
  BY <1>1, <1>2 DEF ReadHead, diskVars, Recovered, Seen
<1>3. CASE RecoverInstall
  <2>1. hdr = lh /\ InstallBlock /\ ControlTypes /\ mode = "install"
        /\ mode' = mode
    BY <1>3 DEF RecoverInstall, Data, Control
  <2>2. Recovered' = Recovered
    BY <2>1, InstallInvisible
  <2> QED
    BY <1>1, <2>1, <2>2 DEF Seen
<1>4. CASE RecoverClear
  <2>1. hdr = lh /\ EraseLog /\ ControlTypes /\ mode = "install"
        /\ mode' = "up" /\ buf = disk /\ tail = Len(lh)
        /\ \A i \in 1 .. tail : disk[lh[i]] = disk[i]
    BY <1>4 DEF RecoverClear, EraseLog, Data, Control
  <2>2. Recovered' = Recovered
    BY <2>1, EraseInvisible
  <2>3. hdr' = <<>> /\ disk' = disk /\ buf' = disk
    BY <2>1 DEF EraseLog
  <2>4. Recovered' = [b \in Home |-> disk[b]]
    BY <2>3, RecoverEmpty DEF Recovered
  <2>5. Seen' = [b \in Home |-> disk[b]]
    BY <2>1, <2>3 DEF Seen
  <2>6. Seen = Recovered
    BY <2>1 DEF Seen
  <2> QED
    BY Zenon, <1>1, <2>2, <2>4, <2>5, <2>6
<1> QED
  BY <1>2, <1>3, <1>4 DEF Recovery

(* Reading a clean block again shows what was in its buffer. *)
LEMMA RefineRecycle ==
  ASSUME Data, NEW a \in Addr, Recycle(a)
  PROVE  UNCHANGED <<Recovered, Seen, InOp>>
<1>1. Recovered' = Recovered /\ InOp' = InOp /\ mode' = mode
  BY DEF Recycle, Recovered, InOp
<1>2. CASE mode = "up"
  <2>1. a \in Home => buf[a] = disk[a]
    BY <1>2 DEF Recycle, Data, UpData, Held
  <2>2. \A b \in Home : buf'[b] = buf[b]
    BY <2>1, Addresses DEF Recycle, Data
  <2> QED
    BY <1>1, <1>2, <2>2 DEF Seen
<1>3. CASE mode # "up"
  BY <1>1, <1>3 DEF Recycle, Seen
<1> QED
  BY <1>2, <1>3

(* A crash is Crash of the atomic disk.                                    *)
LEMMA RefineCrash ==
  ASSUME Crash
  PROVE  Abs!Crash
<1>1. Recovered' = Recovered /\ InOp' = {} /\ Seen' = Recovered
  BY DEF Crash, Recovered, InOp, Seen
<1> QED
  BY <1>1 DEF Abs!Crash

(* Atomicity of log.c: begin_op, log_write, end_op and the recovery at     *)
(* boot implement AtomicDisk, for any number of processes, blocks and      *)
(* contents, as long as the log does not overflow.                         *)
THEOREM LogIsAtomic == Spec /\ []LogFits => Atomicity
<1>1. Init => Abs!Init
  BY DataInit, RefineInit
<1>2. IInv /\ [Next]_vars => [Abs!Next]_(Abs!vars)
  <2> SUFFICES ASSUME IInv, [Next]_vars PROVE [Abs!Next]_(Abs!vars)
    OBVIOUS
  <2>0. Control /\ ControlTypes /\ LogFits /\ Data
    BY DEF IInv, Control
  <2>1. ASSUME NEW p \in Proc, ProcNext(p)
        PROVE  Abs!Next \/ UNCHANGED <<Recovered, Seen, InOp>>
    <3>1. CASE BeginOp(p)
      BY <2>0, <3>1, RefineBeginOp DEF Abs!Next
    <3>2. CASE \E b \in Home, v \in Val : LogWriteCheck(p, b, v)
      BY <2>0, <3>2, RefineLogWriteCheck DEF Abs!Next
    <3>3. CASE EndOp(p)
      BY <2>0, <3>3, RefineEndOp DEF Abs!Next
    <3>4. CASE LogWrite(p) \/ Commit(p) \/ FinishCommit(p)
      BY <2>0, <3>4, RefineQuiet
    <3>5. CASE WriteLog(p)
      BY <2>0, <3>5, RefineWriteLog
    <3>6. CASE WriteHead(p)
      BY <2>0, <3>6, RefineWriteHead DEF Abs!Next
    <3>7. CASE InstallTrans(p) \/ ClearLog(p)
      BY <2>0, <3>7, RefineInstallTrans, RefineClearLog
    <3> QED
      BY <2>1, <3>1, <3>2, <3>3, <3>4, <3>5, <3>6, <3>7 DEF ProcNext
  <2>2. CASE Recovery
    BY <2>0, <2>2, RefineRecovery DEF Abs!vars
  <2>3. CASE \E a \in Addr : Recycle(a)
    BY <2>0, <2>3, RefineRecycle DEF Abs!vars
  <2>4. CASE Crash
    BY <2>4, RefineCrash DEF Abs!Next
  <2>5. CASE UNCHANGED vars
    BY <2>5 DEF vars, diskVars, logVars, Recovered, Seen, InOp, Abs!vars
  <2> QED
    BY <2>1, <2>2, <2>3, <2>4, <2>5 DEF Next, Abs!vars
<1> QED
  BY <1>1, <1>2, LogInvariant, PTL DEF Spec, Atomicity, Abs!Spec

(* Calls that are short keep the log atomic: what begin_op reserves for    *)
(* them is enough.                                                         *)
THEOREM ShortCallsAreAtomic ==
  ASSUME MaxLog =< NLOG - 1
  PROVE  Spec /\ []short => Atomicity
BY LogIsAtomic, LogNeverOverflows, PTL
=============================================================================
