------------------------------- MODULE FileIO -------------------------------
(***************************************************************************)
(* The content of files: the block allocator, bmap, itrunc, readi and      *)
(* writei of fs.c, and fileread and filewrite of file.c, for processes     *)
(* that share open files.                                                  *)
(*                                                                         *)
(* The blocks and the inodes on the disk are what the buffer cache shows.  *)
(* A step is what is done with one buffer, or under one ilock.  The last   *)
(* iput of an unlinked file, by which itrunc is called, is Remove; the     *)
(* inode is then used for a new file.                                      *)
(***************************************************************************)
EXTENDS Integers, Sequences, FiniteSets, FiniteSetsExt, TLC

CONSTANTS Proc,      \* processes, and the bytes they write: p, p + 1, ...
          Inum, File,
          IpOf,      \* the inode of an open file
          NBLOCKS,   \* data blocks of the disk
          BSIZE, NDIRECT, NINDIRECT, LOGSIZE,
          Sizes,     \* bound: the lengths of reads and writes
          MaxCalls   \* bound: calls of a process

ASSUME FileIOConstants ==
  /\ Proc \subseteq Nat \ {0} /\ IpOf \in [File -> Inum]
  /\ {NBLOCKS, BSIZE, NDIRECT, NINDIRECT} \subseteq Nat \ {0}
  /\ LOGSIZE \in Nat /\ LOGSIZE >= 6 /\ Sizes \subseteq Nat

Block == 1 .. NBLOCKS
MAXFILE == NDIRECT + NINDIRECT
Width == Max({BSIZE, NINDIRECT})
Zeros == [k \in 0 .. Width - 1 |-> 0]
MaxWrite == ((LOGSIZE - 1 - 1 - 2) \div 2) * BSIZE

VARIABLES
  bitmap,    \* the blocks that are marked as in use
  data,      \* the blocks: bytes, or block numbers in an indirect block
  ip, dip,   \* size and addrs of an inode, in the cache and on the disk
  off,       \* f->off
  lock,      \* the owner of the inode's lock, or 0
  st,        \* where each process is in its call
  got,       \* what the last read of a process returned
  calls,     \* calls made, for the bound
  panicked

vars == <<bitmap, data, ip, dip, off, lock, st, got, calls, panicked>>

Empty == [size |-> 0, addrs |-> [k \in 0 .. NDIRECT |-> 0]]

(* n and i are those of filewrite, n1 the bytes of this call of readi or   *)
(* writei and tot those done, dst what readi has copied.  was is the       *)
(* content when the inode was locked.                                      *)
Idle == [pc |-> "idle", f |-> 0, ino |-> 0, n |-> 0, i |-> 0, n1 |-> 0,
         tot |-> 0, dst |-> <<>>, was |-> <<>>]

Init ==
  /\ bitmap = {} /\ data = [b \in Block |-> Zeros]
  /\ ip = [i \in Inum |-> Empty] /\ dip = ip
  /\ off = [f \in File |-> 0] /\ lock = [i \in Inum |-> 0]
  /\ st = [p \in Proc |-> Idle] /\ got = [p \in Proc |-> <<>>]
  /\ calls = [p \in Proc |-> 0] /\ panicked = FALSE

-----------------------------------------------------------------------------
(* bmap: the block of the file where byte o is, or 0 if there is none. *)
Indirect(i) == ip[i].addrs[NDIRECT]
BlockAt(i, o) ==
  LET bn == o \div BSIZE IN
  IF bn < NDIRECT THEN ip[i].addrs[bn]
  ELSE IF Indirect(i) = 0 THEN 0 ELSE data[Indirect(i)][bn - NDIRECT]

(* The bytes of a file. *)
Bytes(i) ==
  [k \in 1 .. ip[i].size |-> data[BlockAt(i, k - 1)][(k - 1) % BSIZE]]

Goto(p, g) == st' = [st EXCEPT ![p] = g @@ @]
At(p, where) == st[p].pc = where /\ ~panicked
Pos(p) == off[st[p].f] + st[p].tot
Within(p) == Pos(p) % BSIZE
Run(p) == Min({st[p].n1 - st[p].tot, BSIZE - Within(p)})

(* balloc: the first free block, zeroed, becomes the one bmap misses: an   *)
(* address in the inode or an entry of the indirect block.                 *)
BAlloc(p) ==
  LET i == st[p].ino  bn == Pos(p) \div BSIZE
      free == Block \ bitmap  b == Min(free)
      direct == bn < NDIRECT \/ Indirect(i) = 0 IN
  /\ st[p].pc \in {"write", "read"} /\ ~panicked
  /\ st[p].tot < st[p].n1 /\ BlockAt(i, Pos(p)) = 0
  /\ IF free = {}
     THEN panicked' = TRUE /\ UNCHANGED <<bitmap, data, ip>>
     ELSE /\ bitmap' = bitmap \cup {b}
          /\ data' = IF direct THEN [data EXCEPT ![b] = Zeros]
                     ELSE [data EXCEPT ![b] = Zeros, ![Indirect(i)][bn - NDIRECT] = b]
          /\ ip' = IF direct THEN [ip EXCEPT ![i].addrs[Min({bn, NDIRECT})] = b] ELSE ip
          /\ UNCHANGED panicked
  /\ UNCHANGED <<dip, off, lock, st, got, calls>>

-----------------------------------------------------------------------------
(* A call may begin on a file whose inode is not being truncated. *)
CanCall(p, f) ==
  /\ At(p, "idle") /\ calls[p] < MaxCalls
  /\ \A q \in Proc : ~(st[q].pc = "itrunc" /\ st[q].ino = IpOf[f])
  /\ calls' = [calls EXCEPT ![p] = @ + 1]

CallWrite(p, f, n) ==
  /\ CanCall(p, f)
  /\ Goto(p, [pc |-> "filewrite", f |-> f, ino |-> IpOf[f], n |-> n])
  /\ UNCHANGED <<bitmap, data, ip, dip, off, lock, got, panicked>>

(* The head of filewrite's loop: begin_op, ilock and writei's tests. *)
FileWrite(p) ==
  LET s == st[p]  i == s.ino  n1 == Min({s.n - s.i, MaxWrite}) IN
  /\ At(p, "filewrite")
  /\ IF s.i >= s.n
     THEN st' = [st EXCEPT ![p] = Idle] /\ UNCHANGED lock
     ELSE /\ lock[i] = 0
          /\ IF off[s.f] > ip[i].size \/ off[s.f] + n1 > MAXFILE * BSIZE
             THEN st' = [st EXCEPT ![p] = Idle] /\ UNCHANGED lock
             ELSE /\ lock' = [lock EXCEPT ![i] = p]
                  /\ Goto(p, [pc |-> "write", n1 |-> n1, was |-> Bytes(i)])
  /\ UNCHANGED <<bitmap, data, ip, dip, off, got, calls, panicked>>

(* Mutant: every piece starts at the beginning of the caller's buffer. *)
WriteBlockAgain(p) ==
  LET s == st[p]  b == BlockAt(s.ino, Pos(p)) IN
  /\ At(p, "write") /\ s.tot < s.n1 /\ b # 0
  /\ data' = [data EXCEPT ![b] =
       [k \in 0 .. Width - 1 |->
          IF k - Within(p) \in 0 .. Run(p) - 1 THEN p + s.tot + (k - Within(p))
          ELSE @[k]]]
  /\ Goto(p, [tot |-> s.tot + Run(p)])
  /\ UNCHANGED <<bitmap, ip, dip, off, lock, got, calls, panicked>>

(* One round of writei's loop. *)
WriteBlock(p) ==
  LET s == st[p]  b == BlockAt(s.ino, Pos(p)) IN
  /\ At(p, "write") /\ s.tot < s.n1 /\ b # 0
  /\ data' = [data EXCEPT ![b] =
       [k \in 0 .. Width - 1 |->
          IF k - Within(p) \in 0 .. Run(p) - 1 THEN p + s.i + s.tot + (k - Within(p))
          ELSE @[k]]]
  /\ Goto(p, [tot |-> s.tot + Run(p)])
  /\ UNCHANGED <<bitmap, ip, dip, off, lock, got, calls, panicked>>

(* The end of writei, and of the round of filewrite's loop. *)
WriteEnd(p) ==
  LET s == st[p]  i == s.ino  grown == Pos(p) > ip[i].size IN
  /\ At(p, "write") /\ s.tot = s.n1
  /\ ip' = IF grown THEN [ip EXCEPT ![i].size = Pos(p)] ELSE ip
  /\ dip' = IF grown THEN [dip EXCEPT ![i] = ip'[i]] ELSE dip
  /\ off' = [off EXCEPT ![s.f] = @ + s.n1]
  /\ lock' = [lock EXCEPT ![i] = 0]
  /\ Goto(p, [pc |-> "filewrite", i |-> s.i + s.n1, n1 |-> 0, tot |-> 0,
              was |-> <<>>])
  /\ UNCHANGED <<bitmap, data, got, calls, panicked>>

-----------------------------------------------------------------------------
(* Mutant: the length is not cut at the end of the file. *)
FileReadBeyond(p, f, n) ==
  LET i == IpOf[f]  left == ip[i].size - off[f] IN
  /\ CanCall(p, f) /\ lock[i] = 0
  /\ got' = [got EXCEPT ![p] = <<>>]
  /\ IF left <= 0 \/ n = 0
     THEN UNCHANGED <<st, lock>>
     ELSE /\ lock' = [lock EXCEPT ![i] = p]
          /\ Goto(p, [pc |-> "read", f |-> f, ino |-> i, n1 |-> n])
  /\ UNCHANGED <<bitmap, data, ip, dip, off, panicked>>

(* fileread: ilock, and readi's tests. *)
FileRead(p, f, n) ==
  LET i == IpOf[f]  left == ip[i].size - off[f] IN
  /\ CanCall(p, f) /\ lock[i] = 0
  /\ got' = [got EXCEPT ![p] = <<>>]
  /\ IF left <= 0 \/ n = 0
     THEN UNCHANGED <<st, lock>>
     ELSE /\ lock' = [lock EXCEPT ![i] = p]
          /\ Goto(p, [pc |-> "read", f |-> f, ino |-> i, n1 |-> Min({n, left})])
  /\ UNCHANGED <<bitmap, data, ip, dip, off, panicked>>

ReadBlock(p) ==
  LET s == st[p]  b == BlockAt(s.ino, Pos(p))
      dst == s.dst \o [k \in 1 .. Run(p) |-> data[b][Within(p) + k - 1]] IN
  /\ At(p, "read") /\ b # 0
  /\ IF s.tot + Run(p) < s.n1
     THEN /\ Goto(p, [tot |-> s.tot + Run(p), dst |-> dst])
          /\ UNCHANGED <<off, lock, got>>
     ELSE /\ got' = [got EXCEPT ![p] = dst]
          /\ off' = [off EXCEPT ![s.f] = @ + s.n1]
          /\ lock' = [lock EXCEPT ![s.ino] = 0]
          /\ st' = [st EXCEPT ![p] = Idle]
  /\ UNCHANGED <<bitmap, data, ip, dip, calls, panicked>>

-----------------------------------------------------------------------------
(* The inode has lost its last name and is closed by everybody. *)
Remove(p, i) ==
  /\ At(p, "idle") /\ calls[p] < MaxCalls
  /\ \A q \in Proc : st[q].ino # i
  /\ calls' = [calls EXCEPT ![p] = @ + 1]
  /\ Goto(p, [pc |-> "itrunc", ino |-> i, was |-> Bytes(i)])
  /\ UNCHANGED <<bitmap, data, ip, dip, off, lock, got, panicked>>

(* bfree, of an entry that may be empty. *)
BFree(b) == panicked' = (b # 0 /\ b \notin bitmap) /\ bitmap' = bitmap \ {b}

(* Mutant: the indirect block itself is not freed. *)
ITruncKeeps(p) ==
  LET s == st[p]  i == s.ino  k == s.tot
      b == IF k < NDIRECT THEN ip[i].addrs[k]
           ELSE IF Indirect(i) = 0 \/ k = MAXFILE THEN 0
           ELSE data[Indirect(i)][k - NDIRECT] IN
  /\ At(p, "itrunc") /\ k <= MAXFILE
  /\ BFree(b)
  /\ ip' = CASE k < NDIRECT -> [ip EXCEPT ![i].addrs[k] = 0]
             [] k = MAXFILE -> [ip EXCEPT ![i].addrs[NDIRECT] = 0]
             [] OTHER -> ip
  /\ Goto(p, [tot |-> k + 1])
  /\ UNCHANGED <<data, dip, off, lock, got, calls>>

(* itrunc frees the direct blocks, the entries of the indirect block, and  *)
(* the indirect block; j is its loop variable, kept in tot.                *)
ITrunc(p) ==
  LET s == st[p]  i == s.ino  k == s.tot
      b == IF k < NDIRECT THEN ip[i].addrs[k]
           ELSE IF Indirect(i) = 0 THEN 0
           ELSE IF k < MAXFILE THEN data[Indirect(i)][k - NDIRECT] ELSE Indirect(i) IN
  /\ At(p, "itrunc") /\ k <= MAXFILE
  /\ BFree(b)
  /\ ip' = CASE k < NDIRECT -> [ip EXCEPT ![i].addrs[k] = 0]
             [] k = MAXFILE -> [ip EXCEPT ![i].addrs[NDIRECT] = 0]
             [] OTHER -> ip
  /\ Goto(p, [tot |-> k + 1])
  /\ UNCHANGED <<data, dip, off, lock, got, calls>>

(* The inode is written, and opened again as a new file. *)
ITruncEnd(p) ==
  LET i == st[p].ino IN
  /\ At(p, "itrunc") /\ st[p].tot > MAXFILE
  /\ ip' = [ip EXCEPT ![i].size = 0]
  /\ dip' = [dip EXCEPT ![i] = ip'[i]]
  /\ off' = [f \in File |-> IF IpOf[f] = i THEN 0 ELSE off[f]]
  /\ st' = [st EXCEPT ![p] = Idle]
  /\ UNCHANGED <<bitmap, data, lock, got, calls, panicked>>

-----------------------------------------------------------------------------
Next ==
  \E p \in Proc :
    \/ BAlloc(p) \/ FileWrite(p) \/ WriteBlock(p) \/ WriteEnd(p)
    \/ ReadBlock(p) \/ ITrunc(p) \/ ITruncEnd(p)
    \/ \E f \in File, n \in Sizes : CallWrite(p, f, n) \/ FileRead(p, f, n)
    \/ \E i \in Inum : Remove(p, i)

Spec == Init /\ [][Next]_vars

-----------------------------------------------------------------------------
(* The places of an inode for block numbers, with their contents. *)
Places(d) ==
  {<<k, d.addrs[k]>> : k \in 0 .. NDIRECT} \cup
  (IF d.addrs[NDIRECT] = 0 THEN {}
   ELSE {<<NDIRECT + 1 + k, data[d.addrs[NDIRECT]][k]>> : k \in 0 .. NINDIRECT - 1})
Owners(inodes, b) ==
  {<<i, c>> \in Inum \X (0 .. MAXFILE + 1) : <<c, b>> \in Places(inodes[i])}

(* The allocator and the inodes agree (balloc, bfree, bmap, itrunc): no    *)
(* block is in two places, none is freed twice, and when no transaction is *)
(* in progress, which is when the log commits, exactly the blocks of the   *)
(* inodes on the disk are marked: nothing is lost in any sequence of       *)
(* writes and removals.                                                    *)
Truncated == {st[p].ino : p \in {q \in Proc : st[q].pc = "itrunc"}}
BlocksOwned ==
  /\ \A b \in Block :
       Cardinality({o \in Owners(ip, b) : o[1] \notin Truncated}) <= 1
  /\ (\A p \in Proc : st[p].pc \notin {"write", "itrunc"}) =>
        bitmap = {b \in Block : Owners(dip, b) # {}}
  /\ ~panicked

(* A read happens outside a transaction: bmap must find every block of the *)
(* file, so that the inode and its indirect block stay as they are while   *)
(* it lasts, whatever the others write, remove and allocate (readi, bmap). *)
ReadsAllocateNothing ==
  [][\A p \in Proc, i \in Inum :
       st[p].pc = "read" /\ st[p].ino = i => UNCHANGED Places(ip[i])]_vars

(* Files are sequences of bytes, written in whole pieces (ByteFile). *)
Content(i) ==
  LET busy == {p \in Proc : st[p].ino = i /\ st[p].pc \in {"write", "itrunc"}} IN
  IF busy = {} THEN Bytes(i) ELSE st[CHOOSE p \in busy : TRUE].was
Todo(p) == IF st[p].pc \in {"filewrite", "write"}
           THEN [k \in 1 .. st[p].n - st[p].i |-> p + st[p].i + k - 1] ELSE <<>>

Abs == INSTANCE ByteFile
         WITH content <- [i \in Inum |-> Content(i)],
              todo <- [p \in Proc |-> Todo(p)]
FilesAreBytes == Abs!Spec
=============================================================================
