------------------------------- MODULE Inode -------------------------------
(***************************************************************************)
(* The inode cache, directories and path names of fs.c, and the system     *)
(* calls of sysfile.c that change names: open, link, unlink, mkdir, mknod, *)
(* chdir and close.                                                        *)
(*                                                                         *)
(* dinode and dir are what the buffer cache shows of the disk.  Every call *)
(* is a transaction, and the log commits when none is in progress, so what *)
(* a restart finds is dinode and dir at some Quiescent moment.             *)
(*                                                                         *)
(* iget keeps at most one cache entry per inode in use, so entries are     *)
(* named by their inodes; an entry with ref 0 is free.  An action is one   *)
(* hold of icache.lock, or a stretch of code between an ilock and the      *)
(* iunlock that ends it.                                                   *)
(***************************************************************************)
EXTENDS Integers, Sequences, FiniteSets, FiniteSetsExt, TLC

CONSTANTS Proc,
          NInum,     \* inodes on the disk; the first is the root directory
          NINODE,    \* entries of the inode cache
          Name,      \* names of directory entries, besides "." and ".."
          Mixes      \* bound: the first disk and the calls each process makes

Inum == 1 .. NInum
Root == 1
Dots == {".", ".."}
Types == {"file", "dir", "dev"}

ASSUME InodeConstants ==
  /\ NInum \in Nat \ {0} /\ NINODE \in Nat \ {0} /\ 0 \notin Proc
  /\ Dots \cap Name = {}

VARIABLES
  dinode,    \* type and nlink of the inodes on the disk; type "none" is free
  dir,       \* the entries of the directories: an inode or 0
  ref, valid, inode, lock,   \* the inode cache
  st,        \* where each process is in its call
  cwd, file, \* the current directory of a process and its open file, or 0
  calls,     \* the calls each process makes in this behaviour
  panicked

disk == <<dinode, dir>>
icache == <<ref, valid, inode, lock>>
vars == <<disk, icache, st, cwd, file, calls, panicked>>

NoDir == [n \in Name \cup Dots |-> 0]
Free == [type |-> "none", nlink |-> 0]

(* A process outside the kernel.  pc names a place in the code, locked says *)
(* whether the ilock of that place has been passed.  cur is the inode namex *)
(* has come to, dp and ip are the variables of the system calls, inum is    *)
(* what ialloc has found, put is the argument of iput and ret the place it  *)
(* returns to.                                                              *)
Idle == [pc |-> "idle", locked |-> FALSE, op |-> "", path |-> <<>>, new |-> <<>>,
         cur |-> 0, dp |-> 0, ip |-> 0, inum |-> 0, put |-> 0, ret |-> ""]

(* A disk an earlier boot has left, and processes in its root directory. *)
Init ==
  /\ \E m \in Mixes : dinode = m.dinode /\ dir = m.dir /\ calls = m.calls
  /\ ref = [i \in Inum |-> IF i = Root THEN Cardinality(Proc) ELSE 0]
  /\ valid = [i \in Inum |-> FALSE]
  /\ inode = [i \in Inum |-> Free]
  /\ lock = [i \in Inum |-> 0]
  /\ st = [p \in Proc |-> Idle]
  /\ cwd = [p \in Proc |-> Root] /\ file = [p \in Proc |-> 0]
  /\ panicked = FALSE

-----------------------------------------------------------------------------
(* A process goes on with the fields f of its state changed. *)
Goto(p, f) == st' = [st EXCEPT ![p] = f @@ [@ EXCEPT !.locked = FALSE]]
At(p, where) == st[p].pc = where /\ ~panicked
Inside(p, where) == At(p, where) /\ st[p].locked

(* iget and idup: a reference to the entry of inode i, if there is one. *)
HasEntry(i) ==
  ref[i] > 0 \/ Cardinality({j \in Inum : ref[j] > 0}) < NINODE
IGet(i) ==
  /\ panicked' = ~HasEntry(i)
  /\ ref' = [ref EXCEPT ![i] = @ + 1]
  /\ valid' = [valid EXCEPT ![i] = @ /\ ref[i] > 0]

(* iunlock, and the call of iput that follows in iunlockput. *)
Unlock(locks) == lock' = [i \in Inum |-> IF i \in locks THEN 0 ELSE lock[i]]
Put(i, where) == [put |-> i, ret |-> where, pc |-> "put"]

(* iupdate after ip->nlink has changed by d. *)
AddLink(i, d) ==
  /\ inode' = [inode EXCEPT ![i].nlink = @ + d]
  /\ dinode' = [dinode EXCEPT ![i] = inode'[i]]

(* The calls of ilock, and what they lock. *)
LockOf(s) ==
  CASE s.pc = "namex" -> s.cur
    [] s.pc \in {"link_dir", "unlink", "create"} -> s.dp
    [] OTHER -> s.ip
LockCalls == {"open", "chdir", "link", "link_dir", "link_bad", "unlink",
              "unlink_ip", "create", "create_ip", "exists"}

ILock(p) ==
  LET s == st[p]  i == LockOf(s) IN
  /\ ~panicked /\ ~s.locked
  /\ s.pc \in LockCalls \/ (s.pc = "namex" /\ s.path # <<>>)
  /\ lock[i] = 0
  /\ lock' = [lock EXCEPT ![i] = p]
  /\ valid' = [valid EXCEPT ![i] = TRUE]
  /\ inode' = [inode EXCEPT ![i] = IF valid[i] THEN @ ELSE dinode[i]]
  /\ panicked' = (ref[i] < 1 \/ (~valid[i] /\ dinode[i].type = "none"))
  /\ Goto(p, [locked |-> TRUE])
  /\ UNCHANGED <<disk, ref, cwd, file, calls>>

-----------------------------------------------------------------------------
(* Mutant: the last reference frees the inode, whatever its links. *)
IPutLinked(p) ==
  LET i == st[p].put IN
  /\ At(p, "put")
  /\ IF ref[i] = 1 /\ valid[i]
     THEN Goto(p, [pc |-> "itrunc"]) /\ UNCHANGED ref
     ELSE /\ ref' = [ref EXCEPT ![i] = @ - 1]
          /\ Goto(p, [pc |-> st[p].ret, put |-> 0, ret |-> ""])
  /\ UNCHANGED <<disk, valid, inode, lock, cwd, file, calls, panicked>>

(* Mutant: an unlinked inode is freed by any reference that is dropped. *)
IPutEarly(p) ==
  LET i == st[p].put IN
  /\ At(p, "put")
  /\ IF valid[i] /\ inode[i].nlink = 0
     THEN Goto(p, [pc |-> "itrunc"]) /\ UNCHANGED ref
     ELSE /\ ref' = [ref EXCEPT ![i] = @ - 1]
          /\ Goto(p, [pc |-> st[p].ret, put |-> 0, ret |-> ""])
  /\ UNCHANGED <<disk, valid, inode, lock, cwd, file, calls, panicked>>

(* iput: the last reference to an inode without links frees it.  The test  *)
(* is made under icache.lock, the inode is freed without it.               *)
IPut(p) ==
  LET i == st[p].put IN
  /\ At(p, "put")
  /\ IF ref[i] = 1 /\ valid[i] /\ inode[i].nlink = 0
     THEN Goto(p, [pc |-> "itrunc"]) /\ UNCHANGED ref
     ELSE /\ ref' = [ref EXCEPT ![i] = @ - 1]
          /\ Goto(p, [pc |-> st[p].ret, put |-> 0, ret |-> ""])
  /\ UNCHANGED <<disk, valid, inode, lock, cwd, file, calls, panicked>>

(* itrunc discards the content; then the inode is free on the disk. *)
ITrunc(p) ==
  LET i == st[p].put IN
  /\ At(p, "itrunc")
  /\ dir' = [dir EXCEPT ![i] = NoDir]
  /\ inode' = [inode EXCEPT ![i].type = "none"]
  /\ dinode' = [dinode EXCEPT ![i] = inode'[i]]
  /\ Goto(p, [pc |-> "ifreed"])
  /\ UNCHANGED <<ref, valid, lock, cwd, file, calls, panicked>>

IPutEnd(p) ==
  LET i == st[p].put IN
  /\ At(p, "ifreed")
  /\ valid' = [valid EXCEPT ![i] = FALSE]
  /\ ref' = [ref EXCEPT ![i] = @ - 1]
  /\ Goto(p, [pc |-> st[p].ret, put |-> 0, ret |-> ""])
  /\ UNCHANGED <<disk, inode, lock, cwd, file, calls, panicked>>

-----------------------------------------------------------------------------
(* namex.  A call looks for the parent of its last path element, except    *)
(* open and chdir, and link while it has not found the old name.           *)
Absolute(path) == path # <<>> /\ Head(path) = "/"
Elem(path) == Head(path)
SkipElem(path) == Tail(path)
NameiParent(s) ==
  s.op \in {"unlink", "create", "mkdir", "mknod"}
  \/ (s.op = "link" /\ s.ip # 0)

Found(s) == CASE s.op \in {"create", "mkdir", "mknod"} -> "create"
              [] s.op = "link" /\ NameiParent(s) -> "link_dir"
              [] OTHER -> s.op
Missing(s) == IF s.op = "link" /\ NameiParent(s) THEN "link_bad" ELSE "end"

(* The first inode of a path: that of the root or of the process. *)
NamexStart(p, path, f) ==
  LET i == IF Absolute(path) THEN Root ELSE cwd[p] IN
  /\ IGet(i)
  /\ Goto(p, [pc |-> "namex", cur |-> i,
              path |-> IF Absolute(path) THEN SkipElem(path) ELSE path] @@ f)

NamexStep(p) ==
  LET s == st[p]  i == s.cur  next == dir[i][Elem(s.path)] IN
  /\ Inside(p, "namex")
  /\ Unlock({i})
  /\ \/ /\ inode[i].type # "dir"
        /\ Goto(p, [cur |-> 0] @@ Put(i, Missing(s)))
        /\ UNCHANGED <<ref, valid, panicked>>
     \/ /\ inode[i].type = "dir" /\ NameiParent(s) /\ Len(s.path) = 1
        /\ Goto(p, [pc |-> Found(s), cur |-> 0, dp |-> i])
        /\ UNCHANGED <<ref, valid, panicked>>
     \/ /\ inode[i].type = "dir" /\ ~(NameiParent(s) /\ Len(s.path) = 1)
        /\ IF next = 0
           THEN /\ Goto(p, [cur |-> 0] @@ Put(i, Missing(s)))
                /\ UNCHANGED <<ref, valid, panicked>>
           ELSE /\ IGet(next)
                /\ Goto(p, [cur |-> next, path |-> SkipElem(s.path)]
                             @@ Put(i, "namex"))
  /\ UNCHANGED <<disk, inode, cwd, file, calls>>

NamexEnd(p) ==
  LET s == st[p] IN
  /\ At(p, "namex") /\ s.path = <<>>
  /\ IF NameiParent(s)
     THEN Goto(p, [cur |-> 0] @@ Put(s.cur, Missing(s)))
     ELSE Goto(p, [pc |-> Found(s), cur |-> 0, ip |-> s.cur])
  /\ UNCHANGED <<disk, icache, cwd, file, calls, panicked>>

-----------------------------------------------------------------------------
(* begin_op and the start of a call with the name c.path.  The other calls *)
(* of argstr, argint and argfd have no effect.                             *)
Begin(p, c) ==
  /\ At(p, "idle") /\ c \in calls[p] /\ c.op # "close"
  /\ NamexStart(p, c.path, [op |-> c.op, new |-> c.new])
  /\ UNCHANGED <<disk, inode, lock, cwd, file, calls>>

(* end_op, and the return to user space. *)
End(p) ==
  /\ At(p, "end")
  /\ st' = [st EXCEPT ![p] = Idle]
  /\ UNCHANGED <<disk, icache, cwd, file, calls, panicked>>

(* sys_open from the ilock on: filealloc and fdalloc fail when the table   *)
(* of the process is full.  A directory may only be opened for reading.    *)
Open(p) ==
  LET i == st[p].ip IN
  /\ Inside(p, "open")
  /\ Unlock({i})
  /\ \/ /\ file[p] = 0
        /\ file' = [file EXCEPT ![p] = i]
        /\ Goto(p, [pc |-> "end", ip |-> 0])
     \/ /\ file[p] # 0 \/ inode[i].type = "dir"
        /\ Goto(p, [ip |-> 0] @@ Put(i, "end"))
        /\ UNCHANGED file
  /\ UNCHANGED <<disk, ref, valid, inode, cwd, calls, panicked>>

(* sys_close and fileclose of the last descriptor of an inode. *)
Close(p, c) ==
  /\ At(p, "idle") /\ c \in calls[p] /\ c.op = "close" /\ file[p] # 0
  /\ file' = [file EXCEPT ![p] = 0]
  /\ Goto(p, [op |-> "close"] @@ Put(file[p], "end"))
  /\ UNCHANGED <<disk, icache, cwd, calls, panicked>>

(* sys_chdir gives the old directory back. *)
Chdir(p) ==
  LET i == st[p].ip IN
  /\ Inside(p, "chdir")
  /\ Unlock({i})
  /\ IF inode[i].type = "dir"
     THEN /\ cwd' = [cwd EXCEPT ![p] = i]
          /\ Goto(p, [ip |-> 0] @@ Put(cwd[p], "end"))
     ELSE Goto(p, [ip |-> 0] @@ Put(i, "end")) /\ UNCHANGED cwd
  /\ UNCHANGED <<disk, ref, valid, inode, file, calls, panicked>>

-----------------------------------------------------------------------------
(* sys_link raises nlink before it looks for the directory of the new name *)
(* and takes it back when the name cannot be made.                         *)
Link(p) ==
  LET s == st[p]  i == s.ip IN
  /\ Inside(p, "link")
  /\ Unlock({i})
  /\ \/ /\ inode[i].type = "dir"
        /\ Goto(p, [ip |-> 0] @@ Put(i, "end"))
        /\ UNCHANGED <<dinode, inode, ref, valid, panicked>>
     \/ /\ inode[i].type # "dir"
        /\ AddLink(i, 1)
        /\ NamexStart(p, s.new, <<>>)
  /\ UNCHANGED <<dir, cwd, file, calls>>

(* Mutant: the inode that has the name already is not put. *)
LinkDirLeaks(p) ==
  LET s == st[p]  d == s.dp  n == Elem(s.path)  old == dir[d][n] IN
  /\ Inside(p, "link_dir")
  /\ IF old = 0
     THEN /\ dir' = [dir EXCEPT ![d][n] = s.ip]
          /\ Unlock({d})
          /\ Goto(p, [dp |-> 0] @@ Put(d, "link_done"))
          /\ UNCHANGED <<ref, valid, panicked>>
     ELSE /\ IGet(old)
          /\ Goto(p, [pc |-> "link_refused"])
          /\ UNCHANGED <<dir, lock>>
  /\ UNCHANGED <<dinode, inode, cwd, file, calls>>

(* dirlink: a name that is present is looked up, put and refused. *)
LinkDir(p) ==
  LET s == st[p]  d == s.dp  n == Elem(s.path)  old == dir[d][n] IN
  /\ Inside(p, "link_dir")
  /\ IF old = 0
     THEN /\ dir' = [dir EXCEPT ![d][n] = s.ip]
          /\ Unlock({d})
          /\ Goto(p, [dp |-> 0] @@ Put(d, "link_done"))
          /\ UNCHANGED <<ref, valid, panicked>>
     ELSE /\ IGet(old)
          /\ Goto(p, Put(old, "link_refused"))
          /\ UNCHANGED <<dir, lock>>
  /\ UNCHANGED <<dinode, inode, cwd, file, calls>>

LinkReturn(p) ==
  LET s == st[p] IN
  /\ \/ /\ At(p, "link_done")
        /\ Goto(p, [ip |-> 0] @@ Put(s.ip, "end")) /\ UNCHANGED lock
     \/ /\ At(p, "link_refused")
        /\ Unlock({s.dp})
        /\ Goto(p, [dp |-> 0] @@ Put(s.dp, "link_bad"))
  /\ UNCHANGED <<disk, ref, valid, inode, cwd, file, calls, panicked>>

(* Mutant: the link that could not be made stays counted. *)
LinkBadCounted(p) ==
  LET i == st[p].ip IN
  /\ Inside(p, "link_bad")
  /\ Unlock({i})
  /\ Goto(p, [ip |-> 0] @@ Put(i, "end"))
  /\ UNCHANGED <<disk, inode, ref, valid, cwd, file, calls, panicked>>

LinkBad(p) ==
  LET i == st[p].ip IN
  /\ Inside(p, "link_bad")
  /\ AddLink(i, -1)
  /\ Unlock({i})
  /\ Goto(p, [ip |-> 0] @@ Put(i, "end"))
  /\ UNCHANGED <<dir, ref, valid, cwd, file, calls, panicked>>

-----------------------------------------------------------------------------
(* sys_unlink holds the directory while it locks the inode of the name. *)
Unlink(p) ==
  LET s == st[p]  d == s.dp  n == Elem(s.path)  i == dir[d][n] IN
  /\ Inside(p, "unlink")
  /\ IF n \in Dots \/ i = 0
     THEN /\ Unlock({d})
          /\ Goto(p, [dp |-> 0] @@ Put(d, "end"))
          /\ UNCHANGED <<ref, valid, panicked>>
     ELSE /\ IGet(i)
          /\ Goto(p, [pc |-> "unlink_ip", ip |-> i])
          /\ UNCHANGED lock
  /\ UNCHANGED <<disk, inode, cwd, file, calls>>

IsDirEmpty(i) == \A n \in Name : dir[i][n] = 0

UnlinkIp(p) ==
  LET s == st[p]  d == s.dp  i == s.ip  isdir == inode[i].type = "dir" IN
  /\ Inside(p, "unlink_ip")
  /\ panicked' = (inode[i].nlink < 1)
  /\ \/ /\ isdir /\ ~IsDirEmpty(i)
        /\ Unlock({i})
        /\ Goto(p, [ip |-> 0] @@ Put(i, "unlink_bad"))
        /\ UNCHANGED <<disk, inode>>
     \/ /\ ~(isdir /\ ~IsDirEmpty(i))
        /\ dir' = [dir EXCEPT ![d][Elem(s.path)] = 0]
        /\ IF isdir THEN AddLink(d, -1) ELSE UNCHANGED <<dinode, inode>>
        /\ Unlock({d})
        /\ Goto(p, [dp |-> 0] @@ Put(d, "unlink_dec"))
  /\ UNCHANGED <<ref, valid, cwd, file, calls>>

(* Mutant: the failing path puts the directory without unlocking it. *)
UnlinkReturnLocked(p) ==
  LET s == st[p] IN
  /\ \/ /\ At(p, "unlink_bad")
        /\ Goto(p, [dp |-> 0] @@ Put(s.dp, "end"))
        /\ UNCHANGED <<dinode, inode, lock>>
     \/ /\ At(p, "unlink_dec")
        /\ AddLink(s.ip, -1)
        /\ Unlock({s.ip})
        /\ Goto(p, [ip |-> 0] @@ Put(s.ip, "end"))
  /\ UNCHANGED <<dir, ref, valid, cwd, file, calls, panicked>>

UnlinkReturn(p) ==
  LET s == st[p] IN
  /\ \/ /\ At(p, "unlink_bad")
        /\ Unlock({s.dp})
        /\ Goto(p, [dp |-> 0] @@ Put(s.dp, "end"))
        /\ UNCHANGED <<dinode, inode>>
     \/ /\ At(p, "unlink_dec")
        /\ AddLink(s.ip, -1)
        /\ Unlock({s.ip})
        /\ Goto(p, [ip |-> 0] @@ Put(s.ip, "end"))
  /\ UNCHANGED <<dir, ref, valid, cwd, file, calls, panicked>>

-----------------------------------------------------------------------------
(* create, for sys_open with O_CREATE, sys_mkdir and sys_mknod. *)
TypeOf(op) == CASE op = "mkdir" -> "dir" [] op = "mknod" -> "dev"
                [] OTHER -> "file"

Create(p) ==
  LET s == st[p]  d == s.dp  i == dir[d][Elem(s.path)] IN
  /\ Inside(p, "create")
  /\ IF i # 0
     THEN /\ IGet(i)
          /\ Unlock({d})
          /\ Goto(p, [dp |-> 0, ip |-> i] @@ Put(d, "exists"))
     ELSE /\ Goto(p, [pc |-> "ialloc"])
          /\ UNCHANGED <<ref, valid, lock, panicked>>
  /\ UNCHANGED <<disk, inode, cwd, file, calls>>

Exists(p) ==
  LET s == st[p]  i == s.ip IN
  /\ Inside(p, "exists")
  /\ IF s.op = "create" /\ inode[i].type = "file"
     THEN Goto(p, [pc |-> "open", locked |-> TRUE]) /\ UNCHANGED lock
     ELSE Unlock({i}) /\ Goto(p, [ip |-> 0] @@ Put(i, "end"))
  /\ UNCHANGED <<disk, ref, valid, inode, cwd, file, calls, panicked>>

(* ialloc takes the first inode that is free on the disk. *)
IAlloc(p) ==
  LET free == {i \in Inum : dinode[i].type = "none"} IN
  /\ At(p, "ialloc")
  /\ IF free = {}
     THEN panicked' = TRUE /\ UNCHANGED <<dinode, st>>
     ELSE /\ dinode' = [dinode EXCEPT ![Min(free)] =
                         [type |-> TypeOf(st[p].op), nlink |-> 0]]
          /\ Goto(p, [pc |-> "ialloc_get", inum |-> Min(free)])
          /\ UNCHANGED panicked
  /\ UNCHANGED <<dir, icache, cwd, file, calls>>

IAllocGet(p) ==
  LET i == st[p].inum IN
  /\ At(p, "ialloc_get")
  /\ IGet(i)
  /\ Goto(p, [pc |-> "create_ip", ip |-> i, inum |-> 0])
  /\ UNCHANGED <<disk, inode, lock, cwd, file, calls>>

CreateIp(p) ==
  LET s == st[p]  d == s.dp  i == s.ip  isdir == s.op = "mkdir" IN
  /\ Inside(p, "create_ip")
  /\ inode' = [inode EXCEPT ![i].nlink = 1,
                            ![d].nlink = IF isdir THEN @ + 1 ELSE @]
  /\ dinode' = [dinode EXCEPT ![i] = inode'[i],
                              ![d] = IF isdir THEN inode'[d] ELSE @]
  /\ dir' = [dir EXCEPT ![i] = IF isdir THEN [NoDir EXCEPT !["."] = i, ![".."] = d]
                               ELSE @,
                        ![d][Elem(s.path)] = i]
  /\ Unlock({d})
  /\ Goto(p, [dp |-> 0] @@ Put(d, "created"))
  /\ UNCHANGED <<ref, valid, cwd, file, calls, panicked>>

Created(p) ==
  LET s == st[p] IN
  /\ At(p, "created")
  /\ IF s.op = "create"
     THEN Goto(p, [pc |-> "open", locked |-> TRUE]) /\ UNCHANGED lock
     ELSE Unlock({s.ip}) /\ Goto(p, [ip |-> 0] @@ Put(s.ip, "end"))
  /\ UNCHANGED <<disk, ref, valid, inode, cwd, file, calls, panicked>>

-----------------------------------------------------------------------------
(* The steps of a call in progress. *)
Progress(p) ==
  \/ ILock(p) \/ IPut(p) \/ ITrunc(p) \/ IPutEnd(p)
  \/ NamexStep(p) \/ NamexEnd(p) \/ End(p)
  \/ Open(p) \/ Chdir(p)
  \/ Link(p) \/ LinkDir(p) \/ LinkReturn(p) \/ LinkBad(p)
  \/ Unlink(p) \/ UnlinkIp(p) \/ UnlinkReturn(p)
  \/ Create(p) \/ Exists(p) \/ IAlloc(p) \/ IAllocGet(p) \/ CreateIp(p)
  \/ Created(p)

Next ==
  \E p \in Proc :
    Progress(p) \/ \E c \in calls[p] : Begin(p, c) \/ Close(p, c)

Spec == Init /\ [][Next]_vars

-----------------------------------------------------------------------------
Linked(d) == dinode[d].type = "dir" /\ dinode[d].nlink > 0
Entries(i) == {e \in Inum \X (Name \cup Dots) : Linked(e[1]) /\ dir[e[1]][e[2]] = i}
Quiescent == \A p \in Proc : st[p].pc = "idle"

(* The pointers to the cache entry of i that process p holds. *)
Pointers(p, i) ==
  Quantify({"cur", "dp", "ip", "put"}, LAMBDA v : st[p][v] = i)
    + (IF cwd[p] = i THEN 1 ELSE 0) + (IF file[p] = i THEN 1 ELSE 0)

(* ref tracks the number of in-memory pointers to an entry (fs.c:117-121): *)
(* no path through the calls, failing ones included, loses or leaks one.   *)
RefsHeld == \A i \in Inum : ref[i] = MapThenSumSet(LAMBDA p : Pointers(p, i), Proc)

(* When no call is in progress, which is when the log commits, nlink of an *)
(* inode on the disk is the number of names it has in directories that are *)
(* still part of the tree; "." is not counted (create, sys_link,           *)
(* sys_unlink).  It holds as long as nothing is linked or created in a     *)
(* directory that another process removes meanwhile: sys_link and create   *)
(* do not look whether the directory they have locked is still linked.     *)
LinksCounted ==
  Quiescent =>
    \A i \in Inum :
      dinode[i].type # "none" =>
        dinode[i].nlink = Cardinality({e \in Entries(i) : e[2] # "."})

(* The assertions of ilock ("ilock: no type"), sys_unlink ("unlink: nlink  *)
(* < 1") and iget ("iget: no inodes") hold.                                *)
AssertionsHold == ~panicked

(* Every name in the tree leads to an inode that is allocated on the disk, *)
(* at every step of link, unlink, create and iput, so that no assertion    *)
(* about an inode that was looked up fails.                                *)
NamesLive ==
  AssertionsHold /\ \A i \in Inum : Entries(i) # {} => dinode[i].type # "none"

(* iput frees an inode on the disk only when it has no name and nobody     *)
(* else holds a pointer to it (the comments on iput and itrunc).           *)
FreedUnused ==
  [][\A i \in Inum :
       dinode[i].type # "none" /\ dinode'[i].type = "none"
         => Entries(i) = {} /\ ref[i] = 1]_vars

(* unlink and create lock an inode while they hold its directory: no       *)
(* processes wait for each other's inodes in a circle.                     *)
WaitsFor(p, q) ==
  /\ ~st[p].locked /\ st[p].pc \in LockCalls \cup {"namex"}
  /\ ~(st[p].pc = "namex" /\ st[p].path = <<>>)
  /\ lock[LockOf(st[p])] = q
NoWaitCycle ==
  \A S \in (SUBSET Proc) \ {{}} : \E p \in S : \A q \in S : ~WaitsFor(p, q)
=============================================================================
