------------------------------- MODULE Memory -------------------------------
(***************************************************************************)
(* The page allocator (kalloc.c), page tables (vm.c), and the calls that   *)
(* build and free the images of processes: sbrk, fork, exec, exit and      *)
(* wait.  Every kalloc is a step of its own and may fail; what is freed    *)
(* under one loop is freed in one step.  Sizes are in bytes of pages of    *)
(* PGSIZE bytes.  The upper two levels of a page table have one page each, *)
(* as all addresses are below PGSIZE * (VaPages).                          *)
(***************************************************************************)
EXTENDS Integers, Sequences, FiniteSets, FiniteSetsExt

CONSTANTS NPROC, NPAGES, PGSIZE,
          VaPages,    \* bound: pages of virtual addresses
          PTPages,    \* pages that one page-table page maps
          Deltas,     \* bound: arguments of sbrk
          Images,     \* bound: the ends of the segments of programs
          MaxCalls    \* bound: calls of sbrk, fork and exec

ASSUME MemoryConstants == {NPROC, NPAGES, PGSIZE, VaPages, PTPages} \subseteq Nat \ {0}

Proc == 1 .. NPROC
Initproc == 1
Page == 1 .. NPAGES
Va == 0 .. VaPages - 1
Round(n) == (n + PGSIZE - 1) \div PGSIZE    \* PGROUNDUP, as a page number

VARIABLES free,     \* the pages on kmem.freelist
          lost,     \* pages that nothing refers to any more
          proc,     \* the process table
          halted,   \* the kernel has stopped
          calls     \* the calls made, up to MaxCalls

vars == <<free, lost, proc, halted, calls>>

(* A page table: its pages on the four levels, and the page and PTE_U of   *)
(* each present PTE.  0 stands for an entry that is not present.           *)
NoPte == [page |-> 0, user |-> FALSE]
NoTable == [pml4 |-> 0, pdp |-> 0, pd |-> 0,
            pt |-> [k \in 0 .. (VaPages - 1) \div PTPages |-> 0],
            pte |-> [va \in Va |-> NoPte]]
Pages(t) ==
  ({t.pml4, t.pdp, t.pd} \cup {t.pt[k] : k \in DOMAIN t.pt}
     \cup {t.pte[va].page : va \in Va}) \ {0}

(* A process: what proc.h keeps, and the call it is in: pc, the table      *)
(* being built, the address reached, the size to reach, the page in hand,  *)
(* the segments still to load, the child, the value returned.  was is the  *)
(* specification's: the image when the call began.                         *)
UNUSED == [state |-> "UNUSED", kstack |-> 0, pgdir |-> NoTable, sz |-> 0, parent |-> 0,
           pc |-> "user", op |-> "", new |-> NoTable, a |-> 0, end |-> 0, mem |-> 0,
           segs |-> <<>>, child |-> 0, ret |-> 0, was |-> <<>>]

(* After userinit and inituvm: one page, at address PGSIZE. *)
Init ==
  /\ proc = [p \in Proc |->
       IF p # Initproc THEN UNUSED
       ELSE [UNUSED EXCEPT !.state = "RUNNABLE", !.kstack = 1, !.sz = 2 * PGSIZE,
               !.pgdir = [NoTable EXCEPT !.pml4 = 2, !.pdp = 4, !.pd = 5, !.pt[0] = 6,
                                         !.pte[1] = [page |-> 3, user |-> TRUE]]]]
  /\ free = Page \ (1 .. 6) /\ lost = {} /\ halted = FALSE /\ calls = 0

Image(p) == [sz |-> proc[p].sz,
             pte |-> [va \in 0 .. Round(proc[p].sz) - 1 |-> proc[p].pgdir.pte[va]]]

At(p, where) == ~halted /\ proc[p].state = "RUNNABLE" /\ proc[p].pc = where
Set(p, s) == proc' = [proc EXCEPT ![p] = s]
Calls(p, where, op) == [proc[p] EXCEPT !.pc = where, !.op = op, !.was = Image(p)]
Returns(s, ret) == [s EXCEPT !.pc = "user", !.op = "", !.new = NoTable, !.a = 0, !.end = 0,
                             !.mem = 0, !.segs = <<>>, !.child = 0, !.ret = ret,
                             !.was = IF ret = 0 THEN <<>> ELSE @]
Call(p) == At(p, "user") /\ calls < MaxCalls /\ calls' = calls + 1
kalloc == Min(free)   \* the head of the list; which page that is does not matter
Kfree(pages) == free' = free \cup (pages \ {0})

-----------------------------------------------------------------------------
(* A variant that frees a page that is still partly used. *)
FreedDown(newsz, oldsz) == {va \in Va : va >= newsz \div PGSIZE /\ va * PGSIZE < oldsz}

(* deallocuvm: the table without the pages from newsz to oldsz. *)
Freed(newsz, oldsz) == {va \in Va : va >= Round(newsz) /\ va * PGSIZE < oldsz}
Dealloc(t, oldsz, newsz) ==
  [t EXCEPT !.pte = [va \in Va |-> IF va \in Freed(newsz, oldsz) THEN NoPte ELSE @[va]]]

(* sbrk.  Growing goes on page by page; shrinking to 0 frees all and then  *)
(* reports a failure.  A process without its first page cannot go on.      *)
Sbrk(p, n) ==
  LET s == proc[p]  sz == s.sz + n  t == Dealloc(s.pgdir, s.sz, sz) IN
  /\ Call(p) /\ sz >= 0 /\ sz <= PGSIZE * VaPages
  /\ \/ /\ n > 0
        /\ Set(p, [Calls(p, "alloc", "sbrk") EXCEPT !.a = Round(s.sz), !.end = sz])
        /\ UNCHANGED free
     \/ /\ n < 0
        /\ Kfree(Pages(s.pgdir) \ Pages(t))
        /\ Set(p, [Returns(Calls(p, "user", "sbrk"), IF sz = 0 THEN -1 ELSE 0) EXCEPT
                     !.pgdir = t, !.sz = IF sz = 0 THEN @ ELSE sz,
                     !.pc = IF t.pte[1] = NoPte THEN "dead" ELSE "user"])
  /\ UNCHANGED <<lost, halted>>

(* fork: allocproc takes a slot, then the kernel stack. *)
AllocProc(p, c) ==
  /\ Call(p) /\ proc[c].state = "UNUSED"
  /\ proc' = [proc EXCEPT ![p] = [Calls(p, "kstack", "fork") EXCEPT !.child = c],
                          ![c].state = "EMBRYO"]
  /\ UNCHANGED <<free, lost, halted>>

AllocStack(p) ==
  LET c == proc[p].child IN
  /\ At(p, "kstack")
  /\ IF free = {}
     THEN /\ proc' = [proc EXCEPT ![p] = Returns(@, -1), ![c] = UNUSED]
          /\ UNCHANGED free
     ELSE /\ proc' = [proc EXCEPT ![p].pc = "setupkvm", ![c].kstack = kalloc]
          /\ free' = free \ {kalloc}
  /\ UNCHANGED <<lost, halted, calls>>

(* exec, up to setupkvm; segs are the ends of the program's segments. *)
Exec(p, segs) ==
  /\ Call(p)
  /\ Set(p, [Calls(p, "setupkvm", "exec") EXCEPT !.segs = segs])
  /\ UNCHANGED <<free, lost, halted>>

(* setupkvm clears the page without asking whether there is one. *)
SetupKvm(p) ==
  LET s == proc[p] IN
  /\ At(p, "setupkvm")
  /\ IF free = {} THEN halted' = TRUE /\ UNCHANGED <<free, proc>>
     ELSE /\ Set(p, [s EXCEPT !.new = [NoTable EXCEPT !.pml4 = kalloc], !.pc = "alloc",
                              !.a = 1, !.end = IF s.op = "fork" THEN s.sz ELSE PGSIZE])
          /\ free' = free \ {kalloc} /\ UNCHANGED halted
  /\ UNCHANGED <<lost, calls>>

-----------------------------------------------------------------------------
(* sbrk grows the process's own table, fork and exec build a new one. *)
Table(s) == IF s.op = "sbrk" THEN s.pgdir ELSE s.new
WithTable(s, t) == IF s.op = "sbrk" THEN [s EXCEPT !.pgdir = t] ELSE [s EXCEPT !.new = t]

(* A variant that forgets the page at hand also in allocuvm. *)
OutOfMemoryLeaks(p) ==
  LET s == proc[p]  t == Dealloc(s.pgdir, s.end, s.sz) IN
  /\ proc' = [q \in Proc |-> CASE q = p -> [Returns(s, -1) EXCEPT !.pgdir = t]
                               [] q # p /\ q = s.child -> UNUSED
                               [] OTHER -> proc[q]]
  /\ Kfree(IF s.op = "sbrk" THEN Pages(s.pgdir) \ Pages(t)
           ELSE IF s.op = "fork" THEN Pages(s.new) \cup {proc[s.child].kstack}
           ELSE Pages(s.new))
  /\ UNCHANGED lost

(* What a call does when there is no page: sbrk frees what it has added,   *)
(* exec and fork the whole new table, fork also the child.  fork forgets   *)
(* the page it was about to map.                                           *)
OutOfMemory(p) ==
  LET s == proc[p]  t == Dealloc(s.pgdir, s.end, s.sz) IN
  CASE s.op = "sbrk" ->
         /\ Kfree((Pages(s.pgdir) \ Pages(t)) \cup {s.mem})
         /\ Set(p, [Returns(s, -1) EXCEPT !.pgdir = t])
         /\ UNCHANGED lost
    [] s.op \in {"exec", "stack"} ->
         /\ Kfree(Pages(s.new) \cup {s.mem}) /\ Set(p, Returns(s, -1))
         /\ UNCHANGED lost
    [] s.op = "fork" ->
         /\ Kfree(Pages(s.new) \cup {proc[s.child].kstack})
         /\ proc' = [proc EXCEPT ![p] = Returns(s, -1), ![s.child] = UNUSED]
         /\ lost' = lost \cup ({s.mem} \ {0})

(* The loops of allocuvm and copyuvm take a page, which mappages then maps.*)
TakePage(p) ==
  IF free = {} THEN OutOfMemory(p)
  ELSE /\ Set(p, [proc[p] EXCEPT !.mem = kalloc, !.pc = "map"])
       /\ free' = free \ {kalloc} /\ UNCHANGED lost

AllocPage(p) ==
  /\ At(p, "alloc") /\ proc[p].op # "fork" /\ proc[p].a * PGSIZE < proc[p].end
  /\ TakePage(p) /\ UNCHANGED <<halted, calls>>

(* copyuvm panics when a page of the parent is missing. *)
CopyPage(p) ==
  LET s == proc[p] IN
  /\ At(p, "alloc") /\ s.op = "fork" /\ s.a * PGSIZE < s.end
  /\ IF s.pgdir.pte[s.a] = NoPte THEN halted' = TRUE /\ UNCHANGED <<free, lost, proc>>
     ELSE TakePage(p) /\ UNCHANGED halted
  /\ UNCHANGED calls

(* walkpgdir makes the missing levels one after the other. *)
WalkPgdir(p) ==
  LET s == proc[p]  t == Table(s)  k == s.a \div PTPages
      Level(new) == Set(p, WithTable(s, new)) /\ free' = free \ {kalloc} /\ UNCHANGED lost
  IN
  /\ At(p, "map") /\ t.pt[k] = 0
  /\ CASE free = {} -> OutOfMemory(p)
       [] free # {} /\ t.pdp = 0 -> Level([t EXCEPT !.pdp = kalloc])
       [] free # {} /\ t.pdp # 0 /\ t.pd = 0 -> Level([t EXCEPT !.pd = kalloc])
       [] OTHER -> Level([t EXCEPT !.pt[k] = kalloc])
  /\ UNCHANGED <<halted, calls>>

(* mappages sets the PTE, and panics when it is set already.  copyuvm      *)
(* keeps the flags of the page it copies.                                  *)
MapPages(p) ==
  LET s == proc[p]  t == Table(s)
      user == IF s.op = "fork" THEN s.pgdir.pte[s.a].user ELSE TRUE IN
  /\ At(p, "map") /\ t.pt[s.a \div PTPages] # 0
  /\ IF t.pte[s.a] # NoPte THEN halted' = TRUE /\ UNCHANGED proc
     ELSE /\ Set(p, [WithTable(s, [t EXCEPT !.pte[s.a] = [page |-> s.mem, user |-> user]])
                       EXCEPT !.mem = 0, !.a = @ + 1, !.pc = "alloc"])
          /\ UNCHANGED halted
  /\ UNCHANGED <<free, lost, calls>>

Finished(p, op) == At(p, "alloc") /\ proc[p].a * PGSIZE >= proc[p].end /\ proc[p].op = op

SbrkEnd(p) ==
  /\ Finished(p, "sbrk")
  /\ Set(p, [Returns(proc[p], 0) EXCEPT !.sz = proc[p].end])
  /\ UNCHANGED <<free, lost, halted, calls>>

ForkEnd(p) ==
  LET s == proc[p] IN
  /\ Finished(p, "fork")
  /\ proc' = [proc EXCEPT ![p] = Returns(@, 0),
                ![s.child] = [@ EXCEPT !.state = "RUNNABLE", !.pgdir = s.new, !.sz = s.sz,
                                       !.parent = p]]
  /\ UNCHANGED <<free, lost, halted, calls>>

(* exec: a segment that ends below the size reached needs no pages.  After *)
(* the last one come the guard page and the stack.                         *)
ExecSegment(p) ==
  LET s == proc[p] IN
  /\ Finished(p, "exec")
  /\ IF s.segs # <<>>
     THEN Set(p, [s EXCEPT !.a = Round(s.end), !.segs = Tail(@),
                           !.end = Max({s.end, Head(s.segs)})])
     ELSE Set(p, [s EXCEPT !.op = "stack", !.a = Round(s.end),
                           !.end = (Round(s.end) + 2) * PGSIZE])
  /\ UNCHANGED <<free, lost, halted, calls>>

(* A variant that replaces the image before it knows that exec succeeds. *)
ExecFailsLate(p) ==
  /\ Finished(p, "exec") \/ Finished(p, "stack")
  /\ Kfree(Pages(proc[p].pgdir))
  /\ Set(p, [Returns(proc[p], -1) EXCEPT !.pgdir = proc[p].new, !.sz = proc[p].end])
  /\ UNCHANGED <<lost, halted, calls>>

(* A segment that cannot be read, or arguments that do not fit. *)
ExecFails(p) ==
  /\ Finished(p, "exec") \/ Finished(p, "stack")
  /\ Kfree(Pages(proc[p].new)) /\ Set(p, Returns(proc[p], -1))
  /\ UNCHANGED <<lost, halted, calls>>

ClearPteU(t, va) == [t EXCEPT !.pte[va].user = FALSE]

ExecCommit(p) ==
  LET s == proc[p] IN
  /\ Finished(p, "stack")
  /\ Set(p, [Returns(s, 0) EXCEPT !.sz = s.end,
               !.pgdir = ClearPteU(s.new, s.end \div PGSIZE - 2)])
  /\ Kfree(Pages(s.pgdir))
  /\ UNCHANGED <<lost, halted, calls>>

-----------------------------------------------------------------------------
(* exit, by a call or because the process cannot go on; init stops the     *)
(* kernel.                                                                 *)
Exit(p) ==
  /\ At(p, "user") \/ At(p, "dead")
  /\ IF p = Initproc THEN halted' = TRUE /\ UNCHANGED proc
     ELSE /\ proc' = [q \in Proc |->
                CASE q = p -> [Returns(proc[p], 0) EXCEPT !.state = "ZOMBIE"]
                  [] q # p /\ proc[q].parent = p -> [proc[q] EXCEPT !.parent = Initproc]
                  [] OTHER -> proc[q]]
          /\ UNCHANGED halted
  /\ UNCHANGED <<free, lost, calls>>

Wait(p, c) ==
  /\ At(p, "user") /\ proc[c].state = "ZOMBIE" /\ proc[c].parent = p
  /\ Kfree(Pages(proc[c].pgdir) \cup {proc[c].kstack})
  /\ Set(c, UNUSED)
  /\ UNCHANGED <<lost, halted, calls>>

Step(p) ==
  \/ \E n \in Deltas : Sbrk(p, n)
  \/ \E segs \in Images : Exec(p, segs)
  \/ \E c \in Proc : AllocProc(p, c) \/ Wait(p, c)
  \/ AllocStack(p) \/ SetupKvm(p) \/ AllocPage(p) \/ CopyPage(p) \/ WalkPgdir(p)
  \/ MapPages(p) \/ SbrkEnd(p) \/ ForkEnd(p) \/ ExecSegment(p) \/ ExecFails(p) \/ ExecCommit(p) \/ Exit(p)

Next == \E p \in Proc : Step(p)
Spec == Init /\ [][Next]_vars

-----------------------------------------------------------------------------
(* Every page is in one place only: on the free list, in one page table at *)
(* one address or level, a kernel stack, in the hand of one call, or lost. *)
(* No path of a failed call frees a page twice or keeps one (allocuvm,     *)
(* copyuvm, exec, fork, wait); only copyuvm loses one.                     *)
Slots(t) == Cardinality({x \in {t.pml4, t.pdp, t.pd} : x # 0})
              + Cardinality({k \in DOMAIN t.pt : t.pt[k] # 0})
              + Cardinality({va \in Va : t.pte[va].page # 0})
Held(s) == ({s.kstack, s.mem} \ {0}) \cup Pages(s.pgdir) \cup Pages(s.new)
PagesOwned ==
  /\ \A p \in Proc : Cardinality(Held(proc[p])) =
       Cardinality({f \in {"kstack", "mem"} : proc[p][f] # 0})
         + Slots(proc[p].pgdir) + Slots(proc[p].new)
  /\ \A p, q \in Proc : p # q => Held(proc[p]) \cap Held(proc[q]) = {}
  /\ \A p \in Proc : Held(proc[p]) \cap (free \cup lost) = {}
  /\ free \cap lost = {}
  /\ Page = free \cup lost \cup UNION {Held(proc[p]) : p \in Proc}

(* A process that runs has the pages from PGSIZE up to its size and none   *)
(* above: copyuvm finds what it copies, growing finds nothing in its way.  *)
ImagePresent ==
  \A p \in Proc :
    proc[p].state = "RUNNABLE" /\ proc[p].pc = "user" =>
      {va \in Va : proc[p].pgdir.pte[va] # NoPte} = 1 .. Round(proc[p].sz) - 1

(* A call that fails leaves the image of its caller as it was, whatever it *)
(* had done when a page was missing; only an sbrk to size 0, after which   *)
(* the process cannot go on, does not (allocuvm, copyuvm, exec).           *)
FailureKeepsImage ==
  \A p \in Proc : At(p, "user") /\ proc[p].ret = -1 => Image(p) = proc[p].was
=============================================================================
