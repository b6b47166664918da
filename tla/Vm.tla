--------------------------------- MODULE Vm ---------------------------------
(***************************************************************************)
(* Physical pages and page tables: kernel/kalloc.c, the user half of       *)
(* kernel/vm.c, and what fork(), exit(), sbrk() and exec() do with them.   *)
(*                                                                         *)
(* A page table belongs to one process, and kmem.lock makes kalloc() and   *)
(* kfree() atomic, so that a system call meets other processes only in how *)
(* many pages are left for it.  It is one step here, in which any number   *)
(* of its kalloc()s succeed (left) before one fails because others have    *)
(* taken the rest.  Every call gives up at its first failure.  Pages are   *)
(* alike: only their number counts, and a page table is the set of its     *)
(* page-table pages and of the user pages mapped in them.                  *)
(***************************************************************************)
EXTENDS Integers, Sequences, FiniteSets, SequencesExt

CONSTANTS Proc,     \* slots of the process table
          NPAGE,    \* pages of physical memory
          PGSIZE,   \* bytes of a page
          BITS,     \* entries of a page-table page
          MaxSz,    \* bound on the size of a process, below TRAPFRAME
          Growth,   \* arguments of sbrk()
          MAXARG,   \* entries of argv in sys_exec()
          Image     \* programs: the ends of the segments exec() loads

\* Virtual addresses of pages.
TRAMPOLINE == BITS ^ 3 - 1
TRAPFRAME == TRAMPOLINE - 1

ASSUME VmAssumption ==
    /\ NPAGE \in Nat /\ PGSIZE \in Nat \ {0} /\ BITS \in Nat \ {0, 1}
    /\ Growth \subseteq Int /\ {MaxSz, MAXARG} \subseteq Nat /\ MaxSz <= TRAPFRAME * PGSIZE
    /\ Image \subseteq Seq(1 .. MaxSz - 2 * PGSIZE)

VARIABLES
    free,    \* length of kmem.freelist
    panic,   \* some panic() was reached
    proc     \* p->trapframe, p->pagetable and p->sz

vars == <<free, panic, proc>>

\* The page-table page at a level that serves va; the root is at level 2.
Table(level, va) == <<level, va \div BITS ^ (level + 1)>>

NoTable == [tables |-> {}, leaves |-> {}]
EmptyTable == [NoTable EXCEPT !.tables = {Table(2, 0)}]
Unused == [trapframe |-> FALSE, pagetable |-> NoTable, sz |-> 0]
IsUsed(pr) == pr.pagetable # NoTable

PGROUNDUP(sz) == (sz + PGSIZE - 1) \div PGSIZE     \* in pages
Pages(from, to) == [i \in 1 .. (IF from < to THEN to - from ELSE 0) |-> from + i - 1]

\* A call in progress: the memory, the page table it works on (pt), and whether
\* the last function returned success.
Working(k, pt) == [free |-> free, left |-> k, panic |-> panic, pt |-> pt, ok |-> TRUE]

Fail(s) == [s EXCEPT !.ok = FALSE]
Panic(s) == [s EXCEPT !.ok = FALSE, !.panic = TRUE]

-----------------------------------------------------------------------------
(* kalloc.c *)

Kalloc(s) ==
    IF s.left = 0 THEN Fail(s) ELSE [s EXCEPT !.free = @ - 1, !.left = @ - 1]

Kfree(s, n) == [s EXCEPT !.free = @ + n]

-----------------------------------------------------------------------------
(* vm.c *)

\* One level of walk() with alloc.
AddTable(s, t) == IF s.ok THEN [s EXCEPT !.pt.tables = @ \cup {t}] ELSE s

Down(s, level, va) ==
    IF ~s.ok \/ Table(level, va) \in s.pt.tables THEN s
    ELSE AddTable(Kalloc(s), Table(level, va))

Walk(s, va) == Down(Down(s, 1, va), 0, va)

\* One page, as all its callers for user memory ask for.
SetLeaf(s, va) ==
    IF ~s.ok THEN s
    ELSE IF va \in s.pt.leaves THEN Panic(s)
    ELSE [s EXCEPT !.pt.leaves = @ \cup {va}]

Mappages(s, va) == SetLeaf(Walk(s, va), va)

Uvmunmap(s, va, npages, do_free) ==
    IF ~(va .. va + npages - 1 \subseteq s.pt.leaves) THEN Panic(s)
    ELSE Kfree([s EXCEPT !.pt.leaves = @ \ (va .. va + npages - 1)],
               IF do_free THEN npages ELSE 0)

Uvmdealloc(s, oldsz, newsz) ==
    IF PGROUNDUP(newsz) < PGROUNDUP(oldsz)
    THEN Uvmunmap(s, PGROUNDUP(newsz), PGROUNDUP(oldsz) - PGROUNDUP(newsz), TRUE)
    ELSE s

\* Mutant of KfreeUnless: the page is kept.
KfreeUnlessKept(s) == s

\* The page goes back if it could not be mapped.
KfreeUnless(s) == IF s.ok THEN s ELSE Kfree(s, 1)

\* A new page at va, or none.
NewPage(s, va) == IF s.left = 0 THEN Fail(s) ELSE KfreeUnless(Mappages(Kalloc(s), va))

\* Grows to newsz, or fails and leaves the old size.
GrowOrUndo(s, first, a) ==
    IF s.ok THEN s ELSE Fail(Uvmdealloc(s, a * PGSIZE, first * PGSIZE))

Uvmalloc(s, oldsz, newsz) ==
    LET Grow(t, a) == IF t.ok THEN GrowOrUndo(NewPage(t, a), PGROUNDUP(oldsz), a) ELSE t
    IN  FoldLeft(Grow, s, Pages(PGROUNDUP(oldsz), PGROUNDUP(newsz)))

\* Frees the page-table pages.
Freewalk(s) ==
    IF s.pt.leaves # {} THEN Panic(s)
    ELSE Kfree([s EXCEPT !.pt = NoTable], Cardinality(s.pt.tables))

Uvmfree(s, sz) == Freewalk(Uvmunmap(s, 0, PGROUNDUP(sz), TRUE))

\* Copies the pages of old, or none of them.
CopyOrUndo(s, a) == IF s.ok THEN s ELSE Fail(Uvmunmap(s, 0, a, TRUE))

Uvmcopy(s, old, sz) ==
    LET Copy(t, a) ==
            IF ~t.ok THEN t
            ELSE IF a \notin old.leaves THEN Panic(t)
            ELSE CopyOrUndo(NewPage(t, a), a)
    IN  FoldLeft(Copy, s, Pages(0, PGROUNDUP(sz)))

-----------------------------------------------------------------------------
(* proc.c *)

\* A page table with the trampoline and the trapframe, or none.
MappedTrapframe(s) ==
    IF s.ok THEN s ELSE Fail(Uvmfree(Uvmunmap(s, TRAMPOLINE, 1, FALSE), 0))

MappedTrampoline(s) ==
    IF s.ok THEN MappedTrapframe(Mappages(s, TRAPFRAME)) ELSE Fail(Uvmfree(s, 0))

ProcPagetable(s) ==
    IF s.left = 0 THEN Fail(s)
    ELSE MappedTrampoline(Mappages([Kalloc(s) EXCEPT !.pt = EmptyTable], TRAMPOLINE))

ProcFreepagetable(s, sz) ==
    Uvmfree(Uvmunmap(Uvmunmap(s, TRAMPOLINE, 1, FALSE), TRAPFRAME, 1, FALSE), sz)

\* The memory without what the slot pr holds.
Release(s, pr) ==
    IF IsUsed(pr)
    THEN ProcFreepagetable([s EXCEPT !.free = @ + 1, !.pt = pr.pagetable], pr.sz)
    ELSE Kfree(s, IF pr.trapframe THEN 1 ELSE 0)

\* What freeproc() leaves in the slot.
FreedSlot(pr) == Unused

\* The trapframe and the page table, or neither: freeproc() of a slot that has
\* only a trapframe.
AllocprocEnd(s) == IF s.ok THEN s ELSE Kfree(s, 1)

Allocproc(s) == IF s.left = 0 THEN Fail(s) ELSE AllocprocEnd(ProcPagetable(Kalloc(s)))

\* The slot that allocproc() has filled.
Allocated(pr, s) == [pr EXCEPT !.trapframe = TRUE, !.pagetable = s.pt]

\* The call ends with memory s, and slot p changed.
Return(s, p, pr) ==
    /\ free' = s.free
    /\ panic' = s.panic
    /\ proc' = [proc EXCEPT ![p] = pr]

\* userinit(): the first process, with one page.
Init ==
    \E init \in Proc :
        LET start == [free |-> NPAGE, left |-> NPAGE, panic |-> FALSE, pt |-> NoTable, ok |-> TRUE]
            s == NewPage(Allocproc(start), 0)
        IN
        /\ free = s.free
        /\ panic = s.panic
        /\ proc = [p \in Proc |-> IF p # init THEN Unused
                                  ELSE [Allocated(Unused, s) EXCEPT !.sz = PGSIZE]]

ForkEnd(s, p, np) ==
    LET slot == Allocated(proc[np], s) IN
    IF s.ok THEN Return(s, np, [slot EXCEPT !.sz = proc[p].sz])
    ELSE Return(Release(s, slot), np, FreedSlot(slot))

ForkCopy(s, p, np) ==
    IF s.ok THEN ForkEnd(Uvmcopy(s, proc[p].pagetable, proc[p].sz), p, np)
    ELSE Return(s, np, FreedSlot(proc[np]))

Fork(p, np, k) ==
    /\ IsUsed(proc[p]) /\ ~IsUsed(proc[np])
    /\ ForkCopy(Allocproc(Working(k, NoTable)), p, np)

\* exit(), and freeproc() by wait(); init does not exit, so that one process is
\* left.
Exit(p) ==
    /\ IsUsed(proc[p])
    /\ \E q \in Proc \ {p} : IsUsed(proc[q])
    /\ Return(Release(Working(0, NoTable), proc[p]), p, FreedSlot(proc[p]))

\* Sizes are unsigned: sz + n below 0 is above every size, and nothing is done.
GrowprocEnd(s, p, sz) ==
    Return(s, p, [proc[p] EXCEPT !.pagetable = s.pt, !.sz = IF s.ok THEN sz ELSE @])

Growproc(p, n, k) ==
    LET sz == proc[p].sz
        s == Working(k, proc[p].pagetable)
    IN
    /\ IsUsed(proc[p])
    /\ sz + n <= MaxSz
    /\ IF n > 0 THEN GrowprocEnd(Uvmalloc(s, sz, sz + n), p, sz + n)
       ELSE IF sz + n < 0 THEN GrowprocEnd(s, p, sz)
       ELSE GrowprocEnd(Uvmdealloc(s, sz, sz + n), p, sz + n)

-----------------------------------------------------------------------------
(* exec.c *)

\* A call r.s that has built an image of size r.sz.
Sized(s, old, new) == [s |-> s, sz |-> IF s.ok THEN new ELSE old]

\* The segments in the order of the file.  One that ends below the size so far
\* changes nothing.
LoadSegments(s, image) ==
    LET Load(r, end) == IF r.s.ok /\ end > r.sz THEN Sized(Uvmalloc(r.s, r.sz, end), r.sz, end)
                                                ELSE r
    IN  FoldLeft(Load, [s |-> s, sz |-> 0], image)

\* Two pages at the next page boundary, for the stack and its guard.
AddStack(r) ==
    LET base == PGROUNDUP(r.sz) * PGSIZE
    IN  IF r.s.ok THEN Sized(Uvmalloc(r.s, base, base + 2 * PGSIZE), base, base + 2 * PGSIZE)
                  ELSE r

\* The new image replaces the old one, or goes; then sys_exec() frees the pages
\* of the arguments.
Commit(r, p, argc) ==
    IF r.s.ok
    THEN Return(Kfree(ProcFreepagetable([r.s EXCEPT !.pt = proc[p].pagetable], proc[p].sz), argc), p,
                [proc[p] EXCEPT !.pagetable = r.s.pt, !.sz = r.sz])
    ELSE Return(Kfree(ProcFreepagetable(r.s, r.sz), argc), p, proc[p])

\* Reading the file may fail after any segment, and the arguments may not fit.
Unless(ok, r) == [r EXCEPT !.s.ok = @ /\ ok]

Exec(s, p, image, argc, readable, fits) ==
    IF s.ok THEN Commit(Unless(fits, AddStack(Unless(readable, LoadSegments(s, image)))), p, argc)
    ELSE Return(Kfree(s, argc), p, proc[p])

\* sys_exec() takes a page for each of n arguments; of MAXARG arguments there
\* is one too many, or one that cannot be fetched.
FetchArgs(s, n) ==
    LET Fetch(t, i) == IF t.ok THEN Kalloc(t) ELSE t
        r == FoldLeft(Fetch, s, Pages(0, n)) IN
    [r EXCEPT !.ok = @ /\ n < MAXARG]

SysExec(p, image, n, k, readable, fits) ==
    LET r == FetchArgs(Working(k, NoTable), n)
        argc == free - r.free IN
    /\ IsUsed(proc[p])
    /\ IF r.ok THEN Exec(ProcPagetable(r), p, image, argc, readable, fits)
       ELSE Return(Kfree(r, argc), p, proc[p])

-----------------------------------------------------------------------------
Next ==
    /\ ~panic
    /\ \E p \in Proc :
        \/ Exit(p)
        \/ \E k \in 0 .. free :
            \/ \E np \in Proc : Fork(p, np, k)
            \/ \E n \in Growth : Growproc(p, n, k)
            \/ \E image \in Image, n \in 0 .. MAXARG, readable, fits \in BOOLEAN :
                   SysExec(p, image, n, k, readable, fits)

Spec == Init /\ [][Next]_vars

-----------------------------------------------------------------------------
(* Safety *)

\* The pages a slot holds: the trapframe, page-table pages and user pages.
Held(pr) ==
    (IF pr.trapframe THEN 1 ELSE 0) + Cardinality(pr.pagetable.tables)
        + Cardinality(pr.pagetable.leaves \ {TRAMPOLINE, TRAPFRAME})

\* Every page is in the free list or held by one process: none is lost and none
\* freed while in use or freed twice, wherever memory ran out in the middle of
\* fork(), sbrk() or exec().
PagesAccounted ==
    free + FoldFunction(+, 0, [p \in Proc |-> Held(proc[p])]) = NPAGE

\* The pages a process has are the ones p->sz promises, with the trampoline and
\* the trapframe above them; uvmcopy(), uvmfree() and copyout() rely on it.
SizeMapped ==
    \A p \in Proc :
        IsUsed(proc[p]) =>
            proc[p].pagetable.leaves = 0 .. PGROUNDUP(proc[p].sz) - 1 \cup {TRAMPOLINE, TRAPFRAME}

\* Physical pages and address spaces agree, and the panics of mappages(),
\* uvmunmap(), freewalk() and uvmcopy() are unreachable.
MemorySound == PagesAccounted /\ SizeMapped /\ ~panic
=============================================================================
