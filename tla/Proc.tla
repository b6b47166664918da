-------------------------------- MODULE Proc --------------------------------
(***************************************************************************)
(* Processes of kernel/proc.c: the per-CPU scheduler, the hand-off of      *)
(* p->lock across swtch(), sleep() and wakeup() as wait() and exit() use   *)
(* them, fork(), exit(), wait(), kill(), and the points of kernel/trap.c   *)
(* where a process notices that it was killed or loses its CPU.            *)
(*                                                                         *)
(* A step is one critical section of a lock that is taken and dropped      *)
(* inside it, or the part of a longer critical section up to the next      *)
(* lock operation.  plock and wlock are the spinlocks that stay held from  *)
(* one step to another; as in struct spinlock the owner is a CPU.          *)
(***************************************************************************)
EXTENDS Integers

CONSTANTS NPROC,     \* slots of the process table
          CPU,       \* the harts
          MaxPid,    \* bound: no fork() is called once nextpid exceeds it
          KillPids   \* the pids user programs pass to kill()

ASSUME ProcAssumption ==
    /\ NPROC \in Nat \ {0}
    /\ MaxPid \in Nat
    /\ KillPids \subseteq Nat
    /\ -1 \notin CPU

NIL == -1            \* a null struct proc pointer, channel or lock owner
Slot == 0 .. NPROC - 1
Index == 0 .. NPROC  \* a loop over the table, or its end
initproc == 0        \* userinit() takes the first slot

VARIABLES
    state,           \* p->state
    chan,            \* p->chan: the slot whose address is slept on
    killed,          \* p->killed
    pid,             \* p->pid
    parent,          \* p->parent
    nextpid,         \* next pid handed out by allocpid()
    plock,           \* owner of p->lock
    wlock,           \* owner of wait_lock
    curproc,         \* c->proc
    mode,            \* which code the CPU is in
    scan,            \* the scheduler's loop variable p
    pc,              \* next step of the kernel thread
    idx,             \* the thread's loop variable over the table; fork()'s np
    victim           \* kill()'s argument

table == <<state, chan, killed, pid, parent, nextpid>>
locks == <<plock, wlock>>
cpus  == <<curproc, mode, scan>>
vars  == <<table, locks, cpus, pc, idx, victim>>

ProcState == {"UNUSED", "USED", "SLEEPING", "RUNNABLE", "RUNNING", "ZOMBIE"}

\* "swtch_in": the scheduler has called swtch() and the thread has not yet
\* released p->lock; "swtch_out": sched() has called swtch() and the scheduler
\* has not yet released p->lock.
Mode == {"scheduler", "swtch_in", "thread", "swtch_out"}

\* The steps a thread takes with wait_lock held, and those that acquire it.
WaitLockPC == {"exit_reparent", "exit_wakeinit", "exit_wakeparent",
               "exit_zombie", "wait_scan", "wait_decide", "sleep",
               "sleep_switch"}
WantsWaitLockPC == {"fork_parent", "exit", "wait", "sleep_wake"}

PC == WaitLockPC \cup WantsWaitLockPC \cup
      {"user", "sysret", "fork_alloc", "fork_copy", "fork_run", "kill",
       "panic", "zombie"}

TypeOK ==
    /\ state \in [Slot -> ProcState]
    /\ chan \in [Slot -> Slot \cup {NIL}]
    /\ killed \in [Slot -> BOOLEAN]
    /\ pid \in [Slot -> Nat]
    /\ parent \in [Slot -> Slot \cup {NIL}]
    /\ nextpid \in Nat
    /\ plock \in [Slot -> CPU \cup {NIL}]
    /\ wlock \in CPU \cup {NIL}
    /\ curproc \in [CPU -> Slot \cup {NIL}]
    /\ mode \in [CPU -> Mode]
    /\ scan \in [CPU -> Slot]
    /\ pc \in [Slot -> PC]
    /\ idx \in [Slot -> Index]
    /\ victim \in [Slot -> Nat]

\* main() has run userinit() on hart 0: the first slot holds a RUNNABLE init
\* with pid 1, and every CPU has entered scheduler().
Init ==
    /\ state = [p \in Slot |-> IF p = initproc THEN "RUNNABLE" ELSE "UNUSED"]
    /\ pid = [p \in Slot |-> IF p = initproc THEN 1 ELSE 0]
    /\ chan = [p \in Slot |-> NIL]
    /\ killed = [p \in Slot |-> FALSE]
    /\ parent = [p \in Slot |-> NIL]
    /\ nextpid = 2
    /\ plock = [p \in Slot |-> NIL]
    /\ wlock = NIL
    /\ curproc = [c \in CPU |-> NIL]
    /\ mode = [c \in CPU |-> "scheduler"]
    /\ scan = [c \in CPU |-> 0]
    /\ pc = [p \in Slot |-> "user"]
    /\ idx = [p \in Slot |-> 0]
    /\ victim = [p \in Slot |-> 0]

-----------------------------------------------------------------------------
(* Locks and common code *)

\* A critical section of p->lock that ends within the step.
Free(p) == plock[p] = NIL

\* Mutant of Acquire: the test-and-set does not spin.
AcquireNoSpin(c, p) == plock' = [plock EXCEPT ![p] = c]

Acquire(c, p) == Free(p) /\ plock' = [plock EXCEPT ![p] = c]
Release(p) == plock' = [plock EXCEPT ![p] = NIL]
AcquireWait(c) == wlock = NIL /\ wlock' = c
ReleaseWait == wlock' = NIL

\* The kernel thread of p executes on CPU c, and is about to take step l.
On(c, p) == mode[c] = "thread" /\ curproc[c] = p
At(c, p, l) == On(c, p) /\ pc[p] = l
Goto(p, l) == pc' = [pc EXCEPT ![p] = l]

\* mycpu()->noff is 0: CPU c holds no spinlock, so a timer interrupt can come.
NoSpin(c) == wlock # c /\ \A p \in Slot : plock[p] # c

\* The system call of p returns to usertrap() and its locals are gone.
Return(p) ==
    /\ Goto(p, "sysret")
    /\ idx' = [idx EXCEPT ![p] = 0]
    /\ victim' = [victim EXCEPT ![p] = 0]

SetState(p, s) == state' = [state EXCEPT ![p] = s]

\* Mutant of Freeproc: p->killed survives.
FreeprocKeepsKilled(p) ==
    /\ SetState(p, "UNUSED")
    /\ chan' = [chan EXCEPT ![p] = NIL]
    /\ pid' = [pid EXCEPT ![p] = 0]
    /\ parent' = [parent EXCEPT ![p] = NIL]
    /\ UNCHANGED killed

\* freeproc(p): the slot is cleared, p->killed included.
Freeproc(p) ==
    /\ SetState(p, "UNUSED")
    /\ chan' = [chan EXCEPT ![p] = NIL]
    /\ killed' = [killed EXCEPT ![p] = FALSE]
    /\ pid' = [pid EXCEPT ![p] = 0]
    /\ parent' = [parent EXCEPT ![p] = NIL]

\* One iteration of wakeup(ch) by the thread of p, on the slot q.
WakeupStep(p, q, ch) ==
    /\ q # p => Free(q)
    /\ IF q # p /\ state[q] = "SLEEPING" /\ chan[q] = ch
       THEN SetState(q, "RUNNABLE") ELSE UNCHANGED state

\* wakeup(ch) by the thread of p, then the step l.
Wakeup(p, ch, l) ==
    /\ \/ /\ idx[p] < NPROC
          /\ WakeupStep(p, idx[p], ch)
          /\ idx' = [idx EXCEPT ![p] = @ + 1]
          /\ UNCHANGED pc
       \/ /\ idx[p] = NPROC
          /\ Goto(p, l)
          /\ idx' = [idx EXCEPT ![p] = 0]
          /\ UNCHANGED state
    /\ UNCHANGED <<chan, killed, pid, parent, nextpid, locks, cpus, victim>>

-----------------------------------------------------------------------------
(* scheduler(), sched(), yield(), forkret() *)

\* Mutant of NextSlot: the scan runs past the table.
NextSlotNoWrap(p) == p + 1

\* The for loop's p++, and the start of the next round.
NextSlot(p) == IF p + 1 < NPROC THEN p + 1 ELSE 0

SchedRun(c) ==
    /\ mode[c] = "scheduler"
    /\ state[scan[c]] = "RUNNABLE"
    /\ Acquire(c, scan[c])
    /\ SetState(scan[c], "RUNNING")
    /\ curproc' = [curproc EXCEPT ![c] = scan[c]]
    /\ mode' = [mode EXCEPT ![c] = "swtch_in"]
    /\ UNCHANGED <<chan, killed, pid, parent, nextpid, wlock, scan, pc, idx, victim>>

SchedSkip(c) ==
    /\ mode[c] = "scheduler"
    /\ Free(scan[c])
    /\ state[scan[c]] # "RUNNABLE"
    /\ scan' = [scan EXCEPT ![c] = NextSlot(@)]
    /\ UNCHANGED <<table, locks, curproc, mode, pc, idx, victim>>

\* Mutant of SchedBack: the scan starts over after a process has run.
SchedBackRestart(c) ==
    /\ mode[c] = "swtch_out"
    /\ curproc' = [curproc EXCEPT ![c] = NIL]
    /\ Release(scan[c])
    /\ scan' = [scan EXCEPT ![c] = 0]
    /\ mode' = [mode EXCEPT ![c] = "scheduler"]
    /\ UNCHANGED <<table, wlock, pc, idx, victim>>

\* swtch() has returned to scheduler(): c->proc = 0; release(&p->lock).
SchedBack(c) ==
    /\ mode[c] = "swtch_out"
    /\ curproc' = [curproc EXCEPT ![c] = NIL]
    /\ Release(scan[c])
    /\ scan' = [scan EXCEPT ![c] = NextSlot(@)]
    /\ mode' = [mode EXCEPT ![c] = "scheduler"]
    /\ UNCHANGED <<table, wlock, pc, idx, victim>>

\* The thread resumes after swtch(): forkret() and yield() release p->lock,
\* sleep() clears p->chan first.
SwitchIn(c) ==
    LET p == curproc[c] IN
    /\ mode[c] = "swtch_in"
    /\ mode' = [mode EXCEPT ![c] = "thread"]
    /\ Release(p)
    /\ IF pc[p] = "sleep_wake" THEN chan' = [chan EXCEPT ![p] = NIL]
                               ELSE UNCHANGED chan
    /\ UNCHANGED <<state, killed, pid, parent, nextpid, wlock, curproc, scan,
                   pc, idx, victim>>

\* sched(), reached with p->lock held: the CPU goes back to its scheduler.
Sched(c) == mode' = [mode EXCEPT ![c] = "swtch_out"] /\ UNCHANGED <<curproc, scan>>

\* A timer interrupt: yield().  From user mode a killed process exits instead
\* (UserKilled), from the kernel it just gives up the CPU.
Yield(c, p) ==
    /\ On(c, p)
    /\ NoSpin(c)
    /\ pc[p] = "user" => ~killed[p]
    /\ Acquire(c, p)
    /\ SetState(p, "RUNNABLE")
    /\ Sched(c)
    /\ UNCHANGED <<chan, killed, pid, parent, nextpid, wlock, pc, idx, victim>>

-----------------------------------------------------------------------------
(* usertrap(): the entry to and the exit from the kernel *)

\* Any trap finds p->killed set: exit(-1).
UserKilled(c, p) ==
    /\ At(c, p, "user")
    /\ Free(p)
    /\ killed[p]
    /\ Goto(p, "exit")
    /\ UNCHANGED <<table, locks, cpus, idx, victim>>

\* An exception: setkilled(p), then exit(-1).
UserFault(c, p) ==
    /\ At(c, p, "user")
    /\ Free(p)
    /\ killed' = [killed EXCEPT ![p] = TRUE]
    /\ Goto(p, "exit")
    /\ UNCHANGED <<state, chan, pid, parent, nextpid, locks, cpus, idx, victim>>

\* A system call; it starts only if p is not killed yet.
Syscall(c, p, l) ==
    /\ At(c, p, "user")
    /\ Free(p)
    /\ ~killed[p]
    /\ Goto(p, l)
    /\ UNCHANGED <<table, locks, cpus, idx>>

SysFork(c, p) == nextpid <= MaxPid /\ Syscall(c, p, "fork_alloc") /\ UNCHANGED victim
SysExit(c, p) == Syscall(c, p, "exit") /\ UNCHANGED victim
SysWait(c, p) == Syscall(c, p, "wait") /\ UNCHANGED victim
SysKill(c, p) == /\ Syscall(c, p, "kill")
                 /\ \E k \in KillPids : victim' = [victim EXCEPT ![p] = k]

\* After the system call: exit if killed in the meantime, else user mode.
SysReturn(c, p) ==
    /\ At(c, p, "sysret")
    /\ Free(p)
    /\ Goto(p, IF killed[p] THEN "exit" ELSE "user")
    /\ UNCHANGED <<table, locks, cpus, idx, victim>>

-----------------------------------------------------------------------------
(* fork() *)

\* allocproc(): the slot is in use, or the table is exhausted.
ForkSkip(c, p) ==
    /\ At(c, p, "fork_alloc")
    /\ \/ idx[p] = NPROC /\ Return(p)
       \/ /\ idx[p] < NPROC
          /\ Free(idx[p])
          /\ state[idx[p]] # "UNUSED"
          /\ idx' = [idx EXCEPT ![p] = @ + 1]
          /\ UNCHANGED <<pc, victim>>
    /\ UNCHANGED <<table, locks, cpus>>

Allocpid(p) == pid' = [pid EXCEPT ![p] = nextpid] /\ nextpid' = nextpid + 1

\* allocproc(): an UNUSED slot; it stays locked, and starts in forkret().
ForkAlloc(c, p) ==
    /\ At(c, p, "fork_alloc")
    /\ idx[p] < NPROC
    /\ Acquire(c, idx[p])
    /\ state[idx[p]] = "UNUSED"
    /\ Allocpid(idx[p])
    /\ SetState(idx[p], "USED")
    /\ pc' = [pc EXCEPT ![p] = "fork_copy", ![idx[p]] = "user"]
    /\ UNCHANGED <<chan, killed, parent, wlock, cpus, idx, victim>>

\* Mutant of ForkCopy: np->lock stays held while fork() goes for wait_lock.
ForkCopyKeepsLock(c, p) ==
    /\ At(c, p, "fork_copy")
    /\ Goto(p, "fork_parent")
    /\ UNCHANGED <<table, locks, cpus, idx, victim>>

\* kalloc(), proc_pagetable() and uvmcopy() succeed, the registers and open
\* files are copied, and np->lock is released.
ForkCopy(c, p) ==
    /\ At(c, p, "fork_copy")
    /\ Release(idx[p])
    /\ Goto(p, "fork_parent")
    /\ UNCHANGED <<table, wlock, cpus, idx, victim>>

\* One of the allocations fails: freeproc(np), release, return -1.
ForkFail(c, p) ==
    /\ At(c, p, "fork_copy")
    /\ Freeproc(idx[p])
    /\ Release(idx[p])
    /\ Return(p)
    /\ UNCHANGED <<nextpid, wlock, cpus>>

ForkParent(c, p) ==
    /\ At(c, p, "fork_parent")
    /\ wlock = NIL
    /\ parent' = [parent EXCEPT ![idx[p]] = p]
    /\ Goto(p, "fork_run")
    /\ UNCHANGED <<state, chan, killed, pid, nextpid, locks, cpus, idx, victim>>

ForkRun(c, p) ==
    /\ At(c, p, "fork_run")
    /\ Free(idx[p])
    /\ SetState(idx[p], "RUNNABLE")
    /\ Return(p)
    /\ UNCHANGED <<chan, killed, pid, parent, nextpid, locks, cpus>>

-----------------------------------------------------------------------------
(* exit() and reparent() *)

ExitInit(c, p) ==
    /\ At(c, p, "exit")
    /\ p = initproc
    /\ Goto(p, "panic")
    /\ UNCHANGED <<table, locks, cpus, idx, victim>>

\* The open files and the working directory are dropped, then wait_lock is
\* taken.
ExitLock(c, p) ==
    /\ At(c, p, "exit")
    /\ p # initproc
    /\ AcquireWait(c)
    /\ Goto(p, "exit_reparent")
    /\ UNCHANGED <<table, plock, cpus, idx, victim>>

\* Mutant of Children: those that have exited are forgotten.
LiveChildren(p) == {q \in Slot : parent[q] = p /\ state[q] # "ZOMBIE"}

Children(p) == {q \in Slot : parent[q] = p}

\* reparent(p): the next child goes to init, which wakeup(initproc) then
\* wakes; with no child left, wakeup(p->parent).
ExitReparent(c, p) ==
    /\ At(c, p, "exit_reparent")
    /\ \/ /\ Children(p) = {}
          /\ Goto(p, "exit_wakeparent")
          /\ UNCHANGED parent
       \/ \E q \in Children(p) :
          /\ \A r \in Children(p) : q <= r
          /\ parent' = [parent EXCEPT ![q] = initproc]
          /\ Goto(p, "exit_wakeinit")
    /\ UNCHANGED <<state, chan, killed, pid, nextpid, locks, cpus, idx, victim>>

ExitWakeInit(c, p) ==
    At(c, p, "exit_wakeinit") /\ Wakeup(p, initproc, "exit_reparent")

\* Mutant of ExitWakeParent: the parent is not woken.
ExitNoWakeup(c, p) ==
    /\ At(c, p, "exit_wakeparent")
    /\ Goto(p, "exit_zombie")
    /\ UNCHANGED <<table, locks, cpus, idx, victim>>

ExitWakeParent(c, p) ==
    At(c, p, "exit_wakeparent") /\ Wakeup(p, parent[p], "exit_zombie")

ExitZombie(c, p) ==
    /\ At(c, p, "exit_zombie")
    /\ Acquire(c, p)
    /\ SetState(p, "ZOMBIE")
    /\ ReleaseWait
    /\ Sched(c)
    /\ Goto(p, "zombie")
    /\ UNCHANGED <<chan, killed, pid, parent, nextpid, idx, victim>>

-----------------------------------------------------------------------------
(* wait() and sleep() *)

\* acquire(&wait_lock) on entry, and acquire(lk) when sleep() has been woken;
\* the scan of the table starts, or starts over.
WaitLock(c, p) ==
    /\ At(c, p, "wait") \/ At(c, p, "sleep_wake")
    /\ AcquireWait(c)
    /\ Goto(p, "wait_scan")
    /\ UNCHANGED <<table, plock, cpus, idx, victim>>

\* The slot is no child, or a child that has not exited; or the scan is over.
WaitNext(c, p) ==
    /\ At(c, p, "wait_scan")
    /\ \/ /\ idx[p] = NPROC
          /\ Goto(p, "wait_decide")
          /\ idx' = [idx EXCEPT ![p] = 0]
       \/ /\ idx[p] < NPROC
          /\ parent[idx[p]] = p => Free(idx[p]) /\ state[idx[p]] # "ZOMBIE"
          /\ idx' = [idx EXCEPT ![p] = @ + 1]
          /\ UNCHANGED pc
    /\ UNCHANGED <<table, locks, cpus, victim>>

\* Mutant of FoundZombie: pp->lock is not taken.
FoundZombieUnlocked(q, p) == parent[q] = p /\ state[q] = "ZOMBIE"

FoundZombie(q, p) == parent[q] = p /\ Free(q) /\ state[q] = "ZOMBIE"

WaitReap(c, p) ==
    /\ At(c, p, "wait_scan")
    /\ idx[p] < NPROC
    /\ FoundZombie(idx[p], p)
    /\ Freeproc(idx[p])
    /\ ReleaseWait
    /\ Return(p)
    /\ UNCHANGED <<nextpid, plock, cpus>>

\* copyout() of the exit status fails: the child stays a zombie.
WaitCopyFail(c, p) ==
    /\ At(c, p, "wait_scan")
    /\ idx[p] < NPROC
    /\ FoundZombie(idx[p], p)
    /\ ReleaseWait
    /\ Return(p)
    /\ UNCHANGED <<table, plock, cpus>>

\* !havekids || killed(p): release(&wait_lock); return -1.  No child comes or
\* goes while wait_lock is held, so havekids is what the table says now.
WaitGiveUp(c, p) ==
    /\ At(c, p, "wait_decide")
    /\ Children(p) = {} \/ (Free(p) /\ killed[p])
    /\ ReleaseWait
    /\ Return(p)
    /\ UNCHANGED <<table, plock, cpus>>

WaitSleep(c, p) ==
    /\ At(c, p, "wait_decide")
    /\ Children(p) # {} /\ Free(p) /\ ~killed[p]
    /\ Goto(p, "sleep")
    /\ UNCHANGED <<table, locks, cpus, idx, victim>>

\* Mutant of SleepLock: lk is released before p->lock is held.
SleepLockLate(c, p) ==
    /\ At(c, p, "sleep")
    /\ ReleaseWait
    /\ Goto(p, "sleep_switch")
    /\ UNCHANGED <<table, plock, cpus, idx, victim>>

\* sleep(p, &wait_lock): acquire(&p->lock).
SleepLock(c, p) ==
    /\ At(c, p, "sleep")
    /\ Acquire(c, p)
    /\ Goto(p, "sleep_switch")
    /\ UNCHANGED <<table, wlock, cpus, idx, victim>>

\* release(lk); p->chan = chan; p->state = SLEEPING; sched().
SleepSwitch(c, p) ==
    /\ At(c, p, "sleep_switch")
    /\ ReleaseWait
    /\ chan' = [chan EXCEPT ![p] = p]
    /\ SetState(p, "SLEEPING")
    /\ Sched(c)
    /\ Goto(p, "sleep_wake")
    /\ UNCHANGED <<killed, pid, parent, nextpid, plock, idx, victim>>

-----------------------------------------------------------------------------
(* kill() *)

KillHit(c, p) ==
    LET q == idx[p] IN
    /\ At(c, p, "kill")
    /\ q < NPROC
    /\ Free(q)
    /\ pid[q] = victim[p]
    /\ killed' = [killed EXCEPT ![q] = TRUE]
    /\ IF state[q] = "SLEEPING" THEN SetState(q, "RUNNABLE") ELSE UNCHANGED state
    /\ Return(p)
    /\ UNCHANGED <<chan, pid, parent, nextpid, locks, cpus>>

KillNext(c, p) ==
    /\ At(c, p, "kill")
    /\ \/ idx[p] = NPROC /\ Return(p)
       \/ /\ idx[p] < NPROC
          /\ Free(idx[p])
          /\ pid[idx[p]] # victim[p]
          /\ idx' = [idx EXCEPT ![p] = @ + 1]
          /\ UNCHANGED <<pc, victim>>
    /\ UNCHANGED <<table, locks, cpus>>

-----------------------------------------------------------------------------
(* The system *)

Scheduler(c) == SchedRun(c) \/ SchedSkip(c) \/ SchedBack(c) \/ SwitchIn(c)

User(c, p) ==
    \/ UserFault(c, p)
    \/ SysFork(c, p) \/ SysExit(c, p) \/ SysWait(c, p) \/ SysKill(c, p)

Fork(c, p) ==
    \/ ForkSkip(c, p) \/ ForkAlloc(c, p) \/ ForkCopy(c, p) \/ ForkFail(c, p)
    \/ ForkParent(c, p) \/ ForkRun(c, p)

Exit(c, p) ==
    \/ ExitInit(c, p) \/ ExitLock(c, p) \/ ExitReparent(c, p)
    \/ ExitWakeInit(c, p) \/ ExitWakeParent(c, p) \/ ExitZombie(c, p)

Wait(c, p) ==
    \/ WaitLock(c, p) \/ WaitNext(c, p) \/ WaitReap(c, p) \/ WaitCopyFail(c, p)
    \/ WaitGiveUp(c, p) \/ WaitSleep(c, p) \/ SleepLock(c, p) \/ SleepSwitch(c, p)

Kill(c, p) == KillHit(c, p) \/ KillNext(c, p)

\* What the kernel does for p without the user program's cooperation.
Kernel(c, p) ==
    \/ UserKilled(c, p) \/ SysReturn(c, p)
    \/ Fork(c, p) \/ Exit(c, p) \/ Wait(c, p) \/ Kill(c, p)

Next ==
    \E c \in CPU :
        \/ Scheduler(c)
        \/ \E p \in Slot : Yield(c, p) \/ User(c, p) \/ Kernel(c, p)

Spec == Init /\ [][Next]_vars

-----------------------------------------------------------------------------
(* Safety *)

\* A process runs on at most one CPU, and it is marked RUNNING exactly while a
\* CPU is executing it: scheduler() and sched() hand p->lock across swtch() so
\* that no second CPU can pick a process that has not left the first.
RunsOnOneCPU ==
    /\ \A c, d \in CPU : curproc[c] # NIL /\ curproc[c] = curproc[d] => c = d
    /\ \A p \in Slot :
        state[p] = "RUNNING" <=>
            \E c \in CPU : curproc[c] = p /\ mode[c] \in {"swtch_in", "thread"}

\* No CPU is still on the kernel stack of a slot that was freed or handed out
\* again: wait() takes pp->lock before it looks for a ZOMBIE, "make sure the
\* child isn't still in exit() or swtch()".
StackInUse ==
    \A c \in CPU : curproc[c] # NIL => state[curproc[c]] \notin {"UNUSED", "USED"}

\* The conditions sched() panics on: a thread enters the scheduler holding its
\* own p->lock, no other spinlock, and no longer RUNNING.
SchedHoldsOnlyPlock ==
    \A c \in CPU : mode[c] = "swtch_out" =>
        /\ scan[c] = curproc[c]
        /\ wlock # c
        /\ \A q \in Slot : plock[q] = c <=> q = curproc[c]
        /\ state[curproc[c]] \in {"RUNNABLE", "SLEEPING", "ZOMBIE"}

\* "wait_lock must be acquired before any p->lock": no thread that is about to
\* spin on wait_lock holds a p->lock, so the two kinds cannot deadlock.
LockOrder ==
    \A c \in CPU, p \in Slot :
        On(c, p) /\ pc[p] \in WantsWaitLockPC => \A q \in Slot : plock[q] # c

\* The lock discipline of proc.c: sched()'s panics are unreachable and nobody
\* waits for wait_lock with a p->lock held.
LockDiscipline == SchedHoldsOnlyPlock /\ LockOrder

\* Every process that has been started, or is waiting to be reaped, has a
\* parent that can still wait for it: neither freed nor itself a zombie.
NoOrphans ==
    \A p \in Slot \ {initproc} :
        state[p] \in {"RUNNABLE", "RUNNING", "SLEEPING", "ZOMBIE"} =>
            /\ parent[p] # NIL
            /\ state[parent[p]] \in {"RUNNABLE", "RUNNING", "SLEEPING"}

\* No lost wakeup between exit() and wait(): once wait_lock is free, no parent
\* is asleep in wait() while a child of it is a zombie.
NoLostExit ==
    wlock = NIL =>
        \A p \in Slot : state[p] = "ZOMBIE" =>
            ~(state[parent[p]] = "SLEEPING" /\ chan[parent[p]] = parent[p])

\* Two slots never share a pid, and exactly the UNUSED slots have none, so
\* kill() and wait() name one process.
PidsUnique ==
    \A p \in Slot :
        /\ pid[p] = 0 <=> state[p] = "UNUSED"
        /\ \A q \in Slot : pid[p] = pid[q] /\ pid[p] # 0 => p = q

\* A slot is handed out with nothing left of its last owner: allocproc() does
\* not clear p->killed, p->chan or p->parent, it relies on freeproc().
AllocClean ==
    [][\A p \in Slot : state[p] = "UNUSED" /\ state'[p] = "USED" =>
          ~killed'[p] /\ chan'[p] = NIL /\ parent'[p] = NIL]_vars

\* "Kill the process with the given pid": only a slot that holds a process is
\* marked killed.
KillsAProcess ==
    [][\A p \in Slot : killed'[p] /\ ~killed[p] => state[p] # "UNUSED"]_vars
=============================================================================
