------------------------------ MODULE ProcInv ------------------------------
(***************************************************************************)
(* Proofs about Proc, for any number of slots, CPUs and pids: the type     *)
(* invariant, the invariants of the scheduler and its locks, the process   *)
(* tree and its ids, and that exit() and wait() lose no wakeup.            *)
(*                                                                         *)
(* IInv ties the lock words and the process table to where the CPUs are in *)
(* the code; each part is preserved by every step, given the others. The   *)
(* invariants of the tree rest on it.                                      *)
(***************************************************************************)
EXTENDS Proc, TLAPS

-----------------------------------------------------------------------------
(* The inductive invariant *)

\* CPU c is at a point of the code where it holds q->lock: while it switches
\* to or from q, in sleep(), or in fork() before np->lock is released.
HoldsPlock(c, q) ==
    \/ mode[c] \in {"swtch_in", "swtch_out"} /\ curproc[c] = q
    \/ At(c, q, "sleep_switch")
    \/ \E p \in Slot : At(c, p, "fork_copy") /\ idx[p] = q

HoldsWaitLock(c) == \E p \in Slot : On(c, p) /\ pc[p] \in WaitLockPC

\* The lock words agree with the program counters.
LockInv ==
    /\ \A c \in CPU, q \in Slot : plock[q] = c <=> HoldsPlock(c, q)
    /\ \A c \in CPU : wlock = c <=> HoldsWaitLock(c)
    /\ \A p \in Slot : pc[p] \in WaitLockPC \cup {"fork_copy"} =>
           \E c \in CPU : On(c, p)

\* The process table agrees with what the CPUs are doing.
RunInv ==
    /\ \A c \in CPU : mode[c] = "scheduler" <=> curproc[c] = NIL
    /\ \A c \in CPU : curproc[c] # NIL => scan[c] = curproc[c]
    /\ \A c, d \in CPU : curproc[c] # NIL /\ curproc[c] = curproc[d] => c = d
    /\ \A c \in CPU : mode[c] \in {"swtch_in", "thread"} => state[curproc[c]] = "RUNNING"
    /\ \A c \in CPU : mode[c] = "swtch_out" =>
           state[curproc[c]] \in {"RUNNABLE", "SLEEPING", "ZOMBIE"}
    /\ \A p \in Slot : state[p] = "RUNNING" =>
           \E c \in CPU : curproc[c] = p /\ mode[c] \in {"swtch_in", "thread"}

ForkPC == {"fork_copy", "fork_parent", "fork_run"}

\* The slot a fork() is filling in is USED and belongs to that fork() alone,
\* although np->lock is released in between.
ForkInv ==
    /\ \A p \in Slot : pc[p] \in ForkPC => idx[p] \in Slot /\ state[idx[p]] = "USED"
    /\ \A p, q \in Slot : pc[p] \in ForkPC /\ pc[q] \in ForkPC /\ idx[p] = idx[q] => p = q

IInv == TypeOK /\ LockInv /\ RunInv /\ ForkInv

-----------------------------------------------------------------------------
(* Type correctness *)

\* The table is not empty, and null pointers point outside it.
LEMMA SlotFacts == NIL \notin Slot /\ NIL \notin CPU /\ initproc \in Slot
BY ProcAssumption DEF NIL, Slot, initproc

\* A loop variable inside the table names a slot, and may be advanced.
LEMMA IndexFacts ==
    /\ 0 \in Index
    /\ \A i \in Index : i < NPROC => i \in Slot /\ i + 1 \in Index
BY ProcAssumption DEF Index, Slot

\* Comparing a loop variable with a slot: what has been passed, what is to come.
LEMMA IndexOrder ==
    \A i \in Index, q \in Slot :
        /\ i <= q /\ i # q => i + 1 <= q
        /\ q < i + 1 => q < i \/ q = i
        /\ q < NPROC /\ ~(q < 0) /\ ~(NPROC <= q) /\ 0 <= q
BY ProcAssumption DEF Index, Slot

\* The scheduler's scan stays inside the table.
LEMMA NextSlotType == \A p \in Slot : NextSlot(p) \in Slot
BY ProcAssumption DEF Slot, NextSlot

\* Every step keeps the table, the locks and the program counters in their types.
LEMMA TypeOKStep == TypeOK /\ [Next]_vars => TypeOK'
<1> SUFFICES ASSUME TypeOK, [Next]_vars PROVE TypeOK'
  OBVIOUS
<1> USE SlotFacts, IndexFacts DEF TypeOK, ProcState, PC, Mode, WaitLockPC,
      WantsWaitLockPC, table, locks, cpus, On, At, Goto, SetState, Free,
      Acquire, Release, Return
<1>1. ASSUME NEW c \in CPU, SchedRun(c) PROVE TypeOK'
  BY <1>1, Zenon DEF SchedRun
<1>2. ASSUME NEW c \in CPU, SchedSkip(c) PROVE TypeOK'
  BY <1>2, NextSlotType DEF SchedSkip
<1>3. ASSUME NEW c \in CPU, SchedBack(c) PROVE TypeOK'
  BY <1>3, NextSlotType DEF SchedBack
<1>4. ASSUME NEW c \in CPU, SwitchIn(c) PROVE TypeOK'
  BY <1>4, Zenon DEF SwitchIn
<1>5. ASSUME NEW c \in CPU, NEW p \in Slot, Yield(c, p) PROVE TypeOK'
  BY <1>5 DEF Yield, Sched
<1>6. ASSUME NEW c \in CPU, NEW p \in Slot, UserKilled(c, p) PROVE TypeOK'
  BY <1>6, Zenon DEF UserKilled
<1>7. ASSUME NEW c \in CPU, NEW p \in Slot, SysReturn(c, p) PROVE TypeOK'
  BY <1>7, Zenon DEF SysReturn
<1>8. ASSUME NEW c \in CPU, NEW p \in Slot, UserFault(c, p) PROVE TypeOK'
  BY <1>8, Zenon DEF UserFault
<1>9. ASSUME NEW c \in CPU, NEW p \in Slot, SysFork(c, p) PROVE TypeOK'
  BY <1>9, Zenon DEF SysFork, Syscall
<1>10. ASSUME NEW c \in CPU, NEW p \in Slot, SysExit(c, p) PROVE TypeOK'
  BY <1>10, Zenon DEF SysExit, Syscall
<1>11. ASSUME NEW c \in CPU, NEW p \in Slot, SysWait(c, p) PROVE TypeOK'
  BY <1>11, Zenon DEF SysWait, Syscall
<1>12. ASSUME NEW c \in CPU, NEW p \in Slot, SysKill(c, p) PROVE TypeOK'
  BY <1>12, ProcAssumption DEF SysKill, Syscall
<1>13. ASSUME NEW c \in CPU, NEW p \in Slot, ForkSkip(c, p) PROVE TypeOK'
  BY <1>13 DEF ForkSkip
<1>14. ASSUME NEW c \in CPU, NEW p \in Slot, ForkAlloc(c, p) PROVE TypeOK'
  BY <1>14 DEF ForkAlloc, Allocpid
<1>15. ASSUME NEW c \in CPU, NEW p \in Slot, ForkCopy(c, p) PROVE TypeOK'
  BY <1>15, Zenon DEF ForkCopy
<1>16. ASSUME NEW c \in CPU, NEW p \in Slot, ForkFail(c, p) PROVE TypeOK'
  BY <1>16, Zenon DEF ForkFail, Freeproc
<1>17. ASSUME NEW c \in CPU, NEW p \in Slot, ForkParent(c, p) PROVE TypeOK'
  BY <1>17, Zenon DEF ForkParent
<1>18. ASSUME NEW c \in CPU, NEW p \in Slot, ForkRun(c, p) PROVE TypeOK'
  BY <1>18, Zenon DEF ForkRun
<1>19. ASSUME NEW c \in CPU, NEW p \in Slot, Exit(c, p) PROVE TypeOK'
  <2>1. CASE ExitInit(c, p) \/ ExitLock(c, p)
    BY <2>1 DEF ExitInit, ExitLock, AcquireWait
  <2>2. CASE ExitReparent(c, p)
    BY <2>2 DEF ExitReparent, Children
  <2>3. CASE ExitWakeInit(c, p) \/ ExitWakeParent(c, p)
    BY <2>3 DEF ExitWakeInit, ExitWakeParent, Wakeup, WakeupStep
  <2>4. CASE ExitZombie(c, p)
    BY <2>4, Zenon DEF ExitZombie, Sched, ReleaseWait
  <2> QED
    BY <1>19, <2>1, <2>2, <2>3, <2>4, Zenon DEF Exit
<1>20. ASSUME NEW c \in CPU, NEW p \in Slot, WaitLock(c, p) PROVE TypeOK'
  BY <1>20 DEF WaitLock, AcquireWait
<1>21. ASSUME NEW c \in CPU, NEW p \in Slot, WaitNext(c, p) PROVE TypeOK'
  BY <1>21 DEF WaitNext
<1>22. ASSUME NEW c \in CPU, NEW p \in Slot, WaitReap(c, p) PROVE TypeOK'
  BY <1>22, Zenon DEF WaitReap, FoundZombie, Freeproc, ReleaseWait
<1>23. ASSUME NEW c \in CPU, NEW p \in Slot, WaitCopyFail(c, p) PROVE TypeOK'
  BY <1>23, Zenon DEF WaitCopyFail, ReleaseWait
<1>24. ASSUME NEW c \in CPU, NEW p \in Slot, WaitGiveUp(c, p) PROVE TypeOK'
  BY <1>24, Zenon DEF WaitGiveUp, ReleaseWait
<1>25. ASSUME NEW c \in CPU, NEW p \in Slot, WaitSleep(c, p) PROVE TypeOK'
  BY <1>25, Zenon DEF WaitSleep
<1>26. ASSUME NEW c \in CPU, NEW p \in Slot, SleepLock(c, p) PROVE TypeOK'
  BY <1>26, Zenon DEF SleepLock
<1>27. ASSUME NEW c \in CPU, NEW p \in Slot, SleepSwitch(c, p) PROVE TypeOK'
  BY <1>27, Zenon DEF SleepSwitch, Sched, ReleaseWait
<1>28. ASSUME NEW c \in CPU, NEW p \in Slot, KillHit(c, p) PROVE TypeOK'
  BY <1>28 DEF KillHit
<1>29. ASSUME NEW c \in CPU, NEW p \in Slot, KillNext(c, p) PROVE TypeOK'
  BY <1>29 DEF KillNext
<1>30. CASE UNCHANGED vars
  BY <1>30, Zenon DEF vars
<1> HIDE DEF TypeOK, ProcState, PC, Mode, WaitLockPC, WantsWaitLockPC
<1> QED
  BY <1>1, <1>2, <1>3, <1>4, <1>5, <1>6, <1>7, <1>8, <1>9, <1>10, <1>11,
     <1>12, <1>13, <1>14, <1>15, <1>16, <1>17, <1>18, <1>19, <1>20, <1>21,
     <1>22, <1>23, <1>24, <1>25, <1>26, <1>27, <1>28, <1>29, <1>30, Zenon DEF Next,
     Kernel, Scheduler, User, Fork, Wait, Kill

-----------------------------------------------------------------------------
(* The parts of the inductive invariant *)

\* A CPU that has current process q, while q->lock is free, is executing q:
\* the switches to and from q hold q->lock.
LEMMA FreeSlot ==
    IInv => \A c \in CPU, q \in Slot : Free(q) /\ curproc[c] = q => mode[c] = "thread"
BY SlotFacts DEF IInv, TypeOK, LockInv, RunInv, HoldsPlock, Free, Mode

\* The scheduler picks only a process that is on no CPU (its lock is free), and a
\* thread changes p->state away from RUNNING only on its way into sched().
LEMMA RunInvStep == IInv /\ [Next]_vars => RunInv'
<1> SUFFICES ASSUME IInv, [Next]_vars PROVE RunInv'
  BY Zenon
<1>0. /\ state \in [Slot -> ProcState]
      /\ curproc \in [CPU -> Slot \cup {NIL}]
      /\ mode \in [CPU -> Mode]
      /\ scan \in [CPU -> Slot]
      /\ idx \in [Slot -> Index]
  BY Zenon DEF IInv, TypeOK
<1> USE <1>0, SlotFacts DEF RunInv, table, locks, cpus, On, At, Goto,
      SetState, Free, Acquire, Release, Return
<1>1. ASSUME NEW c \in CPU, SchedRun(c) PROVE RunInv'
  BY <1>1, FreeSlot, SMTT(60) DEF SchedRun, IInv
<1>2. ASSUME NEW c \in CPU, SchedSkip(c) PROVE RunInv'
  BY <1>2 DEF SchedSkip, IInv
<1>3. ASSUME NEW c \in CPU, SchedBack(c) PROVE RunInv'
  BY <1>3 DEF SchedBack, IInv
<1>4. ASSUME NEW c \in CPU, SwitchIn(c) PROVE RunInv'
  BY <1>4 DEF SwitchIn, IInv
<1>5. ASSUME NEW c \in CPU, NEW p \in Slot, Yield(c, p) PROVE RunInv'
  BY <1>5 DEF Yield, Sched, IInv
<1>6. ASSUME NEW c \in CPU, NEW p \in Slot, UserKilled(c, p) PROVE RunInv'
  BY <1>6 DEF UserKilled, IInv
<1>7. ASSUME NEW c \in CPU, NEW p \in Slot, SysReturn(c, p) PROVE RunInv'
  BY <1>7 DEF SysReturn, IInv
<1>8. ASSUME NEW c \in CPU, NEW p \in Slot, User(c, p) PROVE RunInv'
  BY <1>8, SMTT(60) DEF User, UserFault, SysFork, SysExit, SysWait, SysKill, Syscall,
     IInv
<1>9. ASSUME NEW c \in CPU, NEW p \in Slot, ForkSkip(c, p) PROVE RunInv'
  BY <1>9, SMTT(60) DEF ForkSkip, IInv
<1>10. ASSUME NEW c \in CPU, NEW p \in Slot, ForkAlloc(c, p) PROVE RunInv'
  BY <1>10, SMTT(60) DEF ForkAlloc, Allocpid, IInv
<1>11. ASSUME NEW c \in CPU, NEW p \in Slot, ForkCopy(c, p) PROVE RunInv'
  BY <1>11 DEF ForkCopy, IInv
<1>12. ASSUME NEW c \in CPU, NEW p \in Slot, ForkFail(c, p) PROVE RunInv'
  BY <1>12, IndexFacts, SMTT(60) DEF ForkFail, Freeproc, IInv, ForkInv, ForkPC
<1>13. ASSUME NEW c \in CPU, NEW p \in Slot, ForkParent(c, p) PROVE RunInv'
  BY <1>13 DEF ForkParent, IInv
<1>14. ASSUME NEW c \in CPU, NEW p \in Slot, ForkRun(c, p) PROVE RunInv'
  BY <1>14, IndexFacts DEF ForkRun, IInv, ForkInv, ForkPC
<1>15. ASSUME NEW c \in CPU, NEW p \in Slot, Exit(c, p) PROVE RunInv'
  BY <1>15, SMTT(60) DEF Exit, ExitInit, ExitLock, ExitReparent, ExitWakeInit,
     ExitWakeParent, ExitZombie, AcquireWait, Children, Wakeup, WakeupStep,
     Sched, ReleaseWait, IInv
<1>16. ASSUME NEW c \in CPU, NEW p \in Slot, WaitLock(c, p) PROVE RunInv'
  BY <1>16 DEF WaitLock, AcquireWait, IInv
<1>17. ASSUME NEW c \in CPU, NEW p \in Slot, WaitNext(c, p) PROVE RunInv'
  BY <1>17, SMTT(60) DEF WaitNext, IInv
<1>18. ASSUME NEW c \in CPU, NEW p \in Slot, WaitReap(c, p) PROVE RunInv'
  BY <1>18, FreeSlot, SMTT(60) DEF WaitReap, FoundZombie, Freeproc, ReleaseWait, IInv
<1>19. ASSUME NEW c \in CPU, NEW p \in Slot, WaitCopyFail(c, p) PROVE RunInv'
  BY <1>19, SMTT(60) DEF WaitCopyFail, ReleaseWait, IInv
<1>20. ASSUME NEW c \in CPU, NEW p \in Slot, WaitGiveUp(c, p) PROVE RunInv'
  BY <1>20, SMTT(60) DEF WaitGiveUp, ReleaseWait, IInv
<1>21. ASSUME NEW c \in CPU, NEW p \in Slot, WaitSleep(c, p) PROVE RunInv'
  BY <1>21 DEF WaitSleep, IInv
<1>22. ASSUME NEW c \in CPU, NEW p \in Slot, SleepLock(c, p) PROVE RunInv'
  BY <1>22 DEF SleepLock, IInv
<1>23. ASSUME NEW c \in CPU, NEW p \in Slot, SleepSwitch(c, p) PROVE RunInv'
  BY <1>23 DEF SleepSwitch, Sched, ReleaseWait, IInv
<1>24. ASSUME NEW c \in CPU, NEW p \in Slot, Kill(c, p) PROVE RunInv'
  BY <1>24, SMTT(60) DEF Kill, KillHit, KillNext, IInv
<1>25. CASE UNCHANGED vars
  BY <1>25 DEF vars, IInv
<1> HIDE DEF RunInv
<1> QED
  BY <1>1, <1>2, <1>3, <1>4, <1>5, <1>6, <1>7, <1>8, <1>9, <1>10, <1>11,
     <1>12, <1>13, <1>14, <1>15, <1>16, <1>17, <1>18, <1>19, <1>20, <1>21,
     <1>22, <1>23, <1>24, <1>25, Zenon DEF Next, Kernel, Scheduler, Fork, Wait

\* acquire() and release() keep the lock words in step with the program counters;
\* a timer interrupt never comes while a lock is held.
LEMMA LockInvStep == IInv /\ [Next]_vars => LockInv'
<1> SUFFICES ASSUME IInv, [Next]_vars PROVE LockInv'
  OBVIOUS
<1>0. /\ plock \in [Slot -> CPU \cup {NIL}]
      /\ wlock \in CPU \cup {NIL}
      /\ curproc \in [CPU -> Slot \cup {NIL}]
      /\ mode \in [CPU -> Mode]
      /\ pc \in [Slot -> PC]
      /\ idx \in [Slot -> Index]
  BY Zenon DEF IInv, TypeOK
<1> USE <1>0, SlotFacts DEF LockInv, HoldsPlock, HoldsWaitLock, WaitLockPC,
      table, locks, cpus, On, At, Goto, SetState, Free, Acquire, Release,
      Return
<1>1. ASSUME NEW c \in CPU, SchedRun(c) PROVE LockInv'
  BY <1>1, SMTT(60) DEF SchedRun, IInv
<1>2. ASSUME NEW c \in CPU, SchedSkip(c) PROVE LockInv'
  BY <1>2, SMTT(60) DEF SchedSkip, IInv
<1>3. ASSUME NEW c \in CPU, SchedBack(c) PROVE LockInv'
  BY <1>3, SMTT(60) DEF SchedBack, IInv, RunInv
<1>4. ASSUME NEW c \in CPU, SwitchIn(c) PROVE LockInv'
  BY <1>4, SMTT(60) DEF SwitchIn, IInv, RunInv
<1>5. ASSUME NEW c \in CPU, NEW p \in Slot, Yield(c, p) PROVE LockInv'
  <2>1. pc[p] \notin WaitLockPC \cup {"fork_copy"}
    BY <1>5, IndexFacts, SMTT(60) DEF Yield, NoSpin, IInv, ForkInv, ForkPC
  <2> QED
    BY <1>5, <2>1, SMTT(60) DEF Yield, Sched, IInv, RunInv
<1>6. ASSUME NEW c \in CPU, NEW p \in Slot, UserKilled(c, p) PROVE LockInv'
  BY <1>6, SMTT(60) DEF UserKilled, IInv
<1>7. ASSUME NEW c \in CPU, NEW p \in Slot, SysReturn(c, p) PROVE LockInv'
  BY <1>7, SMTT(60) DEF SysReturn, IInv
<1>8. ASSUME NEW c \in CPU, NEW p \in Slot, User(c, p) PROVE LockInv'
  BY <1>8, SMTT(60) DEF User, UserFault, SysFork, SysExit, SysWait, SysKill, Syscall,
     IInv
<1>9. ASSUME NEW c \in CPU, NEW p \in Slot, ForkSkip(c, p) PROVE LockInv'
  <2>1. UNCHANGED <<plock, wlock, curproc, mode>> /\ pc[p] = "fork_alloc"
    BY <1>9, Zenon DEF ForkSkip
  <2>2. \/ pc' = [pc EXCEPT ![p] = "sysret"] /\ idx' = [idx EXCEPT ![p] = 0]
        \/ pc' = pc /\ idx' = [idx EXCEPT ![p] = @ + 1]
    BY <1>9, Zenon DEF ForkSkip
  <2>3. \A q \in Slot : q # p => pc'[q] = pc[q] /\ idx'[q] = idx[q]
    BY <2>2, Zenon
  <2>4. pc'[p] = "sysret" \/ pc'[p] = "fork_alloc"
    BY <2>1, <2>2, Zenon
  <2> QED
    BY <2>1, <2>3, <2>4, SMTT(60) DEF IInv
<1>10. ASSUME NEW c \in CPU, NEW p \in Slot, ForkAlloc(c, p) PROVE LockInv'
  <2>1. /\ pc[p] = "fork_alloc" /\ idx[p] \in Slot /\ state[idx[p]] = "UNUSED"
        /\ plock[idx[p]] = NIL /\ mode[c] = "thread" /\ curproc[c] = p
    BY <1>10, IndexFacts, Zenon DEF ForkAlloc
  <2>2. /\ plock' = [plock EXCEPT ![idx[p]] = c]
        /\ pc' = [pc EXCEPT ![p] = "fork_copy", ![idx[p]] = "user"]
        /\ UNCHANGED <<wlock, curproc, mode, idx>>
    BY <1>10, Zenon DEF ForkAlloc
  <2>3. LockInv /\ RunInv
    BY Zenon DEF IInv
  <2> QED
    BY <2>1, <2>2, <2>3, SMTT(60) DEF RunInv
<1>11. ASSUME NEW c \in CPU, NEW p \in Slot, ForkCopy(c, p) PROVE LockInv'
  BY <1>11 DEF ForkCopy, IInv
<1>12. ASSUME NEW c \in CPU, NEW p \in Slot, ForkFail(c, p) PROVE LockInv'
  BY <1>12 DEF ForkFail, Freeproc, IInv
<1>13. ASSUME NEW c \in CPU, NEW p \in Slot, ForkParent(c, p) PROVE LockInv'
  BY <1>13, SMTT(60) DEF ForkParent, IInv
<1>14. ASSUME NEW c \in CPU, NEW p \in Slot, ForkRun(c, p) PROVE LockInv'
  BY <1>14, SMTT(60) DEF ForkRun, IInv
<1>15. ASSUME NEW c \in CPU, NEW p \in Slot, ExitInit(c, p) PROVE LockInv'
  BY <1>15, SMTT(60) DEF ExitInit, IInv
<1>16. ASSUME NEW c \in CPU, NEW p \in Slot, ExitLock(c, p) PROVE LockInv'
  BY <1>16, SMTT(60) DEF ExitLock, AcquireWait, IInv, RunInv
<1>17. ASSUME NEW c \in CPU, NEW p \in Slot, ExitReparent(c, p) PROVE LockInv'
  BY <1>17, SMTT(60) DEF ExitReparent, Children, IInv
<1>18. ASSUME NEW c \in CPU, NEW p \in Slot, ExitWakeInit(c, p) PROVE LockInv'
  BY <1>18, SMTT(60) DEF ExitWakeInit, Wakeup, WakeupStep, IInv
<1>19. ASSUME NEW c \in CPU, NEW p \in Slot, ExitWakeParent(c, p) PROVE LockInv'
  BY <1>19 DEF ExitWakeParent, Wakeup, WakeupStep, IInv
<1>20. ASSUME NEW c \in CPU, NEW p \in Slot, ExitZombie(c, p) PROVE LockInv'
  BY <1>20 DEF ExitZombie, Sched, ReleaseWait, IInv
<1>21. ASSUME NEW c \in CPU, NEW p \in Slot, WaitLock(c, p) PROVE LockInv'
  BY <1>21, SMTT(60) DEF WaitLock, AcquireWait, IInv, RunInv
<1>22. ASSUME NEW c \in CPU, NEW p \in Slot, WaitNext(c, p) PROVE LockInv'
  BY <1>22, SMTT(60) DEF WaitNext, IInv
<1>23. ASSUME NEW c \in CPU, NEW p \in Slot, WaitReap(c, p) PROVE LockInv'
  BY <1>23, SMTT(60) DEF WaitReap, FoundZombie, Freeproc, ReleaseWait, IInv
<1>24. ASSUME NEW c \in CPU, NEW p \in Slot, WaitCopyFail(c, p) PROVE LockInv'
  BY <1>24, SMTT(60) DEF WaitCopyFail, ReleaseWait, IInv
<1>25. ASSUME NEW c \in CPU, NEW p \in Slot, WaitGiveUp(c, p) PROVE LockInv'
  BY <1>25, SMTT(60) DEF WaitGiveUp, ReleaseWait, IInv
<1>26. ASSUME NEW c \in CPU, NEW p \in Slot, WaitSleep(c, p) PROVE LockInv'
  BY <1>26, SMTT(60) DEF WaitSleep, IInv
<1>27. ASSUME NEW c \in CPU, NEW p \in Slot, SleepLock(c, p) PROVE LockInv'
  BY <1>27, SMTT(60) DEF SleepLock, IInv
<1>28. ASSUME NEW c \in CPU, NEW p \in Slot, SleepSwitch(c, p) PROVE LockInv'
  BY <1>28, SMTT(60) DEF SleepSwitch, Sched, ReleaseWait, IInv
<1>29. ASSUME NEW c \in CPU, NEW p \in Slot, Kill(c, p) PROVE LockInv'
  BY <1>29, SMTT(60) DEF Kill, KillHit, KillNext, IInv
<1>30. CASE UNCHANGED vars
  BY <1>30 DEF vars, IInv
<1> HIDE DEF LockInv, HoldsPlock, HoldsWaitLock, WaitLockPC
<1> QED
  BY <1>1, <1>2, <1>3, <1>4, <1>5, <1>6, <1>7, <1>8, <1>9, <1>10, <1>11,
     <1>12, <1>13, <1>14, <1>15, <1>16, <1>17, <1>18, <1>19, <1>20, <1>21,
     <1>22, <1>23, <1>24, <1>25, <1>26, <1>27, <1>28, <1>29, <1>30, ZenonT(60) DEF Next,
     Kernel, Scheduler, Fork, Exit, Wait

\* A step of a thread that is not forking, before or after, and that leaves USED
\* slots alone keeps ForkInv.
LEMMA ForkFrame ==
    ASSUME TypeOK, ForkInv, NEW p \in Slot,
           pc[p] \notin ForkPC, pc'[p] \notin ForkPC,
           \A q \in Slot \ {p} : pc'[q] = pc[q] /\ idx'[q] = idx[q],
           \A q \in Slot : state[q] = "USED" => state'[q] = "USED"
    PROVE  ForkInv'
BY Zenon DEF TypeOK, ForkInv

\* allocproc() claims an UNUSED slot under its lock, and nobody else touches a
\* USED slot.
LEMMA ForkInvStep == IInv /\ [Next]_vars => ForkInv'
<1> SUFFICES ASSUME IInv, [Next]_vars PROVE ForkInv'
  OBVIOUS
<1>0. /\ state \in [Slot -> ProcState]
      /\ pc \in [Slot -> PC]
      /\ idx \in [Slot -> Index]
      /\ scan \in [CPU -> Slot]
  BY Zenon DEF IInv, TypeOK
<1> USE <1>0, SlotFacts DEF ForkInv, ForkPC, table, locks, cpus, On, At, Goto,
      SetState, Free, Acquire, Release, Return
<1>1. ASSUME NEW c \in CPU, Scheduler(c) PROVE ForkInv'
  <2>1. /\ pc' = pc /\ idx' = idx
        /\ \A q \in Slot : state'[q] = state[q] \/ state[q] = "RUNNABLE"
    BY <1>1, SMTT(60) DEF Scheduler, SchedRun, SchedSkip, SchedBack, SwitchIn
  <2> QED
    BY <2>1 DEF IInv
<1>2. ASSUME NEW c \in CPU, NEW p \in Slot, Yield(c, p) PROVE ForkInv'
  <2>1. state[p] = "RUNNING"
    BY <1>2 DEF Yield, IInv, RunInv
  <2>2. pc' = pc /\ idx' = idx /\ \A q \in Slot : state'[q] = state[q] \/ q = p
    BY <1>2, ZenonT(60) DEF Yield
  <2> QED
    BY <2>1, <2>2 DEF IInv
<1>3. ASSUME NEW c \in CPU, NEW p \in Slot, UserKilled(c, p) PROVE ForkInv'
  BY <1>3, SMTT(60) DEF UserKilled, IInv
<1>4. ASSUME NEW c \in CPU, NEW p \in Slot, SysReturn(c, p) PROVE ForkInv'
  <2>1. /\ state' = state /\ idx' = idx
        /\ \A q \in Slot : q # p => pc'[q] = pc[q]
    BY <1>4, Zenon DEF SysReturn
  <2>2. pc'[p] = "user" \/ pc'[p] = "exit"
    BY <1>4 DEF SysReturn
  <2> QED
    BY <2>1, <2>2 DEF IInv
<1>5. ASSUME NEW c \in CPU, NEW p \in Slot, User(c, p) PROVE ForkInv'
  <2>1. /\ state' = state /\ idx' = idx
        /\ pc'[p] \in {"exit", "fork_alloc", "wait", "kill"}
        /\ \A q \in Slot : q # p => pc'[q] = pc[q]
    BY <1>5, Zenon DEF User, UserFault, SysFork, SysExit, SysWait, SysKill, Syscall
  <2> QED
    BY <2>1 DEF IInv
<1>6. ASSUME NEW c \in CPU, NEW p \in Slot, ForkSkip(c, p) PROVE ForkInv'
  BY <1>6, SMTT(60) DEF ForkSkip, IInv
<1>7. ASSUME NEW c \in CPU, NEW p \in Slot, ForkAlloc(c, p) PROVE ForkInv'
  BY <1>7, IndexFacts, ForkFrame, SMTT(60) DEF ForkAlloc, Allocpid, IInv
<1>8. ASSUME NEW c \in CPU, NEW p \in Slot, ForkCopy(c, p) PROVE ForkInv'
  BY <1>8, SMTT(60) DEF ForkCopy, IInv
<1>9. ASSUME NEW c \in CPU, NEW p \in Slot, ForkFail(c, p) PROVE ForkInv'
  BY <1>9 DEF ForkFail, Freeproc, IInv
<1>10. ASSUME NEW c \in CPU, NEW p \in Slot, ForkParent(c, p) PROVE ForkInv'
  BY <1>10, SMTT(60) DEF ForkParent, IInv
<1>11. ASSUME NEW c \in CPU, NEW p \in Slot, ForkRun(c, p) PROVE ForkInv'
  BY <1>11 DEF ForkRun, IInv
<1>12. ASSUME NEW c \in CPU, NEW p \in Slot, ExitInit(c, p) PROVE ForkInv'
  BY <1>12, Zenon DEF ExitInit, IInv
<1>13. ASSUME NEW c \in CPU, NEW p \in Slot, ExitLock(c, p) PROVE ForkInv'
  BY <1>13 DEF ExitLock, AcquireWait, IInv
<1>14. ASSUME NEW c \in CPU, NEW p \in Slot, ExitReparent(c, p) PROVE ForkInv'
  BY <1>14 DEF ExitReparent, Children, IInv
<1>15. ASSUME NEW c \in CPU, NEW p \in Slot, ExitWakeInit(c, p) PROVE ForkInv'
  BY <1>15 DEF ExitWakeInit, Wakeup, WakeupStep, IInv
<1>16. ASSUME NEW c \in CPU, NEW p \in Slot, ExitWakeParent(c, p) PROVE ForkInv'
  BY <1>16 DEF ExitWakeParent, Wakeup, WakeupStep, IInv
<1>17. ASSUME NEW c \in CPU, NEW p \in Slot, ExitZombie(c, p) PROVE ForkInv'
  BY <1>17, IndexFacts DEF ExitZombie, Sched, ReleaseWait, IInv, RunInv
<1>18. ASSUME NEW c \in CPU, NEW p \in Slot, WaitLock(c, p) PROVE ForkInv'
  BY <1>18 DEF WaitLock, AcquireWait, IInv
<1>19. ASSUME NEW c \in CPU, NEW p \in Slot, WaitNext(c, p) PROVE ForkInv'
  BY <1>19, SMTT(60) DEF WaitNext, IInv
<1>20. ASSUME NEW c \in CPU, NEW p \in Slot, WaitReap(c, p) PROVE ForkInv'
  BY <1>20, SMTT(60) DEF WaitReap, FoundZombie, Freeproc, ReleaseWait, IInv
<1>21. ASSUME NEW c \in CPU, NEW p \in Slot, WaitCopyFail(c, p) PROVE ForkInv'
  BY <1>21 DEF WaitCopyFail, ReleaseWait, IInv
<1>22. ASSUME NEW c \in CPU, NEW p \in Slot, WaitGiveUp(c, p) PROVE ForkInv'
  BY <1>22 DEF WaitGiveUp, ReleaseWait, IInv
<1>23. ASSUME NEW c \in CPU, NEW p \in Slot, WaitSleep(c, p) PROVE ForkInv'
  BY <1>23, SMTT(60) DEF WaitSleep, IInv
<1>24. ASSUME NEW c \in CPU, NEW p \in Slot, SleepLock(c, p) PROVE ForkInv'
  BY <1>24 DEF SleepLock, IInv
<1>25. ASSUME NEW c \in CPU, NEW p \in Slot, SleepSwitch(c, p) PROVE ForkInv'
  BY <1>25, IndexFacts, SMTT(60) DEF SleepSwitch, Sched, ReleaseWait, IInv, RunInv
<1>26. ASSUME NEW c \in CPU, NEW p \in Slot, Kill(c, p) PROVE ForkInv'
  BY <1>26, SMTT(60) DEF Kill, KillHit, KillNext, IInv
<1>27. CASE UNCHANGED vars
  BY <1>27 DEF vars, IInv
<1> HIDE DEF ForkInv, ForkPC
<1> QED
  BY <1>1, <1>2, <1>3, <1>4, <1>5, <1>6, <1>7, <1>8, <1>9, <1>10, <1>11,
     <1>12, <1>13, <1>14, <1>15, <1>16, <1>17, <1>18, <1>19, <1>20, <1>21,
     <1>22, <1>23, <1>24, <1>25, <1>26, <1>27, ZenonT(60) DEF Next, Kernel, Fork, Exit,
     Wait

-----------------------------------------------------------------------------
(* The theorems *)

\* The invariant holds once userinit() has made the first process, and every
\* step keeps it.
THEOREM IInvariant == Spec => []IInv
<1>1. Init => IInv
  <2> SUFFICES ASSUME Init PROVE IInv
    BY Zenon
  <2> USE SlotFacts, IndexFacts DEF Init
  <2>1. TypeOK
    BY ProcAssumption DEF TypeOK, ProcState, PC, Mode
  <2>2. LockInv
    BY Zenon DEF LockInv, HoldsPlock, HoldsWaitLock, On, At, WaitLockPC
  <2>3. RunInv /\ ForkInv
    BY Zenon DEF RunInv, ForkInv, ForkPC
  <2> QED
    BY <2>1, <2>2, <2>3 DEF IInv
<1>2. IInv /\ [Next]_vars => IInv'
  BY TypeOKStep, RunInvStep, LockInvStep, ForkInvStep DEF IInv
<1> QED
  BY <1>1, <1>2, PTL DEF Spec

\* Type correctness, for every table size, number of CPUs and kill() argument.
THEOREM Typing == Spec => []TypeOK
<1>1. IInv => TypeOK
  BY DEF IInv
<1> QED
  BY <1>1, IInvariant, PTL

\* scheduler() never runs one process on two CPUs, and RUNNING means running.
THEOREM OneCPU == Spec => []RunsOnOneCPU
<1>1. IInv => RunsOnOneCPU
  BY SlotFacts DEF IInv, TypeOK, RunInv, RunsOnOneCPU, Mode
<1> QED
  BY <1>1, IInvariant, PTL

\* No CPU executes on the kernel stack of a freed slot: wait() cannot reap a
\* zombie that has not left its CPU.
THEOREM StackSafety == Spec => []StackInUse
<1>1. IInv => StackInUse
  BY SlotFacts DEF IInv, TypeOK, RunInv, StackInUse, Mode
<1> QED
  BY <1>1, IInvariant, PTL

\* sched() never panics: p->lock, and only p->lock, is held across swtch().
THEOREM SchedPanicsNever == Spec => []SchedHoldsOnlyPlock
<1>1. IInv => SchedHoldsOnlyPlock
  BY SlotFacts, SMTT(60) DEF IInv, TypeOK, LockInv, RunInv, SchedHoldsOnlyPlock, HoldsPlock,
         HoldsWaitLock, On, At
<1> QED
  BY <1>1, IInvariant, PTL

\* Nobody spins on wait_lock with a p->lock held.
THEOREM LockOrdering == Spec => []LockOrder
<1>1. ASSUME IInv, NEW c \in CPU, NEW p \in Slot, On(c, p),
             pc[p] \in WantsWaitLockPC, NEW q \in Slot
      PROVE  plock[q] # c
  <2>1. ~HoldsPlock(c, q)
    BY <1>1, Zenon DEF HoldsPlock, On, At, WantsWaitLockPC
  <2> QED
    BY <1>1, <2>1, Zenon DEF IInv, LockInv
<1>2. IInv => LockOrder
  BY <1>1, Zenon DEF LockOrder
<1> QED
  BY <1>2, IInvariant, PTL

\* The lock discipline of proc.c as a whole: both facts hold at all times.
THEOREM Disciplined == Spec => []LockDiscipline
<1>1. SchedHoldsOnlyPlock /\ LockOrder => LockDiscipline
  BY DEF LockDiscipline
<1> QED
  BY <1>1, SchedPanicsNever, LockOrdering, PTL

-----------------------------------------------------------------------------
(* The process tree *)

\* The steps between which a loop variable (or fork()'s np) is alive.
IndexPC == ForkPC \cup {"fork_alloc", "exit_wakeinit", "exit_wakeparent", "wait_scan", "kill"}

\* Every loop over the table starts at its first slot, and a slot without a
\* live process is in no loop.
IndexInv ==
    /\ \A p \in Slot : pc[p] \notin IndexPC => idx[p] = 0
    /\ \A p \in Slot : state[p] \in {"UNUSED", "USED", "ZOMBIE"} => pc[p] \in {"user", "zombie"}

Live == {"RUNNABLE", "RUNNING", "SLEEPING"}
PastReparentPC == {"exit_wakeparent", "exit_zombie"}

\* The steps that the invariant on the parent pointers speaks of.
TreePC == {"fork_run", "exit_reparent", "exit_wakeinit"} \cup PastReparentPC

\* parent pointers lead to processes that have not given their children away;
\* init never gets past the start of exit().
TreeInv ==
    /\ \A q \in Slot : parent[q] # NIL =>
           state[parent[q]] \in Live /\ pc[parent[q]] \notin PastReparentPC
    /\ \A q \in Slot \ {initproc} : state[q] \in Live \cup {"ZOMBIE"} => parent[q] # NIL
    /\ \A p \in Slot : pc[p] = "fork_run" => parent[idx[p]] # NIL
    /\ state[initproc] \in Live
    /\ pc[initproc] \notin {"exit_reparent", "exit_wakeinit"} \cup PastReparentPC

\* Every pid in the table was handed out by allocpid().
PidInv == PidsUnique /\ nextpid > 0 /\ \A p \in Slot : pid[p] < nextpid

-----------------------------------------------------------------------------
\* Every loop starts over from the first slot.
LEMMA IndexInvStep == IInv /\ IndexInv /\ [Next]_vars => IndexInv'
<1> SUFFICES ASSUME IInv, IndexInv, [Next]_vars PROVE IndexInv'
  OBVIOUS
<1>0. /\ state \in [Slot -> ProcState]
      /\ pc \in [Slot -> PC]
      /\ idx \in [Slot -> Index]
      /\ scan \in [CPU -> Slot]
  BY Zenon DEF IInv, TypeOK
<1> USE <1>0, SlotFacts DEF IndexInv, IndexPC, ForkPC, table, locks, cpus, On,
      At, Goto, SetState, Free, Acquire, Release, Return
<1>1. ASSUME NEW c \in CPU, Scheduler(c) PROVE IndexInv'
  <2>1. UNCHANGED <<pc, idx>>
    BY <1>1, Zenon DEF Scheduler, SchedRun, SchedSkip, SchedBack, SwitchIn
  <2>2. \A q \in Slot : state'[q] = state[q] \/ state'[q] = "RUNNING"
    BY <1>1, Zenon DEF Scheduler, SchedRun, SchedSkip, SchedBack, SwitchIn
  <2> QED
    BY <2>1, <2>2, Zenon
<1>2. ASSUME NEW c \in CPU, NEW p \in Slot, Yield(c, p) PROVE IndexInv'
  BY <1>2, Zenon DEF Yield, Sched
<1>3. ASSUME NEW c \in CPU, NEW p \in Slot, UserKilled(c, p) PROVE IndexInv'
  <2>1. UNCHANGED <<state, idx>> /\ pc[p] = "user" /\ pc' = [pc EXCEPT ![p] = "exit"]
    BY <1>3, Zenon DEF UserKilled
  <2>2. state[p] = "RUNNING"
    BY <1>3, Zenon DEF UserKilled, IInv, RunInv
  <2> QED
    BY <2>1, <2>2
<1>4. ASSUME NEW c \in CPU, NEW p \in Slot, SysReturn(c, p) PROVE IndexInv'
  <2>1. /\ UNCHANGED <<state, idx>> /\ pc[p] = "sysret"
        /\ \A q \in Slot \ {p} : pc'[q] = pc[q]
        /\ pc'[p] \in {"exit", "user"}
    BY <1>4, Zenon DEF SysReturn
  <2> QED
    BY <2>1
<1>5. ASSUME NEW c \in CPU, NEW p \in Slot, User(c, p) PROVE IndexInv'
  <2>1. /\ UNCHANGED <<state, idx>> /\ pc[p] = "user" /\ On(c, p)
        /\ \A q \in Slot \ {p} : pc'[q] = pc[q]
    BY <1>5, Zenon DEF User, UserFault, SysFork, SysExit, SysWait, SysKill, Syscall
  <2>2. state[p] = "RUNNING"
    BY <2>1, Zenon DEF IInv, RunInv
  <2> QED
    BY <2>1, <2>2
<1>6. ASSUME NEW c \in CPU, NEW p \in Slot, ForkSkip(c, p) PROVE IndexInv'
  <2>1. /\ state' = state /\ pc[p] = "fork_alloc"
        /\ \A q \in Slot \ {p} : pc'[q] = pc[q] /\ idx'[q] = idx[q]
        /\ pc'[p] = pc[p] \/ idx'[p] = 0
    BY <1>6, Zenon DEF ForkSkip
  <2> QED
    BY <2>1, Zenon
<1>7. ASSUME NEW c \in CPU, NEW p \in Slot, ForkAlloc(c, p) PROVE IndexInv'
  <2>1. /\ idx' = idx /\ pc[p] = "fork_alloc"
        /\ idx[p] \in Slot /\ state[idx[p]] = "UNUSED"
        /\ state' = [state EXCEPT ![idx[p]] = "USED"]
        /\ pc' = [pc EXCEPT ![p] = "fork_copy", ![idx[p]] = "user"]
    BY <1>7, IndexFacts, Zenon DEF ForkAlloc
  <2> QED
    BY <2>1
<1>8. ASSUME NEW c \in CPU, NEW p \in Slot, ForkCopy(c, p) PROVE IndexInv'
  <2>1. /\ UNCHANGED <<state, idx>> /\ pc[p] = "fork_copy"
        /\ pc' = [pc EXCEPT ![p] = "fork_parent"]
    BY <1>8, Zenon DEF ForkCopy
  <2> QED
    BY <2>1
<1>9. ASSUME NEW c \in CPU, NEW p \in Slot, ForkFail(c, p) PROVE IndexInv'
  <2>1. state[idx[p]] = "USED" /\ idx[p] \in Slot /\ state[p] = "RUNNING"
    BY <1>9 DEF ForkFail, IInv, RunInv, ForkInv
  <2>2. /\ pc' = [pc EXCEPT ![p] = "sysret"] /\ idx' = [idx EXCEPT ![p] = 0]
        /\ state' = [state EXCEPT ![idx[p]] = "UNUSED"]
    BY <1>9, Zenon DEF ForkFail, Freeproc
  <2> QED
    BY <2>1, <2>2
<1>10. ASSUME NEW c \in CPU, NEW p \in Slot, ForkParent(c, p) PROVE IndexInv'
  <2>1. /\ UNCHANGED <<state, idx>> /\ pc[p] = "fork_parent"
        /\ pc' = [pc EXCEPT ![p] = "fork_run"]
    BY <1>10, Zenon DEF ForkParent
  <2> QED
    BY <2>1
<1>11. ASSUME NEW c \in CPU, NEW p \in Slot, ForkRun(c, p) PROVE IndexInv'
  BY <1>11, Zenon DEF ForkRun
<1>12. ASSUME NEW c \in CPU, NEW p \in Slot, Exit(c, p) PROVE IndexInv'
  <2>1. CASE ExitInit(c, p) \/ ExitLock(c, p) \/ ExitReparent(c, p)
    <3>1. pc[p] \in {"exit", "exit_reparent"} /\ idx' = idx /\ state' = state
      BY <2>1, Zenon DEF ExitInit, ExitLock, ExitReparent
    <3>2. \E l \in {"panic", "exit_reparent", "exit_wakeparent", "exit_wakeinit"} :
              pc' = [pc EXCEPT ![p] = l]
      BY <2>1, Zenon DEF ExitInit, ExitLock, ExitReparent
    <3> QED
      BY <3>1, <3>2
  <2>2. CASE ExitWakeInit(c, p) \/ ExitWakeParent(c, p)
    <3>1. /\ \A q \in Slot \ {p} : pc'[q] = pc[q] /\ idx'[q] = idx[q]
          /\ pc[p] \in {"exit_wakeinit", "exit_wakeparent"}
          /\ pc'[p] = pc[p] \/ idx'[p] = 0
      BY <2>2, ZenonT(60) DEF ExitWakeInit, ExitWakeParent, Wakeup
    <3>2. \A q \in Slot : state'[q] = state[q] \/ state'[q] = "RUNNABLE"
      BY <2>2, Zenon DEF ExitWakeInit, ExitWakeParent, Wakeup, WakeupStep
    <3> QED
      BY <3>1, <3>2
  <2>3. CASE ExitZombie(c, p)
    BY <2>3, Zenon DEF ExitZombie
  <2> QED
    BY <1>12, <2>1, <2>2, <2>3, Zenon DEF Exit
<1>13. ASSUME NEW c \in CPU, NEW p \in Slot, Wait(c, p) PROVE IndexInv'
  <2>1. CASE WaitReap(c, p)
    <3>1. /\ \A q \in Slot \ {p} : pc'[q] = pc[q] /\ idx'[q] = idx[q]
          /\ pc[p] = "wait_scan" /\ pc'[p] = "sysret" /\ idx'[p] = 0
          /\ state[idx[p]] = "ZOMBIE"
          /\ \A q \in Slot : state'[q] = state[q] \/ q = idx[p]
      BY <2>1, Zenon DEF WaitReap, FoundZombie, Freeproc
    <3> QED
      BY <3>1, Zenon
  <2>2. CASE WaitLock(c, p) \/ WaitCopyFail(c, p) \/ WaitGiveUp(c, p) \/ WaitSleep(c, p)
             \/ SleepLock(c, p)
    <3>1. /\ state' = state
          /\ \A q \in Slot \ {p} : pc'[q] = pc[q] /\ idx'[q] = idx[q]
          /\ pc[p] \in {"wait", "sleep_wake", "wait_scan", "wait_decide", "sleep"}
      BY <2>2, Zenon DEF WaitLock, WaitCopyFail, WaitGiveUp, WaitSleep, SleepLock
    <3>2. \/ idx'[p] = 0
          \/ pc'[p] = "wait_scan"
          \/ pc[p] \in {"wait_decide", "sleep"} /\ idx'[p] = idx[p]
      BY <2>2, Zenon DEF WaitLock, WaitCopyFail, WaitGiveUp, WaitSleep, SleepLock
    <3> QED
      BY <3>1, <3>2, Zenon
  <2>3. CASE WaitNext(c, p)
    <3>1. /\ state' = state /\ pc[p] = "wait_scan"
          /\ \A q \in Slot \ {p} : pc'[q] = pc[q] /\ idx'[q] = idx[q]
          /\ pc'[p] = pc[p] \/ idx'[p] = 0
      BY <2>3, Zenon DEF WaitNext
    <3> QED
      BY <3>1, Zenon
  <2>4. CASE SleepSwitch(c, p)
    BY <2>4, Zenon DEF SleepSwitch
  <2> QED
    BY <1>13, <2>1, <2>2, <2>3, <2>4, Zenon DEF Wait
<1>14. ASSUME NEW c \in CPU, NEW p \in Slot, Kill(c, p) PROVE IndexInv'
  <2>1. /\ \A q \in Slot : state'[q] = state[q] \/ state'[q] = "RUNNABLE"
        /\ pc[p] = "kill"
    BY <1>14, Zenon DEF Kill, KillHit, KillNext
  <2>2. /\ \A q \in Slot \ {p} : pc'[q] = pc[q] /\ idx'[q] = idx[q]
        /\ pc'[p] = pc[p] \/ idx'[p] = 0
    BY <1>14, Zenon DEF Kill, KillHit, KillNext
  <2> QED
    BY <2>1, <2>2, Zenon
<1>15. CASE UNCHANGED vars
  BY <1>15, Zenon DEF vars
<1> HIDE DEF IndexInv, IndexPC, ForkPC
<1> QED
  BY <1>1, <1>2, <1>3, <1>4, <1>5, <1>6, <1>7, <1>8, <1>9, <1>10, <1>11,
     <1>12, <1>13, <1>14, <1>15, Zenon DEF Next, Kernel, Fork

\* The tree does not change while the parent pointers stay, no process starts or
\* ends, and no thread comes to a step that the invariant speaks of.
LEMMA TreeKept ==
    ASSUME TypeOK, TreeInv, parent' = parent,
           \A q \in Slot : state'[q] = state[q] \/ (state[q] \in Live /\ state'[q] \in Live),
           \A q \in Slot : \/ pc'[q] = pc[q] /\ (pc[q] = "fork_run" => idx'[q] = idx[q])
                           \/ pc'[q] \notin TreePC
    PROVE  TreeInv'
<1>0. /\ parent \in [Slot -> Slot \cup {NIL}] /\ initproc \in Slot
      /\ TreePC = {"fork_run", "exit_reparent", "exit_wakeinit", "exit_wakeparent", "exit_zombie"}
  BY SlotFacts, Zenon DEF TypeOK, TreePC, PastReparentPC
<1>1. ASSUME NEW q \in Slot, parent[q] # NIL
      PROVE  state'[parent[q]] \in Live /\ pc'[parent[q]] \notin PastReparentPC
  <2>1. parent[q] \in Slot
    BY <1>0, <1>1, Zenon
  <2> QED
    BY <1>1, <2>1, Zenon DEF TreeInv, TreePC
<1>2. ASSUME NEW q \in Slot \ {initproc}, state'[q] \in Live \cup {"ZOMBIE"} PROVE parent[q] # NIL
  BY <1>2, Zenon DEF TreeInv
<1>3. ASSUME NEW p \in Slot, pc'[p] = "fork_run" PROVE parent[idx'[p]] # NIL
  BY <1>0, <1>3, Zenon DEF TreeInv
<1>4. /\ state'[initproc] \in Live
      /\ pc'[initproc] \notin {"exit_reparent", "exit_wakeinit"} \cup PastReparentPC
  BY <1>0, Zenon DEF TreeInv, TreePC
<1> QED
  BY <1>1, <1>2, <1>3, <1>4, Zenon DEF TreeInv

\* A step of one thread that touches neither the states nor the parent pointers.
LEMMA TreeKeptBy ==
    ASSUME TypeOK, TreeInv, NEW p \in Slot, UNCHANGED <<state, parent>>, pc[p] # "fork_run",
           \A q \in Slot \ {p} : pc'[q] = pc[q] /\ idx'[q] = idx[q],
           pc'[p] = pc[p] \/ pc'[p] \notin TreePC
    PROVE  TreeInv'
<1>1. \A q \in Slot : \/ pc'[q] = pc[q] /\ (pc[q] = "fork_run" => idx'[q] = idx[q])
                      \/ pc'[q] \notin TreePC
  BY Zenon
<1>2. \A q \in Slot : state'[q] = state[q]
  BY Zenon
<1> QED
  BY <1>1, <1>2, TreeKept, Zenon

\* fork(), reparent() and wait() keep the parent pointers pointing at processes
\* that can still wait().
LEMMA TreeInvStep == IInv /\ TreeInv /\ [Next]_vars => TreeInv'
<1> SUFFICES ASSUME IInv, TreeInv, [Next]_vars PROVE TreeInv'
  OBVIOUS
<1>0. /\ TypeOK
      /\ state \in [Slot -> ProcState]
      /\ parent \in [Slot -> Slot \cup {NIL}]
      /\ pc \in [Slot -> PC]
      /\ idx \in [Slot -> Index]
      /\ scan \in [CPU -> Slot]
  BY Zenon DEF IInv, TypeOK
<1> USE <1>0, SlotFacts DEF table, locks, cpus, On, At, Goto, SetState, Return
<1>1. ASSUME NEW c \in CPU, Scheduler(c) PROVE TreeInv'
  <2>1. UNCHANGED <<parent, pc, idx>>
    BY <1>1, Zenon DEF Scheduler, SchedRun, SchedSkip, SchedBack, SwitchIn
  <2>2. \A q \in Slot : state'[q] = state[q] \/ (state[q] = "RUNNABLE" /\ state'[q] = "RUNNING")
    BY <1>1, Zenon DEF Scheduler, SchedRun, SchedSkip, SchedBack, SwitchIn
  <2> QED
    BY <2>1, <2>2, TreeKept, Zenon DEF Live
<1>2. ASSUME NEW c \in CPU, NEW p \in Slot, Yield(c, p) PROVE TreeInv'
  <2>1. UNCHANGED <<parent, pc, idx>> /\ state' = [state EXCEPT ![p] = "RUNNABLE"]
    BY <1>2, Zenon DEF Yield
  <2>2. state[p] = "RUNNING"
    BY <1>2, Zenon DEF Yield, IInv, RunInv
  <2>3. \A q \in Slot : state'[q] = state[q] \/ (state[q] = "RUNNING" /\ state'[q] = "RUNNABLE")
    BY <2>1, <2>2, Zenon
  <2> QED
    BY <2>1, <2>3, TreeKept, Zenon DEF Live
<1>3. ASSUME NEW c \in CPU, NEW p \in Slot, UserKilled(c, p) \/ SysReturn(c, p) \/ User(c, p)
      PROVE  TreeInv'
  <2>1. /\ UNCHANGED <<state, parent, idx>> /\ pc[p] \in {"user", "sysret"}
        /\ \A q \in Slot \ {p} : pc'[q] = pc[q]
        /\ pc'[p] \in {"user", "exit", "fork_alloc", "wait", "kill"}
    BY <1>3, Zenon DEF UserKilled, SysReturn, User, UserFault, SysFork, SysExit, SysWait,
       SysKill, Syscall
  <2> QED
    BY <2>1, TreeKeptBy, Zenon DEF TreePC, PastReparentPC
<1>4. ASSUME NEW c \in CPU, NEW p \in Slot, ForkSkip(c, p) \/ ForkCopy(c, p) \/ KillNext(c, p)
      PROVE  TreeInv'
  <2>1. /\ UNCHANGED <<state, parent>> /\ pc[p] \in {"fork_alloc", "fork_copy", "kill"}
        /\ \A q \in Slot \ {p} : pc'[q] = pc[q] /\ idx'[q] = idx[q]
        /\ pc'[p] = pc[p] \/ pc'[p] \in {"sysret", "fork_parent"}
    BY <1>4, Zenon DEF ForkSkip, ForkCopy, KillNext
  <2> QED
    BY <2>1, TreeKeptBy, Zenon DEF TreePC, PastReparentPC
<1>5. ASSUME NEW c \in CPU, NEW p \in Slot, ForkAlloc(c, p) PROVE TreeInv'
  <2>1. /\ parent' = parent /\ idx' = idx /\ pc[p] = "fork_alloc"
        /\ idx[p] \in Slot /\ state[idx[p]] = "UNUSED"
        /\ state' = [state EXCEPT ![idx[p]] = "USED"]
        /\ pc' = [pc EXCEPT ![p] = "fork_copy", ![idx[p]] = "user"]
    BY <1>5, IndexFacts, Zenon DEF ForkAlloc
  <2>2. /\ \A q \in Slot : state'[q] = state[q] \/ (state[q] = "UNUSED" /\ state'[q] = "USED")
        /\ \A q \in Slot : pc'[q] = pc[q] \/ pc'[q] \in {"fork_copy", "user"}
    BY <2>1, Zenon
  <2> QED
    BY <2>1, <2>2 DEF TreeInv, Live, PastReparentPC
<1>6. ASSUME NEW c \in CPU, NEW p \in Slot, ForkFail(c, p) PROVE TreeInv'
  <2>1. /\ pc[p] = "fork_copy" /\ idx[p] \in Slot /\ state[idx[p]] = "USED"
    BY <1>6, Zenon DEF ForkFail, IInv, ForkInv, ForkPC
  <2>2. /\ state' = [state EXCEPT ![idx[p]] = "UNUSED"]
        /\ parent' = [parent EXCEPT ![idx[p]] = NIL]
        /\ pc' = [pc EXCEPT ![p] = "sysret"] /\ idx' = [idx EXCEPT ![p] = 0]
    BY <1>6, Zenon DEF ForkFail, Freeproc
  <2>3. \A q \in Slot \ {p} : pc[q] = "fork_run" => idx[q] # idx[p]
    BY <2>1, Zenon DEF IInv, ForkInv, ForkPC
  <2> QED
    BY <2>1, <2>2, <2>3 DEF TreeInv, Live, PastReparentPC
<1>7. ASSUME NEW c \in CPU, NEW p \in Slot, ForkParent(c, p) PROVE TreeInv'
  <2>1. /\ pc[p] = "fork_parent" /\ idx[p] \in Slot /\ state[p] = "RUNNING"
    BY <1>7, Zenon DEF ForkParent, IInv, RunInv, ForkInv, ForkPC
  <2>2. /\ parent' = [parent EXCEPT ![idx[p]] = p]
        /\ pc' = [pc EXCEPT ![p] = "fork_run"] /\ UNCHANGED <<state, idx>>
    BY <1>7, Zenon DEF ForkParent
  <2> QED
    BY <2>1, <2>2 DEF TreeInv, Live, PastReparentPC
<1>8. ASSUME NEW c \in CPU, NEW p \in Slot, ForkRun(c, p) PROVE TreeInv'
  <2>1. /\ pc[p] = "fork_run" /\ state' = [state EXCEPT ![idx[p]] = "RUNNABLE"]
        /\ pc' = [pc EXCEPT ![p] = "sysret"] /\ idx' = [idx EXCEPT ![p] = 0]
        /\ parent' = parent
    BY <1>8, Zenon DEF ForkRun
  <2> QED
    BY <2>1 DEF TreeInv, Live, PastReparentPC
<1>9. ASSUME NEW c \in CPU, NEW p \in Slot, ExitInit(c, p) PROVE TreeInv'
  <2>1. /\ UNCHANGED <<state, parent, idx>> /\ pc[p] = "exit"
        /\ pc' = [pc EXCEPT ![p] = "panic"]
    BY <1>9, Zenon DEF ExitInit
  <2> QED
    BY <2>1, TreeKeptBy, Zenon DEF TreePC, PastReparentPC
<1>10. ASSUME NEW c \in CPU, NEW p \in Slot, ExitLock(c, p) PROVE TreeInv'
  <2>1. /\ UNCHANGED <<state, parent, idx>> /\ pc[p] = "exit" /\ p # initproc
        /\ pc' = [pc EXCEPT ![p] = "exit_reparent"]
    BY <1>10, Zenon DEF ExitLock
  <2> QED
    BY <2>1 DEF TreeInv, PastReparentPC
<1>11. ASSUME NEW c \in CPU, NEW p \in Slot, ExitReparent(c, p) PROVE TreeInv'
  <2>0. UNCHANGED <<state, idx>> /\ pc[p] = "exit_reparent" /\ p # initproc
    BY <1>11, Zenon DEF ExitReparent, TreeInv
  <2>1. CASE Children(p) = {} /\ Goto(p, "exit_wakeparent") /\ UNCHANGED parent
    BY <2>0, <2>1 DEF TreeInv, PastReparentPC, Children
  <2>2. ASSUME NEW q \in Children(p), parent' = [parent EXCEPT ![q] = initproc],
               Goto(p, "exit_wakeinit")
        PROVE  TreeInv'
    <3>1. q \in Slot
      BY Zenon DEF Children
    <3> QED
      BY <2>0, <2>2, <3>1 DEF TreeInv, PastReparentPC
  <2> QED
    BY <1>11, <2>1, <2>2, Zenon DEF ExitReparent
<1>12. ASSUME NEW c \in CPU, NEW p \in Slot, ExitWakeInit(c, p) \/ ExitWakeParent(c, p)
       PROVE  TreeInv'
  <2>1. /\ parent' = parent
        /\ \/ pc[p] = "exit_wakeinit" /\ pc'[p] \in {pc[p], "exit_reparent"}
           \/ pc[p] = "exit_wakeparent" /\ pc'[p] \in {pc[p], "exit_zombie"}
    BY <1>12, Zenon DEF ExitWakeInit, ExitWakeParent, Wakeup
  <2>2. \A q \in Slot \ {p} : pc'[q] = pc[q] /\ idx'[q] = idx[q]
    BY <1>12, Zenon DEF ExitWakeInit, ExitWakeParent, Wakeup
  <2>3. \A q \in Slot : state'[q] = state[q] \/ (state[q] = "SLEEPING" /\ state'[q] = "RUNNABLE")
    BY <1>12, Zenon DEF ExitWakeInit, ExitWakeParent, Wakeup, WakeupStep
  <2> QED
    BY <2>1, <2>2, <2>3 DEF TreeInv, Live, PastReparentPC
<1>13. ASSUME NEW c \in CPU, NEW p \in Slot, ExitZombie(c, p) PROVE TreeInv'
  <2>1. /\ pc[p] = "exit_zombie" /\ state[p] = "RUNNING"
    BY <1>13, Zenon DEF ExitZombie, IInv, RunInv
  <2>2. /\ UNCHANGED <<parent, idx>> /\ state' = [state EXCEPT ![p] = "ZOMBIE"]
        /\ pc' = [pc EXCEPT ![p] = "zombie"]
    BY <1>13, Zenon DEF ExitZombie
  <2> QED
    BY <2>1, <2>2 DEF TreeInv, Live, PastReparentPC
<1>14. ASSUME NEW c \in CPU, NEW p \in Slot, WaitReap(c, p) PROVE TreeInv'
  <2>1. /\ pc[p] = "wait_scan" /\ idx[p] \in Slot /\ state[idx[p]] = "ZOMBIE"
        /\ state' = [state EXCEPT ![idx[p]] = "UNUSED"]
        /\ parent' = [parent EXCEPT ![idx[p]] = NIL]
        /\ pc' = [pc EXCEPT ![p] = "sysret"] /\ idx' = [idx EXCEPT ![p] = 0]
    BY <1>14, IndexFacts, Zenon DEF WaitReap, FoundZombie, Freeproc
  <2>2. \A q \in Slot : pc[q] = "fork_run" => state[idx[q]] = "USED"
    BY Zenon DEF IInv, ForkInv, ForkPC
  <2> QED
    BY <2>1, <2>2 DEF TreeInv, Live, PastReparentPC
<1>15. ASSUME NEW c \in CPU, NEW p \in Slot,
              \/ WaitLock(c, p) \/ WaitNext(c, p) \/ WaitCopyFail(c, p) \/ WaitGiveUp(c, p)
              \/ WaitSleep(c, p) \/ SleepLock(c, p)
       PROVE  TreeInv'
  <2>1. /\ UNCHANGED <<state, parent>>
        /\ pc[p] \in {"wait", "sleep_wake", "wait_scan", "wait_decide", "sleep"}
    BY <1>15, Zenon DEF WaitLock, WaitNext, WaitCopyFail, WaitGiveUp, WaitSleep, SleepLock
  <2>2. /\ \A q \in Slot \ {p} : pc'[q] = pc[q] /\ idx'[q] = idx[q]
        /\ pc'[p] = pc[p] \/ pc'[p] \in {"wait_scan", "wait_decide", "sysret", "sleep", "sleep_switch"}
    BY <1>15, Zenon DEF WaitLock, WaitNext, WaitCopyFail, WaitGiveUp, WaitSleep, SleepLock
  <2> QED
    BY <2>1, <2>2, TreeKeptBy, Zenon DEF TreePC, PastReparentPC
<1>16. ASSUME NEW c \in CPU, NEW p \in Slot, SleepSwitch(c, p) PROVE TreeInv'
  <2>1. /\ UNCHANGED <<parent, idx>> /\ state' = [state EXCEPT ![p] = "SLEEPING"]
        /\ pc' = [pc EXCEPT ![p] = "sleep_wake"]
    BY <1>16, Zenon DEF SleepSwitch
  <2>2. state[p] = "RUNNING"
    BY <1>16, Zenon DEF SleepSwitch, IInv, RunInv
  <2>3. /\ \A q \in Slot : state'[q] = state[q] \/ (state[q] = "RUNNING" /\ state'[q] = "SLEEPING")
        /\ \A q \in Slot : pc'[q] = pc[q] \/ pc'[q] = "sleep_wake"
    BY <2>1, <2>2, Zenon
  <2> QED
    BY <2>1, <2>3, TreeKept, Zenon DEF Live, TreePC, PastReparentPC
<1>17. ASSUME NEW c \in CPU, NEW p \in Slot, KillHit(c, p) PROVE TreeInv'
  <2>1. /\ parent' = parent /\ pc[p] = "kill" /\ pc' = [pc EXCEPT ![p] = "sysret"]
        /\ idx' = [idx EXCEPT ![p] = 0]
    BY <1>17, Zenon DEF KillHit
  <2>2. \A q \in Slot : state'[q] = state[q] \/ (state[q] = "SLEEPING" /\ state'[q] = "RUNNABLE")
    BY <1>17, Zenon DEF KillHit
  <2>3. \A q \in Slot : pc'[q] = "sysret" \/ (pc'[q] = pc[q] /\ idx'[q] = idx[q])
    BY <2>1, Zenon
  <2> QED
    BY <2>1, <2>2, <2>3, TreeKept, Zenon DEF Live, TreePC, PastReparentPC
<1>18. CASE UNCHANGED vars
  BY <1>18, TreeKept, Zenon DEF vars
<1> QED
  BY <1>1, <1>2, <1>3, <1>4, <1>5, <1>6, <1>7, <1>8, <1>9, <1>10, <1>11, <1>12, <1>13,
     <1>14, <1>15, <1>16, <1>17, <1>18, Zenon DEF Next, Kernel, Fork, Exit, Wait, Kill

\* allocpid() hands out each pid once, and freeproc() clears it.
LEMMA PidInvStep == IInv /\ PidInv /\ [Next]_vars => PidInv'
<1> SUFFICES ASSUME IInv, PidInv, [Next]_vars PROVE PidInv'
  OBVIOUS
<1>0. /\ state \in [Slot -> ProcState]
      /\ pid \in [Slot -> Nat]
      /\ nextpid \in Nat
      /\ idx \in [Slot -> Index]
      /\ scan \in [CPU -> Slot]
  BY DEF IInv, TypeOK
<1> USE <1>0, SlotFacts DEF PidInv, PidsUnique, table, locks, cpus, On, At,
      Goto, SetState, Free, Acquire, Release, Return
<1>1. ASSUME NEW c \in CPU, Scheduler(c) PROVE PidInv'
  BY <1>1, ZenonT(60) DEF Scheduler, SchedRun, SchedSkip, SchedBack, SwitchIn
<1>2. ASSUME NEW c \in CPU, NEW p \in Slot, Yield(c, p) PROVE PidInv'
  <2>1. pid' = pid /\ nextpid' = nextpid /\ state' = [state EXCEPT ![p] = "RUNNABLE"]
    BY <1>2, Zenon DEF Yield
  <2>2. state[p] = "RUNNING"
    BY <1>2, Zenon DEF Yield, IInv, RunInv
  <2> QED
    BY <2>1, <2>2
<1>3. ASSUME NEW c \in CPU, NEW p \in Slot, UserKilled(c, p) PROVE PidInv'
  BY <1>3, Zenon DEF UserKilled
<1>4. ASSUME NEW c \in CPU, NEW p \in Slot, SysReturn(c, p) PROVE PidInv'
  BY <1>4, ZenonT(60) DEF SysReturn
<1>5. ASSUME NEW c \in CPU, NEW p \in Slot, User(c, p) PROVE PidInv'
  <2>1. UNCHANGED <<state, pid, nextpid>>
    BY <1>5, Zenon DEF User, UserFault, SysFork, SysExit, SysWait, SysKill, Syscall
  <2> QED
    BY <2>1, Zenon
<1>6. ASSUME NEW c \in CPU, NEW p \in Slot, ForkSkip(c, p) PROVE PidInv'
  BY <1>6, Zenon DEF ForkSkip
<1>7. ASSUME NEW c \in CPU, NEW p \in Slot, ForkAlloc(c, p) PROVE PidInv'
  BY <1>7 DEF ForkAlloc, Allocpid
<1>8. ASSUME NEW c \in CPU, NEW p \in Slot, ForkCopy(c, p) PROVE PidInv'
  BY <1>8, Zenon DEF ForkCopy
<1>9. ASSUME NEW c \in CPU, NEW p \in Slot, ForkFail(c, p) PROVE PidInv'
  BY <1>9 DEF ForkFail, Freeproc
<1>10. ASSUME NEW c \in CPU, NEW p \in Slot, ForkParent(c, p) PROVE PidInv'
  BY <1>10, Zenon DEF ForkParent
<1>11. ASSUME NEW c \in CPU, NEW p \in Slot, ForkRun(c, p) PROVE PidInv'
  BY <1>11, IndexFacts DEF ForkRun, IInv, ForkInv, ForkPC
<1>12. ASSUME NEW c \in CPU, NEW p \in Slot, ExitInit(c, p) PROVE PidInv'
  BY <1>12, Zenon DEF ExitInit
<1>13. ASSUME NEW c \in CPU, NEW p \in Slot, ExitLock(c, p) PROVE PidInv'
  BY <1>13, Zenon DEF ExitLock, AcquireWait
<1>14. ASSUME NEW c \in CPU, NEW p \in Slot, ExitReparent(c, p) PROVE PidInv'
  BY <1>14 DEF ExitReparent, Children
<1>15. ASSUME NEW c \in CPU, NEW p \in Slot, ExitWakeInit(c, p) PROVE PidInv'
  <2>1. pid' = pid /\ nextpid' = nextpid
    BY <1>15, Zenon DEF ExitWakeInit, Wakeup
  <2>2. \A q \in Slot : state'[q] = state[q] \/ (state[q] = "SLEEPING" /\ state'[q] = "RUNNABLE")
    BY <1>15, Zenon DEF ExitWakeInit, Wakeup, WakeupStep
  <2> QED
    BY <2>1, <2>2
<1>16. ASSUME NEW c \in CPU, NEW p \in Slot, ExitWakeParent(c, p) PROVE PidInv'
  <2>1. pid' = pid /\ nextpid' = nextpid
    BY <1>16, Zenon DEF ExitWakeParent, Wakeup
  <2>2. \A q \in Slot : state'[q] = state[q] \/ (state[q] = "SLEEPING" /\ state'[q] = "RUNNABLE")
    BY <1>16, Zenon DEF ExitWakeParent, Wakeup, WakeupStep
  <2> QED
    BY <2>1, <2>2
<1>17. ASSUME NEW c \in CPU, NEW p \in Slot, ExitZombie(c, p) PROVE PidInv'
  <2>1. pid' = pid /\ nextpid' = nextpid /\ state' = [state EXCEPT ![p] = "ZOMBIE"]
    BY <1>17, Zenon DEF ExitZombie
  <2>2. state[p] = "RUNNING"
    BY <1>17, Zenon DEF ExitZombie, IInv, RunInv
  <2> QED
    BY <2>1, <2>2
<1>18. ASSUME NEW c \in CPU, NEW p \in Slot, WaitLock(c, p) PROVE PidInv'
  BY <1>18, Zenon DEF WaitLock, AcquireWait
<1>19. ASSUME NEW c \in CPU, NEW p \in Slot, WaitNext(c, p) PROVE PidInv'
  BY <1>19 DEF WaitNext
<1>20. ASSUME NEW c \in CPU, NEW p \in Slot, WaitReap(c, p) PROVE PidInv'
  BY <1>20 DEF WaitReap, FoundZombie, Freeproc, ReleaseWait
<1>21. ASSUME NEW c \in CPU, NEW p \in Slot, WaitCopyFail(c, p) PROVE PidInv'
  BY <1>21, Zenon DEF WaitCopyFail, ReleaseWait
<1>22. ASSUME NEW c \in CPU, NEW p \in Slot, WaitGiveUp(c, p) PROVE PidInv'
  BY <1>22 DEF WaitGiveUp, ReleaseWait
<1>23. ASSUME NEW c \in CPU, NEW p \in Slot, WaitSleep(c, p) PROVE PidInv'
  BY <1>23, Zenon DEF WaitSleep
<1>24. ASSUME NEW c \in CPU, NEW p \in Slot, SleepLock(c, p) PROVE PidInv'
  BY <1>24, Zenon DEF SleepLock
<1>25. ASSUME NEW c \in CPU, NEW p \in Slot, SleepSwitch(c, p) PROVE PidInv'
  <2>1. pid' = pid /\ nextpid' = nextpid /\ state' = [state EXCEPT ![p] = "SLEEPING"]
    BY <1>25, Zenon DEF SleepSwitch
  <2>2. state[p] = "RUNNING"
    BY <1>25, Zenon DEF SleepSwitch, IInv, RunInv
  <2> QED
    BY <2>1, <2>2
<1>26. ASSUME NEW c \in CPU, NEW p \in Slot, Kill(c, p) PROVE PidInv'
  <2>1. pid' = pid /\ nextpid' = nextpid
    BY <1>26, Zenon DEF Kill, KillHit, KillNext
  <2>2. \A q \in Slot : state'[q] = state[q] \/ (state[q] = "SLEEPING" /\ state'[q] = "RUNNABLE")
    BY <1>26, Zenon DEF Kill, KillHit, KillNext
  <2> QED
    BY <2>1, <2>2
<1>27. CASE UNCHANGED vars
  BY <1>27 DEF vars
<1> HIDE DEF PidInv, PidsUnique
<1> QED
  BY <1>1, <1>2, <1>3, <1>4, <1>5, <1>6, <1>7, <1>8, <1>9, <1>10, <1>11,
     <1>12, <1>13, <1>14, <1>15, <1>16, <1>17, <1>18, <1>19, <1>20, <1>21,
     <1>22, <1>23, <1>24, <1>25, <1>26, <1>27, ZenonT(60) DEF Next, Kernel, Fork, Exit,
     Wait

-----------------------------------------------------------------------------
(* The theorems *)

\* The process tree and the pids: the invariant, initially and in every step.
THEOREM TreeInvariant == Spec => [](IInv /\ IndexInv /\ TreeInv /\ PidInv)
<1>1. Init => IndexInv /\ TreeInv /\ PidInv
  <2> USE SlotFacts, IndexFacts DEF Init
  <2>1. Init => IndexInv /\ TreeInv
    BY DEF IndexInv, IndexPC, ForkPC, TreeInv, Live, PastReparentPC
  <2>2. Init => PidInv
    BY DEF PidInv, PidsUnique
  <2> QED
    BY <2>1, <2>2, Zenon
<1>2. IInv /\ IndexInv /\ TreeInv /\ PidInv /\ [Next]_vars => (IndexInv /\ TreeInv /\ PidInv)'
  BY IndexInvStep, TreeInvStep, PidInvStep
<1> QED
  BY <1>1, <1>2, IInvariant, PTL DEF Spec

\* Every process has a parent that can still reap it.
THEOREM Orphans == Spec => []NoOrphans
<1>1. IInv /\ TreeInv => NoOrphans
  BY SlotFacts DEF IInv, TypeOK, TreeInv, NoOrphans, Live
<1> QED
  BY <1>1, TreeInvariant, PTL

\* kill() and wait() name one process.
THEOREM Pids == Spec => []PidsUnique
<1>1. PidInv => PidsUnique
  BY Zenon DEF PidInv
<1> QED
  BY <1>1, TreeInvariant, PTL

-----------------------------------------------------------------------------
(* exit() and wait() *)

\* wait() sleeps on the address of its own slot.
SleepsOnSelf == \A q \in Slot : state[q] = "SLEEPING" => chan[q] = q

\* A parent asleep in wait() has no zombie child, unless the exiting process
\* that handed the zombie to init is about to wake init.
SleeperToldOfZombies ==
    \A q \in Slot :
        state[q] = "ZOMBIE" /\ parent[q] # NIL /\ state[parent[q]] = "SLEEPING" =>
            /\ parent[q] = initproc
            /\ \E e \in Slot : pc[e] = "exit_wakeinit" /\ idx[e] <= initproc

\* An exiting process has woken its parent before it becomes a zombie.
ParentWoken ==
    \A e \in Slot :
        /\ pc[e] \in PastReparentPC => parent[e] # NIL
        /\ pc[e] = "exit_wakeparent" /\ state[parent[e]] = "SLEEPING" => idx[e] <= parent[e]
        /\ pc[e] = "exit_zombie" => state[parent[e]] # "SLEEPING"

\* In wait(), with wait_lock held, the slots passed hold no zombie child.
ScanIsCurrent ==
    \A p, q \in Slot :
        /\ pc[p] = "wait_scan" /\ q < idx[p] /\ parent[q] = p => state[q] # "ZOMBIE"
        /\ pc[p] \in {"wait_decide", "sleep", "sleep_switch"} /\ parent[q] = p =>
               state[q] # "ZOMBIE"

WakeInv == SleepsOnSelf /\ SleeperToldOfZombies /\ ParentWoken /\ ScanIsCurrent

-----------------------------------------------------------------------------
\* At most one thread is at a step that holds wait_lock.
LEMMA WaitLockMutex ==
    IInv => \A p, q \in Slot : pc[p] \in WaitLockPC /\ pc[q] \in WaitLockPC => p = q
BY DEF IInv, TypeOK, LockInv, HoldsWaitLock, On

\* While wait_lock is free no thread is at such a step.
LEMMA WaitLockFree ==
    IInv /\ wlock = NIL => \A p \in Slot : pc[p] \notin WaitLockPC
BY SlotFacts DEF IInv, TypeOK, LockInv, HoldsWaitLock, On

\* The places of exit() and wait() that WakeInv speaks about, exit_wakeinit apart.
WatchedPC == PastReparentPC \cup {"wait_scan", "wait_decide", "sleep", "sleep_switch"}

\* A step outside the exchange between exit() and wait(): threads move between
\* other places, or towards sleep() once the table has been scanned; a slot may
\* be woken, freed or given a parent, but not put to sleep or made a ZOMBIE.
QuietStep ==
    \A q \in Slot :
        /\ \/ pc'[q] = pc[q] /\ idx'[q] = idx[q]
           \/ pc[q] # "exit_wakeinit" /\ pc'[q] \notin WatchedPC
           \/ pc[q] \in {"wait_decide", "sleep"} /\ pc'[q] \in {"sleep", "sleep_switch"}
        /\ state'[q] = state[q] \/ state'[q] \notin {"SLEEPING", "ZOMBIE"}
        /\ chan'[q] = chan[q] \/ state'[q] # "SLEEPING"
        /\ parent'[q] = parent[q] \/ (state'[q] # "ZOMBIE" /\ pc'[q] \notin PastReparentPC)

\* Such a step keeps WakeInv.
LEMMA WakeFrame == ASSUME TypeOK, WakeInv, QuietStep PROVE WakeInv'
<1>1. SleepsOnSelf'
  BY Zenon DEF WakeInv, SleepsOnSelf, QuietStep
<1>2. SleeperToldOfZombies'
  BY SMTT(60) DEF WakeInv, SleeperToldOfZombies, TypeOK, QuietStep, WatchedPC
<1>3. ParentWoken'
  BY SMTT(60) DEF WakeInv, ParentWoken, TypeOK, PastReparentPC, QuietStep, WatchedPC
<1>4. ScanIsCurrent'
  BY SMTT(60) DEF WakeInv, ScanIsCurrent, TypeOK, QuietStep, WatchedPC
<1> QED
  BY <1>1, <1>2, <1>3, <1>4, Zenon DEF WakeInv

\* The scheduler, the way in and out of the kernel, fork() and kill() are quiet.
LEMMA QuietOutside ==
    ASSUME IInv, IndexInv, NEW c \in CPU, NEW p \in Slot,
           \/ Scheduler(c) \/ Yield(c, p) \/ UserKilled(c, p) \/ SysReturn(c, p)
           \/ User(c, p) \/ Fork(c, p) \/ Kill(c, p)
    PROVE  QuietStep
<1>0. /\ state \in [Slot -> ProcState]
      /\ chan \in [Slot -> Slot \cup {NIL}]
      /\ parent \in [Slot -> Slot \cup {NIL}]
      /\ pc \in [Slot -> PC]
      /\ idx \in [Slot -> Index]
      /\ scan \in [CPU -> Slot]
      /\ curproc \in [CPU -> Slot \cup {NIL}]
  BY Zenon DEF IInv, TypeOK
<1> USE <1>0 DEF table, locks, cpus, On, At, Goto, SetState, Return
<1>1. CASE SchedRun(c)
  BY <1>1, Zenon DEF SchedRun, QuietStep
<1>2. CASE SchedSkip(c) \/ SchedBack(c)
  BY <1>2, Zenon DEF SchedSkip, SchedBack, QuietStep
<1>3. CASE SwitchIn(c)
  <2>1. mode[c] = "swtch_in" => state[curproc[c]] = "RUNNING"
    BY Zenon DEF IInv, RunInv
  <2> QED
    BY <1>3, <2>1, SMTT(60) DEF SwitchIn, QuietStep
<1>4. CASE Yield(c, p)
  BY <1>4, Zenon DEF Yield, QuietStep
<1>5. CASE UserKilled(c, p) \/ SysReturn(c, p)
  <2>1. /\ state' = state /\ chan' = chan /\ parent' = parent /\ idx' = idx
        /\ pc[p] \in {"user", "sysret"}
        /\ \A q \in Slot : q # p => pc'[q] = pc[q]
    BY <1>5, Zenon DEF UserKilled, SysReturn
  <2>2. pc'[p] = "user" \/ pc'[p] = "exit"
    BY <1>5 DEF UserKilled, SysReturn
  <2> QED
    BY <2>1, <2>2, Zenon DEF QuietStep, WatchedPC, PastReparentPC
<1>6. CASE User(c, p)
  <2>1. /\ state' = state /\ chan' = chan /\ parent' = parent /\ idx' = idx
        /\ pc[p] = "user" /\ pc'[p] \in {"exit", "fork_alloc", "wait", "kill"}
        /\ \A q \in Slot : q # p => pc'[q] = pc[q]
    BY <1>6, Zenon DEF User, UserFault, SysFork, SysExit, SysWait, SysKill, Syscall
  <2> QED
    BY <2>1, Zenon DEF QuietStep, WatchedPC, PastReparentPC
<1>7. CASE ForkSkip(c, p)
  BY <1>7, ZenonT(60) DEF ForkSkip, QuietStep, WatchedPC, PastReparentPC
<1>8. CASE ForkAlloc(c, p)
  <2>1. \A q \in Slot : state[q] = "UNUSED" => pc[q] # "exit_wakeinit"
    BY Zenon DEF IndexInv
  <2>2. /\ \A q \in Slot : pc'[q] = pc[q] \/ pc'[q] \in {"fork_copy", "user"}
        /\ \A q \in Slot : pc'[q] # pc[q] => q = p \/ q = idx[p]
        /\ state[idx[p]] = "UNUSED" /\ pc[p] = "fork_alloc"
        /\ idx' = idx /\ chan' = chan /\ parent' = parent
    BY <1>8, Zenon DEF ForkAlloc
  <2>3. \A q \in Slot : state'[q] = state[q] \/ state'[q] = "USED"
    BY <1>8, Zenon DEF ForkAlloc
  <2> QED
    BY <2>1, <2>2, <2>3, Zenon DEF QuietStep, WatchedPC, PastReparentPC
<1>9. CASE ForkCopy(c, p)
  BY <1>9, Zenon DEF ForkCopy, QuietStep, WatchedPC, PastReparentPC
<1>10. CASE ForkFail(c, p)
  <2>1. /\ \A q \in Slot : q # p => pc'[q] = pc[q] /\ idx'[q] = idx[q]
        /\ pc[p] = "fork_copy" /\ pc'[p] = "sysret"
        /\ \A q \in Slot : q # idx[p] =>
               state'[q] = state[q] /\ chan'[q] = chan[q] /\ parent'[q] = parent[q]
    BY <1>10, Zenon DEF ForkFail, Freeproc
  <2>2. idx[p] \in Slot => state'[idx[p]] = "UNUSED"
    BY <1>10, Zenon DEF ForkFail, Freeproc
  <2>3. \A q \in Slot : state[q] = "USED" => pc[q] \in {"user", "zombie"}
    BY Zenon DEF IndexInv
  <2>4. state[idx[p]] = "USED"
    BY <2>1, Zenon DEF IInv, ForkInv, ForkPC
  <2> QED
    BY <2>1, <2>2, <2>3, <2>4, ZenonT(60) DEF QuietStep, WatchedPC, PastReparentPC
<1>11. CASE ForkParent(c, p)
  <2>1. /\ \A q \in Slot : q # p => pc'[q] = pc[q]
        /\ pc[p] = "fork_parent" /\ pc'[p] = "fork_run"
        /\ \A q \in Slot : q # idx[p] => parent'[q] = parent[q]
        /\ state' = state /\ idx' = idx /\ chan' = chan
    BY <1>11, Zenon DEF ForkParent
  <2>2. \A q \in Slot : state[q] = "USED" => pc[q] \in {"user", "zombie"}
    BY Zenon DEF IndexInv
  <2>3. state[idx[p]] = "USED"
    BY <2>1, Zenon DEF IInv, ForkInv, ForkPC
  <2> QED
    BY <2>1, <2>2, <2>3, Zenon DEF QuietStep, WatchedPC, PastReparentPC
<1>12. CASE ForkRun(c, p)
  BY <1>12, Zenon DEF ForkRun, QuietStep, WatchedPC, PastReparentPC
<1>13. CASE KillHit(c, p)
  BY <1>13, Zenon DEF KillHit, QuietStep, WatchedPC, PastReparentPC
<1>14. CASE KillNext(c, p)
  BY <1>14, ZenonT(60) DEF KillNext, QuietStep, WatchedPC, PastReparentPC
<1> QED
  BY <1>1, <1>2, <1>3, <1>4, <1>5, <1>6, <1>7, <1>8, <1>9, <1>10, <1>11, <1>12,
     <1>13, <1>14, Zenon DEF Scheduler, Fork, Kill

\* So are the start of exit(), and the ways out of wait() and into sleep().
LEMMA QuietInside ==
    ASSUME IInv, IndexInv, NEW c \in CPU, NEW p \in Slot,
           \/ ExitInit(c, p) \/ ExitLock(c, p) \/ WaitReap(c, p) \/ WaitCopyFail(c, p)
           \/ WaitGiveUp(c, p) \/ WaitSleep(c, p) \/ SleepLock(c, p)
    PROVE  QuietStep
<1>0. /\ state \in [Slot -> ProcState]
      /\ chan \in [Slot -> Slot \cup {NIL}]
      /\ parent \in [Slot -> Slot \cup {NIL}]
      /\ pc \in [Slot -> PC]
      /\ idx \in [Slot -> Index]
  BY Zenon DEF IInv, TypeOK
<1> USE <1>0 DEF table, locks, cpus, On, At, Goto, SetState, Return
<1>1. CASE ExitInit(c, p) \/ ExitLock(c, p)
  BY <1>1, Zenon DEF ExitInit, ExitLock, QuietStep, WatchedPC, PastReparentPC
<1>2. CASE WaitReap(c, p)
  <2>1. /\ \A q \in Slot : q # p => pc'[q] = pc[q] /\ idx'[q] = idx[q]
        /\ pc[p] = "wait_scan" /\ pc'[p] = "sysret"
        /\ \A q \in Slot : q # idx[p] =>
               state'[q] = state[q] /\ chan'[q] = chan[q] /\ parent'[q] = parent[q]
    BY <1>2, Zenon DEF WaitReap, Freeproc
  <2>2. idx[p] \in Slot => state'[idx[p]] = "UNUSED"
    BY <1>2, Zenon DEF WaitReap, Freeproc
  <2>3. \A q \in Slot : state[q] = "ZOMBIE" => pc[q] \in {"user", "zombie"}
    BY Zenon DEF IndexInv
  <2>4. state[idx[p]] = "ZOMBIE"
    BY <1>2, Zenon DEF WaitReap, FoundZombie
  <2> QED
    BY <2>1, <2>2, <2>3, <2>4, ZenonT(60) DEF QuietStep, WatchedPC, PastReparentPC
<1>3. CASE WaitCopyFail(c, p) \/ WaitGiveUp(c, p)
  <2>1. /\ state' = state /\ chan' = chan /\ parent' = parent
        /\ pc[p] \in {"wait_scan", "wait_decide"} /\ pc'[p] = "sysret"
        /\ \A q \in Slot : q # p => pc'[q] = pc[q] /\ idx'[q] = idx[q]
    BY <1>3, Zenon DEF WaitCopyFail, WaitGiveUp
  <2> QED
    BY <2>1, Zenon DEF QuietStep, WatchedPC, PastReparentPC
<1>4. CASE WaitSleep(c, p) \/ SleepLock(c, p)
  BY <1>4, Zenon DEF WaitSleep, SleepLock, QuietStep
<1> QED
  BY <1>1, <1>2, <1>3, <1>4, Zenon

\* wait_lock serialises the scan in wait() with the wakeups and the change to
\* ZOMBIE in exit().
LEMMA WakeInvStep == IInv /\ IndexInv /\ TreeInv /\ WakeInv /\ [Next]_vars => WakeInv'
<1> SUFFICES ASSUME IInv, IndexInv, TreeInv, WakeInv, [Next]_vars PROVE WakeInv'
  BY Zenon
<1>0. /\ state \in [Slot -> ProcState]
      /\ chan \in [Slot -> Slot \cup {NIL}]
      /\ parent \in [Slot -> Slot \cup {NIL}]
      /\ pc \in [Slot -> PC]
      /\ idx \in [Slot -> Index]
      /\ scan \in [CPU -> Slot]
      /\ curproc \in [CPU -> Slot \cup {NIL}]
  BY Zenon DEF IInv, TypeOK
<1>w. QuietStep => WakeInv'
  BY WakeFrame, Zenon DEF IInv
<1>i. SleepsOnSelf /\ SleeperToldOfZombies /\ ParentWoken /\ ScanIsCurrent
  BY Zenon DEF WakeInv
<1>j. SleepsOnSelf' /\ SleeperToldOfZombies' /\ ParentWoken' /\ ScanIsCurrent' => WakeInv'
  BY Zenon DEF WakeInv
<1>1. ASSUME NEW c \in CPU, Scheduler(c) PROVE WakeInv'
  <2>1. QuietStep
    BY <1>1, SlotFacts, QuietOutside, Zenon
  <2> QED
    BY <2>1, <1>w, Zenon
<1>2. ASSUME NEW c \in CPU, NEW p \in Slot,
             \/ Yield(c, p) \/ UserKilled(c, p) \/ SysReturn(c, p)
             \/ User(c, p) \/ Fork(c, p) \/ Kill(c, p)
      PROVE  WakeInv'
  <2>1. QuietStep
    BY <1>2, QuietOutside, Zenon
  <2> QED
    BY <2>1, <1>w, Zenon
<1>3. ASSUME NEW c \in CPU, NEW p \in Slot,
             \/ ExitInit(c, p) \/ ExitLock(c, p) \/ WaitReap(c, p) \/ WaitCopyFail(c, p)
             \/ WaitGiveUp(c, p) \/ WaitSleep(c, p) \/ SleepLock(c, p)
      PROVE  WakeInv'
  <2>1. QuietStep
    BY <1>3, QuietInside, Zenon
  <2> QED
    BY <2>1, <1>w, Zenon
<1> USE <1>0 DEF table, locks, cpus, On, At, Goto, SetState
<1>4. ASSUME NEW c \in CPU, NEW p \in Slot, ExitReparent(c, p) PROVE WakeInv'
  <2>0. /\ state' = state /\ chan' = chan /\ idx' = idx
        /\ idx[p] = 0
        /\ \A r \in Slot \ {p} : pc[r] \notin WaitLockPC /\ pc'[r] = pc[r]
    BY <1>4, WaitLockMutex, ZenonT(60) DEF ExitReparent, IndexInv, IndexPC, ForkPC, WaitLockPC
  <2>1. CASE Children(p) = {} /\ Goto(p, "exit_wakeparent") /\ UNCHANGED parent
    <3>1. parent[p] # NIL
      BY <1>4, Zenon DEF ExitReparent, IInv, RunInv, TreeInv, Live
    <3>2. parent[p] \in Slot
      BY <3>1, Zenon
    <3>3. pc[p] = "exit_reparent" /\ pc'[p] = "exit_wakeparent" /\ parent' = parent
      BY <1>4, <2>1, Zenon DEF ExitReparent
    <3>4. SleepsOnSelf' /\ SleeperToldOfZombies' /\ ScanIsCurrent'
      <4>1. SleepsOnSelf'
        BY <1>i, <2>0, Zenon DEF SleepsOnSelf
      <4>2. SleeperToldOfZombies'
        BY <1>i, <2>0, <3>3, Zenon DEF SleeperToldOfZombies
      <4>3. ScanIsCurrent'
        BY <1>i, <2>0, <3>3, ZenonT(60) DEF ScanIsCurrent
      <4> QED
        BY <4>1, <4>2, <4>3, Zenon
    <3>5. idx'[p] <= parent[p]
      BY <2>0, <3>2, IndexOrder
    <3>6. ParentWoken'
      BY <1>i, <2>0, <3>1, <3>3, <3>5, Zenon DEF ParentWoken, PastReparentPC
    <3> QED
      BY <1>j, <3>4, <3>6, Zenon
  <2>2. ASSUME NEW q \in Children(p), parent' = [parent EXCEPT ![q] = initproc],
               Goto(p, "exit_wakeinit")
        PROVE  WakeInv'
    <3>1. pc[p] = "exit_reparent" /\ pc'[p] = "exit_wakeinit"
      BY <1>4, <2>2, Zenon DEF ExitReparent
    <3>2. idx'[p] <= initproc
      BY <2>0, SlotFacts, IndexOrder
    <3>3. SleepsOnSelf'
      BY <1>i, <2>0, Zenon DEF SleepsOnSelf
    <3>4. \A r \in Slot : state[r] = "ZOMBIE" /\ parent'[r] # NIL
              /\ state[parent'[r]] = "SLEEPING" => parent'[r] = initproc
      BY <1>i, <2>2, Zenon DEF SleeperToldOfZombies
    <3>5. SleeperToldOfZombies'
      BY <2>0, <3>1, <3>2, <3>4, Zenon DEF SleeperToldOfZombies
    <3>6. \A r \in Slot : pc'[r] \notin WaitLockPC \ {"exit_wakeinit"}
      BY <2>0, <3>1, Zenon
    <3>7. ParentWoken' /\ ScanIsCurrent'
      BY <3>6, Zenon DEF ParentWoken, ScanIsCurrent, PastReparentPC, WaitLockPC
    <3> QED
      BY <1>j, <3>3, <3>5, <3>7, Zenon
  <2> QED
    BY <1>4, <2>1, <2>2, Zenon DEF ExitReparent
<1>5. ASSUME NEW c \in CPU, NEW p \in Slot, ExitWakeInit(c, p) PROVE WakeInv'
  <2>1. \A r \in Slot \ {p} : pc[r] \notin WaitLockPC /\ pc'[r] = pc[r] /\ idx'[r] = idx[r]
    BY <1>5, WaitLockMutex, Zenon DEF ExitWakeInit, Wakeup, WaitLockPC
  <2>2. \A q \in Slot : state'[q] = state[q] \/ (state[q] = "SLEEPING" /\ state'[q] = "RUNNABLE")
    BY <1>5, ZenonT(60) DEF ExitWakeInit, Wakeup, WakeupStep
  <2>3. parent' = parent /\ chan' = chan /\ pc[p] = "exit_wakeinit"
    BY <1>5, Zenon DEF ExitWakeInit, Wakeup
  <2>4. pc'[p] \in {"exit_wakeinit", "exit_reparent"}
    BY <1>5, Zenon DEF ExitWakeInit, Wakeup
  <2>5. idx[p] <= initproc => state'[initproc] # "SLEEPING"
    <3>1. CASE idx[p] <= initproc
      <4>1. idx[p] = initproc
        BY <3>1 DEF Index, initproc
      <4>2. initproc # p /\ initproc < NPROC /\ initproc # NPROC
        BY <2>3, SlotFacts, ProcAssumption DEF TreeInv, initproc
      <4>3. WakeupStep(p, initproc, initproc)
        BY <1>5, <4>1, <4>2, Zenon DEF ExitWakeInit, Wakeup
      <4>4. state[initproc] = "SLEEPING" => chan[initproc] = initproc
        BY <1>i, SlotFacts, Zenon DEF SleepsOnSelf
      <4> QED
        BY <4>2, <4>3, <4>4, SlotFacts, Zenon DEF WakeupStep
    <3> QED
      BY <3>1, Zenon
  <2>6. SleepsOnSelf'
    BY <1>i, <2>2, <2>3, Zenon DEF SleepsOnSelf
  <2>7. SleeperToldOfZombies'
    <3>1. \A r \in Slot : pc[r] = "exit_wakeinit" => r = p
      BY <2>1, Zenon DEF WaitLockPC
    <3>2. \A q \in Slot : parent[q] # NIL => parent[q] \in Slot
      BY Zenon
    <3> QED
      BY <1>i, <2>2, <2>3, <2>5, <3>1, <3>2, SMTT(60) DEF SleeperToldOfZombies
  <2>8. \A r \in Slot : pc'[r] \notin WaitLockPC \ {"exit_wakeinit", "exit_reparent"}
    BY <2>1, <2>4, Zenon
  <2>9. ParentWoken' /\ ScanIsCurrent'
    BY <2>8, Zenon DEF ParentWoken, ScanIsCurrent, PastReparentPC, WaitLockPC
  <2> QED
    BY <1>j, <2>6, <2>7, <2>9, Zenon
<1>6. ASSUME NEW c \in CPU, NEW p \in Slot, ExitWakeParent(c, p) PROVE WakeInv'
  <2>1. \A r \in Slot \ {p} : pc[r] \notin WaitLockPC /\ pc'[r] = pc[r] /\ idx'[r] = idx[r]
    BY <1>6, WaitLockMutex, Zenon DEF ExitWakeParent, Wakeup, WaitLockPC
  <2>2. \A q \in Slot : state'[q] = state[q] \/ (state[q] = "SLEEPING" /\ state'[q] = "RUNNABLE")
    BY <1>6, ZenonT(60) DEF ExitWakeParent, Wakeup, WakeupStep
  <2>3. parent' = parent /\ chan' = chan /\ pc[p] = "exit_wakeparent" /\ state[p] = "RUNNING"
    BY <1>6, Zenon DEF ExitWakeParent, Wakeup, IInv, RunInv
  <2>4. pc'[p] \in {"exit_wakeparent", "exit_zombie"}
    BY <1>6, Zenon DEF ExitWakeParent, Wakeup
  <2>5. SleepsOnSelf'
    BY <1>i, <2>2, <2>3, Zenon DEF SleepsOnSelf
  <2>6. SleeperToldOfZombies'
    <3>1. \A r \in Slot : pc[r] # "exit_wakeinit"
      BY <2>1, <2>3, Zenon DEF WaitLockPC
    <3>2. \A q \in Slot : parent[q] # NIL => parent[q] \in Slot
      BY Zenon
    <3> QED
      BY <1>i, <2>2, <2>3, <3>1, <3>2, SMTT(60) DEF SleeperToldOfZombies
  <2>7. \A r \in Slot : pc'[r] \notin WaitLockPC \ {"exit_wakeparent", "exit_zombie"}
    BY <2>1, <2>4, Zenon
  <2>8. ScanIsCurrent'
    BY <2>7, Zenon DEF ScanIsCurrent, WaitLockPC
  <2>9. parent[p] # NIL /\ parent[p] \in Slot
        /\ (state[parent[p]] = "SLEEPING" => idx[p] <= parent[p] /\ chan[parent[p]] = parent[p])
    BY <1>i, <2>3, Zenon DEF ParentWoken, SleepsOnSelf, PastReparentPC
  <2>10. \A r \in Slot : pc'[r] \in PastReparentPC \cup {"exit_wakeparent", "exit_zombie"} => r = p
    BY <2>1, Zenon DEF PastReparentPC, WaitLockPC
  <2>11. CASE idx[p] < NPROC /\ idx' = [idx EXCEPT ![p] = @ + 1] /\ UNCHANGED pc
             /\ WakeupStep(p, idx[p], parent[p])
    <3>1. state'[parent[p]] = "SLEEPING" => idx[p] # parent[p]
      BY <2>3, <2>9, <2>11, Zenon DEF WakeupStep
    <3>2. state'[parent[p]] = "SLEEPING" => idx'[p] <= parent[p]
      BY <2>2, <2>9, <2>11, <3>1, IndexOrder, Zenon
    <3>3. pc'[p] = "exit_wakeparent" /\ parent'[p] = parent[p]
      BY <2>3, <2>11, Zenon
    <3>4. ParentWoken'
      BY <2>9, <2>10, <3>2, <3>3, Zenon DEF ParentWoken
    <3> QED
      BY <1>j, <2>5, <2>6, <2>8, <3>4, Zenon
  <2>12. CASE idx[p] = NPROC /\ Goto(p, "exit_zombie") /\ UNCHANGED state
    <3>1. state[parent[p]] # "SLEEPING"
      BY <2>9, <2>12, ProcAssumption DEF Slot
    <3>2. pc'[p] = "exit_zombie" /\ state' = state /\ parent'[p] = parent[p]
      BY <2>3, <2>12, Zenon
    <3>3. ParentWoken'
      BY <2>9, <2>10, <3>1, <3>2, Zenon DEF ParentWoken
    <3> QED
      BY <1>j, <2>5, <2>6, <2>8, <3>3, Zenon
  <2> QED
    BY <1>6, <2>11, <2>12, Zenon DEF ExitWakeParent, Wakeup
<1>7. ASSUME NEW c \in CPU, NEW p \in Slot, ExitZombie(c, p) PROVE WakeInv'
  <2>1. \A r \in Slot \ {p} : pc[r] \notin WaitLockPC /\ pc'[r] = pc[r] /\ state'[r] = state[r]
    BY <1>7, WaitLockMutex, Zenon DEF ExitZombie, WaitLockPC
  <2>2. /\ parent' = parent /\ chan' = chan /\ idx' = idx
        /\ pc[p] = "exit_zombie" /\ pc'[p] = "zombie" /\ state'[p] = "ZOMBIE"
    BY <1>7, Zenon DEF ExitZombie
  <2>3. \A r \in Slot : pc[r] # "exit_wakeinit" /\ pc'[r] \notin WaitLockPC
    BY <2>1, <2>2, Zenon DEF WaitLockPC
  <2>4. parent[p] # NIL /\ parent[p] \in Slot /\ state[parent[p]] # "SLEEPING"
    BY <1>i, <2>2, Zenon DEF ParentWoken, PastReparentPC
  <2>5. SleepsOnSelf'
    BY <1>i, <2>1, <2>2, Zenon DEF SleepsOnSelf
  <2>6. SleeperToldOfZombies'
    <3>1. \A q \in Slot : parent[q] # NIL => parent[q] \in Slot
      BY Zenon
    <3> QED
      BY <1>i, <2>1, <2>2, <2>3, <2>4, <3>1, SMTT(60) DEF SleeperToldOfZombies
  <2>7. ParentWoken' /\ ScanIsCurrent'
    BY <2>3, Zenon DEF ParentWoken, ScanIsCurrent, PastReparentPC, WaitLockPC
  <2> QED
    BY <1>j, <2>5, <2>6, <2>7, Zenon
<1>8. ASSUME NEW c \in CPU, NEW p \in Slot, WaitLock(c, p) PROVE WakeInv'
  <2>1. idx[p] = 0 /\ \A q \in Slot : pc[q] \notin WaitLockPC
    BY <1>8, WaitLockFree, Zenon DEF WaitLock, AcquireWait, IndexInv, IndexPC, ForkPC
  <2>2. /\ state' = state /\ chan' = chan /\ parent' = parent /\ idx' = idx
        /\ pc'[p] = "wait_scan" /\ \A q \in Slot \ {p} : pc'[q] = pc[q]
    BY <1>8, Zenon DEF WaitLock
  <2>3. \A q \in Slot : pc'[q] \notin WaitLockPC \ {"wait_scan"} /\ ~(q < 0)
    BY <2>1, <2>2, IndexOrder, IndexFacts, Zenon
  <2>4. \A q \in Slot : pc'[q] = "wait_scan" => idx'[q] = 0
    BY <2>1, <2>2, Zenon DEF WaitLockPC
  <2>5. ScanIsCurrent' /\ ParentWoken'
    BY <2>3, <2>4, Zenon DEF ScanIsCurrent, ParentWoken, PastReparentPC, WaitLockPC
  <2>6. SleepsOnSelf' /\ SleeperToldOfZombies'
    BY <1>i, <2>1, <2>2, Zenon DEF SleepsOnSelf, SleeperToldOfZombies, WaitLockPC
  <2> QED
    BY <1>j, <2>5, <2>6, Zenon
<1>9. ASSUME NEW c \in CPU, NEW p \in Slot, WaitNext(c, p) PROVE WakeInv'
  <2>1. \A r \in Slot \ {p} : pc[r] \notin WaitLockPC /\ pc'[r] = pc[r] /\ idx'[r] = idx[r]
    BY <1>9, WaitLockMutex, Zenon DEF WaitNext, WaitLockPC
  <2>2. state' = state /\ chan' = chan /\ parent' = parent /\ pc[p] = "wait_scan"
    BY <1>9, Zenon DEF WaitNext
  <2>3. pc'[p] \in {"wait_scan", "wait_decide"}
    BY <1>9, Zenon DEF WaitNext
  <2>4. \A r \in Slot : pc'[r] \in WaitLockPC => r = p
    BY <2>1, Zenon
  <2>5. SleepsOnSelf' /\ SleeperToldOfZombies' /\ ParentWoken'
    BY <1>i, <2>1, <2>2, <2>3, <2>4, Zenon
       DEF SleepsOnSelf, SleeperToldOfZombies, ParentWoken, PastReparentPC, WaitLockPC
  <2>6. \A q \in Slot : q < idx[p] /\ parent[q] = p => state[q] # "ZOMBIE"
    BY <1>i, <2>2, Zenon DEF ScanIsCurrent
  <2>7. CASE idx[p] = NPROC /\ Goto(p, "wait_decide")
    <3>1. \A q \in Slot : q < idx[p]
      BY <2>7, IndexOrder, IndexFacts, Zenon
    <3>2. pc'[p] = "wait_decide"
      BY <2>7, Zenon
    <3>3. ScanIsCurrent'
      BY <2>2, <2>4, <2>6, <3>1, <3>2, Zenon DEF ScanIsCurrent, WaitLockPC
    <3> QED
      BY <1>j, <2>5, <3>3, Zenon
  <2>8. CASE idx[p] < NPROC /\ idx' = [idx EXCEPT ![p] = @ + 1] /\ UNCHANGED pc
             /\ (parent[idx[p]] = p => state[idx[p]] # "ZOMBIE")
    <3>1. \A q \in Slot : q < idx'[p] => q < idx[p] \/ q = idx[p]
      BY <2>8, IndexOrder, Zenon
    <3>2. pc'[p] = "wait_scan"
      BY <2>2, <2>8, Zenon
    <3>3. ScanIsCurrent'
      BY <2>2, <2>4, <2>6, <2>8, <3>1, <3>2, Zenon DEF ScanIsCurrent, WaitLockPC
    <3> QED
      BY <1>j, <2>5, <3>3, Zenon
  <2> QED
    BY <1>9, <2>7, <2>8, Zenon DEF WaitNext
<1>10. ASSUME NEW c \in CPU, NEW p \in Slot, SleepSwitch(c, p) PROVE WakeInv'
  <2>1. \A r \in Slot \ {p} : pc[r] \notin WaitLockPC /\ pc'[r] = pc[r]
            /\ state'[r] = state[r] /\ chan'[r] = chan[r]
    BY <1>10, WaitLockMutex, Zenon DEF SleepSwitch, WaitLockPC
  <2>2. /\ parent' = parent /\ idx' = idx /\ chan'[p] = p
        /\ pc[p] = "sleep_switch" /\ pc'[p] = "sleep_wake" /\ state'[p] = "SLEEPING"
    BY <1>10, Zenon DEF SleepSwitch
  <2>3. \A r \in Slot : pc'[r] \notin WaitLockPC /\ pc[r] # "exit_wakeinit"
    BY <2>1, <2>2, Zenon DEF WaitLockPC
  <2>4. \A q \in Slot : parent[q] = p => state[q] # "ZOMBIE"
    BY <1>i, <2>2, Zenon DEF ScanIsCurrent
  <2>5. SleepsOnSelf'
    BY <1>i, <2>1, <2>2, Zenon DEF SleepsOnSelf
  <2>6. SleeperToldOfZombies'
    <3>1. \A q \in Slot : parent[q] # NIL => parent[q] \in Slot
      BY Zenon
    <3> QED
      BY <1>i, <2>1, <2>2, <2>3, <2>4, <3>1, SMTT(60) DEF SleeperToldOfZombies
  <2>7. ParentWoken' /\ ScanIsCurrent'
    BY <2>3, Zenon DEF ParentWoken, ScanIsCurrent, PastReparentPC, WaitLockPC
  <2> QED
    BY <1>j, <2>5, <2>6, <2>7, Zenon
<1>11. CASE UNCHANGED vars
  BY <1>i, <1>j, <1>11, Zenon DEF vars, SleepsOnSelf, SleeperToldOfZombies, ParentWoken,
     ScanIsCurrent
<1> QED
  BY <1>1, <1>2, <1>3, <1>4, <1>5, <1>6, <1>7, <1>8, <1>9, <1>10, <1>11, Zenon
     DEF Next, Kernel, Exit, Wait

-----------------------------------------------------------------------------
(* The theorems *)

\* exit() and wait(): the invariant, initially and in every step.
THEOREM WakeInvariant == Spec => []WakeInv
<1>1. Init => WakeInv
  BY SlotFacts, IndexFacts DEF Init, WakeInv, SleepsOnSelf, SleeperToldOfZombies,
     ParentWoken, ScanIsCurrent, PastReparentPC
<1>2. IInv /\ IndexInv /\ TreeInv /\ WakeInv /\ [Next]_vars => WakeInv'
  BY WakeInvStep
<1> QED
  BY <1>1, <1>2, TreeInvariant, PTL DEF Spec

\* No wakeup is lost between exit() and wait().
THEOREM ExitSeen == Spec => []NoLostExit
<1>1. IInv /\ TreeInv /\ WakeInv => NoLostExit
  BY SlotFacts, WaitLockFree, Zenon DEF IInv, TypeOK, TreeInv, Live, WakeInv,
     SleeperToldOfZombies, WaitLockPC, NoLostExit
<1> QED
  BY <1>1, TreeInvariant, WakeInvariant, PTL
=============================================================================
