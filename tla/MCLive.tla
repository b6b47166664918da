------------------------------- MODULE MCLive -------------------------------
(***************************************************************************)
(* Liveness of the scheduler (Proc) and of the log (Log), which have no    *)
(* state in common: subject tells whether a behaviour is one of the        *)
(* scheduler or one of the log.                                            *)
(*                                                                         *)
(* Three processes share one CPU, so that they compete for it, and the     *)
(* third may be a child of the second, which init inherits.  The log has   *)
(* two crashes: the second may come while the first is recovered from.     *)
(***************************************************************************)
EXTENDS Integers, Sequences, FiniteSets

CONSTANTS NPROC, CPU, MaxPid, KillPids,
          FsProc, Block, Val, NoVal, MAXOPBLOCKS, LOGSIZE, nlog, OpBlocks, MaxCrash

VARIABLES subject,
          state, chan, killed, pid, parent, nextpid, plock, wlock, curproc, mode,
          scan, pc, idx, victim,
          home, slot, hdr, cache, pin, lh, outstanding, committing, tail, fspc,
          wrote, boot, crashes

procVars == <<state, chan, killed, pid, parent, nextpid, plock, wlock, curproc, mode,
              scan, pc, idx, victim>>
logVars == <<home, slot, hdr, cache, pin, lh, outstanding, committing, tail, fspc,
             wrote, boot, crashes>>

P == INSTANCE Proc
L == INSTANCE Log WITH Proc <- FsProc, pc <- fspc

Init == P!Init /\ L!Init /\ subject \in {"proc", "log"}

Next ==
    \/ subject = "proc" /\ P!Next /\ UNCHANGED <<logVars, subject>>
    \/ subject = "log" /\ L!Next /\ UNCHANGED <<procVars, subject>>

\* Every CPU executes.  A timer interrupt that is kept out by a spinlock stays
\* pending, so that no thread runs for ever between two critical sections.  A
\* spinning acquire() does not fail for ever while the lock keeps being released.
\* init keeps calling wait(0), whose copyout() cannot fail (user/init.c).
ProcFairness ==
    LET Fair(A) == subject = "proc" /\ A IN
    /\ \A c \in CPU :
        /\ SF_procVars(Fair(P!Scheduler(c)))
        /\ SF_procVars(Fair(\E p \in P!Slot : P!Yield(c, p)))
    /\ \A p \in P!Slot : SF_procVars(Fair(\E c \in CPU : P!Kernel(c, p)))
    /\ SF_procVars(Fair(\E c \in CPU : P!SysWait(c, P!initproc)))
    /\ SF_procVars(Fair(\E c \in CPU : P!WaitReap(c, P!initproc)))

\* The disk answers, every file system call ends, a process that is not asleep
\* runs, and the machine is switched on after a crash.
LogFairness ==
    LET Fair(A) == subject = "log" /\ A IN
    /\ WF_logVars(Fair(L!Recover))
    /\ \A p \in FsProc :
        /\ WF_logVars(Fair(L!BeginOp(p)))
        /\ WF_logVars(Fair(L!EndOp(p)))
        /\ WF_logVars(Fair(L!Commit(p)))

FairSpec ==
    Init /\ [][Next]_<<procVars, logVars, subject>> /\ ProcFairness /\ LogFairness

\* Round-robin (scheduler()): no process stays RUNNABLE for ever, although there
\* are more processes than CPUs and those before it in the table keep becoming
\* RUNNABLE again.
RunnableRuns == \A p \in P!Slot : []<>(subject = "proc" => state[p] # "RUNNABLE")

\* A zombie that belongs to init, by birth or by reparent(), does not stay one:
\* init reaps it (wait()), unless init itself died ("init exiting").
InitReaps ==
    \A p \in P!Slot \ {P!initproc} :
        []<>(subject = "proc" /\ state[p] = "ZOMBIE" /\ parent[p] = P!initproc
                => pc[P!initproc] = "panic")

\* A process asleep in begin_op() is woken to look again (end_op()).
SleeperWoken == \A p \in FsProc : []<>(subject = "log" => fspc[p] # "begin_sleep")

\* Recovery (initlog()) gets through, also when a crash interrupts a recovery
\* that has blocks to install and it starts again.
RecoveryCompletes == []<>(subject = "log" => boot = "up")
=============================================================================
