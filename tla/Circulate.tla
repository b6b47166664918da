----------------------------- MODULE Circulate ------------------------------
(***************************************************************************)
(* user/circulate_byte.c: a parent and NUM_CHILDREN children in a ring of  *)
(* pipes.  Child i copies bytes from pipe i to pipe i + 1; the parent puts *)
(* one byte into pipe 0, and puts it back there every time it comes out of *)
(* the last pipe.  Closing pipe 0 is meant to stop the ring.               *)
(*                                                                         *)
(* A pipe is a queue, as Fifo has it; whether a read finds end of file     *)
(* depends on the descriptors of all processes, which fork() copies and    *)
(* every process closes one by one.                                        *)
(***************************************************************************)
EXTENDS Integers, Sequences, FiniteSets

CONSTANTS NUM_CHILDREN,
          NUM_LOOPS,
          PIPESIZE,    \* capacity of a pipe
          MaxFaults    \* bound: failing system calls and kills

Child == 0 .. NUM_CHILDREN - 1
Parent == NUM_CHILDREN
Process == 0 .. NUM_CHILDREN
PipeId == 0 .. NUM_CHILDREN
Byte == {"A", "uninitialized"}

VARIABLES
    q,        \* the bytes in each pipe
    open,     \* the open descriptors of each process
    pc,       \* next step of each process
    buf,      \* the variable buf of each process
    k,        \* the parent's loop variable over pipes and children
    loops,    \* loops_done
    faults    \* number of failed calls and kills so far

vars == <<q, open, pc, buf, k, loops, faults>>

\* The descriptors pipe(p[i]) returns: p[i][0] reads, p[i][1] writes.
Rd(i) == 2 * i
Wr(i) == 2 * i + 1
Init ==
    /\ q = [i \in PipeId |-> << >>]
    /\ open = [p \in Process |-> {}]
    /\ pc = [p \in Process |-> IF p = Parent THEN "pipe" ELSE "unborn"]
    /\ buf = [p \in Process |-> IF p = Parent THEN "A" ELSE "uninitialized"]
    /\ k = 0
    /\ loops = 0
    /\ faults = 0

-----------------------------------------------------------------------------
Goto(p, l) == pc' = [pc EXCEPT ![p] = l]

Fault == faults < MaxFaults /\ faults' = faults + 1

\* The pipes a process copies from and to.
Source(p) == p
Target(p) == IF p = Parent THEN 0 ELSE p + 1

\* The two descriptors a process goes on using.
Keep(p) == {Rd(Source(p)), Wr(Target(p))}

HasWriter(i) == \E p \in Process : Wr(i) \in open[p]
HasReader(i) == \E p \in Process : Rd(i) \in open[p]

-----------------------------------------------------------------------------
(* Setting up the ring *)

MakePipe ==
    /\ pc[Parent] = "pipe"
    /\ \/ /\ open' = [open EXCEPT ![Parent] = @ \cup {Rd(k), Wr(k)}]
          /\ IF k < NUM_CHILDREN
             THEN k' = k + 1 /\ UNCHANGED pc
             ELSE k' = 0 /\ Goto(Parent, IF NUM_CHILDREN = 0 THEN "close" ELSE "fork")
          /\ UNCHANGED faults
       \/ Fault /\ Goto(Parent, "exit") /\ UNCHANGED <<open, k>>
    /\ UNCHANGED <<q, buf, loops>>

\* The child starts with copies of all descriptors the parent has.
Fork ==
    /\ pc[Parent] = "fork"
    /\ \/ /\ open' = [open EXCEPT ![k] = open[Parent]]
          /\ pc' = [pc EXCEPT ![k] = "close",
                              ![Parent] = IF k + 1 = NUM_CHILDREN THEN "close" ELSE @]
          /\ k' = IF k + 1 = NUM_CHILDREN THEN 0 ELSE k + 1
          /\ UNCHANGED faults
       \/ Fault /\ Goto(Parent, "exit") /\ UNCHANGED <<open, k>>
    /\ UNCHANGED <<q, buf, loops>>

\* Mutant of Unused: the child keeps the write end of its source.
UnusedReadSide(p) == {f \in open[p] : f \notin Keep(p) /\ (p # Parent => f # Wr(p))}

Unused(p) == open[p] \ Keep(p)

\* The loop over the pipes closes the child's read ends before the write ends
\* of the same pipe, and the parent's the other way round.
Before(p, f, g) ==
    \/ f \div 2 < g \div 2
    \/ f \div 2 = g \div 2 /\ (IF p = Parent THEN f > g ELSE f < g)

\* One call of close() in the loop of circulate() or main().
CloseUnused(p) ==
    /\ pc[p] = "close"
    /\ \/ \E f \in Unused(p) :
          /\ \A g \in Unused(p) \ {f} : Before(p, f, g)
          /\ open' = [open EXCEPT ![p] = @ \ {f}]
          /\ UNCHANGED pc
       \/ /\ Unused(p) = {}
          /\ Goto(p, IF p = Parent THEN "send" ELSE "read")
          /\ UNCHANGED open
    /\ UNCHANGED <<q, buf, k, loops, faults>>

-----------------------------------------------------------------------------
(* The byte goes round *)

\* read(p[i][0], &buf, 1) returns 1; it blocks on an empty pipe with writers.
ReadByte(p) ==
    /\ pc[p] = "read"
    /\ q[Source(p)] # << >>
    /\ buf' = [buf EXCEPT ![p] = Head(q[Source(p)])]
    /\ q' = [q EXCEPT ![Source(p)] = Tail(@)]
    /\ Goto(p, "write")
    /\ UNCHANGED <<open, k, loops, faults>>

\* End of file: the child exits, the parent leaves its loop.
ReadEOF(p) ==
    /\ pc[p] = "read"
    /\ q[Source(p)] = << >>
    /\ ~HasWriter(Source(p))
    /\ Goto(p, IF p = Parent THEN "stop" ELSE "exit")
    /\ UNCHANGED <<q, open, buf, k, loops, faults>>

\* Mutant of AfterWrite: one loop too few.
AfterWriteEarly(p) ==
    IF p # Parent THEN Goto(p, "read") /\ UNCHANGED loops
    ELSE /\ loops' = IF pc[p] = "send" THEN loops ELSE loops + 1
         /\ Goto(p, IF loops' + 1 < NUM_LOOPS THEN "read" ELSE "stop")

\* The step after a successful write(); loops_done counts all but the first.
AfterWrite(p) ==
    IF p # Parent THEN Goto(p, "read") /\ UNCHANGED loops
    ELSE /\ loops' = IF pc[p] = "send" THEN loops ELSE loops + 1
         /\ Goto(p, IF loops' < NUM_LOOPS THEN "read" ELSE "stop")

WriteByte(p) ==
    /\ pc[p] \in {"send", "write"}
    /\ HasReader(Target(p))
    /\ Len(q[Target(p)]) < PIPESIZE
    /\ q' = [q EXCEPT ![Target(p)] = Append(@, buf[p])]
    /\ AfterWrite(p)
    /\ UNCHANGED <<open, buf, k, faults>>

\* Nobody can read the pipe any more: write() returns -1.
WriteFail(p) ==
    /\ pc[p] \in {"send", "write"}
    /\ ~HasReader(Target(p))
    /\ Goto(p, IF p = Parent THEN "stop" ELSE "exit")
    /\ UNCHANGED <<q, open, buf, k, loops, faults>>

-----------------------------------------------------------------------------
(* Stopping the ring *)

\* close(p[0][1]); close(p[NUM_CHILDREN][0]).
Stop ==
    /\ pc[Parent] = "stop"
    /\ \/ /\ Wr(0) \in open[Parent]
          /\ open' = [open EXCEPT ![Parent] = @ \ {Wr(0)}]
          /\ UNCHANGED pc
       \/ /\ Wr(0) \notin open[Parent]
          /\ open' = [open EXCEPT ![Parent] = {}]
          /\ Goto(Parent, "wait")
    /\ UNCHANGED <<q, buf, k, loops, faults>>

Dead == {i \in Child : pc[i] = "dead"}

\* wait(0), NUM_CHILDREN times; every call reaps another child.
Wait ==
    /\ pc[Parent] = "wait"
    /\ \/ k < NUM_CHILDREN /\ k < Cardinality(Dead) /\ k' = k + 1 /\ UNCHANGED pc
       \/ k = NUM_CHILDREN /\ Goto(Parent, "exit") /\ UNCHANGED k
    /\ UNCHANGED <<q, open, buf, loops, faults>>

\* exit() closes what is open, in the order of the descriptors.
Exit(p) ==
    /\ pc[p] = "exit"
    /\ \/ \E f \in open[p] :
          /\ \A g \in open[p] : f <= g
          /\ open' = [open EXCEPT ![p] = @ \ {f}]
          /\ UNCHANGED pc
       \/ open[p] = {} /\ Goto(p, "dead") /\ UNCHANGED open
    /\ UNCHANGED <<q, buf, k, loops, faults>>

\* Somebody kills the process: its next return to user mode is exit(-1).
Kill(p) ==
    /\ pc[p] \notin {"unborn", "exit", "dead"}
    /\ Fault
    /\ Goto(p, "exit")
    /\ UNCHANGED <<q, open, buf, k, loops>>

-----------------------------------------------------------------------------
Step(p) ==
    \/ CloseUnused(p) \/ ReadByte(p) \/ ReadEOF(p) \/ WriteByte(p) \/ WriteFail(p)
    \/ Exit(p)
    \/ p = Parent /\ (MakePipe \/ Fork \/ Stop \/ Wait)

Next == \E p \in Process : Step(p) \/ Kill(p)

Spec == Init /\ [][Next]_vars

\* A process that is not blocked runs.
Fairness == \A p \in Process : WF_vars(Step(p))

FairSpec == Spec /\ Fairness

-----------------------------------------------------------------------------
\* No read() finds end of file and no write() fails too early: if nobody was
\* killed and no call failed, the parent counts all its loops, and no child
\* leaves the ring before the parent has stopped it.
AllLoops ==
    faults = 0 =>
        /\ pc[Parent] \in {"stop", "wait", "exit", "dead"} =>
               loops = NUM_LOOPS /\ buf[Parent] = "A"
        /\ \A i \in Child : pc[i] \in {"exit", "dead"} =>
               pc[Parent] \in {"stop", "wait", "exit", "dead"}

\* The parent never waits for children that cannot end: "closing p[0][1] causes
\* EOF to propagate through children".  Every process ends, whichever of them
\* are killed.
Ended == \A p \in Process : pc[p] \in {"unborn", "dead"}
AllEnd == <>Ended
=============================================================================
