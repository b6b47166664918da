----------------------------- MODULE AtomicDisk -----------------------------
(***************************************************************************)
(* What the logging layer promises the file system: the blocks that file   *)
(* system calls write become durable together, at a moment when no call is *)
(* in progress, and a crash takes the disk back to the last such moment.   *)
(***************************************************************************)
CONSTANTS Proc, Block, Val

VARIABLES mem,      \* the blocks as the running system sees them
          durable,  \* the blocks as they would be found after a crash
          active    \* the processes inside a file system call

Init ==
    /\ mem \in [Block -> Val]
    /\ durable = mem
    /\ active = {}

Begin(p) ==
    /\ p \notin active
    /\ active' = active \cup {p}
    /\ UNCHANGED <<mem, durable>>

Write(p, b, v) ==
    /\ p \in active
    /\ mem' = [mem EXCEPT ![b] = v]
    /\ UNCHANGED <<durable, active>>

End(p) ==
    /\ p \in active
    /\ active' = active \ {p}
    /\ UNCHANGED <<mem, durable>>

Commit ==
    /\ active = {}
    /\ durable' = mem
    /\ UNCHANGED <<mem, active>>

Crash ==
    /\ mem' = durable
    /\ active' = {}
    /\ UNCHANGED durable

Next ==
    \/ \E p \in Proc :
        Begin(p) \/ End(p) \/ \E b \in Block, v \in Val : Write(p, b, v)
    \/ Commit
    \/ Crash

Spec == Init /\ [][Next]_<<mem, durable, active>>
=============================================================================
