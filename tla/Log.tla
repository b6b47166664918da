-------------------------------- MODULE Log ---------------------------------
(***************************************************************************)
(* The redo log of kernel/log.c over the buffer cache of kernel/bio.c and  *)
(* a disk that writes one block at a time: concurrent begin_op(),          *)
(* log_write() and end_op(), group commit, a crash between any two disk    *)
(* writes, and recovery, which can itself be cut short by a crash.         *)
(*                                                                         *)
(* log.lock is never held from one step to another.  A buffer's sleeplock  *)
(* is held from bread() to brelse(), which is inside one step everywhere.  *)
(***************************************************************************)
EXTENDS Integers, Sequences, FiniteSets

CONSTANTS Proc,         \* processes making file system calls
          Block,        \* the blocks they write
          Val,          \* block contents
          NoVal,        \* the block is in no buffer
          MAXOPBLOCKS,  \* blocks reserved by begin_op() for one call
          LOGSIZE,      \* length of logheader.block
          nlog,         \* sb.nlog: log blocks on the disk, header included
          OpBlocks,     \* blocks a call really writes
          MaxCrash      \* bound: number of crashes

ASSUME LogAssumption ==
    /\ MAXOPBLOCKS \in Nat \ {0}
    /\ LOGSIZE \in Nat /\ MAXOPBLOCKS <= LOGSIZE
    /\ nlog \in Nat \ {0}
    /\ OpBlocks \in 0 .. MAXOPBLOCKS
    /\ MaxCrash \in Nat
    /\ NoVal \notin Val
    /\ IsFiniteSet(Proc)

VARIABLES
    home,         \* disk: the home location of each block
    slot,         \* disk: the data blocks of the log
    hdr,          \* disk: the header block, as the sequence block[0..n-1]
    cache,        \* buffer contents
    pin,          \* references bpin() has added to the block's buffer
    lh,           \* log.lh, as the sequence block[0..n-1]
    outstanding,  \* log.outstanding
    committing,   \* log.committing
    tail,         \* loop variable of write_log() and install_trans()
    pc,           \* next step of each process
    wrote,        \* blocks the process has logged in its current call
    boot,         \* what the machine is doing
    crashes       \* number of crashes so far

disk == <<home, slot, hdr>>
vars == <<disk, cache, pin, lh, outstanding, committing, tail, pc, wrote,
          boot, crashes>>

SlotIndex == 1 .. nlog - 1

\* The blocks a sequence of header entries names.
Entries(h) == {h[i] : i \in DOMAIN h}

\* The file system that mkfs wrote, before initlog() runs for the first time.
Init ==
    /\ \E v \in Val : home = [b \in Block |-> v] /\ slot = [i \in SlotIndex |-> v]
    /\ hdr = << >>
    /\ cache = [b \in Block |-> NoVal]
    /\ pin = [b \in Block |-> 0]
    /\ lh = << >>
    /\ outstanding = 0
    /\ committing = FALSE
    /\ tail = 0
    /\ pc = [p \in Proc |-> "idle"]
    /\ wrote = [p \in Proc |-> {}]
    /\ boot = "read_head"
    /\ crashes = 0

-----------------------------------------------------------------------------
(* The buffer cache *)

\* What bread(b) returns: the buffer if the block is cached, else the disk's
\* copy.
Contents(b) == IF cache[b] = NoVal THEN home[b] ELSE cache[b]

\* bget() recycles the buffer of a block nobody refers to.  (log_write() panics
\* with log.lock and its buffer held: nothing happens then but a reset.)
Evict(b) ==
    /\ boot # "panic"
    /\ cache[b] # NoVal
    /\ pin[b] = 0
    /\ cache' = [cache EXCEPT ![b] = NoVal]
    /\ UNCHANGED <<disk, pin, lh, outstanding, committing, tail, pc, wrote,
                   boot, crashes>>

-----------------------------------------------------------------------------
(* File system calls *)

\* Mutant of Awake: wakeup() is forgotten.
AwakeNobody(f) == f

\* wakeup(&log): the processes asleep in begin_op() look again.
Awake(f) == [p \in Proc |-> IF f[p] = "begin_sleep" THEN "begin" ELSE f[p]]

\* Mutant of NoSpace: the reservations of the calls in progress are ignored.
NoSpaceAlone == Len(lh) + MAXOPBLOCKS > LOGSIZE

\* The call needs more log space than is left.
NoSpace == Len(lh) + (outstanding + 1) * MAXOPBLOCKS > LOGSIZE

\* Mutant of MustWait: a running commit is ignored.
MustWaitSpace == NoSpace

MustWait == committing \/ NoSpace

SysCall(p) ==
    /\ boot = "up"
    /\ pc[p] = "idle"
    /\ pc' = [pc EXCEPT ![p] = "begin"]
    /\ UNCHANGED <<disk, cache, pin, lh, outstanding, committing, tail, wrote,
                   boot, crashes>>

BeginOp(p) ==
    /\ boot = "up"
    /\ pc[p] = "begin"
    /\ \/ /\ MustWait
          /\ pc' = [pc EXCEPT ![p] = "begin_sleep"]
          /\ UNCHANGED outstanding
       \/ /\ ~MustWait
          /\ pc' = [pc EXCEPT ![p] = "op"]
          /\ outstanding' = outstanding + 1
    /\ UNCHANGED <<disk, cache, pin, lh, committing, tail, wrote, boot, crashes>>

\* The panic of log_write(), taken before it looks for the block in the log.
TooBig == Len(lh) >= LOGSIZE \/ Len(lh) >= nlog - 1

\* The block is added to the log and pinned, unless it is there already
\* (absorption).
AddToLog(b) ==
    IF b \in Entries(lh)
    THEN UNCHANGED <<lh, pin>>
    ELSE /\ lh' = Append(lh, b)
         /\ pin' = [pin EXCEPT ![b] = @ + 1]

\* bread(b), a change of its data, log_write(b), brelse(b).
LogWrite(p, b, v) ==
    /\ boot = "up"
    /\ pc[p] = "op"
    /\ b \in wrote[p] \/ Cardinality(wrote[p]) < OpBlocks
    /\ cache' = [cache EXCEPT ![b] = v]
    /\ \/ /\ TooBig
          /\ boot' = "panic"
          /\ UNCHANGED <<lh, pin, wrote>>
       \/ /\ ~TooBig
          /\ wrote' = [wrote EXCEPT ![p] = @ \cup {b}]
          /\ AddToLog(b)
          /\ UNCHANGED boot
    /\ UNCHANGED <<disk, outstanding, committing, tail, pc, crashes>>

\* end_op(): the last call to end commits; any other wakes the waiters, since
\* its reservation is given back.
EndOp(p) ==
    /\ boot = "up"
    /\ pc[p] = "op"
    /\ outstanding' = outstanding - 1
    /\ wrote' = [wrote EXCEPT ![p] = {}]
    /\ IF outstanding = 1
       THEN /\ committing' = TRUE
            /\ pc' = [pc EXCEPT ![p] = IF lh = << >> THEN "commit_done"
                                                     ELSE "write_log"]
       ELSE /\ pc' = Awake([pc EXCEPT ![p] = "idle"])
            /\ UNCHANGED committing
    /\ UNCHANGED <<disk, cache, pin, lh, tail, boot, crashes>>

-----------------------------------------------------------------------------
(* commit() *)

WriteLog(p) ==
    /\ boot = "up"
    /\ pc[p] = "write_log"
    /\ tail < Len(lh)
    /\ slot' = [slot EXCEPT ![tail + 1] = Contents(lh[tail + 1])]
    /\ cache' = [cache EXCEPT ![lh[tail + 1]] = Contents(lh[tail + 1])]
    /\ tail' = tail + 1
    /\ UNCHANGED <<home, hdr, pin, lh, outstanding, committing, pc, wrote, boot,
                   crashes>>

\* Mutant of WriteHead: the header goes out before the last log block.
WriteHeadEarly(p) ==
    /\ boot = "up"
    /\ pc[p] = "write_log"
    /\ tail = Len(lh) - 1
    /\ hdr' = lh
    /\ tail' = 0
    /\ pc' = [pc EXCEPT ![p] = "install_trans"]
    /\ UNCHANGED <<home, slot, cache, pin, lh, outstanding, committing, wrote,
                   boot, crashes>>

\* write_head(): the real commit.
WriteHead(p) ==
    /\ boot = "up"
    /\ pc[p] = "write_log"
    /\ tail = Len(lh)
    /\ hdr' = lh
    /\ tail' = 0
    /\ pc' = [pc EXCEPT ![p] = "install_trans"]
    /\ UNCHANGED <<home, slot, cache, pin, lh, outstanding, committing, wrote,
                   boot, crashes>>

\* Mutant of InstallBlock: tail does not advance.
InstallBlockStuck ==
    /\ tail < Len(lh)
    /\ home' = [home EXCEPT ![lh[tail + 1]] = slot[tail + 1]]
    /\ cache' = [cache EXCEPT ![lh[tail + 1]] = slot[tail + 1]]
    /\ UNCHANGED <<slot, hdr, lh, outstanding, committing, tail, pc, wrote, boot, crashes>>

\* One iteration of install_trans(): log block tail goes to its home location.
InstallBlock ==
    LET b == lh[tail + 1] IN
    /\ tail < Len(lh)
    /\ home' = [home EXCEPT ![b] = slot[tail + 1]]
    /\ cache' = [cache EXCEPT ![b] = slot[tail + 1]]
    /\ tail' = tail + 1
    /\ UNCHANGED <<slot, hdr, lh, outstanding, committing, pc, wrote, boot, crashes>>

InstallTrans(p) ==
    /\ boot = "up"
    /\ pc[p] = "install_trans"
    /\ InstallBlock
    /\ pin' = [pin EXCEPT ![lh[tail + 1]] = @ - 1]

\* Mutant of ClearHead: the header on the disk is not rewritten.
ClearHeadInMemory ==
    /\ tail = Len(lh)
    /\ lh' = << >>
    /\ tail' = 0
    /\ UNCHANGED <<disk, cache, pin, outstanding, committing, wrote, crashes>>

\* log.lh.n = 0; write_head(): the transaction is erased.
ClearHead ==
    /\ tail = Len(lh)
    /\ lh' = << >>
    /\ hdr' = << >>
    /\ tail' = 0
    /\ UNCHANGED <<home, slot, cache, pin, outstanding, committing, wrote, crashes>>

ClearLog(p) ==
    /\ boot = "up"
    /\ pc[p] = "install_trans"
    /\ ClearHead
    /\ pc' = [pc EXCEPT ![p] = "commit_done"]
    /\ UNCHANGED boot

\* Back in end_op(): log.committing = 0; wakeup(&log).
CommitDone(p) ==
    /\ boot = "up"
    /\ pc[p] = "commit_done"
    /\ committing' = FALSE
    /\ pc' = Awake([pc EXCEPT ![p] = "idle"])
    /\ UNCHANGED <<disk, cache, pin, lh, outstanding, tail, wrote, boot, crashes>>

-----------------------------------------------------------------------------
(* Crash and recovery *)

\* Memory is lost; the disk keeps the block writes done so far.
Crash ==
    /\ crashes < MaxCrash
    /\ crashes' = crashes + 1
    /\ boot' = "read_head"
    /\ cache' = [b \in Block |-> NoVal]
    /\ pin' = [b \in Block |-> 0]
    /\ lh' = << >>
    /\ outstanding' = 0
    /\ committing' = FALSE
    /\ tail' = 0
    /\ pc' = [p \in Proc |-> "idle"]
    /\ wrote' = [p \in Proc |-> {}]
    /\ UNCHANGED disk

\* recover_from_log(): read_head(), install_trans(1), and the log is cleared.
RecoverRead ==
    /\ boot = "read_head"
    /\ lh' = hdr
    /\ boot' = "install_trans"
    /\ UNCHANGED <<disk, cache, pin, outstanding, committing, tail, pc, wrote, crashes>>

RecoverInstall == boot = "install_trans" /\ InstallBlock /\ UNCHANGED pin

RecoverClear ==
    /\ boot = "install_trans"
    /\ ClearHead
    /\ boot' = "up"
    /\ UNCHANGED pc

-----------------------------------------------------------------------------
Call(p) ==
    \/ SysCall(p) \/ BeginOp(p) \/ EndOp(p)
    \/ \E b \in Block, v \in Val : LogWrite(p, b, v)

Commit(p) ==
    WriteLog(p) \/ WriteHead(p) \/ InstallTrans(p) \/ ClearLog(p) \/ CommitDone(p)

Recover == RecoverRead \/ RecoverInstall \/ RecoverClear

\* A panic stops the machine, until somebody resets it.
Next ==
    \/ \E p \in Proc : Call(p) \/ Commit(p)
    \/ \E b \in Block : Evict(b)
    \/ Recover
    \/ Crash
    \/ boot = "panic" /\ UNCHANGED vars

Spec == Init /\ [][Next]_vars

-----------------------------------------------------------------------------
(* The promise of the log *)

\* The processes in a file system call.
Ops == {p \in Proc : pc[p] = "op"}

\* What recovery would leave in block b's home location.
Recovered(b) ==
    IF b \in Entries(hdr) THEN slot[CHOOSE i \in DOMAIN hdr : hdr[i] = b]
                          ELSE home[b]

\* Crash atomicity: the log implements AtomicDisk.  What a crash would leave on
\* the disk changes only when write_head() commits, and then to the contents of
\* all blocks at a moment when no file system call was in progress; readers see
\* the latest writes throughout.
Atomic == INSTANCE AtomicDisk WITH
    durable <- [b \in Block |-> Recovered(b)],
    mem     <- [b \in Block |-> IF boot \in {"up", "panic"} THEN Contents(b)
                                                           ELSE Recovered(b)],
    active  <- Ops

AtomicSpec == Atomic!Spec

\* An uncommitted change lives only in the cache: its buffer is pinned exactly
\* once, from log_write() until install_trans() has copied it home.
PinnedOnce ==
    \A b \in Block :
        pin[b] = IF boot \in {"up", "panic"} /\
                    \E i \in DOMAIN lh :
                        /\ lh[i] = b
                        /\ ~\E p \in Proc : pc[p] = "install_trans" /\ i <= tail
                 THEN 1 ELSE 0

\* When no call is in progress and no commit is running, every write has
\* reached its home location and the log and its pins are gone.
QuiescentIsDurable ==
    boot = "up" /\ (\A p \in Proc : pc[p] \in {"idle", "begin", "begin_sleep"}) =>
        /\ lh = << >> /\ hdr = << >>
        /\ \A b \in Block : Contents(b) = home[b] /\ pin[b] = 0

\* What end_op() leaves behind: changes are pinned while they are only in the
\* cache, and are at home, unpinned, once nobody is in a call.
ChangesKept == PinnedOnce /\ QuiescentIsDurable

\* commit() runs alone: no call is in progress while it copies the cache.
CommitExcludesCalls ==
    \A p \in Proc : pc[p] \in {"write_log", "install_trans", "commit_done"} =>
        /\ committing /\ outstanding = 0
        /\ \A q \in Proc \ {p} : pc[q] \in {"idle", "begin", "begin_sleep"}

\* What the calls in progress have not used of their reservations: a call and
\* the number of one of its MAXOPBLOCKS blocks.
Unused == {r \in Ops \X (1 .. MAXOPBLOCKS) : r[2] > Cardinality(wrote[r[1]])}

\* begin_op() reserves space in a log of LOGSIZE blocks; the disk has nlog - 1,
\* which is one fewer in the image that mkfs writes.
Missing == IF nlog - 1 < LOGSIZE THEN LOGSIZE - (nlog - 1) ELSE 0

\* "too big a transaction": log_write() finds no room only when the calls in
\* progress have used all of their reservations but the blocks that the disk
\* lacks.  A call with more than that to spare can write on, whatever the
\* others have written.  With none to spare log_write() may refuse even a block
\* that is in the log already.
ReservationSuffices == boot = "panic" => Cardinality(Unused) <= Missing

=============================================================================
