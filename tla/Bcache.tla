------------------------------- MODULE Bcache -------------------------------
(***************************************************************************)
(* The buffer cache of kernel/bio.c with the sleeplocks of                 *)
(* kernel/sleeplock.c that guard its buffers.                              *)
(*                                                                         *)
(* Every use of bcache.lock and of a sleeplock's spinlock is inside one    *)
(* step.  A process uses one buffer at a time.  As in the rest of the      *)
(* kernel, a changed buffer is not released before it has been written     *)
(* (bwrite) or handed to the log (log_write, which pins it), and the log   *)
(* unpins a block after writing it to its home location.                   *)
(***************************************************************************)
EXTENDS Integers, Sequences, FiniteSets

CONSTANTS Proc,       \* processes using the cache
          NBUF,       \* number of buffers
          Block,      \* disk blocks
          Val,        \* block contents
          NoBlock,    \* blockno of a buffer that was never used
          NIL,        \* no process, no buffer
          MaxPins     \* bound: blocks pinned by the log at the same time

ASSUME BcacheAssumption ==
    /\ NBUF \in Nat \ {0}
    /\ MaxPins \in Nat
    /\ NoBlock \notin Block
    /\ NIL \notin Proc \cup (1 .. NBUF)
    /\ IsFiniteSet(Proc)

Buf == 1 .. NBUF
head == 0             \* bcache.head
Node == 0 .. NBUF

VARIABLES
    blockno, valid, data, refcnt,  \* struct buf
    lock,      \* b->lock: the process that holds it
    next, prev,  \* the list of buffers through bcache.head
    pinned,    \* the buffers the log has pinned
    disk,      \* the blocks on the disk
    pc,        \* next step of each process
    want,      \* the argument of bread()
    cur,       \* b: the buffer a process is using
    dirty      \* the process has changed its buffer and must not release it yet

list == <<next, prev>>
bufs == <<blockno, valid, data, refcnt, list>>
vars == <<bufs, lock, pinned, disk, pc, want, cur, dirty>>

\* binit() puts every buffer in front of the ones before it.
Init ==
    /\ blockno = [b \in Buf |-> NoBlock]
    /\ valid = [b \in Buf |-> FALSE]
    /\ \E v \in Val : data = [b \in Buf |-> v] /\ disk = [k \in Block |-> v]
    /\ refcnt = [b \in Buf |-> 0]
    /\ lock = [b \in Buf |-> NIL]
    /\ next = [b \in Node |-> IF b = head THEN NBUF ELSE b - 1]
    /\ prev = [b \in Node |-> IF b = NBUF THEN head ELSE b + 1]
    /\ pinned = {}
    /\ pc = [p \in Proc |-> "idle"]
    /\ want = [p \in Proc |-> NoBlock]
    /\ cur = [p \in Proc |-> NIL]
    /\ dirty = {}

-----------------------------------------------------------------------------
(* bread() *)

Goto(p, l) == pc' = [pc EXCEPT ![p] = l]

Cached(k) == {b \in Buf : blockno[b] = k}

\* The block is cached: take a reference.
BgetHit(p, k) ==
    /\ pc[p] = "idle"
    /\ \E b \in Cached(k) :
        /\ refcnt' = [refcnt EXCEPT ![b] = @ + 1]
        /\ cur' = [cur EXCEPT ![p] = b]
    /\ want' = [want EXCEPT ![p] = k]
    /\ Goto(p, "acquiresleep")
    /\ UNCHANGED <<blockno, valid, data, list, lock, pinned, disk, dirty>>

\* The walk of bget() from the end of the list: FromEnd[i] is where it is after
\* i steps by prev.
IsWalk(s) == s[0] = head /\ \A i \in Buf : s[i] = prev[s[i - 1]]
FromEnd == CHOOSE s \in [Node -> Node] : IsWalk(s)

\* The places in the list of the buffers that bget() may recycle.
Unused == {i \in Buf : refcnt[FromEnd[i]] = 0}

\* Mutant of Recycle: valid is not reset.
RecycleValid(b, k) ==
    /\ blockno' = [blockno EXCEPT ![b] = k]
    /\ refcnt' = [refcnt EXCEPT ![b] = 1]
    /\ UNCHANGED valid

Recycle(b, k) ==
    /\ blockno' = [blockno EXCEPT ![b] = k]
    /\ valid' = [valid EXCEPT ![b] = FALSE]
    /\ refcnt' = [refcnt EXCEPT ![b] = 1]

\* Not cached: recycle the least recently used unused buffer.
BgetMiss(p, k) ==
    /\ pc[p] = "idle"
    /\ Cached(k) = {}
    /\ \E i \in Unused :
        /\ \A j \in Unused : i <= j
        /\ Recycle(FromEnd[i], k)
        /\ cur' = [cur EXCEPT ![p] = FromEnd[i]]
    /\ want' = [want EXCEPT ![p] = k]
    /\ Goto(p, "acquiresleep")
    /\ UNCHANGED <<data, list, lock, pinned, disk, dirty>>

\* panic("bget: no buffers").
BgetPanic(p, k) ==
    /\ pc[p] = "idle"
    /\ Cached(k) = {} /\ Unused = {}
    /\ Goto(p, "panic")
    /\ UNCHANGED <<bufs, lock, pinned, disk, want, cur, dirty>>

\* acquiresleep(&b->lock), and the test of b->valid in bread().
AcquireSleep(p) ==
    /\ pc[p] = "acquiresleep"
    /\ IF lock[cur[p]] # NIL
       THEN Goto(p, "sleep") /\ UNCHANGED lock
       ELSE /\ lock' = [lock EXCEPT ![cur[p]] = p]
            /\ Goto(p, IF valid[cur[p]] THEN "held" ELSE "read")
    /\ UNCHANGED <<bufs, pinned, disk, want, cur, dirty>>

\* virtio_disk_rw(b, 0); b->valid = 1.
DiskRead(p) ==
    /\ pc[p] = "read"
    /\ data' = [data EXCEPT ![cur[p]] = disk[blockno[cur[p]]]]
    /\ valid' = [valid EXCEPT ![cur[p]] = TRUE]
    /\ Goto(p, "held")
    /\ UNCHANGED <<blockno, refcnt, list, lock, pinned, disk, want, cur, dirty>>

-----------------------------------------------------------------------------
(* Using a buffer *)

Change(p, v) ==
    /\ pc[p] = "held"
    /\ data' = [data EXCEPT ![cur[p]] = v]
    /\ dirty' = dirty \cup {p}
    /\ UNCHANGED <<blockno, valid, refcnt, list, lock, pinned, disk, pc, want, cur>>

Bwrite(p) ==
    /\ pc[p] = "held"
    /\ disk' = [disk EXCEPT ![blockno[cur[p]]] = data[cur[p]]]
    /\ dirty' = dirty \ {p}
    /\ UNCHANGED <<bufs, lock, pinned, pc, want, cur>>

\* Mutant of Bpin: the log takes no reference.
BpinNoRef(p) ==
    /\ pc[p] = "held"
    /\ p \in dirty
    /\ cur[p] \notin pinned
    /\ Cardinality(pinned) < MaxPins
    /\ pinned' = pinned \cup {cur[p]}
    /\ dirty' = dirty \ {p}
    /\ UNCHANGED <<bufs, lock, disk, pc, want, cur>>

\* log_write(): bpin(b), unless the block is in the log already.
Bpin(p) ==
    /\ pc[p] = "held"
    /\ p \in dirty
    /\ \/ /\ cur[p] \notin pinned
          /\ Cardinality(pinned) < MaxPins
          /\ pinned' = pinned \cup {cur[p]}
          /\ refcnt' = [refcnt EXCEPT ![cur[p]] = @ + 1]
       \/ cur[p] \in pinned /\ UNCHANGED <<pinned, refcnt>>
    /\ dirty' = dirty \ {p}
    /\ UNCHANGED <<blockno, valid, data, list, lock, disk, pc, want, cur>>

\* install_trans(): bunpin(dbuf), after bwrite(dbuf).
Bunpin(p) ==
    /\ pc[p] = "held"
    /\ cur[p] \in pinned
    /\ disk[blockno[cur[p]]] = data[cur[p]]
    /\ pinned' = pinned \ {cur[p]}
    /\ refcnt' = [refcnt EXCEPT ![cur[p]] = @ - 1]
    /\ UNCHANGED <<blockno, valid, data, list, lock, disk, pc, want, cur, dirty>>

\* Mutant of Waken: a waiter is left asleep.
WakenNobody(f, b) == f

\* wakeup(lk): all who sleep on the lock of b try again.
Waken(f, b) ==
    [p \in Proc |-> IF f[p] = "sleep" /\ cur[p] = b THEN "acquiresleep" ELSE f[p]]

\* brelse(): releasesleep(&b->lock) ...
ReleaseSleep(p) ==
    /\ pc[p] = "held"
    /\ p \notin dirty
    /\ lock' = [lock EXCEPT ![cur[p]] = NIL]
    /\ pc' = Waken([pc EXCEPT ![p] = "brelse"], cur[p])
    /\ UNCHANGED <<bufs, pinned, disk, want, cur, dirty>>

\* b->next->prev = b->prev; b->prev->next = b->next.
Unlink(b) == [n |-> [next EXCEPT ![prev[b]] = next[b]],
              p |-> [prev EXCEPT ![next[b]] = prev[b]]]

\* b is taken out and put in again between bcache.head and bcache.head.next.
MoveToFront(b) ==
    LET l == Unlink(b) IN
    /\ next' = [l.n EXCEPT ![b] = l.n[head], ![head] = b]
    /\ prev' = [l.p EXCEPT ![b] = head, ![l.n[head]] = b]

\* ... and the reference is dropped; an unused buffer becomes the most
\* recently used.
DropRef(p) ==
    /\ pc[p] = "brelse"
    /\ refcnt' = [refcnt EXCEPT ![cur[p]] = @ - 1]
    /\ IF refcnt[cur[p]] = 1 THEN MoveToFront(cur[p]) ELSE UNCHANGED list
    /\ cur' = [cur EXCEPT ![p] = NIL]
    /\ want' = [want EXCEPT ![p] = NoBlock]
    /\ Goto(p, "idle")
    /\ UNCHANGED <<blockno, valid, data, lock, pinned, disk, dirty>>

-----------------------------------------------------------------------------
Bread(p) ==
    \/ \E k \in Block : BgetHit(p, k) \/ BgetMiss(p, k) \/ BgetPanic(p, k)
    \/ AcquireSleep(p) \/ DiskRead(p)

Use(p) == Bwrite(p) \/ Bpin(p) \/ Bunpin(p) \/ \E v \in Val : Change(p, v)

Brelse(p) == ReleaseSleep(p) \/ DropRef(p)

Next == \E p \in Proc : Bread(p) \/ Use(p) \/ Brelse(p)

Spec == Init /\ [][Next]_vars

\* Processes that are not asleep run, a process does not keep a buffer for
\* ever, and one that keeps trying for a sleeplock gets it at last.
FairSpec ==
    /\ Spec
    /\ \A p \in Proc :
        /\ WF_vars(AcquireSleep(p)) /\ SF_vars(AcquireSleep(p) /\ lock[cur[p]] = NIL)
        /\ WF_vars(DiskRead(p)) /\ WF_vars(DropRef(p))
        /\ WF_vars(Bwrite(p) /\ p \in dirty) /\ SF_vars(ReleaseSleep(p))

-----------------------------------------------------------------------------
(* Safety *)

\* A buffer's references are the processes that use or wait for it and the
\* log's pin: with one too few it is recycled in use, with one too many never.
RefCounts ==
    \A b \in Buf :
        refcnt[b] = Cardinality({p \in Proc : cur[p] = b})
                    + (IF b \in pinned THEN 1 ELSE 0)

\* Whatever is released in whatever order, every buffer stays in the list, and
\* the links agree in both directions.
ListComplete ==
    /\ \A b \in Node : prev[next[b]] = b /\ next[prev[b]] = b
    /\ {FromEnd[i] : i \in Buf} = Buf

\* bget() finds every buffer, and finds it free only if nobody has it.
CacheSound == RefCounts /\ ListComplete

\* Reading, recycling, pinning and writing back lose no change and show no
\* stale contents: the cache implements BlockStore.
Store == INSTANCE BlockStore WITH
    Nobody <- NIL,
    mem <- [k \in Block |-> IF \E b \in Cached(k) : valid[b]
                            THEN data[CHOOSE b \in Cached(k) : TRUE] ELSE disk[k]],
    owner <- [k \in Block |-> IF Cached(k) = {} THEN NIL
                              ELSE lock[CHOOSE b \in Cached(k) : TRUE]]

StoreSpec == Store!Spec

\* Every bread() gets its buffer, under FairSpec.
BreadReturns == \A p \in Proc : pc[p] = "acquiresleep" ~> pc[p] = "held"

=============================================================================
