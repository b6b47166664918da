----------------------------- MODULE VirtioDisk -----------------------------
(***************************************************************************)
(* The disk driver of kernel/virtio_disk.c and the device behind it: the   *)
(* descriptors and the two rings they share, the completion interrupt, and *)
(* the processes that wait for descriptors or for their request.           *)
(*                                                                         *)
(* Each process transfers a buffer and a block of its own (bio.c locks     *)
(* them).  vdisk_lock is held over several steps by the interrupt handler  *)
(* only.  The device takes requests in order, completes them in any, and   *)
(* never reports an error.                                                 *)
(* Ring entries and commands that nobody will read again are reset.        *)
(***************************************************************************)
EXTENDS Integers, FiniteSets

CONSTANTS Proc,    \* processes that use the disk
          NUM,     \* number of descriptors and size of the rings
          IDX,     \* 2^16: the indices of the rings wrap around
          Val,     \* contents of buffers and blocks
          NIL

ASSUME VirtioAssumption ==
    /\ NUM \in Nat /\ NUM >= 3
    /\ IDX \in Nat /\ IDX >= NUM /\ IDX % NUM = 0
    /\ NIL \notin Proc

Desc == 0 .. NUM - 1

VARIABLES
    free,        \* disk.free
    desc,        \* disk.desc: where the descriptor points to, and the next one
    ops,         \* disk.ops: the command behind the descriptor
    info,        \* disk.info: the buffer and status of the request
    avail, aidx, \* disk.avail: ring and idx
    used, uidx,  \* disk.used: ring and idx
    used_idx,    \* disk.used_idx
    intr,        \* the interrupt handler is running, and holds vdisk_lock
    pc,          \* next step of each process
    write,       \* the argument write of virtio_disk_rw()
    idx,         \* idx[0..2] of each process
    onDisk,      \* b->disk of the process's buffer
    data,        \* b->data
    seen,        \* device: it has looked this far in the avail ring
    busy,        \* device: the requests it is working on
    pend,        \* device: it has still to interrupt for a used entry
    irq,         \* device: interrupt status
    block        \* device: the block of each process

rings  == <<avail, aidx, used, uidx>>
device == <<seen, busy, pend, irq, block>>
vars   == <<free, desc, ops, info, rings, used_idx, intr, pc, write, idx,
            onDisk, data, device>>

NoDesc == [addr |-> NIL, next |-> 0]
NoOp == [write |-> FALSE, sector |-> NIL]

Init ==
    /\ free = [i \in Desc |-> TRUE]
    /\ desc = [i \in Desc |-> NoDesc]
    /\ ops = [i \in Desc |-> NoOp]
    /\ info = [i \in Desc |-> [b |-> NIL, status |-> "0"]]
    /\ avail = [i \in Desc |-> 0] /\ aidx = 0
    /\ used = [i \in Desc |-> 0] /\ uidx = 0
    /\ used_idx = 0
    /\ intr = FALSE
    /\ pc = [p \in Proc |-> "idle"]
    /\ write = [p \in Proc |-> FALSE]
    /\ idx = [p \in Proc |-> [i \in 0 .. 2 |-> 0]]
    /\ onDisk = [p \in Proc |-> FALSE]
    /\ \E v \in Val : data = [p \in Proc |-> v] /\ block = [p \in Proc |-> v]
    /\ seen = 0 /\ busy = {} /\ irq = FALSE /\ pend = FALSE

-----------------------------------------------------------------------------
Plus1(n) == (n + 1) % IDX
Goto(p, l) == pc' = [pc EXCEPT ![p] = l]

FreeDescs == {i \in Desc : free[i]}

\* wakeup(&disk.free[0]).
WakeAlloc(f) == [p \in Proc |-> IF f[p] = "alloc_sleep" THEN "alloc" ELSE f[p]]

-----------------------------------------------------------------------------
(* virtio_disk_rw() *)

\* A process calls virtio_disk_rw(b, write); a write has new data.
Call(p, w, v) ==
    /\ pc[p] = "idle"
    /\ Goto(p, "alloc")
    /\ write' = [write EXCEPT ![p] = w]
    /\ data' = IF w THEN [data EXCEPT ![p] = v] ELSE data
    /\ UNCHANGED <<free, desc, ops, info, rings, used_idx, intr, idx, onDisk, device>>

\* Fewer than three descriptors are free: alloc3_desc() gives back those it
\* took, which wakes other sleepers, and the process sleeps.
AllocFail(p) ==
    /\ pc[p] = "alloc"
    /\ ~intr
    /\ Cardinality(FreeDescs) < 3
    /\ pc' = [(IF FreeDescs = {} THEN pc ELSE WakeAlloc(pc)) EXCEPT ![p] = "alloc_sleep"]
    /\ UNCHANGED <<free, desc, ops, info, rings, used_idx, intr, write, idx, onDisk, data,
                   device>>

\* alloc_desc() takes the first free descriptor, three times.
First(S) == CHOOSE i \in S : \A j \in S : i <= j
First3 ==
    LET S1 == FreeDescs \ {First(FreeDescs)}
        S2 == S1 \ {First(S1)}
    IN  [i \in 0 .. 2 |-> CASE i = 0 -> First(FreeDescs) [] i = 1 -> First(S1)
                          [] i = 2 -> First(S2)]

\* The header, the data and the status descriptor of a request.
Chain(p, f) ==
    [desc EXCEPT ![f[0]] = [addr |-> f[0], next |-> f[1]],
                 ![f[1]] = [addr |-> p, next |-> f[2]],
                 ![f[2]] = [addr |-> f[0], next |-> 0]]

\* Mutant of AvailSlot: always the first entry.
AvailSlotFirst == 0

AvailSlot == aidx % NUM

\* The descriptors are filled in and the request is put into the avail ring;
\* the process sleeps until its buffer is done.
Submit(p) ==
    LET f == First3 IN
    /\ pc[p] = "alloc"
    /\ ~intr
    /\ Cardinality(FreeDescs) >= 3
    /\ free' = [i \in Desc |-> free[i] /\ i \notin {f[0], f[1], f[2]}]
    /\ ops' = [ops EXCEPT ![f[0]] = [write |-> write[p], sector |-> p]]
    /\ desc' = Chain(p, f)
    /\ info' = [info EXCEPT ![f[0]] = [b |-> p, status |-> "0xff"]]
    /\ onDisk' = [onDisk EXCEPT ![p] = TRUE]
    /\ avail' = [avail EXCEPT ![AvailSlot] = f[0]]
    /\ aidx' = Plus1(aidx)
    /\ idx' = [idx EXCEPT ![p] = f]
    /\ Goto(p, "sleep")
    /\ UNCHANGED <<used, uidx, used_idx, intr, write, data, device>>

\* free_chain(): the flag NEXT is set in the first two descriptors.
FreeChain(i) == {i, desc[i].next, desc[desc[i].next].next}

\* Woken, and b->disk is 0: the request and its descriptors are given up.
Finish(p) ==
    LET h == idx[p][0] IN
    /\ pc[p] = "woken"
    /\ ~intr
    /\ ~onDisk[p]
    /\ info' = [info EXCEPT ![h].b = NIL]
    /\ ops' = [ops EXCEPT ![h] = NoOp]
    /\ free' = [i \in Desc |-> free[i] \/ i \in FreeChain(h)]
    /\ desc' = [i \in Desc |-> IF i \in FreeChain(h) THEN NoDesc ELSE desc[i]]
    /\ pc' = [WakeAlloc(pc) EXCEPT ![p] = "idle"]
    /\ idx' = [idx EXCEPT ![p] = [i \in 0 .. 2 |-> 0]]
    /\ write' = [write EXCEPT ![p] = FALSE]
    /\ UNCHANGED <<rings, used_idx, intr, onDisk, data, device>>

\* Woken by kill(), and the disk still owns the buffer.
SleepAgain(p) ==
    /\ pc[p] = "woken"
    /\ ~intr
    /\ onDisk[p]
    /\ Goto(p, "sleep")
    /\ UNCHANGED <<free, desc, ops, info, rings, used_idx, intr, write, idx, onDisk, data,
                   device>>

\* kill() makes a sleeping process RUNNABLE.
Kill(p) ==
    /\ \/ pc[p] = "sleep" /\ Goto(p, "woken")
       \/ pc[p] = "alloc_sleep" /\ Goto(p, "alloc")
    /\ UNCHANGED <<free, desc, ops, info, rings, used_idx, intr, write, idx, onDisk, data,
                   device>>

-----------------------------------------------------------------------------
(* The device *)

DevTake ==
    /\ seen # aidx
    /\ busy' = busy \cup {avail[seen % NUM]}
    /\ seen' = Plus1(seen)
    /\ avail' = [avail EXCEPT ![seen % NUM] = 0]
    /\ UNCHANGED <<free, desc, ops, info, aidx, used, uidx, used_idx, intr, pc, write, idx, onDisk,
                   data, pend, irq, block>>

\* The device follows the chain: the command, the data, the status.
DevDone(h) ==
    LET d == desc[desc[h].next]
        b == d.addr
    IN
    /\ h \in busy
    /\ IF ops[h].write
       THEN block' = [block EXCEPT ![ops[h].sector] = data[b]] /\ UNCHANGED data
       ELSE data' = [data EXCEPT ![b] = block[ops[h].sector]] /\ UNCHANGED block
    /\ info' = [info EXCEPT ![desc[d.next].addr].status = "0"]
    /\ used' = [used EXCEPT ![uidx % NUM] = h]
    /\ uidx' = Plus1(uidx)
    /\ busy' = busy \ {h}
    /\ pend' = TRUE
    /\ UNCHANGED <<free, desc, ops, avail, aidx, used_idx, intr, pc, write, idx, onDisk,
                   seen, irq>>

\* The interrupt follows the used entry.
DevInterrupt ==
    /\ pend
    /\ pend' = FALSE
    /\ irq' = TRUE
    /\ UNCHANGED <<free, desc, ops, info, rings, used_idx, intr, pc, write, idx, onDisk,
                   data, seen, busy, block>>

-----------------------------------------------------------------------------
(* virtio_disk_intr() *)

\* acquire(&disk.vdisk_lock), and the interrupt is acknowledged.
IntrStart ==
    /\ irq /\ ~intr
    /\ irq' = FALSE
    /\ intr' = TRUE
    /\ UNCHANGED <<free, desc, ops, info, rings, used_idx, pc, write, idx, onDisk, data,
                   seen, busy, pend, block>>

\* One used entry: its buffer is done, and its process is woken.
IntrEntry ==
    LET b == info[used[used_idx % NUM]].b IN
    /\ intr
    /\ used_idx # uidx
    /\ onDisk' = [onDisk EXCEPT ![b] = FALSE]
    /\ pc' = [pc EXCEPT ![b] = IF @ = "sleep" THEN "woken" ELSE @]
    /\ used_idx' = Plus1(used_idx)
    /\ used' = [used EXCEPT ![used_idx % NUM] = 0]
    /\ UNCHANGED <<free, desc, ops, info, avail, aidx, uidx, intr, write, idx, data, device>>

\* Mutant of IntrEnd: one entry for each interrupt.
IntrEndEarly ==
    /\ intr
    /\ intr' = FALSE
    /\ UNCHANGED <<free, desc, ops, info, rings, used_idx, pc, write, idx, onDisk, data,
                   device>>

IntrEnd ==
    /\ intr
    /\ used_idx = uidx
    /\ intr' = FALSE
    /\ UNCHANGED <<free, desc, ops, info, rings, used_idx, pc, write, idx, onDisk, data,
                   device>>

-----------------------------------------------------------------------------
Rw(p) == AllocFail(p) \/ Submit(p) \/ SleepAgain(p) \/ Finish(p)
Device == DevTake \/ DevInterrupt \/ \E h \in Desc : DevDone(h)
Interrupt == IntrStart \/ IntrEntry \/ IntrEnd

Next ==
    \/ \E p \in Proc : Rw(p) \/ Kill(p) \/ \E w \in BOOLEAN, v \in Val : Call(p, w, v)
    \/ Device
    \/ Interrupt

Spec == Init /\ [][Next]_vars

-----------------------------------------------------------------------------
(* Safety *)

Own(p) == {idx[p][i] : i \in 0 .. 2}
Active == {p \in Proc : pc[p] \in {"sleep", "woken"}}

\* No descriptor is lost or shared: the ones that are not free belong to exactly
\* one request, which has three.  The panics of free_desc() are unreachable.
DescOwned ==
    /\ \A p \in Active : Cardinality(Own(p)) = 3
    /\ \A p, r \in Active : p # r => Own(p) \cap Own(r) = {}
    /\ {i \in Desc : ~free[i]} = UNION {Own(p) : p \in Active}

\* The requests the device has not completed, and those completed that the
\* handler has not looked at.
Waiting == busy \cup {avail[(seen + i) % NUM] : i \in 0 .. ((aidx - seen) % IDX) - 1}
Completed == {used[(used_idx + i) % NUM] : i \in 0 .. ((uidx - used_idx) % IDX) - 1}

\* Whatever the device still works on, or has put into the used ring, is a
\* request whose process waits for it and whose descriptors lead to its buffer and
\* its status; no entry of a ring is overwritten or seen twice.  The handler never
\* meets its panic "virtio_disk_intr status", and a request is reported done only
\* when its data has been transferred.
RequestsIntact ==
    /\ Cardinality(Waiting) + Cardinality(Completed) =
           Cardinality(busy) + ((aidx - seen) % IDX) + ((uidx - used_idx) % IDX)
    /\ \A h \in Waiting \cup Completed :
        \E p \in Proc :
            /\ p \in Active /\ onDisk[p] /\ idx[p][0] = h /\ info[h].b = p
            /\ ops[h] = [write |-> write[p], sector |-> p]
            /\ desc[desc[h].next].addr = p
            /\ desc[desc[desc[h].next].next].addr = h
    /\ Waiting \cap Completed = {}
    /\ \A h \in Completed : info[h].status = "0"
    /\ \A p \in Active : ~onDisk[p] => data[p] = block[p]

\* The descriptors and the rings are consistent at every interleaving of the
\* driver's processes, its interrupt handler and the device.
QueueSound == DescOwned /\ RequestsIntact

\* No lost wakeup: a process sleeps for descriptors only while fewer than three
\* are free, and for its request only while the disk owns its buffer.
SleepersWait ==
    \A p \in Proc :
        /\ pc[p] = "alloc_sleep" => Cardinality(FreeDescs) < 3
        /\ pc[p] = "sleep" => onDisk[p]

\* No completion is missed, although interrupts are not counted and more
\* requests may complete after one is acknowledged: whatever is in the used ring
\* will still be looked at.
CompletionsSeen == used_idx # uidx => pend \/ irq \/ intr

\* Nobody waits for the disk in vain.
NothingMissed == SleepersWait /\ CompletionsSeen

=============================================================================
