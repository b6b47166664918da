-------------------------------- MODULE Pipe --------------------------------
(***************************************************************************)
(* One pipe of kernel/pipe.c, its readers and writers, and the processes   *)
(* that close their ends through fileclose() (kernel/file.c).              *)
(*                                                                         *)
(* pi->lock is held from acquire() to release() or sleep(), over several   *)
(* steps, because kill() can set p->killed between them.  sleep() releases *)
(* the lock and sleeps in one step, as Proc shows it may be used.          *)
(***************************************************************************)
EXTENDS Integers

CONSTANTS Writer, Reader,   \* the processes that hold the write and read end
          Byte,             \* what is written
          PIPESIZE,         \* size of pi->data
          UINT,             \* 2^32: nread and nwrite wrap around
          MaxCount,         \* bound: largest count passed to read or write
          NIL               \* pi->lock is free

ASSUME PipeAssumption ==
    /\ PIPESIZE \in Nat \ {0}
    /\ UINT \in Nat /\ PIPESIZE < UINT /\ UINT % PIPESIZE = 0
    /\ MaxCount \in Nat
    /\ Writer \cap Reader = {}
    /\ NIL \notin Writer \cup Reader
    /\ Byte # {}

Proc == Writer \cup Reader

VARIABLES
    data,        \* pi->data
    nread,       \* pi->nread
    nwrite,      \* pi->nwrite
    readopen,    \* pi->readopen
    writeopen,   \* pi->writeopen
    lock,        \* holder of pi->lock
    ref,         \* the processes whose file descriptor is still open
    freed,       \* how often kfree() was called on the pipe
    pc,          \* next step of each process
    left,        \* n - i: bytes the call has still to move
    killed,      \* p->killed
    out          \* the byte copied out last

ring  == <<data, nread, nwrite>>
ends  == <<readopen, writeopen, ref, freed>>
vars  == <<ring, ends, lock, pc, left, killed, out>>

\* pipealloc(), and fork() has handed the ends to the processes.
Init ==
    /\ \E b \in Byte : data = [i \in 0 .. PIPESIZE - 1 |-> b] /\ out = b
    /\ nread = 0
    /\ nwrite = 0
    /\ readopen = TRUE
    /\ writeopen = TRUE
    /\ lock = NIL
    /\ ref = Proc
    /\ freed = 0
    /\ pc = [p \in Proc |-> "idle"]
    /\ left = [p \in Proc |-> 0]
    /\ killed = [p \in Proc |-> FALSE]

-----------------------------------------------------------------------------
(* Helpers *)

Plus1(n) == (n + 1) % UINT

Empty == nread = nwrite

\* Mutant of Full: one byte too many.
FullLate == nwrite = (nread + PIPESIZE + 1) % UINT

Full == nwrite = (nread + PIPESIZE) % UINT

\* wakeup(): the processes asleep at l go for the lock again.
Wakeup(f, l) == [p \in Proc |-> IF f[p] = l THEN "acquire" ELSE f[p]]

Goto(p, l) == pc' = [pc EXCEPT ![p] = l]

\* release(&pi->lock); return, after wakeup() of the processes asleep at l.
ReturnWaking(p, l) ==
    /\ lock' = NIL
    /\ pc' = Wakeup([pc EXCEPT ![p] = "idle"], l)
    /\ left' = [left EXCEPT ![p] = 0]

\* release(&pi->lock); return -1.
ReturnError(p) ==
    /\ lock' = NIL
    /\ Goto(p, "idle")
    /\ left' = [left EXCEPT ![p] = 0]

-----------------------------------------------------------------------------
(* Entry, and kill() *)

\* A process that still has its end open, and was not killed, calls read() or
\* write().
SysCall(p, n) ==
    /\ pc[p] = "idle"
    /\ p \in ref
    /\ ~killed[p]
    /\ Goto(p, "acquire")
    /\ left' = [left EXCEPT ![p] = n]
    /\ UNCHANGED <<ring, ends, lock, killed, out>>

Acquire(p) ==
    /\ pc[p] = "acquire"
    /\ lock = NIL
    /\ lock' = p
    /\ Goto(p, IF p \in Writer THEN "write" ELSE "read")
    /\ UNCHANGED <<ring, ends, left, killed, out>>

\* kill(): the flag, and a sleeper becomes RUNNABLE.
Kill(p) ==
    /\ p \in ref
    /\ ~killed[p]
    /\ killed' = [killed EXCEPT ![p] = TRUE]
    /\ IF pc[p] \in {"write_sleep", "read_sleep"} THEN Goto(p, "acquire")
                                                  ELSE UNCHANGED pc
    /\ UNCHANGED <<ring, ends, lock, left, out>>

-----------------------------------------------------------------------------
(* pipewrite() *)

\* The reader is gone or the writer was killed: return -1.
WriteAbort(w) ==
    /\ pc[w] = "write"
    /\ left[w] > 0
    /\ ~readopen \/ killed[w]
    /\ ReturnError(w)
    /\ UNCHANGED <<ring, ends, killed, out>>

WriteCan(w) == pc[w] = "write" /\ left[w] > 0 /\ readopen /\ ~killed[w]

\* The pipe is full: wakeup(&pi->nread), then sleep(&pi->nwrite).
WriteFull(w) ==
    /\ WriteCan(w)
    /\ Full
    /\ pc' = Wakeup([pc EXCEPT ![w] = "write_full"], "read_sleep")
    /\ UNCHANGED <<ring, ends, lock, left, killed, out>>

WriteSleep(w) ==
    /\ pc[w] = "write_full"
    /\ lock' = NIL
    /\ Goto(w, "write_sleep")
    /\ UNCHANGED <<ring, ends, left, killed, out>>

WriteByte(w, ch) ==
    /\ WriteCan(w)
    /\ ~Full
    /\ data' = [data EXCEPT ![nwrite % PIPESIZE] = ch]
    /\ nwrite' = Plus1(nwrite)
    /\ left' = [left EXCEPT ![w] = @ - 1]
    /\ UNCHANGED <<nread, ends, lock, pc, killed, out>>

\* Mutant of WriteDone: the readers are not woken.
WriteDoneSilent(w) ==
    /\ pc[w] = "write"
    /\ left[w] = 0 \/ (WriteCan(w) /\ ~Full)
    /\ ReturnError(w)
    /\ UNCHANGED <<ring, ends, killed, out>>

\* All bytes are in, or copyin() failed: wakeup(&pi->nread), return.
WriteDone(w) ==
    /\ pc[w] = "write"
    /\ left[w] = 0 \/ (WriteCan(w) /\ ~Full)
    /\ ReturnWaking(w, "read_sleep")
    /\ UNCHANGED <<ring, ends, killed, out>>

-----------------------------------------------------------------------------
(* piperead() *)

ReadAbort(r) ==
    /\ pc[r] = "read"
    /\ Empty /\ writeopen /\ killed[r]
    /\ ReturnError(r)
    /\ UNCHANGED <<ring, ends, killed, out>>

ReadEmpty(r) ==
    /\ pc[r] = "read"
    /\ Empty /\ writeopen /\ ~killed[r]
    /\ Goto(r, "read_empty")
    /\ UNCHANGED <<ring, ends, lock, left, killed, out>>

ReadSleep(r) ==
    /\ pc[r] = "read_empty"
    /\ lock' = NIL
    /\ Goto(r, "read_sleep")
    /\ UNCHANGED <<ring, ends, left, killed, out>>

ReadStart(r) ==
    /\ pc[r] = "read"
    /\ ~Empty \/ ~writeopen
    /\ Goto(r, "read_copy")
    /\ UNCHANGED <<ring, ends, lock, left, killed, out>>

ReadByte(r) ==
    /\ pc[r] = "read_copy"
    /\ left[r] > 0 /\ ~Empty
    /\ out' = data[nread % PIPESIZE]
    /\ nread' = Plus1(nread)
    /\ left' = [left EXCEPT ![r] = @ - 1]
    /\ UNCHANGED <<data, nwrite, ends, lock, pc, killed>>

\* copyout() fails: the byte is already taken from the ring.
ReadFault(r) ==
    /\ pc[r] = "read_copy"
    /\ left[r] > 0 /\ ~Empty
    /\ nread' = Plus1(nread)
    /\ ReturnWaking(r, "write_sleep")
    /\ UNCHANGED <<data, nwrite, ends, killed, out>>

ReadDone(r) ==
    /\ pc[r] = "read_copy"
    /\ left[r] = 0 \/ Empty
    /\ ReturnWaking(r, "write_sleep")
    /\ UNCHANGED <<ring, ends, killed, out>>

-----------------------------------------------------------------------------
(* Closing an end *)

\* fileclose(): the last descriptor of an end goes on to pipeclose().
Close(p) ==
    /\ pc[p] = "idle"
    /\ p \in ref
    /\ ref' = ref \ {p}
    /\ LET side == IF p \in Writer THEN Writer ELSE Reader IN
       IF ref' \cap side = {} THEN Goto(p, "closing") ELSE UNCHANGED pc
    /\ UNCHANGED <<ring, readopen, writeopen, freed, lock, left, killed, out>>

\* Mutant of Gone: either end closed is enough.
GoneEither == ~readopen' \/ ~writeopen'

\* pipeclose(): nobody can reach the pipe any more.
Gone == ~readopen' /\ ~writeopen'

\* pipeclose(): the sleepers at the other end are woken, and the pipe is freed
\* when both ends are closed.
PipeClose(p) ==
    /\ pc[p] = "closing"
    /\ lock = NIL
    /\ IF p \in Writer
       THEN /\ writeopen' = FALSE
            /\ pc' = Wakeup([pc EXCEPT ![p] = "idle"], "read_sleep")
            /\ UNCHANGED readopen
       ELSE /\ readopen' = FALSE
            /\ pc' = Wakeup([pc EXCEPT ![p] = "idle"], "write_sleep")
            /\ UNCHANGED writeopen
    /\ freed' = IF Gone THEN freed + 1 ELSE freed
    /\ UNCHANGED <<ring, ref, lock, left, killed, out>>

-----------------------------------------------------------------------------
Write(w) ==
    \/ WriteAbort(w) \/ WriteFull(w) \/ WriteSleep(w) \/ WriteDone(w)
    \/ \E ch \in Byte : WriteByte(w, ch)

Read(r) ==
    \/ ReadAbort(r) \/ ReadEmpty(r) \/ ReadSleep(r) \/ ReadStart(r)
    \/ ReadByte(r) \/ ReadFault(r) \/ ReadDone(r)

User(p) == Close(p) \/ \E n \in 1 .. MaxCount : SysCall(p, n)

Step(p) == Acquire(p) \/ Write(p) \/ Read(p) \/ PipeClose(p)

Next == \E p \in Proc : User(p) \/ Step(p) \/ Kill(p)

Spec == Init /\ [][Next]_vars

-----------------------------------------------------------------------------
(* Safety *)

\* The bytes waiting in the ring, oldest first.
Count == (nwrite - nread) % UINT
Queue == [i \in 1 .. Count |-> data[((nread + i - 1) % UINT) % PIPESIZE]]

\* The pipe is a bounded queue of bytes: the ring, whose counters wrap at
\* 2^32, implements Fifo, so no byte is lost, repeated or reordered by writers
\* and readers that sleep and are interrupted in mid-call.
Bytes == INSTANCE Fifo WITH q <- Queue, Capacity <- PIPESIZE

FifoSpec == Bytes!Spec

\* No lost wakeup of writers: with the lock free, a writer sleeps only while
\* the pipe is full and has a reader.
WriterSleepsOnFull ==
    lock = NIL => \A w \in Writer : pc[w] = "write_sleep" => Full /\ readopen

\* No lost wakeup of readers, unless a writer was killed in mid-write: with
\* the lock free, a reader sleeps only while the pipe is empty and has a writer.
ReaderSleepsOnEmpty ==
    lock = NIL /\ (\A w \in Writer : ~killed[w]) =>
        \A r \in Reader : pc[r] = "read_sleep" => Empty /\ writeopen

\* Nobody sleeps in pipewrite() or piperead() in vain.
NoLostWakeup == WriterSleepsOnFull /\ ReaderSleepsOnEmpty

\* kfree() is called once, and only when nobody is using or can still reach
\* the pipe: fileclose() of the two last descriptors may race.
FreedOnce ==
    /\ freed <= 1
    /\ freed = 1 => ref = {} /\ \A p \in Proc : pc[p] = "idle"

=============================================================================
