------------------------------ MODULE PipeInv -------------------------------
(***************************************************************************)
(* Proofs about Pipe: for any number of readers and writers, any size of   *)
(* the ring and any counts, nobody misses a wakeup, the pipe is freed      *)
(* once, by the last of two closes that may race, and the ring is a        *)
(* bounded queue of bytes although its counters wrap.                      *)
(***************************************************************************)
EXTENDS Pipe, Wrap, Sequences, TLAPS

InWrite == {"write", "write_full"}
InRead == {"read", "read_empty", "read_copy"}
PC == {"idle", "acquire", "closing", "write_sleep", "read_sleep"} \cup InWrite \cup InRead

PipeType ==
    /\ readopen \in BOOLEAN /\ writeopen \in BOOLEAN
    /\ lock \in Proc \cup {NIL}
    /\ ref \subseteq Proc
    /\ freed \in Nat
    /\ pc \in [Proc -> PC]
    /\ left \in [Proc -> Int]
    /\ killed \in [Proc -> BOOLEAN]

\* The lock is held exactly between acquire() and release() or sleep(), and
\* writers write and readers read.
LockInv ==
    \A p \in Proc :
        /\ pc[p] \in InWrite \cup InRead <=> lock = p
        /\ pc[p] \in InWrite \cup {"write_sleep"} => p \in Writer
        /\ pc[p] \in InRead \cup {"read_sleep"} => p \in Reader

\* Only a process with an open descriptor is in a call; an end is open while
\* somebody has it or is about to close it; the last descriptor of an end is
\* closed by one process.
EndInv ==
    /\ \A p \in Proc : pc[p] \notin {"idle", "closing"} => p \in ref
    /\ \A w \in Writer : w \in ref \/ pc[w] = "closing" => writeopen
    /\ \A r \in Reader : r \in ref \/ pc[r] = "closing" => readopen
    /\ \A w, v \in Writer : pc[w] = "closing" => v \notin ref /\ (pc[v] = "closing" => v = w)
    /\ \A r, s \in Reader : pc[r] = "closing" => s \notin ref /\ (pc[s] = "closing" => s = r)
    /\ freed = IF readopen \/ writeopen THEN 0 ELSE 1

\* A sleeper sleeps for a reason, or the process that has just removed the
\* reason holds the lock and will wake it before it lets go.
WriteInv ==
    \A w \in Writer :
        /\ pc[w] = "write_full" => Full
        /\ pc[w] = "write_sleep" => Full \/ \E r \in Reader : pc[r] = "read_copy"

ReadInv ==
    (\A w \in Writer : ~killed[w]) =>
        \A r \in Reader :
            /\ pc[r] = "read_empty" => Empty
            /\ pc[r] = "read_sleep" => Empty \/ \E w \in Writer : pc[w] = "write"

\* While somebody is in a call or asleep in one, the other end is as it found
\* it.
OpenInv ==
    /\ \A w \in Writer : pc[w] \in {"write_full", "write_sleep"} => readopen
    /\ \A r \in Reader : pc[r] \in {"read_empty", "read_sleep"} => writeopen

PInv == PipeType /\ LockInv /\ EndInv /\ WriteInv /\ ReadInv /\ OpenInv

-----------------------------------------------------------------------------
\* The oldest byte leaves the queue, the others move up.
LEMMA TailIs ==
    ASSUME NEW S, NEW s \in Seq(S), s # << >>
    PROVE  /\ Tail(s) \in Seq(S) /\ Len(Tail(s)) = Len(s) - 1
           /\ \A i \in 1 .. Len(s) - 1 : Tail(s)[i] = s[i + 1]
OBVIOUS

\* pipealloc() establishes the invariant.
LEMMA InitInv == Init => PInv
<1> SUFFICES ASSUME Init PROVE PInv
  OBVIOUS
<1>1. PipeType
  BY DEF Init, PipeType, PC
<1>2. LockInv
  BY PipeAssumption, Zenon DEF Init, LockInv, InWrite, InRead, Proc
<1>3. EndInv
  BY DEF Init, EndInv, Proc
<1>4. WriteInv /\ ReadInv /\ OpenInv
  BY DEF Init, WriteInv, ReadInv, OpenInv, Proc
<1> QED
  BY <1>1, <1>2, <1>3, <1>4 DEF PInv

\* Every step of pipewrite(), piperead(), pipeclose(), fileclose() and kill()
\* preserves it.
LEMMA StepInv == PInv /\ [Next]_vars => PInv'
<1> SUFFICES ASSUME PInv, [Next]_vars PROVE PInv'
  BY Zenon
<1> USE PipeAssumption DEF PInv, PipeType, LockInv, EndInv, InWrite, InRead, Proc, ring, ends
<1>1. ASSUME NEW p \in Proc, \E n \in 1 .. MaxCount : SysCall(p, n) PROVE PInv'
  <2>1. PipeType'
    BY <1>1 DEF PC, SysCall, Goto
  <2>2. LockInv'
    BY <1>1 DEF SysCall, Goto
  <2>3. EndInv'
    BY <1>1 DEF SysCall, Goto
  <2>4. WriteInv' /\ ReadInv' /\ OpenInv'
    BY <1>1 DEF WriteInv, ReadInv, OpenInv, Full, Empty, SysCall, Goto
  <2> QED
    BY <2>1, <2>2, <2>3, <2>4, Zenon
<1>2. ASSUME NEW p \in Proc, Close(p) PROVE PInv'
  <2>1. PipeType'
    BY <1>2 DEF PC, Close, Goto
  <2>2. LockInv'
    BY <1>2 DEF Close, Goto
  <2>3. EndInv'
    BY <1>2 DEF Close, Goto
  <2>4. WriteInv' /\ ReadInv' /\ OpenInv'
    BY <1>2 DEF WriteInv, ReadInv, OpenInv, Full, Empty, Close, Goto
  <2> QED
    BY <2>1, <2>2, <2>3, <2>4
<1>3. ASSUME NEW p \in Proc, Acquire(p) PROVE PInv'
  <2>1. PipeType'
    BY <1>3, Zenon DEF PC, Acquire, Goto
  <2>2. LockInv'
    BY <1>3 DEF Acquire, Goto
  <2>3. EndInv'
    BY <1>3 DEF Acquire, Goto
  <2>4. WriteInv' /\ ReadInv' /\ OpenInv'
    BY <1>3 DEF WriteInv, ReadInv, OpenInv, Full, Empty, Acquire, Goto
  <2> QED
    BY <2>1, <2>2, <2>3, <2>4
<1>4. ASSUME NEW p \in Proc, Kill(p) PROVE PInv'
  <2>1. PipeType'
    BY <1>4 DEF PC, Kill, Goto
  <2>2. LockInv'
    BY <1>4 DEF Kill, Goto
  <2>3. EndInv'
    BY <1>4 DEF Kill, Goto
  <2>4. WriteInv' /\ ReadInv' /\ OpenInv'
    BY <1>4, SMTT(60) DEF WriteInv, ReadInv, OpenInv, Full, Empty, Kill, Goto
  <2> QED
    BY <2>1, <2>2, <2>3, <2>4
<1>5. ASSUME NEW p \in Proc, WriteAbort(p) PROVE PInv'
  <2>1. PipeType'
    BY <1>5 DEF PC, WriteAbort, ReturnError, Goto
  <2>2. LockInv'
    BY <1>5 DEF WriteAbort, ReturnError, Goto
  <2>3. EndInv'
    BY <1>5 DEF WriteAbort, ReturnError, Goto
  <2>4. WriteInv' /\ ReadInv' /\ OpenInv'
    BY <1>5 DEF WriteInv, ReadInv, OpenInv, Full, Empty, WriteAbort, ReturnError, Goto
  <2> QED
    BY <2>1, <2>2, <2>3, <2>4
<1>6. ASSUME NEW p \in Proc, WriteFull(p) PROVE PInv'
  <2>1. PipeType'
    BY <1>6 DEF PC, WriteFull, WriteCan, Wakeup
  <2>2. LockInv'
    BY <1>6 DEF WriteFull, WriteCan, Wakeup
  <2>3. EndInv'
    BY <1>6 DEF WriteFull, WriteCan, Wakeup
  <2>4. WriteInv' /\ ReadInv' /\ OpenInv'
    BY <1>6 DEF WriteInv, ReadInv, OpenInv, Full, Empty, WriteFull, WriteCan, Wakeup
  <2> QED
    BY <2>1, <2>2, <2>3, <2>4
<1>7. ASSUME NEW p \in Proc, WriteSleep(p) PROVE PInv'
  <2>1. PipeType'
    BY <1>7, Zenon DEF PC, WriteSleep, Goto
  <2>2. LockInv'
    BY <1>7 DEF WriteSleep, Goto
  <2>3. EndInv'
    BY <1>7 DEF WriteSleep, Goto
  <2>4. WriteInv' /\ ReadInv' /\ OpenInv'
    BY <1>7 DEF WriteInv, ReadInv, OpenInv, Full, Empty, WriteSleep, Goto
  <2> QED
    BY <2>1, <2>2, <2>3, <2>4
<1>8. ASSUME NEW p \in Proc, \E ch \in Byte : WriteByte(p, ch) PROVE PInv'
  <2>1. PipeType'
    BY <1>8 DEF PC, WriteByte, WriteCan
  <2>2. LockInv'
    BY <1>8 DEF WriteByte, WriteCan
  <2>3. EndInv'
    BY <1>8 DEF WriteByte, WriteCan
  <2>4. WriteInv' /\ ReadInv' /\ OpenInv'
    BY <1>8 DEF WriteInv, ReadInv, OpenInv, Full, Empty, WriteByte, WriteCan
  <2> QED
    BY <2>1, <2>2, <2>3, <2>4
<1>9. ASSUME NEW p \in Proc, WriteDone(p) PROVE PInv'
  <2>1. PipeType'
    BY <1>9 DEF PC, WriteDone, WriteCan, ReturnWaking, Wakeup
  <2>2. LockInv'
    BY <1>9 DEF WriteDone, WriteCan, ReturnWaking, Wakeup
  <2>3. EndInv'
    BY <1>9 DEF WriteDone, WriteCan, ReturnWaking, Wakeup
  <2>4. WriteInv' /\ ReadInv' /\ OpenInv'
    BY <1>9 DEF WriteInv, ReadInv, OpenInv, Full, Empty, WriteDone, WriteCan, ReturnWaking, Wakeup
  <2> QED
    BY <2>1, <2>2, <2>3, <2>4
<1>10. ASSUME NEW p \in Proc, ReadAbort(p) PROVE PInv'
  <2>1. PipeType'
    BY <1>10 DEF PC, ReadAbort, ReturnError, Goto
  <2>2. LockInv'
    BY <1>10 DEF ReadAbort, ReturnError, Goto
  <2>3. EndInv'
    BY <1>10 DEF ReadAbort, ReturnError, Goto
  <2>4. WriteInv' /\ ReadInv' /\ OpenInv'
    BY <1>10, Zenon DEF WriteInv, ReadInv, OpenInv, Full, Empty, ReadAbort, ReturnError, Goto
  <2> QED
    BY <2>1, <2>2, <2>3, <2>4
<1>11. ASSUME NEW p \in Proc, ReadEmpty(p) PROVE PInv'
  <2>1. PipeType'
    BY <1>11, Zenon DEF PC, ReadEmpty, Goto
  <2>2. LockInv'
    BY <1>11 DEF ReadEmpty, Goto
  <2>3. EndInv'
    BY <1>11 DEF ReadEmpty, Goto
  <2>4. WriteInv' /\ ReadInv' /\ OpenInv'
    BY <1>11, Zenon DEF WriteInv, ReadInv, OpenInv, Full, Empty, ReadEmpty, Goto
  <2> QED
    BY <2>1, <2>2, <2>3, <2>4
<1>12. ASSUME NEW p \in Proc, ReadSleep(p) PROVE PInv'
  <2>1. PipeType'
    BY <1>12, Zenon DEF PC, ReadSleep, Goto
  <2>2. LockInv'
    BY <1>12 DEF ReadSleep, Goto
  <2>3. EndInv'
    BY <1>12 DEF ReadSleep, Goto
  <2>4. WriteInv' /\ ReadInv' /\ OpenInv'
    BY <1>12, Zenon DEF WriteInv, ReadInv, OpenInv, Full, Empty, ReadSleep, Goto
  <2> QED
    BY <2>1, <2>2, <2>3, <2>4
<1>13. ASSUME NEW p \in Proc, ReadStart(p) PROVE PInv'
  <2>1. PipeType'
    BY <1>13, Zenon DEF PC, ReadStart, Goto
  <2>2. LockInv'
    BY <1>13, Zenon DEF ReadStart, Goto
  <2>3. EndInv'
    BY <1>13 DEF ReadStart, Goto
  <2>4. WriteInv' /\ ReadInv' /\ OpenInv'
    BY <1>13, Zenon DEF WriteInv, ReadInv, OpenInv, Full, Empty, ReadStart, Goto
  <2> QED
    BY <2>1, <2>2, <2>3, <2>4
<1>14. ASSUME NEW p \in Proc, ReadByte(p) PROVE PInv'
  <2>1. PipeType'
    BY <1>14 DEF PC, ReadByte
  <2>2. LockInv'
    BY <1>14, Zenon DEF ReadByte
  <2>3. EndInv'
    BY <1>14, Zenon DEF ReadByte
  <2>4. WriteInv' /\ ReadInv' /\ OpenInv'
    BY <1>14, Zenon DEF WriteInv, ReadInv, OpenInv, Full, Empty, ReadByte
  <2> QED
    BY <2>1, <2>2, <2>3, <2>4
<1>15. ASSUME NEW p \in Proc, ReadFault(p) PROVE PInv'
  <2>1. PipeType'
    BY <1>15, SMTT(60) DEF PC, ReadFault, ReturnWaking, Wakeup
  <2>2. LockInv'
    BY <1>15 DEF ReadFault, ReturnWaking, Wakeup
  <2>3. EndInv'
    BY <1>15, Zenon DEF ReadFault, ReturnWaking, Wakeup
  <2>4. WriteInv' /\ ReadInv' /\ OpenInv'
    BY <1>15 DEF WriteInv, ReadInv, OpenInv, Full, Empty, ReadFault, ReturnWaking, Wakeup
  <2> QED
    BY <2>1, <2>2, <2>3, <2>4
<1>16. ASSUME NEW p \in Proc, ReadDone(p) PROVE PInv'
  <2>1. PipeType'
    BY <1>16 DEF PC, ReadDone, ReturnWaking, Wakeup
  <2>2. LockInv'
    BY <1>16 DEF ReadDone, ReturnWaking, Wakeup
  <2>3. EndInv'
    BY <1>16 DEF ReadDone, ReturnWaking, Wakeup
  <2>4. WriteInv' /\ ReadInv' /\ OpenInv'
    BY <1>16, Zenon DEF WriteInv, ReadInv, OpenInv, Full, Empty, ReadDone, ReturnWaking, Wakeup
  <2> QED
    BY <2>1, <2>2, <2>3, <2>4
<1>17. ASSUME NEW p \in Proc, PipeClose(p) PROVE PInv'
  <2>1. \E l \in PC : pc' = Wakeup([pc EXCEPT ![p] = "idle"], l)
    BY <1>17, Zenon DEF PC, PipeClose
  <2>2. pc' \in [Proc -> PC]
    BY <2>1 DEF PC, Wakeup
  <2>3. freed' \in Nat
    BY <1>17 DEF PipeClose
  <2>4. PipeType'
    BY <1>17, <2>2, <2>3, Zenon DEF PipeClose
  <2>5. LockInv'
    BY <1>17, SMTT(60) DEF PipeClose, Gone, Wakeup
  <2>6. EndInv'
    BY <1>17 DEF PipeClose, Gone, Wakeup
  <2>7. WriteInv' /\ ReadInv' /\ OpenInv'
    BY <1>17, SMTT(60) DEF WriteInv, ReadInv, OpenInv, Full, Empty, PipeClose, Gone, Wakeup
  <2> QED
    BY <2>4, <2>5, <2>6, <2>7
<1>18. CASE UNCHANGED vars
  BY <1>18 DEF WriteInv, ReadInv, OpenInv, Full, Empty, vars
<1> QED
  BY <1>1, <1>2, <1>3, <1>4, <1>5, <1>6, <1>7, <1>8, <1>9, <1>10, <1>11, <1>12,
     <1>13, <1>14, <1>15, <1>16, <1>17, <1>18, Zenon DEF Next, User, Step, Write, Read

\* The invariant behind the theorems about pipes.
LEMMA Inductive == Spec => []PInv
  BY InitInv, StepInv, PTL DEF Spec

-----------------------------------------------------------------------------
\* kfree() is called once, when nobody is using or can still reach the pipe,
\* whatever way the last closes of the two ends race (pipeclose(), fileclose()).
THEOREM FreeOnce == Spec => []FreedOnce
<1>1. PInv => FreedOnce
  BY DEF PInv, PipeType, LockInv, EndInv, FreedOnce, Proc, PC, InWrite, InRead
<1> QED
  BY <1>1, Inductive, PTL

\* Nobody sleeps in pipewrite() or piperead() in vain: not for room while there
\* is some or the readers are gone, nor for bytes while there are some or the
\* writers are gone.
THEOREM Awake == Spec => []NoLostWakeup
<1>1. PInv => WriterSleepsOnFull
  BY PipeAssumption, Zenon
     DEF PInv, LockInv, WriteInv, OpenInv, WriterSleepsOnFull, InWrite, InRead, Proc
<1>2. PInv => ReaderSleepsOnEmpty
  BY PipeAssumption, Zenon
     DEF PInv, LockInv, ReadInv, OpenInv, ReaderSleepsOnEmpty, InWrite, InRead, Proc
<1> QED
  BY <1>1, <1>2, Inductive, PTL DEF NoLostWakeup

-----------------------------------------------------------------------------
(* The ring *)

Slot == 0 .. PIPESIZE - 1
Index == 0 .. UINT - 1

\* The counters wrap, and are never more than PIPESIZE apart.
RingInv ==
    /\ data \in [Slot -> Byte] /\ out \in Byte
    /\ nread \in Index /\ nwrite \in Index
    /\ Count <= PIPESIZE

(* The arithmetic of counters that wrap at a multiple of PIPESIZE *)

\* The sizes are such that slots go on where the counters wrap.
LEMMA Sizes == PIPESIZE \in Nat \ {0} /\ UINT \in Nat \ {0} /\ UINT % PIPESIZE = 0
  BY PipeAssumption

\* The slot of nwrite is Count behind that of nread.
LEMMA RingEnd ==
    \A x, y \in Index : (y + ((x - y) % UINT)) % PIPESIZE = x % PIPESIZE
  BY Sizes, SlotEnd, Zenon DEF Index

\* A step of nread shifts the slots by one.
LEMMA RingNext ==
    \A y \in Index, i \in Nat :
        (((y + 1) % UINT) + i) % PIPESIZE = (y + (i + 1)) % PIPESIZE
  BY Sizes, SlotNext, ZenonT(60) DEF Index

\* nwrite++ adds one to the count.
LEMMA RingMore ==
    \A x, y \in Index : (x - y) % UINT < UINT - 1 =>
        (((x + 1) % UINT) - y) % UINT = ((x - y) % UINT) + 1
  BY Sizes, AheadMore, Zenon DEF Index

\* nread++ takes one off.
LEMMA RingLess ==
    \A x, y \in Index : x # y =>
        (x - ((y + 1) % UINT)) % UINT = ((x - y) % UINT) - 1
  BY Sizes, AheadLess, Zenon DEF Index

\* What the ring holds, by slots.
LEMMA QueueIs ==
    ASSUME RingInv
    PROVE  /\ Count \in 0 .. PIPESIZE
           /\ Queue = [i \in 1 .. Count |-> data[(nread + (i - 1)) % PIPESIZE]]
           /\ Queue \in Seq(Byte) /\ Len(Queue) = Count
           /\ Empty <=> Count = 0
           /\ Full <=> Count = PIPESIZE
<1>1. Count \in 0 .. UINT - 1 /\ (Empty <=> Count = 0)
  BY PipeAssumption, AheadRange DEF RingInv, Index, Count, Empty
<1>2. Full <=> Count = PIPESIZE
  BY PipeAssumption, AheadBy DEF RingInv, Index, Count, Full
<1>3. PIPESIZE \in Nat \ {0} /\ UINT \in Nat \ {0} /\ UINT % PIPESIZE = 0
  BY PipeAssumption
<1>4. ASSUME NEW i \in 1 .. Count
      PROVE  ((nread + i - 1) % UINT) % PIPESIZE = (nread + (i - 1)) % PIPESIZE
  <2>1. nread + i - 1 = nread + (i - 1) /\ nread + (i - 1) \in Int
    BY <1>1, PipeAssumption DEF RingInv, Index
  <2>2. ((nread + (i - 1)) % UINT) % PIPESIZE = (nread + (i - 1)) % PIPESIZE
    BY <1>3, <2>1, SlotWrapped, Zenon
  <2> QED
    BY <2>1, <2>2, Zenon
<1>5. Queue = [i \in 1 .. Count |-> data[(nread + (i - 1)) % PIPESIZE]]
  BY <1>4, Zenon DEF Queue
<1>6. \A i \in 1 .. Count : data[(nread + (i - 1)) % PIPESIZE] \in Byte
  <2> TAKE i \in 1 .. Count
  <2>1. nread + (i - 1) \in Int
    BY <1>1, PipeAssumption DEF RingInv, Index
  <2>2. (nread + (i - 1)) % PIPESIZE \in Slot
    BY <2>1, PipeAssumption, DivMod, Zenon DEF Slot
  <2> QED
    BY <2>2 DEF RingInv
<1>7. Queue \in Seq(Byte) /\ Len(Queue) = Count
  <2> DEFINE n == Count
             e(i) == data[(nread + (i - 1)) % PIPESIZE]
  <2>1. n \in Nat /\ Queue = [i \in 1 .. n |-> e(i)] /\ \A i \in 1 .. n : e(i) \in Byte
    BY <1>1, <1>5, <1>6
  <2> HIDE DEF n, e
  <2>2. Queue \in Seq(Byte) /\ Len(Queue) = n
    BY <2>1
  <2> QED
    BY <2>2, Zenon DEF n
<1> QED
  BY <1>1, <1>2, <1>5, <1>7, PipeAssumption DEF RingInv

\* What QueueIs says, as a predicate, so that it can be said of the next state.
Laid == RingInv => Queue = [i \in 1 .. Count |-> data[(nread + (i - 1)) % PIPESIZE]]

\* It holds in every state.
LEMMA LaidOut == Laid
  BY QueueIs, Zenon DEF Laid

\* So it does after a step.
LEMMA NextQueueIs ==
    ASSUME RingInv'
    PROVE  Queue' = [i \in 1 .. Count' |-> data'[(nread' + (i - 1)) % PIPESIZE]]
<1>1. Laid'
  BY LaidOut, PTL
<1> QED
  BY <1>1, Zenon DEF Laid

\* WriteByte: the byte goes behind the others, into a slot that none of them
\* is in.
LEMMA PutStep ==
    ASSUME RingInv, NEW w \in Proc, NEW ch \in Byte, WriteByte(w, ch)
    PROVE  RingInv' /\ Bytes!Put(ch)
<1>1. /\ Count \in 0 .. PIPESIZE
      /\ Queue = [i \in 1 .. Count |-> data[(nread + (i - 1)) % PIPESIZE]]
      /\ Queue \in Seq(Byte) /\ Len(Queue) = Count
      /\ Full <=> Count = PIPESIZE
  BY QueueIs, Zenon
<1>2. /\ Count < PIPESIZE
      /\ data' = [data EXCEPT ![nwrite % PIPESIZE] = ch]
      /\ nwrite' = (nwrite + 1) % UINT
      /\ nread' = nread /\ out' = out
  BY <1>1, PipeAssumption DEF WriteByte, Plus1
<1>3. /\ PIPESIZE \in Nat \ {0} /\ UINT \in Nat \ {0} /\ PIPESIZE < UINT /\ UINT % PIPESIZE = 0
      /\ nread \in Index /\ nwrite \in Index
      /\ nread \in Int /\ nwrite \in Int
  BY PipeAssumption DEF RingInv, Index
<1>4. Count' = Count + 1
  <2>1. (nwrite - nread) % UINT < UINT - 1
    BY <1>1, <1>2, <1>3 DEF Count
  <2> QED
    BY <1>2, <1>3, <2>1, RingMore, Zenon DEF Count
<1>5. nwrite' \in Index
  BY <1>2, <1>3, Succ DEF RingInv, Index
<1>6. nwrite % PIPESIZE \in Slot
  BY <1>3, DivMod, Zenon DEF Slot
<1>7. RingInv'
  BY <1>1, <1>2, <1>3, <1>4, <1>5, <1>6 DEF RingInv
<1>8. Queue' = [i \in 1 .. Count' |-> data'[(nread' + (i - 1)) % PIPESIZE]]
  BY <1>7, NextQueueIs, Zenon
<1>9. nwrite % PIPESIZE = (nread + Count) % PIPESIZE
  BY <1>3, RingEnd, Zenon DEF Count
<1>10. ASSUME NEW i \in 1 .. Count
       PROVE  data'[(nread + (i - 1)) % PIPESIZE] = data[(nread + (i - 1)) % PIPESIZE]
  <2>1. nread \in Int /\ i - 1 \in 0 .. PIPESIZE - 1 /\ Count \in 0 .. PIPESIZE - 1 /\ i - 1 # Count
    BY <1>1, <1>2, <1>3 DEF RingInv
  <2>2. (nread + (i - 1)) % PIPESIZE # nwrite % PIPESIZE
    BY <1>3, <1>9, <2>1, SlotsDiffer, Zenon
  <2>3. (nread + (i - 1)) % PIPESIZE \in Slot
    BY <1>3, <2>1, DivMod DEF Slot
  <2> QED
    BY <1>2, <2>2, <2>3, Zenon DEF RingInv
<1>11. data'[(nread + Count) % PIPESIZE] = ch
  BY <1>2, <1>6, <1>9, Zenon DEF RingInv
<1>12. Queue' = Append(Queue, ch)
  <2> DEFINE n == Count
             e(i) == data[(nread + (i - 1)) % PIPESIZE]
             f(i) == data'[(nread + (i - 1)) % PIPESIZE]
  <2>1. n + 1 - 1 = n
    BY <1>1
  <2>2. /\ n \in Nat /\ Queue = [i \in 1 .. n |-> e(i)]
        /\ Queue' = [i \in 1 .. n + 1 |-> f(i)]
        /\ \A i \in 1 .. n : f(i) = e(i)
        /\ f(n + 1) = ch
    BY <1>1, <1>2, <1>4, <1>8, <1>10, <1>11, <2>1
  <2> HIDE DEF n, e, f
  <2> QED
    BY <2>2
<1> QED
  BY <1>1, <1>2, <1>7, <1>12, Zenon DEF Bytes!Put

\* ReadByte and ReadFault: the oldest byte is taken.
LEMMA TakeStep ==
    ASSUME RingInv, ~Empty, nread' = Plus1(nread), UNCHANGED <<data, nwrite>>,
           out' \in {out, data[nread % PIPESIZE]}
    PROVE  /\ RingInv' /\ Queue # << >> /\ Queue' = Tail(Queue)
           /\ data[nread % PIPESIZE] = Head(Queue)
<1>1. /\ Count \in 0 .. PIPESIZE
      /\ Queue = [i \in 1 .. Count |-> data[(nread + (i - 1)) % PIPESIZE]]
      /\ Queue \in Seq(Byte) /\ Len(Queue) = Count
      /\ Count # 0
  BY QueueIs, Zenon
<1>2. nread' = (nread + 1) % UINT /\ data' = data /\ nwrite' = nwrite /\ nread # nwrite
  BY Zenon DEF Plus1, Empty
<1>3. /\ PIPESIZE \in Nat \ {0} /\ UINT \in Nat \ {0} /\ PIPESIZE < UINT /\ UINT % PIPESIZE = 0
      /\ nread \in Index /\ nwrite \in Index
      /\ nread \in Int /\ nwrite \in Int
  BY PipeAssumption DEF RingInv, Index
<1>4. Count' = Count - 1
  BY <1>2, <1>3, RingLess, Zenon DEF Count
<1>5. nread' \in Index
  BY <1>2, <1>3, Succ DEF RingInv, Index
<1>6. nread % PIPESIZE \in Slot
  BY <1>3, DivMod, Zenon DEF Slot
<1>7. RingInv'
  BY <1>1, <1>2, <1>3, <1>4, <1>5, <1>6 DEF RingInv
<1>8. Queue' = [i \in 1 .. Count' |-> data'[(nread' + (i - 1)) % PIPESIZE]]
  BY <1>7, NextQueueIs, Zenon
<1>9. ASSUME NEW i \in 1 .. Count'
      PROVE  (nread' + (i - 1)) % PIPESIZE = (nread + ((i + 1) - 1)) % PIPESIZE
  <2>2. i - 1 \in Nat /\ (i - 1) + 1 = (i + 1) - 1
    BY <1>1, <1>4
  <2>3. (((nread + 1) % UINT) + (i - 1)) % PIPESIZE = (nread + ((i - 1) + 1)) % PIPESIZE
    BY <1>3, <2>2, RingNext, Zenon
  <2> QED
    BY <1>2, <2>2, <2>3, Zenon
<1>10. data[(nread + (1 - 1)) % PIPESIZE] = data[nread % PIPESIZE]
  <2>1. nread + (1 - 1) = nread
    BY <1>3
  <2> QED
    BY <2>1, Zenon
<1>11. Queue' = Tail(Queue) /\ data[nread % PIPESIZE] = Head(Queue) /\ Queue # << >>
  <2> DEFINE n == Count
             e(i) == data[(nread + (i - 1)) % PIPESIZE]
             f(i) == data'[(nread' + (i - 1)) % PIPESIZE]
  <2>2. /\ n \in Nat /\ n # 0 /\ Queue = [i \in 1 .. n |-> e(i)]
        /\ Queue' = [i \in 1 .. n - 1 |-> f(i)]
        /\ \A i \in 1 .. n - 1 : f(i) = e(i + 1)
        /\ e(1) = data[nread % PIPESIZE]
    BY <1>1, <1>2, <1>4, <1>8, <1>9, <1>10, SMTT(60)
  <2> HIDE DEF n, e, f
  <2>3. Queue # << >> /\ Head(Queue) = Queue[1] /\ Queue[1] = e(1)
    BY <1>1, <2>2
  <2>4. /\ Tail(Queue) \in Seq(Byte) /\ Len(Tail(Queue)) = n - 1
        /\ \A i \in 1 .. n - 1 : Tail(Queue)[i] = Queue[i + 1]
    BY <1>1, <2>3, TailIs, Zenon DEF n
  <2>5. \A i \in 1 .. n - 1 : Queue[i + 1] = f(i)
    BY <2>2
  <2>6. Tail(Queue) = [i \in 1 .. n - 1 |-> f(i)]
    BY <2>2, <2>4, <2>5
  <2> QED
    BY <2>2, <2>3, <2>6, Zenon
<1> QED
  BY <1>7, <1>11, Zenon

\* Every step of the pipe is a step of the queue, or leaves it alone.
LEMMA RingStep ==
    ASSUME RingInv, [Next]_vars
    PROVE  RingInv' /\ [Bytes!Next]_<<Queue, out>>
<1>1. ASSUME UNCHANGED <<ring, out>> PROVE RingInv' /\ UNCHANGED <<Queue, out>>
  BY <1>1 DEF ring, RingInv, Queue, Count
<1>2. ASSUME NEW p \in Proc, User(p) \/ Acquire(p) \/ Kill(p) \/ PipeClose(p)
      PROVE  UNCHANGED <<ring, out>>
  BY <1>2, Zenon DEF User, Close, SysCall, Acquire, Kill, PipeClose
<1>3. ASSUME NEW w \in Proc, Write(w)
      PROVE  UNCHANGED <<ring, out>> \/ \E ch \in Byte : WriteByte(w, ch)
  BY <1>3, Zenon DEF Write, WriteAbort, WriteFull, WriteSleep, WriteDone
<1>4. ASSUME NEW r \in Proc, Read(r)
      PROVE  UNCHANGED <<ring, out>> \/ ReadByte(r) \/ ReadFault(r)
  BY <1>4, Zenon DEF Read, ReadAbort, ReadEmpty, ReadSleep, ReadStart, ReadDone
<1>5. ASSUME NEW w \in Proc, NEW ch \in Byte, WriteByte(w, ch)
      PROVE  RingInv' /\ Bytes!Next
  BY <1>5, PutStep DEF Bytes!Next
<1>6. ASSUME NEW r \in Proc, ReadByte(r) PROVE RingInv' /\ Bytes!Next
  <2>1. RingInv' /\ Bytes!Get
    BY <1>6, TakeStep, Zenon DEF ReadByte, Bytes!Get
  <2> QED
    BY <2>1 DEF Bytes!Next
<1>7. ASSUME NEW r \in Proc, ReadFault(r) PROVE RingInv' /\ Bytes!Next
  <2>1. RingInv' /\ Bytes!Lose
    BY <1>7, TakeStep, Zenon DEF ReadFault, Bytes!Lose
  <2> QED
    BY <2>1 DEF Bytes!Next
<1>8. CASE UNCHANGED vars
  BY <1>1, <1>8 DEF vars
<1> QED
  BY <1>1, <1>2, <1>3, <1>4, <1>5, <1>6, <1>7, <1>8 DEF Next, Step

\* pipewrite() and piperead() make a bounded queue of bytes of the ring and its
\* two counters: nothing is lost, repeated or reordered, at their wraparound too.
THEOREM PipeIsFifo == Spec => FifoSpec
<1>1. Init => RingInv
  <2> SUFFICES ASSUME Init PROVE RingInv
    OBVIOUS
  <2>1. 0 \in Index /\ (0 - 0) % UINT = 0
    BY PipeAssumption, AheadRange DEF Index
  <2> QED
    BY <2>1, PipeAssumption DEF Init, RingInv, Slot, Count
<1>2. Init => Bytes!Init
  <2> SUFFICES ASSUME Init PROVE Bytes!Init
    OBVIOUS
  <2>1. Count = 0 /\ Queue \in Seq(Byte) /\ Len(Queue) = Count
    BY <1>1, QueueIs, Zenon DEF Init, Empty
  <2>2. Queue = << >>
    BY <2>1
  <2> QED
    BY <2>2, Zenon DEF Init, Bytes!Init
<1>3. RingInv /\ [Next]_vars => RingInv' /\ [Bytes!Next]_<<Queue, out>>
  BY RingStep
<1> QED
  BY <1>1, <1>2, <1>3, PTL DEF Spec, FifoSpec, Bytes!Spec
=============================================================================
