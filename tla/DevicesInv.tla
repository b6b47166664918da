----------------------------- MODULE DevicesInv -----------------------------
(***************************************************************************)
(* Proofs about Devices and Spinlock, for any number of CPUs, any plan of  *)
(* calls, keys and ticks, and any sizes of the rings: the locks are sound  *)
(* (DevicesLocks), nobody sleeps through what they wait for, and no output *)
(* is forgotten.                                                           *)
(*                                                                         *)
(* StuckInv adds to LockInv why each sleeper sleeps (SleepInv) and who     *)
(* will look at a ring that is not empty (SendInv).                        *)
(***************************************************************************)
EXTENDS DevicesLocks

-----------------------------------------------------------------------------
(* Sleep and output: the invariant *)

\* Where a thread sleeps, or is about to.
Asleep == {"read_doze", "read_sleep", "put_sleep", "nap_doze", "nap_sleep"}

\* The console is a record, whatever is in its buffer.
ConsShape == cons \in [buf : {cons.buf}, r : {cons.r}, w : {cons.w}, e : {cons.e}]

\* Who is about to sleep has its lock, and who sleeps has a reason to.
SleepInv ==
    /\ \A c \in CPU :
        /\ pc[c].thread \in {"read_doze", "nap_doze"} => want[c] = None
        /\ pc[c].thread \in {"read_doze", "read_sleep"} => cons.r = cons.w
        /\ pc[c].thread = "put_sleep" => TxFull
        /\ pc[c].thread \in {"nap_doze", "nap_sleep"} => ~NapOver(c)
    /\ left = [c \in CPU |-> left[c]] /\ start = [c \in CPU |-> start[c]]
    /\ ConsShape

\* A handler that will get to uartstart(); a CPU that is in it.
Coming == {"getc", "key", "sync", "sync_thr", "keyed", "start"}
Looks(c) ==
    \/ pc[c].intr \in Coming
    \/ /\ owner["uart"] = c
       /\ pc[c].thread \in {"start", "start_thr"} \/ pc[c].intr \in {"start", "start_thr"}

\* A CPU that has seen the UART idle and is about to write THR.
Sends(c) == pc[c].thread \in {"sync_thr", "start_thr"} \/ pc[c].intr \in {"sync_thr", "start_thr"}

\* What is in the ring will be sent: by the interrupt that follows a character in the
\* FIFO, by one that is pending, or by a CPU on its way. The FIFO has room for all
\* CPUs that have seen it idle.
SendInv ==
    /\ tx.r = tx.w \/ thr > 0 \/ irq \/ \E c \in CPU : Looks(c)
    /\ thr \in Nat
    /\ thr + Cardinality({c \in CPU : Sends(c)}) <= Cardinality(CPU)

StuckInv == LockInv /\ SleepInv /\ SendInv

-----------------------------------------------------------------------------
(* Steps that leave sleepers and output alone *)

\* Nobody goes to sleep in this step, and sleepers keep their arguments.
NoneSleeps ==
    \A d \in CPU : pc'[d].thread \in Asleep =>
        /\ pc'[d].thread = pc[d].thread
        /\ start'[d] = start[d] /\ left'[d] = left[d]
        /\ pc'[d].thread \in {"read_doze", "nap_doze"} => want'[d] = want[d] \/ want'[d] = None

\* Only c's call changes its arguments, and only c's step its locks.
ArgsKept(c) ==
    /\ left' = left \/ \E n : left' = [left EXCEPT ![c] = n]
    /\ start' = start \/ \E n : start' = [start EXCEPT ![c] = n]
OthersKept(c) ==
    /\ \A d \in CPU \ {c} : want'[d] = want[d]
    /\ owner'["uart"] = owner["uart"] \/ owner["uart"] = c

\* The ring is left alone, and whoever was to look after it still is.
Still ==
    /\ tx' = tx /\ thr' = thr /\ (irq => irq')
    /\ \A d \in CPU : (Looks(d) => Looks(d)') /\ (Sends(d)' => Sends(d))

\* The arguments of the others' calls stay as they are.
LEMMA ArgsStay ==
    ASSUME SleepInv, NEW c \in CPU, ArgsKept(c)
    PROVE  /\ left' = [d \in CPU |-> left'[d]] /\ start' = [d \in CPU |-> start'[d]]
           /\ \A d \in CPU \ {c} : left'[d] = left[d] /\ start'[d] = start[d]
<1>1. left = [d \in CPU |-> left[d]] /\ start = [d \in CPU |-> start[d]]
  BY Zenon DEF SleepInv
<1>2. left' = [d \in CPU |-> left'[d]] /\ \A d \in CPU \ {c} : left'[d] = left[d]
  BY <1>1, Zenon DEF ArgsKept
<1>3. start' = [d \in CPU |-> start'[d]] /\ \A d \in CPU \ {c} : start'[d] = start[d]
  BY <1>1, Zenon DEF ArgsKept
<1> QED
  BY <1>2, <1>3, Zenon

\* Who was asleep for a reason still is, when what they wait for has not come.
LEMMA SleepFrame ==
    ASSUME SleepInv, NEW c \in CPU, NoneSleeps, ArgsKept(c), ConsShape',
           \/ cons'.r = cons.r /\ cons'.w = cons.w
           \/ \A d \in CPU : pc'[d].thread \notin {"read_doze", "read_sleep"},
           tx' = tx \/ \A d \in CPU : pc'[d].thread # "put_sleep",
           ticks' = ticks \/ \A d \in CPU : pc'[d].thread \notin {"nap_doze", "nap_sleep"}
    PROVE  SleepInv'
<1>1. left' = [d \in CPU |-> left'[d]] /\ start' = [d \in CPU |-> start'[d]]
  BY ArgsStay, Zenon
<1>2. ASSUME NEW d \in CPU
      PROVE  /\ pc'[d].thread \in {"read_doze", "nap_doze"} => want'[d] = None
             /\ pc'[d].thread \in {"read_doze", "read_sleep"} => cons'.r = cons'.w
             /\ pc'[d].thread = "put_sleep" => TxFull'
             /\ pc'[d].thread \in {"nap_doze", "nap_sleep"} => ~NapOver(d)'
  <2>1. CASE pc'[d].thread \in Asleep
    <3>1. /\ pc'[d].thread = pc[d].thread /\ start'[d] = start[d] /\ left'[d] = left[d]
          /\ pc'[d].thread \in {"read_doze", "nap_doze"} => want'[d] = want[d] \/ want'[d] = None
      BY <2>1, Zenon DEF NoneSleeps
    <3>2. /\ pc[d].thread \in {"read_doze", "nap_doze"} => want[d] = None
          /\ pc[d].thread \in {"read_doze", "read_sleep"} => cons.r = cons.w
          /\ pc[d].thread = "put_sleep" => TxFull
          /\ pc[d].thread \in {"nap_doze", "nap_sleep"} => ~NapOver(d)
      BY Zenon DEF SleepInv
    <3>3. tx' = tx => (TxFull' <=> TxFull)
      BY Zenon DEF TxFull
    <3>4. ticks' = ticks => (NapOver(d)' <=> NapOver(d))
      BY <3>1, Zenon DEF NapOver, Sub
    <3> QED
      BY <3>1, <3>2, <3>3, <3>4, Zenon
  <2>2. CASE pc'[d].thread \notin Asleep
    BY <2>2, Zenon DEF Asleep
  <2> QED
    BY <2>1, <2>2, Zenon
<1> QED
  BY <1>1, <1>2, Zenon DEF SleepInv

\* A thread goes to sleep, for a reason.
LEMMA FallsAsleep ==
    ASSUME SleepInv, NEW c \in CPU, NEW to, Moves(c, to), pc[c].intr = "none", want[c] = None,
           UNCHANGED <<left, start, want, cons, tx, ticks>>,
           to \in {"read_doze", "read_sleep"} => cons.r = cons.w,
           to = "put_sleep" => TxFull,
           to \in {"nap_doze", "nap_sleep"} => ~NapOver(c)
    PROVE  SleepInv'
<1>1. ASSUME NEW d \in CPU
      PROVE  /\ pc'[d].thread \in {"read_doze", "nap_doze"} => want[d] = None
             /\ pc'[d].thread \in {"read_doze", "read_sleep"} => cons.r = cons.w
             /\ pc'[d].thread = "put_sleep" => TxFull
             /\ pc'[d].thread \in {"nap_doze", "nap_sleep"} => ~NapOver(d)
  <2>1. CASE d = c
    BY <2>1, Zenon DEF Moves
  <2>2. CASE d # c
    <3>1. Woken(pc[d].thread, pc'[d].thread)
      BY <2>2, Zenon DEF Moves
    <3> QED
      BY <3>1, Zenon DEF Woken, SleepInv
  <2> QED
    BY <2>1, <2>2, Zenon
<1>2. (TxFull' <=> TxFull) /\ \A d \in CPU : NapOver(d)' <=> NapOver(d)
  BY Zenon DEF TxFull, NapOver, Sub
<1> QED
  BY <1>1, <1>2, Zenon DEF SleepInv, ConsShape

\* Who has come to its critical section and need not spin has the lock.
LEMMA Holds ==
    ASSUME LockInv, NEW c \in CPU, NEW l \in Lock, want[c] = None,
           ThreadNeeds(pc[c].thread, l) \/ IntrNeeds(pc[c].intr, key[c], l)
    PROVE  owner[l] = c
<1>1. l \in Locks(c) /\ l # None
  BY SpinlockAssumption, Zenon DEF Locks
<1> QED
  BY <1>1, Zenon DEF LockInv, SpinInv

\* acquire(), release() and the other steps of c, as the other CPUs see them.
LEMMA SpinOthers ==
    ASSUME LockInv, NEW c \in CPU,
           \/ UNCHANGED <<owner, want>>
           \/ \E l \in Lock : Acquire(c, l)
           \/ \E l \in Lock : Release(c, l) /\ (l = "uart" => owner["uart"] = c)
    PROVE  OthersKept(c)
<1>0. /\ "uart" \in Lock
      /\ want \in [CPU -> Lock \cup {None}] /\ owner \in [Lock -> CPU \cup {None}]
  BY SpinlockAssumption, Zenon DEF LockInv, DevType
<1>1. CASE UNCHANGED <<owner, want>>
  BY <1>1, Zenon DEF OthersKept
<1>2. CASE \E l \in Lock : Acquire(c, l)
  BY <1>0, <1>2, Zenon DEF OthersKept, Acquire
<1>3. CASE \E l \in Lock : Release(c, l) /\ (l = "uart" => owner["uart"] = c)
  BY <1>0, <1>3, Zenon DEF OthersKept, Release
<1> QED
  BY <1>1, <1>2, <1>3, Zenon

\* A step of c that does not put its thread to sleep puts nobody to sleep.
LEMMA MovesCalm ==
    ASSUME LockInv, SleepInv, NEW c \in CPU, NEW to, Moves(c, to), ArgsKept(c), OthersKept(c),
           IF pc[c].intr = "none" THEN to \notin Asleep ELSE UNCHANGED <<left, start>>
    PROVE  NoneSleeps
<1>0. "cons" \in Lock /\ "tickslock" \in Lock
  BY SpinlockAssumption, Zenon
<1> SUFFICES ASSUME NEW d \in CPU, pc'[d].thread \in Asleep
             PROVE  /\ pc'[d].thread = pc[d].thread
                    /\ start'[d] = start[d] /\ left'[d] = left[d]
                    /\ pc'[d].thread \in {"read_doze", "nap_doze"} => want'[d] = want[d]
  BY Zenon DEF NoneSleeps
<1>1. ~Woken(pc[d].thread, pc'[d].thread) \/ pc'[d].thread = pc[d].thread
  BY Zenon DEF Woken, Asleep
<1>2. CASE d # c
  BY <1>1, <1>2, ArgsStay, Zenon DEF Moves, OthersKept
<1>3. CASE d = c
  <2>1. pc[c].intr # "none" /\ pc'[c].thread = pc[c].thread
    BY <1>1, <1>3, Zenon DEF Moves
  <2>2. pc[c].thread \notin {"read_doze", "nap_doze"}
    BY <1>0, <2>1, Zenon DEF LockInv, CtxInv, ThreadNeeds
  <2> QED
    BY <1>3, <2>1, <2>2, Zenon
<1> QED
  BY <1>2, <1>3, Zenon

\* Only a step to the write of THR lets a CPU get there.
LEMMA MovesSends ==
    ASSUME NEW c \in CPU, NEW to, Moves(c, to), to \notin {"sync_thr", "start_thr"}
    PROVE  \A d \in CPU : Sends(d)' => Sends(d)
<1> SUFFICES ASSUME NEW d \in CPU, Sends(d)' PROVE Sends(d)
  BY Zenon
<1>1. CASE d # c
  BY <1>1, Zenon DEF Moves, Sends, Woken
<1>2. CASE d = c
  BY <1>2, Zenon DEF Moves, Sends, Woken
<1> QED
  BY <1>1, <1>2, Zenon

\* A step of c outside of uartstart() leaves the ring in good hands.
LEMMA MovesStill ==
    ASSUME LockInv, NEW c \in CPU, NEW from, NEW to, At(c, from), Moves(c, to), OthersKept(c),
           tx' = tx, thr' = thr, irq => irq',
           from \notin {"start", "start_thr"}, to \notin {"sync_thr", "start_thr"},
           pc[c].intr # "none" /\ from \in Coming => to \in Coming
    PROVE  Still
<1>0. "uart" \in Lock /\ DevType /\ CtxInv
  BY SpinlockAssumption, Zenon DEF LockInv
<1>1. IF pc[c].intr = "none" THEN pc[c].thread = from ELSE pc[c].intr = from
  BY <1>0, AtFacts, Zenon
<1>2. ASSUME NEW d \in CPU, Looks(d) PROVE Looks(d)'
  <2>1. CASE d # c
    <3>1. pc'[d].intr = pc[d].intr /\ Woken(pc[d].thread, pc'[d].thread)
      BY <2>1, Zenon DEF Moves
    <3>2. owner["uart"] = d => owner'["uart"] = d
      BY <2>1, Zenon DEF OthersKept
    <3> QED
      BY <1>2, <3>1, <3>2, Zenon DEF Looks, Woken
  <2>2. CASE d = c /\ pc[c].intr = "none"
    BY <1>1, <1>2, <2>2, Zenon DEF Looks, Coming
  <2>3. CASE d = c /\ pc[c].intr # "none"
    <3>1. pc[c].thread \notin {"start", "start_thr"}
      BY <1>0, <2>3, Zenon DEF CtxInv, ThreadNeeds
    <3> QED
      BY <1>1, <1>2, <2>3, <3>1, Zenon DEF Looks, Moves
  <2> QED
    BY <2>1, <2>2, <2>3, Zenon
<1>3. \A d \in CPU : Sends(d)' => Sends(d)
  BY MovesSends, Zenon
<1> QED
  BY <1>2, <1>3, Zenon DEF Still

\* The CPUs that are about to write THR are finitely many, and at most all.
LEMMA SendersFinite ==
    ASSUME Finite
    PROVE  /\ IsFiniteSet({c \in CPU : Sends(c)}) /\ IsFiniteSet({c \in CPU : Sends(c)'})
           /\ Cardinality({c \in CPU : Sends(c)}) \in Nat
           /\ Cardinality({c \in CPU : Sends(c)'}) \in Nat /\ Cardinality(CPU) \in Nat
           /\ Cardinality({c \in CPU : Sends(c)'}) <= Cardinality(CPU)
<1> DEFINE S == {c \in CPU : Sends(c)}
           T == {c \in CPU : Sends(c)'}
<1>1. S \in SUBSET CPU /\ T \in SUBSET CPU
  BY Zenon
<1> QED
  BY <1>1, SpinlockAssumption, Zenon DEF Finite, SubsetCount

\* What fits in the FIFO still does when no CPU gets to the write of THR.
LEMMA CountKept ==
    ASSUME Finite, SendInv, thr' \in Nat, thr' <= thr, \A d \in CPU : Sends(d)' => Sends(d)
    PROVE  thr' + Cardinality({c \in CPU : Sends(c)'}) <= Cardinality(CPU)
<1> DEFINE S == {c \in CPU : Sends(c)}
           T == {c \in CPU : Sends(c)'}
<1>1. T \in SUBSET S
  BY Zenon
<1>2. /\ Cardinality(T) \in Nat /\ Cardinality(S) \in Nat /\ Cardinality(CPU) \in Nat
      /\ IsFiniteSet(S)
  BY SendersFinite, Zenon
<1>3. Cardinality(T) <= Cardinality(S)
  BY <1>1, <1>2, Zenon DEF Finite, SubsetCount
<1>4. thr \in Nat /\ thr + Cardinality(S) <= Cardinality(CPU)
  BY Zenon DEF SendInv
<1> HIDE DEF S, T
<1>5. thr' + Cardinality(T) <= Cardinality(CPU)
  BY <1>2, <1>3, <1>4
<1> QED
  BY <1>5, Zenon DEF T

\* Then the output is safe after the step, too.
LEMMA StillKeeps == ASSUME Finite, SendInv, Still PROVE SendInv'
<1>1. thr' \in Nat /\ thr' <= thr
  BY DEF SendInv, Still
<1>2. thr' + Cardinality({c \in CPU : Sends(c)'}) <= Cardinality(CPU)
  BY <1>1, CountKept, Zenon DEF Still
<1>3. tx'.r = tx'.w \/ thr' > 0 \/ irq' \/ \E c \in CPU : Looks(c)'
  BY Zenon DEF SendInv, Still
<1> QED
  BY <1>1, <1>2, <1>3, Zenon DEF SendInv

\* A step of c that touches nothing that anybody sleeps for.
LEMMA CalmStep ==
    ASSUME LockInv, SleepInv, NEW c \in CPU, NEW to, Moves(c, to), OthersKept(c), ArgsKept(c),
           IF pc[c].intr = "none" THEN to \notin Asleep ELSE UNCHANGED <<left, start>>,
           UNCHANGED <<cons, tx, ticks>>
    PROVE  SleepInv'
<1>1. NoneSleeps
  BY MovesCalm, Zenon
<1>2. ConsShape'
  BY Zenon DEF SleepInv, ConsShape
<1> QED
  BY <1>1, <1>2, SleepFrame, Zenon

\* A step of c that has to do with neither sleep nor output.
LEMMA PlainStep ==
    ASSUME Finite, StuckInv, NEW c \in CPU, NEW from, NEW to, At(c, from), Moves(c, to),
           OthersKept(c), ArgsKept(c),
           IF pc[c].intr = "none" THEN to \notin Asleep ELSE UNCHANGED <<left, start>>,
           UNCHANGED <<cons, tx, ticks, thr>>, irq => irq',
           from \notin {"start", "start_thr"}, to \notin {"sync_thr", "start_thr"},
           pc[c].intr # "none" /\ from \in Coming => to \in Coming
    PROVE  SleepInv' /\ SendInv'
<1>1. LockInv /\ SleepInv /\ SendInv
  BY Zenon DEF StuckInv
<1>2. SleepInv'
  BY <1>1, CalmStep, Zenon
<1>3. Still
  BY <1>1, MovesStill, Zenon
<1> QED
  BY <1>1, <1>2, <1>3, StillKeeps, Zenon

-----------------------------------------------------------------------------
(* Threads: calls, reading and sleeping *)

\* Steps of c's that take no lock, or take or drop one other than uart_tx_lock.
Locking(c) ==
    \/ UNCHANGED <<owner, want>>
    \/ \E l \in Lock : Acquire(c, l)
    \/ \E l \in Lock \ {"uart"} : Release(c, l)

\* A thread's step that has to do with neither sleep nor output.
LEMMA ThreadPlain ==
    ASSUME Finite, StuckInv, NEW c \in CPU, NEW from \in ThreadPC \ IntrPC,
           NEW to \in ThreadPC \ (Asleep \cup {"sync_thr", "start_thr"}),
           At(c, from), Goto(c, to), Locking(c), ArgsKept(c),
           UNCHANGED <<cons, tx, ticks, thr, irq>>
    PROVE  SleepInv' /\ SendInv'
<1>1. DevType /\ LockInv
  BY Zenon DEF StuckInv, LockInv
<1>2. pc[c].intr = "none"
  BY <1>1, WhoseStep, Zenon
<1>3. Moves(c, to) /\ OthersKept(c)
  BY <1>1, <1>2, GotoMoves, SpinOthers, Zenon DEF Locking
<1>4. from \notin {"start", "start_thr"}
  BY Zenon DEF IntrPC
<1> QED
  BY <1>2, <1>3, <1>4, PlainStep, Zenon

\* A handler's step that has to do with neither.
LEMMA HandlerPlain ==
    ASSUME Finite, StuckInv, NEW c \in CPU, NEW from, from \notin ThreadPC,
           NEW to \in IntrPC \ {"sync_thr", "start_thr"}, from \in Coming => to \in Coming,
           At(c, from), Goto(c, to), Locking(c),
           UNCHANGED <<left, start, cons, tx, ticks, thr, irq>>
    PROVE  SleepInv' /\ SendInv'
<1>1. DevType /\ LockInv
  BY Zenon DEF StuckInv, LockInv
<1>2. pc[c].intr # "none"
  BY <1>1, WhoseStep, Zenon
<1>3. Moves(c, to) /\ OthersKept(c) /\ ArgsKept(c)
  BY <1>1, <1>2, GotoMoves, SpinOthers, Zenon DEF Locking, ArgsKept
<1>4. from \notin {"start", "start_thr"}
  BY Zenon DEF ThreadPC
<1> QED
  BY <1>2, <1>3, <1>4, PlainStep, Zenon

\* System calls begin.
LEMMA BeginStuck ==
    ASSUME Finite, StuckInv, NEW c \in CPU, Begin(c) PROVE SleepInv' /\ SendInv'
<1>0. /\ "user" \in ThreadPC \ IntrPC /\ {"cons", "uart", "tickslock", "pr"} \subseteq Lock
      /\ {"read", "put", "nap0", "sync"} \subseteq ThreadPC \ (Asleep \cup {"sync_thr", "start_thr"})
  BY SpinlockAssumption, Zenon DEF ThreadPC, IntrPC, Asleep
<1>1. ASSUME NEW what, NEW n, NEW lk \in Lock, NEW to \in {"read", "put", "nap0"},
             SysCall(c, what, n, lk, to)
      PROVE  SleepInv' /\ SendInv'
  <2>1. At(c, "user") /\ Goto(c, to) /\ Locking(c) /\ ArgsKept(c)
    BY <1>1, Zenon DEF SysCall, Locking, ArgsKept
  <2>2. UNCHANGED <<cons, tx, ticks, thr, irq>>
    BY <1>1, Zenon DEF SysCall, inVars, outVars, devVars
  <2> QED
    BY <1>0, <2>1, <2>2, ThreadPlain, Zenon
<1>2. CASE Printf(c)
  <2>1. At(c, "user") /\ Goto(c, "sync") /\ Locking(c) /\ ArgsKept(c)
    BY <1>0, <1>2, Zenon DEF Printf, Locking, ArgsKept, argVars
  <2>2. UNCHANGED <<cons, tx, ticks, thr, irq>>
    BY <1>2, Zenon DEF Printf, inVars, outVars, devVars
  <2> QED
    BY <1>0, <2>1, <2>2, ThreadPlain, Zenon
<1> QED
  BY <1>0, <1>1, <1>2, Zenon DEF Begin, SysRead, SysWrite, SysSleep

\* Threads go on after a wakeup, with the next character or with their sleep.
LEMMA ResumeStuck ==
    ASSUME Finite, StuckInv, NEW c \in CPU,
           ReadResume(c) \/ PutResume(c) \/ WriteMore(c) \/ NapResume(c) \/ NapStart(c)
    PROVE  SleepInv' /\ SendInv'
<1>0. /\ {"read_woken", "put_woken", "putc", "nap_woken", "nap0"} \subseteq ThreadPC \ IntrPC
      /\ {"cons", "uart", "tickslock"} \subseteq Lock
      /\ {"read", "put", "nap"} \subseteq ThreadPC \ (Asleep \cup {"sync_thr", "start_thr"})
  BY SpinlockAssumption, Zenon DEF ThreadPC, IntrPC, Asleep
<1>1. ASSUME NEW from \in {"read_woken", "put_woken", "putc", "nap_woken"},
             NEW to \in {"read", "put", "nap"}, NEW lk \in Lock, Resume(c, from, to, lk)
      PROVE  SleepInv' /\ SendInv'
  <2>1. At(c, from) /\ Goto(c, to) /\ Locking(c) /\ ArgsKept(c)
    BY <1>1, Zenon DEF Resume, Locking, ArgsKept, argVars
  <2>2. UNCHANGED <<cons, tx, ticks, thr, irq>>
    BY <1>1, Zenon DEF Resume, inVars, outVars, devVars
  <2> QED
    BY <1>0, <2>1, <2>2, ThreadPlain, Zenon
<1>2. CASE NapStart(c)
  <2>1. At(c, "nap0") /\ Goto(c, "nap") /\ Locking(c) /\ ArgsKept(c)
    BY <1>2, Zenon DEF NapStart, Locking, ArgsKept, spinVars
  <2>2. UNCHANGED <<cons, tx, ticks, thr, irq>>
    BY <1>2, Zenon DEF NapStart, inVars, outVars, devVars
  <2> QED
    BY <1>0, <2>1, <2>2, ThreadPlain, Zenon
<1> QED
  BY <1>0, <1>1, <1>2, Zenon DEF ReadResume, PutResume, WriteMore, NapResume

\* System calls return without having read anything.
LEMMA ReturnStuck ==
    ASSUME Finite, StuckInv, NEW c \in CPU, ReadKilled(c) \/ WriteFault(c) \/ NapDone(c)
    PROVE  SleepInv' /\ SendInv'
<1>0. /\ {"read", "putc", "nap"} \subseteq ThreadPC \ IntrPC
      /\ {"cons", "tickslock"} \subseteq Lock \ {"uart"}
      /\ "user" \in ThreadPC \ (Asleep \cup {"sync_thr", "start_thr"})
  BY SpinlockAssumption, Zenon DEF ThreadPC, IntrPC, Asleep
<1>1. PICK from \in {"read", "putc", "nap"} : At(c, from)
  BY Zenon DEF ReadKilled, WriteFault, NapDone
<1>2. Return(c) /\ UNCHANGED <<cons, tx, ticks, thr, irq>>
  BY Zenon DEF ReadKilled, WriteFault, NapDone, inVars, outVars, devVars
<1>3. Locking(c)
  BY <1>0, Zenon DEF ReadKilled, WriteFault, NapDone, Locking, spinVars
<1>4. Goto(c, "user") /\ ArgsKept(c)
  BY <1>2, Zenon DEF Return, ArgsKept
<1> QED
  BY <1>0, <1>1, <1>2, <1>3, <1>4, ThreadPlain, Zenon

\* consoleread() takes characters: nobody sleeps until the buffer is empty.
LEMMA ReadStuck ==
    ASSUME Finite, StuckInv, NEW c \in CPU, ReadLine(c) \/ ReadSome(c) \/ ReadFault(c)
    PROVE  SleepInv' /\ SendInv'
<1>0. /\ "read" \in ThreadPC \ IntrPC /\ "cons" \in Lock \ {"uart"}
      /\ LockInv /\ DevType /\ SleepInv /\ SendInv
      /\ "user" \in ThreadPC /\ "read" \in ThreadPC
  BY SpinlockAssumption, Zenon DEF ThreadPC, IntrPC, StuckInv, LockInv
<1>1. At(c, "read") /\ cons.r # cons.w
  BY Zenon DEF ReadLine, ReadSome, ReadFault
<1>2. pc[c].intr = "none" /\ pc[c].thread = "read"
  BY <1>0, <1>1, WhoseStep, AtFacts, Zenon
<1>3. ArgsKept(c) /\ Locking(c) /\ UNCHANGED <<tx, ticks, thr, irq>>
  BY <1>0, Zenon DEF ReadLine, ReadSome, ReadFault, Return, ArgsKept, Locking, spinVars, outVars, devVars
<1>4. \E to \in {"user", "read"} : Moves(c, to)
  <2>1. CASE pc' = pc
    BY <1>0, <1>2, <2>1, Zenon DEF Moves, Woken, DevType
  <2>2. CASE Goto(c, "user")
    BY <1>0, <1>2, <2>2, GotoMoves, Zenon
  <2> QED
    BY <2>1, <2>2, Zenon DEF ReadLine, ReadSome, ReadFault, Return
<1>5. PICK to \in {"user", "read"} : Moves(c, to)
  BY <1>4, Zenon
<1>6. OthersKept(c)
  BY <1>0, <1>3, SpinOthers, Zenon DEF Locking
<1>7. NoneSleeps
  BY <1>0, <1>2, <1>3, <1>5, <1>6, MovesCalm, Zenon DEF Asleep
<1>8. \A d \in CPU : pc'[d].thread \notin {"read_doze", "read_sleep"}
  BY <1>0, <1>1, <1>7, Zenon DEF NoneSleeps, SleepInv, Asleep
<1>9. ConsShape'
  <2>1. \E r : cons' = [cons EXCEPT !.r = r]
    BY Zenon DEF ReadLine, ReadSome, ReadFault
  <2> QED
    <3>1. PICK r : cons' = [cons EXCEPT !.r = r]
      BY <2>1, Zenon
    <3>2. cons' \in [buf : {cons.buf}, r : {r}, w : {cons.w}, e : {cons.e}]
      BY <1>0, <3>1, Zenon DEF SleepInv, ConsShape
    <3>3. cons'.buf = cons.buf /\ cons'.r = r /\ cons'.w = cons.w /\ cons'.e = cons.e
      BY <3>2, Zenon
    <3> QED
      BY <3>2, <3>3, Zenon DEF ConsShape
<1>10. SleepInv'
  BY <1>0, <1>3, <1>7, <1>8, <1>9, SleepFrame, Zenon
<1>11. Still
  BY <1>0, <1>1, <1>2, <1>3, <1>5, <1>6, MovesStill, Zenon
<1> QED
  BY <1>0, <1>10, <1>11, StillKeeps, Zenon

\* Threads go to sleep, in two steps or in one.
LEMMA SleepStuck ==
    ASSUME Finite, StuckInv, NEW c \in CPU,
           ReadEmpty(c) \/ ReadSleep(c) \/ PutSleep(c) \/ NapWait(c) \/ NapSleep(c)
    PROVE  SleepInv' /\ SendInv'
<1>0. /\ {"read", "read_doze", "put", "nap", "nap_doze"} \subseteq ThreadPC \ IntrPC
      /\ {"cons", "tickslock", "uart"} \subseteq Lock
      /\ LockInv /\ DevType /\ SleepInv /\ SendInv
      /\ Asleep \subseteq ThreadPC
  BY SpinlockAssumption, Zenon DEF ThreadPC, IntrPC, StuckInv, LockInv, Asleep
<1>1. PICK from \in {"read", "read_doze", "put", "nap", "nap_doze"}, to \in Asleep :
         /\ At(c, from) /\ Goto(c, to)
         /\ to = "read_doze" => cons.r = cons.w
         /\ to = "read_sleep" => from = "read_doze"
         /\ to = "put_sleep" => TxFull /\ from = "put"
         /\ to = "nap_doze" => ~NapOver(c)
         /\ to = "nap_sleep" => from = "nap_doze"
         /\ \/ UNCHANGED owner
            \/ from = "put" /\ Release(c, "uart")
            \/ \E l \in Lock \ {"uart"} : Release(c, l)
  <2>1. CASE ReadEmpty(c)
    BY <1>0, <2>1, Zenon DEF ReadEmpty, Asleep, spinVars
  <2>2. CASE ReadSleep(c)
    BY <1>0, <2>2, Zenon DEF ReadSleep, Doze, Asleep
  <2>3. CASE PutSleep(c)
    BY <1>0, <2>3, Zenon DEF PutSleep, Doze, Asleep
  <2>4. CASE NapWait(c)
    BY <1>0, <2>4, Zenon DEF NapWait, Asleep, spinVars
  <2>5. CASE NapSleep(c)
    BY <1>0, <2>5, Zenon DEF NapSleep, Doze, Asleep
  <2> QED
    BY <2>1, <2>2, <2>3, <2>4, <2>5, Zenon
<1>2. UNCHANGED <<left, start, want, cons, tx, ticks, thr, irq>>
  BY Zenon DEF ReadEmpty, ReadSleep, PutSleep, NapWait, NapSleep, Doze, Release,
               spinVars, argVars, inVars, outVars, devVars
<1>3. pc[c].intr = "none" /\ pc[c].thread = from /\ want[c] = None /\ Moves(c, to)
  BY <1>0, <1>1, WhoseStep, AtFacts, GotoMoves, Zenon
<1>4. /\ to \in {"read_doze", "read_sleep"} => cons.r = cons.w
      /\ to \in {"nap_doze", "nap_sleep"} => ~NapOver(c)
  BY <1>0, <1>1, <1>3, Zenon DEF SleepInv
<1>5. SleepInv'
  BY <1>0, <1>1, <1>2, <1>3, <1>4, FallsAsleep, Zenon
<1>6. OthersKept(c)
  <2>1. from = "put" => owner["uart"] = c
    BY <1>0, <1>3, Holds, Zenon DEF ThreadNeeds
  <2> QED
    BY <1>0, <1>1, <1>2, <2>1, SpinOthers, Zenon
<1>7. from \notin {"start", "start_thr"} /\ to \notin {"sync_thr", "start_thr"}
  BY Zenon DEF Asleep
<1>8. Still
  BY <1>0, <1>1, <1>2, <1>3, <1>6, <1>7, MovesStill, Zenon
<1> QED
  BY <1>0, <1>5, <1>8, StillKeeps, Zenon

-----------------------------------------------------------------------------
(* Output *)

\* wakeup(chan) leaves nobody asleep on chan.
LEMMA WakeLeaves ==
    ASSUME DevType, NEW c \in CPU, NEW l, NEW from, NEW to \in ThreadPC, Wake(from, to, c, l),
           to # from, pc[c].intr = "none" => l # from
    PROVE  \A d \in CPU : pc'[d].thread # from
<1>1. pc \in [CPU -> [thread : ThreadPC, intr : IntrPC]]
  BY Zenon DEF DevType
<1> DEFINE p(d) == IF pc[d].thread = from THEN [pc[d] EXCEPT !.thread = to] ELSE pc[d]
<1>2. \A d \in CPU : p(d) \in [thread : ThreadPC, intr : IntrPC] /\ p(d).thread # from
  BY <1>1
<1>3. pc' = [d \in CPU |-> IF d = c THEN [p(d) EXCEPT ![Ctx(c)] = l] ELSE p(d)]
  BY Zenon DEF Wake
<1> HIDE DEF p
<1>4. [p(c) EXCEPT ![Ctx(c)] = l].thread # from
  <2>1. CASE pc[c].intr = "none"
    <3>1. [p(c) EXCEPT ![Ctx(c)] = l] = [p(c) EXCEPT !.thread = l]
      BY <2>1, Zenon DEF Ctx
    <3> QED
      BY <1>2, <2>1, <3>1
  <2>2. CASE pc[c].intr # "none"
    <3>1. [p(c) EXCEPT ![Ctx(c)] = l] = [p(c) EXCEPT !.intr = l]
      BY <2>2, Zenon DEF Ctx
    <3> QED
      BY <1>2, <3>1
  <2> QED
    BY <2>1, <2>2, Zenon
<1> QED
  BY <1>2, <1>3, <1>4, Zenon

\* A character that a CPU saw room for goes into the FIFO.
LEMMA ThrStep ==
    ASSUME Finite, LockInv, SendInv, NEW c \in CPU, NEW from \in {"sync_thr", "start_thr"},
           NEW to \in {"sync", "start"}, At(c, from), Moves(c, to), thr' = thr + 1
    PROVE  SendInv'
<1> DEFINE S == {d \in CPU : Sends(d)}
           T == {d \in CPU : Sends(d)'}
<1>0. "uart" \in Lock /\ "pr" \in Lock /\ DevType /\ CtxInv
  BY SpinlockAssumption, Zenon DEF LockInv
<1>1. IF pc[c].intr = "none" THEN pc[c].thread = from ELSE pc[c].intr = from
  BY <1>0, AtFacts, Zenon
<1>2. c \in S
  BY <1>1, Zenon DEF Sends
<1>3. ~Sends(c)'
  <2>1. CASE pc[c].intr = "none"
    BY <2>1, Zenon DEF Sends, Moves
  <2>2. CASE pc[c].intr # "none"
    <3>1. pc[c].thread \notin {"sync_thr", "start_thr"}
      BY <1>0, <2>2, Zenon DEF CtxInv, ThreadNeeds
    <3> QED
      BY <2>2, <3>1, Zenon DEF Sends, Moves, Woken
  <2> QED
    BY <2>1, <2>2, Zenon
<1>4. T \in SUBSET (S \ {c})
  BY <1>3, MovesSends, Zenon
<1>5. /\ Cardinality(T) \in Nat /\ Cardinality(S) \in Nat /\ Cardinality(CPU) \in Nat
      /\ IsFiniteSet(S)
  BY SendersFinite, Zenon
<1>6. IsFiniteSet(S \ {c}) /\ Cardinality(S \ {c}) = Cardinality(S) - 1
  BY <1>2, <1>5, Zenon DEF Finite, RemoveCount
<1>7. Cardinality(T) <= Cardinality(S \ {c})
  BY <1>4, <1>6, Zenon DEF Finite, SubsetCount
<1>8. thr \in Nat /\ thr + Cardinality(S) <= Cardinality(CPU)
  BY Zenon DEF SendInv
<1> HIDE DEF S, T
<1>9. thr' + Cardinality(T) <= Cardinality(CPU) /\ thr' \in Nat /\ thr' > 0
  BY <1>5, <1>6, <1>7, <1>8
<1> QED
  BY <1>9, Zenon DEF SendInv, T

\* uartputc() puts a character into the ring, and will call uartstart().
LEMMA PutStuck == ASSUME Finite, StuckInv, NEW c \in CPU, Put(c) PROVE SleepInv' /\ SendInv'
<1>0. /\ "put" \in ThreadPC \ IntrPC /\ "uart" \in Lock /\ "start" \in ThreadPC
      /\ LockInv /\ DevType /\ SleepInv /\ SendInv /\ "start" \notin Asleep
  BY SpinlockAssumption, Zenon DEF ThreadPC, IntrPC, StuckInv, LockInv, Asleep
<1>1. /\ At(c, "put") /\ ~TxFull /\ Goto(c, "start")
      /\ UNCHANGED <<cpu, owner, want, left, start, cons, ticks, thr, irq>>
  BY Zenon DEF Put, spinVars, argVars, inVars, devVars
<1>2. /\ pc[c].intr = "none" /\ pc[c].thread = "put" /\ want[c] = None
      /\ Moves(c, "start") /\ OthersKept(c) /\ ArgsKept(c)
  <2>1. pc[c].intr = "none"
    BY <1>0, <1>1, WhoseStep, Zenon
  <2>2. pc[c].thread = "put" /\ want[c] = None
    BY <1>0, <1>1, <2>1, AtFacts, Zenon
  <2> QED
    BY <1>0, <1>1, <2>1, <2>2, GotoMoves, SpinOthers, Zenon DEF ArgsKept
<1>3. NoneSleeps
  BY <1>0, <1>2, MovesCalm, Zenon
<1>4. \A d \in CPU : pc'[d].thread # "put_sleep"
  BY <1>0, <1>1, <1>3, Zenon DEF NoneSleeps, SleepInv, Asleep
<1>5. SleepInv'
  <2>1. ConsShape'
    BY <1>0, <1>1, Zenon DEF SleepInv, ConsShape
  <2> QED
    BY <1>0, <1>1, <1>2, <1>3, <1>4, <2>1, SleepFrame, Zenon
<1>6. owner["uart"] = c
  BY <1>0, <1>2, Holds, Zenon DEF ThreadNeeds
<1>7. Looks(c)'
  BY <1>1, <1>2, <1>6, Zenon DEF Looks, Moves
<1>8. thr' \in Nat /\ thr' <= thr
  BY <1>0, <1>1 DEF SendInv
<1>9. thr' + Cardinality({d \in CPU : Sends(d)'}) <= Cardinality(CPU)
  BY <1>0, <1>2, <1>8, MovesSends, CountKept, Zenon
<1> QED
  BY <1>5, <1>7, <1>8, <1>9, Zenon DEF SendInv

\* uartputc_sync(): it sees the UART idle, writes, and ends.
LEMMA SyncStuck ==
    ASSUME Finite, StuckInv, NEW c \in CPU, SyncIdle(c) \/ SyncPut(c) \/ SyncDone(c)
    PROVE  SleepInv' /\ SendInv'
<1>0. /\ {"sync", "sync_thr"} \subseteq (ThreadPC \cap IntrPC) \ Asleep /\ "pr" \in Lock \ {"uart"}
      /\ LockInv /\ DevType /\ CtxInv /\ SleepInv /\ SendInv /\ "uart" \in Lock
      /\ "keyed" \in IntrPC /\ "user" \in ThreadPC /\ "user" \notin Asleep
  BY SpinlockAssumption, Zenon DEF ThreadPC, IntrPC, StuckInv, LockInv, Asleep
<1>1. UNCHANGED <<left, start, cons, tx, ticks, irq>> /\ ArgsKept(c)
  BY Zenon DEF SyncIdle, SyncPut, SyncDone, argVars, inVars, outVars, devVars, ArgsKept
<1>2. CASE SyncIdle(c)
  <2>1. At(c, "sync") /\ thr = 0 /\ Goto(c, "sync_thr") /\ UNCHANGED <<owner, want, thr>>
    BY <1>2, Zenon DEF SyncIdle, spinVars, devVars
  <2>2. Moves(c, "sync_thr") /\ OthersKept(c)
    BY <1>0, <2>1, GotoMoves, SpinOthers, Zenon
  <2>3. SleepInv'
    BY <1>0, <1>1, <2>2, CalmStep, Zenon
  <2>4. ASSUME NEW d \in CPU, Looks(d) PROVE Looks(d)'
    <3>1. CASE d # c
      BY <2>1, <2>2, <2>4, <3>1, Zenon DEF Looks, Moves, Woken
    <3>2. CASE d = c /\ pc[c].intr = "none"
      <4>1. pc[d].thread = "sync" /\ pc[d].intr = "none"
        BY <1>0, <2>1, <3>2, AtFacts, Zenon
      <4> QED
        BY <2>4, <4>1, Zenon DEF Looks, Coming
    <3>3. CASE d = c /\ pc[c].intr # "none"
      BY <2>2, <3>3, Zenon DEF Looks, Coming, Moves
    <3> QED
      BY <3>1, <3>2, <3>3, Zenon
  <2>5. tx'.r = tx'.w \/ thr' > 0 \/ irq' \/ \E d \in CPU : Looks(d)'
    BY <1>0, <1>1, <2>1, <2>4, Zenon DEF SendInv
  <2>6. thr' \in Nat /\ thr' + Cardinality({d \in CPU : Sends(d)'}) <= Cardinality(CPU)
    BY <2>1, SendersFinite
  <2> QED
    BY <2>3, <2>5, <2>6, Zenon DEF SendInv
<1>3. CASE SyncPut(c)
  <2>1. At(c, "sync_thr") /\ thr' = thr + 1 /\ Goto(c, "sync") /\ UNCHANGED <<owner, want>>
    BY <1>3, Zenon DEF SyncPut, spinVars
  <2>2. Moves(c, "sync") /\ OthersKept(c)
    BY <1>0, <2>1, GotoMoves, SpinOthers, Zenon
  <2>3. SleepInv'
    BY <1>0, <1>1, <2>2, CalmStep, Zenon
  <2> QED
    BY <1>0, <2>1, <2>2, <2>3, ThrStep, Zenon
<1>4. CASE SyncDone(c)
  <2>1. /\ At(c, "sync") /\ Goto(c, IF pc[c].intr = "none" THEN "user" ELSE "keyed")
        /\ UNCHANGED <<owner, want>> \/ Release(c, "pr")
    BY <1>4, Zenon DEF SyncDone, spinVars, Ctx
  <2>2. thr' = thr /\ OthersKept(c)
    BY <1>0, <1>4, <2>1, SpinOthers, Zenon DEF SyncDone, devVars
  <2>3. CASE pc[c].intr = "none"
    <3>1. Moves(c, "user")
      BY <1>0, <2>1, <2>3, GotoMoves, Zenon
    <3> QED
      BY <1>0, <1>1, <2>1, <2>2, <2>3, <3>1, PlainStep, Zenon
  <2>4. CASE pc[c].intr # "none"
    <3>1. Moves(c, "keyed") /\ "keyed" \in Coming
      BY <1>0, <2>1, <2>4, GotoMoves, Zenon DEF Coming
    <3> QED
      BY <1>0, <1>1, <2>1, <2>2, <2>4, <3>1, PlainStep, Zenon
  <2> QED
    BY <2>3, <2>4, Zenon
<1> QED
  BY <1>2, <1>3, <1>4, Zenon

\* uartstart() takes a character and wakes all who wait for room.
LEMMA TakeStuck == ASSUME Finite, StuckInv, NEW c \in CPU, StartTake(c) PROVE SleepInv' /\ SendInv'
<1>0. /\ {"start", "start_thr"} \subseteq (ThreadPC \cap IntrPC) \ Asleep /\ "uart" \in Lock
      /\ LockInv /\ DevType /\ SleepInv /\ SendInv
      /\ "put_woken" \in ThreadPC /\ Woken("put_sleep", "put_woken")
  BY SpinlockAssumption, Zenon DEF ThreadPC, IntrPC, StuckInv, LockInv, Asleep, Woken
<1>1. /\ At(c, "start") /\ thr = 0 /\ Wake("put_sleep", "put_woken", c, "start_thr")
      /\ UNCHANGED <<owner, want, left, start, cons, ticks, thr, irq>>
  BY Zenon DEF StartTake, spinVars, argVars, inVars, devVars
<1>2. Moves(c, "start_thr") /\ OthersKept(c) /\ ArgsKept(c)
  BY <1>0, <1>1, WakeMoves, SpinOthers, Zenon DEF ArgsKept
<1>3. NoneSleeps
  BY <1>0, <1>1, <1>2, MovesCalm, Zenon
<1>4. \A d \in CPU : pc'[d].thread # "put_sleep"
  BY <1>0, <1>1, WakeLeaves, Zenon
<1>5. SleepInv'
  <2>1. ConsShape'
    BY <1>0, <1>1, Zenon DEF SleepInv, ConsShape
  <2> QED
    BY <1>0, <1>1, <1>2, <1>3, <1>4, <2>1, SleepFrame, Zenon
<1>6. owner["uart"] = c
  BY <1>0, <1>1, AtFacts, Holds, Zenon DEF ThreadNeeds, IntrNeeds
<1>7. Looks(c)'
  BY <1>1, <1>2, <1>6, Zenon DEF Looks, Moves
<1>8. thr' \in Nat /\ thr' + Cardinality({d \in CPU : Sends(d)'}) <= Cardinality(CPU)
  BY <1>1, SendersFinite
<1> QED
  BY <1>5, <1>7, <1>8, Zenon DEF SendInv

\* uartstart() writes THR, and ends only when the ring is empty or the UART busy.
LEMMA StartStuck ==
    ASSUME Finite, StuckInv, NEW c \in CPU, StartPut(c) \/ StartDone(c) PROVE SleepInv' /\ SendInv'
<1>0. /\ {"start", "start_thr"} \subseteq (ThreadPC \cap IntrPC) \ Asleep /\ "uart" \in Lock
      /\ LockInv /\ DevType /\ SleepInv /\ SendInv
      /\ "complete" \in IntrPC /\ {"user", "putc"} \subseteq ThreadPC \ Asleep
  BY SpinlockAssumption, Zenon DEF ThreadPC, IntrPC, StuckInv, LockInv, Asleep
<1>1. UNCHANGED <<cons, tx, ticks, irq>>
  BY Zenon DEF StartPut, StartDone, inVars, outVars, devVars
<1>2. CASE StartPut(c)
  <2>1. /\ At(c, "start_thr") /\ thr' = thr + 1 /\ Goto(c, "start")
        /\ UNCHANGED <<owner, want, left, start>>
    BY <1>2, Zenon DEF StartPut, spinVars, argVars
  <2>2. Moves(c, "start") /\ OthersKept(c) /\ ArgsKept(c)
    BY <1>0, <2>1, GotoMoves, SpinOthers, Zenon DEF ArgsKept
  <2>3. SleepInv'
    BY <1>0, <1>1, <2>1, <2>2, CalmStep, Zenon
  <2> QED
    BY <1>0, <2>1, <2>2, <2>3, ThrStep, Zenon
<1>3. CASE StartDone(c)
  <2>1. At(c, "start") /\ (tx.r = tx.w \/ thr # 0) /\ Release(c, "uart") /\ thr' = thr
    BY <1>3, Zenon DEF StartDone, devVars
  <2>2. owner["uart"] = c
    BY <1>0, <2>1, AtFacts, Holds, Zenon DEF ThreadNeeds, IntrNeeds
  <2>3. OthersKept(c)
    BY <1>0, <2>1, <2>2, SpinOthers, Zenon
  <2>4. ArgsKept(c) /\ (pc[c].intr # "none" => UNCHANGED <<left, start>>)
    BY <1>3, Zenon DEF StartDone, ArgsKept, Return, argVars, Ctx
  <2>5. PICK to \in {"user", "putc", "complete"} :
           /\ Goto(c, to)
           /\ IF pc[c].intr = "none" THEN to \in {"user", "putc"} ELSE to = "complete"
    BY <1>3, Zenon DEF StartDone, Return, Ctx
  <2>6. Moves(c, to)
    BY <1>0, <2>5, GotoMoves, Zenon
  <2>7. SleepInv'
    BY <1>0, <1>1, <2>3, <2>4, <2>5, <2>6, CalmStep, Zenon
  <2>8. thr' \in Nat /\ thr' <= thr /\ (tx'.r = tx'.w \/ thr' > 0)
    BY <1>0, <1>1, <2>1 DEF SendInv
  <2>9. thr' + Cardinality({d \in CPU : Sends(d)'}) <= Cardinality(CPU)
    BY <1>0, <2>6, <2>8, MovesSends, CountKept, Zenon
  <2> QED
    BY <2>7, <2>8, <2>9, Zenon DEF SendInv
<1> QED
  BY <1>2, <1>3, Zenon

-----------------------------------------------------------------------------
(* Interrupts, devices, and the whole *)

\* uartintr() and consoleintr() on their way, and the end of the interrupt.
LEMMA IntrStuck ==
    ASSUME Finite, StuckInv, NEW c \in CPU, Getc(c) \/ GetcNone(c) \/ ConsoleIntr(c) \/ Complete(c)
    PROVE  SleepInv' /\ SendInv'
<1>0. /\ {"cons", "uart", "pr"} \subseteq Lock
      /\ "getc" \notin ThreadPC /\ "key" \notin ThreadPC /\ "complete" \notin ThreadPC
      /\ {"key", "start", "sync", "none"} \subseteq IntrPC \ {"sync_thr", "start_thr"}
      /\ {"key", "start", "sync"} \subseteq Coming /\ "complete" \notin Coming
  BY SpinlockAssumption, Zenon DEF ThreadPC, IntrPC, Coming
<1>1. UNCHANGED <<left, start, cons, tx, ticks, thr, irq>>
  BY Zenon DEF Getc, GetcNone, Resume, ConsoleIntr, Complete, argVars, inVars, outVars, devVars
<1>2. CASE Getc(c)
  <2>1. At(c, "getc") /\ Goto(c, "key") /\ Locking(c)
    BY <1>0, <1>2, Zenon DEF Getc, Locking
  <2> QED
    BY <1>0, <1>1, <2>1, HandlerPlain, Zenon
<1>3. CASE GetcNone(c)
  <2>1. At(c, "getc") /\ Goto(c, "start") /\ Locking(c)
    BY <1>0, <1>3, Zenon DEF GetcNone, Resume, Locking
  <2> QED
    BY <1>0, <1>1, <2>1, HandlerPlain, Zenon
<1>4. CASE ConsoleIntr(c)
  <2>1. At(c, "key") /\ Goto(c, "sync") /\ Locking(c)
    BY <1>0, <1>4, Zenon DEF ConsoleIntr, Locking, spinVars
  <2> QED
    BY <1>0, <1>1, <2>1, HandlerPlain, Zenon
<1>5. CASE Complete(c)
  <2>1. At(c, "complete") /\ Goto(c, "none") /\ Locking(c)
    BY <1>5, Zenon DEF Complete, Locking
  <2> QED
    BY <1>0, <1>1, <2>1, HandlerPlain, Zenon
<1> QED
  BY <1>2, <1>3, <1>4, <1>5, Zenon

\* What a key does to the buffer leaves r alone.
LEMMA AppliedShape ==
    ASSUME ConsShape, NEW k, cons' = Applied(k)
    PROVE  ConsShape' /\ cons'.r = cons.r
<1> DEFINE With(b, w, e) == [buf : {b}, r : {cons.r}, w : {w}, e : {e}]
<1>1. cons \in With(cons.buf, cons.w, cons.e)
  BY Zenon DEF ConsShape
<1>2. ASSUME NEW x, cons' = [cons EXCEPT !.e = x] PROVE \E b, w, e : cons' \in With(b, w, e)
  <2>1. cons' \in With(cons.buf, cons.w, x)
    BY <1>1, <1>2, Zenon
  <2> QED
    BY <2>1, Zenon
<1>3. ASSUME NEW ch PROVE \E b, w, e : Store(ch) \in With(b, w, e)
  <2> DEFINE e1 == (cons.e + 1) % UINT
             w1 == IF Commits(ch, Sub(e1, cons.r)) THEN e1 ELSE cons.w
             b1 == [cons.buf EXCEPT ![cons.e % INPUT_BUF_SIZE] = ch]
  <2>1. Store(ch) = [cons EXCEPT !.buf = b1, !.e = e1, !.w = w1]
    BY <1>1, Zenon DEF Store
  <2> HIDE DEF e1, w1, b1
  <2>2. [cons EXCEPT !.buf = b1, !.e = e1, !.w = w1] \in With(b1, w1, e1)
    BY <1>1, Zenon
  <2> QED
    BY <2>1, <2>2, Zenon
<1> HIDE DEF With
<1>4. \E b, w, e : cons' \in With(b, w, e)
  <2>1. CASE k = "kill"
    <3>1. PICK x : cons' = [cons EXCEPT !.e = x]
      BY <2>1, Zenon DEF Applied
    <3> QED
      BY <1>2, <3>1, Zenon
  <2>2. CASE k = "bs"
    <3>1. PICK x : cons' = [cons EXCEPT !.e = x] \/ cons' = cons
      BY <2>2, Zenon DEF Applied
    <3> QED
      BY <1>1, <1>2, <3>1, Zenon
  <2>3. CASE k # "kill" /\ k # "bs"
    <3>1. cons' = Store(Stored(k)) \/ cons' = cons
      BY <2>3, Zenon DEF Applied
    <3> QED
      BY <1>1, <1>3, <3>1, Zenon
  <2> QED
    BY <2>1, <2>2, <2>3, Zenon
<1> QED
  <2>1. PICK b, w, e : cons' \in [buf : {b}, r : {cons.r}, w : {w}, e : {e}]
    BY <1>4, Zenon DEF With
  <2>2. cons'.buf = b /\ cons'.r = cons.r /\ cons'.w = w /\ cons'.e = e
    BY <2>1, Zenon
  <2> QED
    BY <2>1, <2>2, Zenon DEF ConsShape

\* consoleintr() wakes the readers when it enters a line; nobody is between the
\* test of the buffer and the sleep, because that takes cons.lock.
LEMMA KeyStuck == ASSUME Finite, StuckInv, NEW c \in CPU, KeyDone(c) PROVE SleepInv' /\ SendInv'
<1>0. /\ "cons" \in Lock /\ "cons" # "uart" /\ LockInv /\ DevType /\ CtxInv /\ SleepInv /\ SendInv
      /\ "keyed" \notin ThreadPC /\ "getc" \in IntrPC /\ "read_woken" \in ThreadPC
      /\ Woken("read_sleep", "read_woken") /\ "getc" \in Coming
  BY SpinlockAssumption, Zenon DEF ThreadPC, IntrPC, StuckInv, LockInv, Woken, Coming
<1>1. /\ At(c, "keyed") /\ cons' = Applied(key[c]) /\ Release(c, "cons")
      /\ UNCHANGED <<left, start, tx, ticks, thr, irq>>
      /\ IF cons'.w # cons.w THEN Wake("read_sleep", "read_woken", c, "getc") ELSE Goto(c, "getc")
  BY Zenon DEF KeyDone, argVars, outVars, devVars
<1>2. pc[c].intr # "none" /\ pc[c].intr = "keyed" /\ want[c] = None
  BY <1>0, <1>1, WhoseStep, AtFacts, Zenon
<1>3. Moves(c, "getc")
  BY <1>0, <1>1, <1>2, GotoMoves, WakeMoves, Zenon
<1>4. OthersKept(c) /\ ArgsKept(c)
  BY <1>0, <1>1, SpinOthers, Zenon DEF ArgsKept
<1>5. NoneSleeps
  BY <1>0, <1>1, <1>2, <1>3, <1>4, MovesCalm, Zenon
<1>6. ConsShape' /\ cons'.r = cons.r
  BY <1>0, <1>1, AppliedShape, Zenon DEF SleepInv
<1>7. owner["cons"] = c
  BY <1>0, <1>2, Holds, Zenon DEF IntrNeeds
<1>8. ASSUME NEW d \in CPU PROVE pc'[d].thread # "read_doze"
  <2>1. SUFFICES ASSUME pc'[d].thread = "read_doze" PROVE FALSE
    BY Zenon
  <2>2. pc[d].thread = "read_doze" /\ want[d] = None
    BY <1>0, <1>5, <2>1, Zenon DEF NoneSleeps, Asleep, SleepInv
  <2>3. owner["cons"] = d
    BY <1>0, <2>2, Holds, Zenon DEF ThreadNeeds
  <2>4. pc[c].thread = "read_doze"
    BY <1>7, <2>2, <2>3, Zenon
  <2> QED
    BY <1>0, <1>2, <2>4, Zenon DEF CtxInv, ThreadNeeds
<1>9. cons'.w = cons.w \/ \A d \in CPU : pc'[d].thread # "read_sleep"
  BY <1>0, <1>1, <1>2, WakeLeaves, Zenon
<1>10. SleepInv'
  BY <1>0, <1>1, <1>4, <1>5, <1>6, <1>8, <1>9, SleepFrame, Zenon
<1>11. Still
  BY <1>0, <1>1, <1>2, <1>3, <1>4, MovesStill, Zenon
<1> QED
  BY <1>0, <1>10, <1>11, StillKeeps, Zenon

\* clockintr() wakes the sleepers at each tick, and tickslock does the same for them.
LEMMA ClockStuck == ASSUME Finite, StuckInv, NEW c \in CPU, ClockIntr(c) PROVE SleepInv' /\ SendInv'
<1>0. /\ "tickslock" \in Lock /\ "uart" \in Lock /\ "tickslock" # "uart"
      /\ LockInv /\ DevType /\ CtxInv /\ SleepInv /\ SendInv
      /\ "clock" \notin ThreadPC /\ "none" \in IntrPC /\ "nap_woken" \in ThreadPC
      /\ Woken("nap_sleep", "nap_woken") /\ "clock" \notin Coming
  BY SpinlockAssumption, Zenon DEF ThreadPC, IntrPC, StuckInv, LockInv, Woken, Coming
<1>1. /\ At(c, "clock") /\ Wake("nap_sleep", "nap_woken", c, "none")
      /\ owner' = [owner EXCEPT !["tickslock"] = None]
      /\ UNCHANGED <<want, left, start, cons, tx, thr, irq>>
  BY Zenon DEF ClockIntr, argVars, inVars, outVars, devVars
<1>2. pc[c].intr # "none" /\ pc[c].intr = "clock" /\ want[c] = None
  BY <1>0, <1>1, WhoseStep, AtFacts, Zenon
<1>3. Moves(c, "none") /\ ArgsKept(c)
  BY <1>0, <1>1, <1>2, WakeMoves, Zenon DEF ArgsKept
<1>4. OthersKept(c)
  BY <1>0, <1>1, Zenon DEF OthersKept, DevType
<1>5. NoneSleeps
  BY <1>0, <1>1, <1>2, <1>3, <1>4, MovesCalm, Zenon
<1>6. owner["tickslock"] = c
  BY <1>0, <1>2, Holds, Zenon DEF IntrNeeds
<1>7. ASSUME NEW d \in CPU PROVE pc'[d].thread # "nap_doze"
  <2>1. SUFFICES ASSUME pc'[d].thread = "nap_doze" PROVE FALSE
    BY Zenon
  <2>2. pc[d].thread = "nap_doze" /\ want[d] = None
    BY <1>0, <1>5, <2>1, Zenon DEF NoneSleeps, Asleep, SleepInv
  <2>3. owner["tickslock"] = d
    BY <1>0, <2>2, Holds, Zenon DEF ThreadNeeds
  <2>4. pc[c].thread = "nap_doze"
    BY <1>6, <2>2, <2>3, Zenon
  <2> QED
    BY <1>0, <1>2, <2>4, Zenon DEF CtxInv, ThreadNeeds
<1>8. \A d \in CPU : pc'[d].thread # "nap_sleep"
  BY <1>0, <1>1, <1>2, WakeLeaves, Zenon
<1>9. SleepInv'
  <2>1. ConsShape'
    BY <1>0, <1>1, Zenon DEF SleepInv, ConsShape
  <2> QED
    BY <1>0, <1>1, <1>3, <1>5, <1>7, <1>8, <2>1, SleepFrame, Zenon
<1>10. Still
  BY <1>0, <1>1, <1>2, <1>3, <1>4, MovesStill, Zenon
<1> QED
  BY <1>0, <1>9, <1>10, StillKeeps, Zenon

\* An interrupt comes: its handler will look at the ring, if it is the UART's.
LEMMA TrapStuck ==
    ASSUME Finite, StuckInv, NEW c \in CPU, UartTrap(c) \/ TimerTrap(c) PROVE SleepInv' /\ SendInv'
<1>0. /\ {"cons", "uart", "tickslock"} \subseteq Lock /\ LockInv /\ DevType /\ SleepInv /\ SendInv
      /\ pc \in [CPU -> [thread : ThreadPC, intr : IntrPC]] /\ want \in [CPU -> Lock \cup {None}]
  BY SpinlockAssumption, Zenon DEF StuckInv, LockInv, DevType
<1>1. /\ cpu[c].sie /\ pc[c].intr = "none"
      /\ UNCHANGED <<owner, left, start, cons, tx, ticks, thr>>
  BY Zenon DEF UartTrap, TimerTrap, argVars, inVars, outVars, devVars
<1>2. PICK i \in {"getc", "clock"} : pc' = [pc EXCEPT ![c].intr = i] /\ (UartTrap(c) => i = "getc")
  BY DEF UartTrap, TimerTrap
<1>3. /\ \A d \in CPU : pc'[d].thread = pc[d].thread
      /\ \A d \in CPU \ {c} : pc'[d].intr = pc[d].intr
      /\ pc'[c].intr = i
  BY <1>0, <1>2, Zenon
<1>4. pc[c].thread \notin {"read_doze", "nap_doze"} /\ owner["uart"] # c
  BY <1>0, <1>1, TrapFinds, Zenon DEF ThreadNeeds
<1>5. \A d \in CPU \ {c} : want'[d] = want[d]
  BY <1>0, Zenon DEF UartTrap, TimerTrap
<1>6. NoneSleeps /\ ArgsKept(c) /\ ConsShape'
  BY <1>0, <1>1, <1>3, <1>4, <1>5, Zenon DEF NoneSleeps, ArgsKept, SleepInv, ConsShape
<1>7. SleepInv'
  BY <1>0, <1>1, <1>6, SleepFrame, Zenon
<1>8. \A d \in CPU : Sends(d)' => Sends(d)
  BY <1>3, Zenon DEF Sends
<1>9. CASE UartTrap(c)
  <2>1. thr' \in Nat /\ thr' <= thr
    BY <1>0, <1>1 DEF SendInv
  <2>2. thr' + Cardinality({d \in CPU : Sends(d)'}) <= Cardinality(CPU)
    BY <1>0, <1>8, <2>1, CountKept, Zenon
  <2>3. Looks(c)'
    BY <1>2, <1>3, <1>9, Zenon DEF Looks, Coming
  <2> QED
    BY <1>7, <2>1, <2>2, <2>3, Zenon DEF SendInv
<1>10. CASE TimerTrap(c)
  <2>1. irq' = irq
    BY <1>10, Zenon DEF TimerTrap, devVars
  <2>2. \A d \in CPU : Looks(d) => Looks(d)'
    BY <1>1, <1>3, <1>4, Zenon DEF Looks, Coming
  <2>3. Still
    BY <1>1, <1>8, <2>1, <2>2, Zenon DEF Still
  <2> QED
    BY <1>0, <1>7, <2>3, StillKeeps, Zenon
<1> QED
  BY <1>9, <1>10, Zenon

\* kill() wakes its victim, and acquire() succeeds.
LEMMA ElseStuck ==
    ASSUME Finite, StuckInv, NEW c \in CPU, Kill(c) \/ Spin(c) PROVE SleepInv' /\ SendInv'
<1>0. /\ LockInv /\ SleepInv /\ SendInv /\ "uart" \in Lock
      /\ pc \in [CPU -> [thread : ThreadPC, intr : IntrPC]] /\ want \in [CPU -> Lock \cup {None}]
      /\ owner \in [Lock -> CPU \cup {None}]
  BY SpinlockAssumption, Zenon DEF StuckInv, LockInv, DevType
<1>1. UNCHANGED <<left, start, cons, tx, ticks, thr, irq>>
  BY Zenon DEF Kill, Spin, argVars, inVars, outVars, devVars
<1>2. \A d \in CPU : pc'[d].intr = pc[d].intr /\ Woken(pc[d].thread, pc'[d].thread)
  <2>1. CASE Spin(c)
    BY <2>1, Zenon DEF Spin, Woken
  <2>2. CASE Kill(c)
    <3> DEFINE s == pc[c].thread
               t == CASE s = "read_sleep" -> "read_woken"
                      [] s = "put_sleep" -> "put_woken"
                      [] s = "nap_sleep" -> "nap_woken"
                      [] OTHER -> s
    <3>1. Woken(s, t)
      BY Zenon DEF Woken
    <3>2. pc' = [pc EXCEPT ![c].thread = t]
      BY <2>2, Zenon DEF Kill
    <3> HIDE DEF t
    <3> QED
      BY <1>0, <3>1, <3>2, Zenon DEF Woken
  <2> QED
    BY <2>1, <2>2, Zenon
<1>3. \A d \in CPU : /\ want'[d] = want[d] \/ want'[d] = None
                     /\ owner["uart"] = d => owner'["uart"] = d
  <2>1. CASE Spin(c)
    BY <1>0, <2>1, SpinlockAssumption, Zenon DEF Spin, TestAndSet
  <2>2. CASE Kill(c)
    BY <2>2, Zenon DEF Kill, spinVars
  <2> QED
    BY <2>1, <2>2, Zenon
<1>4. NoneSleeps
  BY <1>1, <1>2, <1>3, Zenon DEF NoneSleeps, Woken, Asleep
<1>5. SleepInv'
  <2>1. ConsShape' /\ ArgsKept(c)
    BY <1>0, <1>1, Zenon DEF SleepInv, ConsShape, ArgsKept
  <2> QED
    BY <1>0, <1>1, <1>4, <2>1, SleepFrame, Zenon
<1>6. ASSUME NEW d \in CPU PROVE (Looks(d) => Looks(d)') /\ (Sends(d)' => Sends(d))
  BY <1>2, <1>3, Zenon DEF Looks, Sends, Woken
<1> QED
  BY <1>0, <1>1, <1>5, <1>6, StillKeeps, Zenon DEF Still

\* The devices: a key is pressed, and a character leaves the FIFO.
LEMMA DeviceStuck ==
    ASSUME Finite, StuckInv, Press \/ Transmit \/ UNCHANGED vars PROVE SleepInv' /\ SendInv'
<1>0. SleepInv /\ SendInv
  BY Zenon DEF StuckInv
<1>1. UNCHANGED <<pc, owner, want, left, start, cons, tx, ticks>>
  BY Zenon DEF Press, Transmit, vars, spinVars, argVars, inVars, outVars
<1>2. SleepInv'
  BY <1>0, <1>1, Zenon DEF SleepInv, ConsShape, TxFull, NapOver, Sub
<1>3. \A d \in CPU : (Looks(d)' <=> Looks(d)) /\ (Sends(d)' <=> Sends(d))
  BY <1>1, Zenon DEF Looks, Sends
<1>4. CASE Press \/ UNCHANGED vars
  <2>1. thr' = thr /\ (irq' = irq \/ irq' = TRUE)
    BY <1>4, Zenon DEF Press, vars, devVars
  <2>2. irq => irq'
    BY <2>1, Zenon
  <2> QED
    BY <1>0, <1>1, <1>2, <1>3, <2>1, <2>2, StillKeeps, Zenon DEF Still
<1>5. CASE Transmit
  <2>1. thr > 0 /\ thr' = thr - 1 /\ irq' = (irq \/ thr = 1) /\ thr \in Nat
    BY <1>0, <1>5, Zenon DEF Transmit, SendInv
  <2>2. thr' \in Nat /\ thr' <= thr /\ (thr # 1 => thr' > 0)
    BY <2>1
  <2>3. thr = 1 => irq'
    BY <2>1, Zenon
  <2>4. thr' + Cardinality({d \in CPU : Sends(d)'}) <= Cardinality(CPU)
    BY <1>0, <1>3, <2>2, CountKept, Zenon
  <2> QED
    BY <1>2, <2>2, <2>3, <2>4, Zenon DEF SendInv
<1> QED
  BY <1>4, <1>5, Zenon

\* At first nobody sleeps and nothing is to be sent.
LEMMA StuckInit == ASSUME Finite, Init PROVE StuckInv
<1>1. LockInv
  BY LockInit, Zenon
<1>2. /\ pc = [c \in CPU |-> [thread |-> "user", intr |-> "none"]]
      /\ left = [c \in CPU |-> 0] /\ start = [c \in CPU |-> 0]
      /\ thr = 0 /\ \E b : tx = [buf |-> b, r |-> First, w |-> First]
      /\ \E b : cons = [buf |-> b, r |-> First, w |-> First, e |-> First]
  BY Zenon DEF Init
<1>3. ConsShape /\ tx.r = tx.w
  <2>1. PICK b : tx = [buf |-> b, r |-> First, w |-> First]
    BY <1>2, Zenon
  <2>2. PICK a : cons = [buf |-> a, r |-> First, w |-> First, e |-> First]
    BY <1>2, Zenon
  <2>3. tx.r = First /\ tx.w = First
    BY <2>1, Zenon
  <2>4. cons.buf = a /\ cons.r = First /\ cons.w = First /\ cons.e = First
    BY <2>2, Zenon
  <2> QED
    BY <2>2, <2>3, <2>4, Zenon DEF ConsShape
<1>4. \A c \in CPU : pc[c].thread = "user" /\ pc[c].intr = "none"
  BY <1>2, Zenon
<1>5. SleepInv
  BY <1>2, <1>3, <1>4, Zenon DEF SleepInv
<1>6. {c \in CPU : Sends(c)} = {}
  BY <1>4, Zenon DEF Sends
<1>7. Cardinality({}) = 0 /\ Cardinality(CPU) \in Nat
  BY SpinlockAssumption, Zenon DEF Finite, EmptyCount, SubsetCount
<1>8. thr + Cardinality({c \in CPU : Sends(c)}) <= Cardinality(CPU)
  BY <1>2, <1>6, <1>7
<1> QED
  BY <1>1, <1>2, <1>3, <1>5, <1>8 DEF StuckInv, SendInv

\* Every step keeps it all.
LEMMA StuckStep == ASSUME Finite, StuckInv, [Next]_vars PROVE StuckInv'
<1>1. LockInv'
  BY LockStep, Zenon DEF StuckInv
<1>2. ASSUME Press \/ Transmit \/ Quiet \/ UNCHANGED vars PROVE SleepInv' /\ SendInv'
  BY <1>2, DeviceStuck, Zenon DEF Quiet
<1>3. ASSUME NEW c \in CPU, Begin(c) \/ TimerTrap(c) \/ Kill(c) PROVE SleepInv' /\ SendInv'
  BY <1>3, BeginStuck, TrapStuck, ElseStuck, Zenon
<1>4. ASSUME NEW c \in CPU, Thread(c) PROVE SleepInv' /\ SendInv'
  BY <1>4, ReadStuck, SleepStuck, ResumeStuck, ReturnStuck, PutStuck, Zenon DEF Thread
<1>5. ASSUME NEW c \in CPU, Handler(c) PROVE SleepInv' /\ SendInv'
  BY <1>5, TrapStuck, IntrStuck, KeyStuck, ClockStuck, Zenon DEF Handler
<1>6. ASSUME NEW c \in CPU, Common(c) PROVE SleepInv' /\ SendInv'
  BY <1>6, ElseStuck, SyncStuck, TakeStuck, StartStuck, Zenon DEF Common
<1> QED
  BY <1>1, <1>2, <1>3, <1>4, <1>5, <1>6, Zenon DEF Next, StuckInv

\* The invariant says of the devices what the project checks.
LEMMA StuckInvStuck == ASSUME Finite, StuckInv PROVE NobodyStuck
<1>1. SleepInv /\ SendInv /\ LockInv
  BY Zenon DEF StuckInv
<1>2. NoLostWakeup
  BY <1>1, Zenon DEF SleepInv, NoLostWakeup
<1>3. thr <= Cardinality(CPU)
  BY <1>1, SendersFinite DEF SendInv
<1>4. tx.r # tx.w /\ owner["uart"] = None =>
         \/ thr > 0 \/ irq
         \/ \E c \in CPU : pc[c].intr \in Coming
  BY <1>1, SpinlockAssumption, Zenon DEF SendInv, Looks
<1> QED
  BY <1>2, <1>3, <1>4, Zenon DEF NobodyStuck, TxMoves, Coming

-----------------------------------------------------------------------------
(* The theorems *)

F == INSTANCE FiniteSetTheorems

\* The library counts as the modules do.
LEMMA SameCount ==
    /\ \A S : F!IsFiniteSet(S) <=> IsFiniteSet(S)
    /\ \A S : F!Cardinality(S) = Cardinality(S)
<1>1. ASSUME NEW S PROVE F!IsFiniteSet(S) <=> IsFiniteSet(S)
  BY Zenon DEF IsFiniteSet, F!IsFiniteSet
<1>2. ASSUME NEW S PROVE F!Cardinality(S) = Cardinality(S)
  BY Zenon DEF Cardinality, F!Cardinality
<1> QED
  BY <1>1, <1>2, Zenon

\* What was taken for granted about finite sets holds.
LEMMA FiniteHolds == Finite
<1>1. EmptyCount
  BY F!FS_EmptySet, SameCount, Zenon DEF EmptyCount
<1>2. SubsetCount
  BY F!FS_EmptySet, F!FS_CardinalityType, F!FS_Subset, SameCount, ZenonT(60) DEF SubsetCount
<1>3. AddCount
  BY F!FS_AddElement, SameCount, Zenon DEF AddCount
<1>4. RemoveCount
  BY F!FS_RemoveElement, SameCount, Zenon DEF RemoveCount
<1> QED
  BY <1>1, <1>2, <1>3, <1>4, ZenonT(60) DEF Finite

\* No CPU waits for a lock that it holds, an interrupt finds its CPU without locks,
\* and mycpu()->noff counts the locks that acquire() was called for.
THEOREM LocksAreSound == Spec => []InterruptsOff
<1>1. Init => LockInv
  BY LockInit, FiniteHolds, Zenon
<1>2. LockInv /\ [Next]_vars => LockInv'
  BY LockStep, FiniteHolds, Zenon
<1>3. LockInv => InterruptsOff
  BY LockInvOff
<1> QED
  BY <1>1, <1>2, <1>3, PTL DEF Spec

\* Nobody sleeps through what they wait for: a reader of the console sleeps only while
\* no line is entered, a writer only while uart_tx_buf is full, a sleeper only while
\* its ticks are not over; and characters in uart_tx_buf are never forgotten, because
\* the UART will interrupt or some CPU is on its way to uartstart().
THEOREM NothingStuck == Spec => []NobodyStuck
<1>1. Init => StuckInv
  BY StuckInit, FiniteHolds, Zenon
<1>2. StuckInv /\ [Next]_vars => StuckInv'
  BY StuckStep, FiniteHolds, Zenon
<1>3. StuckInv => NobodyStuck
  BY StuckInvStuck, FiniteHolds, Zenon
<1> QED
  BY <1>1, <1>2, <1>3, PTL DEF Spec
=============================================================================
