---------------------------- MODULE DevicesLocks ----------------------------
(***************************************************************************)
(* Lemmas about the spinlocks of Devices, for any number of CPUs, any plan *)
(* of calls, keys and ticks, and any sizes of the rings: no CPU waits for  *)
(* a lock that it holds, and push_off() and pop_off() count what is held.  *)
(*                                                                         *)
(* LockInv says which locks the code around each step is inside of, and    *)
(* ties the lock words, noff, intena and the interrupt enable bit to them. *)
(***************************************************************************)
EXTENDS Devices, Counting, TLAPS

\* What the steps take for granted about finite sets (FiniteHolds of DevicesInv).
Finite == EmptyCount /\ SubsetCount /\ AddCount /\ RemoveCount

-----------------------------------------------------------------------------
(* The invariant *)

\* The points of a thread's and of a handler's code.
ThreadPC == {"user", "read", "read_doze", "read_sleep", "read_woken",
             "put", "put_sleep", "put_woken", "putc", "start", "start_thr",
             "sync", "sync_thr", "nap0", "nap", "nap_doze", "nap_sleep", "nap_woken"}
IntrPC == {"none", "getc", "key", "sync", "sync_thr", "keyed", "start", "start_thr",
           "complete", "clock"}

CpuRec == [sie : BOOLEAN, noff : Int, intena : BOOLEAN]

DevType ==
    /\ pc \in [CPU -> [thread : ThreadPC, intr : IntrPC]]
    /\ cpu \in [CPU -> CpuRec]
    /\ owner \in [Lock -> CPU \cup {None}]
    /\ want \in [CPU -> Lock \cup {None}]
    /\ key = [c \in CPU |-> key[c]]

\* The locks that the code around the thread's and the handler's next step is
\* inside of, or about to enter.
ThreadNeeds(t, l) ==
    \/ l = "cons" /\ t \in {"read", "read_doze"}
    \/ l = "uart" /\ t \in {"put", "start", "start_thr"}
    \/ l = "pr" /\ t \in {"sync", "sync_thr"}
    \/ l = "tickslock" /\ t \in {"nap0", "nap", "nap_doze"}
IntrNeeds(i, k, l) ==
    \/ l = "cons" /\ i \in {"key", "sync", "sync_thr", "keyed"}
    \/ l = "uart" /\ i \in {"start", "start_thr"}
    \/ l = "pr" /\ i \in {"sync", "sync_thr"} /\ k = "dump"
    \/ l = "tickslock" /\ i = "clock"

Locks(c) == {l \in Lock : ThreadNeeds(pc[c].thread, l) \/ IntrNeeds(pc[c].intr, key[c], l)}

\* An interrupt finds its thread outside all critical sections.
CtxInv ==
    \A c \in CPU : pc[c].intr # "none" => \A l \in Lock : ~ThreadNeeds(pc[c].thread, l)

SpinInv ==
    \A c \in CPU :
        /\ \A l \in Lock : owner[l] = c \/ want[c] = l <=> l \in Locks(c)
        /\ want[c] # None => owner[want[c]] # c
        /\ cpu[c].noff = Cardinality(Locks(c))
        /\ cpu[c].sie <=> Locks(c) = {} /\ pc[c].intr = "none"
        /\ Locks(c) # {} => (cpu[c].intena <=> pc[c].intr = "none")

LockInv == DevType /\ CtxInv /\ SpinInv

\* A thread that is woken up, and one that is not.
Woken(s, t) ==
    \/ t = s
    \/ s = "read_sleep" /\ t = "read_woken"
    \/ s = "put_sleep" /\ t = "put_woken"
    \/ s = "nap_sleep" /\ t = "nap_woken"

\* The running context of c goes to l; other threads are at most woken.
Moves(c, l) ==
    /\ pc' \in [CPU -> [thread : ThreadPC, intr : IntrPC]]
    /\ \A d \in CPU \ {c} : pc'[d].intr = pc[d].intr /\ Woken(pc[d].thread, pc'[d].thread)
    /\ IF pc[c].intr = "none"
       THEN pc'[c].intr = "none" /\ pc'[c].thread = l
       ELSE pc'[c].intr = l /\ Woken(pc[c].thread, pc'[c].thread)

\* Only c's handler gets another key.
KeyKept(c) == key' = [d \in CPU |-> key'[d]] /\ \A d \in CPU \ {c} : key'[d] = key[d]

\* Nothing that the other CPUs' locks depend on changes.
Rest(c) == \A d \in CPU \ {c} : Locks(d)' = Locks(d) /\ pc'[d].intr = pc[d].intr

-----------------------------------------------------------------------------
(* How the program counters move *)

\* Goto() and wakeup() lead to steps of the same context.
LEMMA GotoType ==
    ASSUME DevType, NEW c \in CPU, NEW l, Goto(c, l),
           IF pc[c].intr = "none" THEN l \in ThreadPC ELSE l \in IntrPC
    PROVE  pc' \in [CPU -> [thread : ThreadPC, intr : IntrPC]]
<1>1. pc \in [CPU -> [thread : ThreadPC, intr : IntrPC]]
  BY Zenon DEF DevType
<1>2. CASE pc[c].intr = "none"
  <2>1. pc' = [pc EXCEPT ![c].thread = l]
    BY <1>2, Zenon DEF Goto, Ctx
  <2> QED
    BY <1>1, <1>2, <2>1
<1>3. CASE pc[c].intr # "none"
  <2>1. pc' = [pc EXCEPT ![c].intr = l]
    BY <1>3, Zenon DEF Goto, Ctx
  <2> QED
    BY <1>1, <1>3, <2>1
<1> QED
  BY <1>2, <1>3, Zenon

\* The same of wakeup(): whom it wakes is a thread that goes on.
LEMMA WakeType ==
    ASSUME DevType, NEW c \in CPU, NEW l, NEW from, NEW to \in ThreadPC, Wake(from, to, c, l),
           IF pc[c].intr = "none" THEN l \in ThreadPC ELSE l \in IntrPC
    PROVE  pc' \in [CPU -> [thread : ThreadPC, intr : IntrPC]]
<1>1. pc \in [CPU -> [thread : ThreadPC, intr : IntrPC]]
  BY DEF DevType
<1> DEFINE p(d) == IF pc[d].thread = from THEN [pc[d] EXCEPT !.thread = to] ELSE pc[d]
<1>2. \A d \in CPU : p(d) \in [thread : ThreadPC, intr : IntrPC]
  BY <1>1, Zenon
<1>3. pc' = [d \in CPU |-> IF d = c THEN [p(d) EXCEPT ![Ctx(c)] = l] ELSE p(d)]
  BY Zenon DEF Wake
<1> HIDE DEF p
<1>4. [p(c) EXCEPT ![Ctx(c)] = l] \in [thread : ThreadPC, intr : IntrPC]
  <2>1. CASE pc[c].intr = "none"
    <3>1. [p(c) EXCEPT ![Ctx(c)] = l] = [p(c) EXCEPT !.thread = l]
      BY <2>1, Zenon DEF Ctx
    <3> QED
      BY <1>2, <2>1, <3>1, Zenon
  <2>2. CASE pc[c].intr # "none"
    <3>1. [p(c) EXCEPT ![Ctx(c)] = l] = [p(c) EXCEPT !.intr = l]
      BY <2>2, Zenon DEF Ctx
    <3> QED
      BY <1>2, <2>2, <3>1, Zenon
  <2> QED
    BY <2>1, <2>2, Zenon
<1> QED
  BY <1>2, <1>3, <1>4, Zenon

\* Goto() moves the running context of c and nothing else.
LEMMA GotoMoves ==
    ASSUME DevType, NEW c \in CPU, NEW l, Goto(c, l),
           IF pc[c].intr = "none" THEN l \in ThreadPC ELSE l \in IntrPC
    PROVE  Moves(c, l) /\ \A d \in CPU \ {c} : pc'[d] = pc[d]
<1>1. /\ pc \in [CPU -> [thread : ThreadPC, intr : IntrPC]]
      /\ pc' \in [CPU -> [thread : ThreadPC, intr : IntrPC]]
  BY GotoType, Zenon DEF DevType
<1>2. CASE pc[c].intr = "none"
  <2>1. pc' = [pc EXCEPT ![c].thread = l]
    BY <1>2, Zenon DEF Goto, Ctx
  <2> QED
    BY <1>1, <1>2, <2>1, Zenon DEF Moves, Woken
<1>3. CASE pc[c].intr # "none"
  <2>1. pc' = [pc EXCEPT ![c].intr = l]
    BY <1>3, Zenon DEF Goto, Ctx
  <2> QED
    BY <1>1, <1>3, <2>1, Zenon DEF Moves, Woken
<1> QED
  BY <1>2, <1>3, Zenon

\* wakeup() moves sleeping threads besides.
LEMMA WakeMoves ==
    ASSUME DevType, NEW c \in CPU, NEW l, NEW from, NEW to \in ThreadPC, Wake(from, to, c, l),
           Woken(from, to), IF pc[c].intr = "none" THEN l \in ThreadPC ELSE l \in IntrPC
    PROVE  Moves(c, l)
<1>1. /\ pc \in [CPU -> [thread : ThreadPC, intr : IntrPC]]
      /\ pc' \in [CPU -> [thread : ThreadPC, intr : IntrPC]]
  BY WakeType, Zenon DEF DevType
<1> DEFINE p(d) == IF pc[d].thread = from THEN [pc[d] EXCEPT !.thread = to] ELSE pc[d]
<1>2. \A d \in CPU : p(d).intr = pc[d].intr /\ Woken(pc[d].thread, p(d).thread)
  BY <1>1 DEF Woken
<1>3. pc' = [d \in CPU |-> IF d = c THEN [p(d) EXCEPT ![Ctx(c)] = l] ELSE p(d)]
  BY Zenon DEF Wake
<1>4. \A d \in CPU \ {c} : pc'[d].intr = pc[d].intr /\ Woken(pc[d].thread, pc'[d].thread)
  BY <1>2, <1>3, Zenon
<1>5. p(c) \in [thread : {pc[c].thread, to}, intr : IntrPC]
  BY <1>1, Zenon
<1>6. pc'[c] = [p(c) EXCEPT ![Ctx(c)] = l]
  BY <1>3, Zenon
<1> HIDE DEF p
<1>7. CASE pc[c].intr = "none"
  <2>1. pc'[c] = [p(c) EXCEPT !.thread = l]
    BY <1>6, <1>7, Zenon DEF Ctx
  <2> QED
    BY <1>1, <1>2, <1>4, <1>5, <1>7, <2>1, Zenon DEF Moves
<1>8. CASE pc[c].intr # "none"
  <2>1. pc'[c] = [p(c) EXCEPT !.intr = l]
    BY <1>6, <1>8, Zenon DEF Ctx
  <2> QED
    BY <1>1, <1>2, <1>4, <1>5, <1>8, <2>1, Zenon DEF Moves
<1> QED
  BY <1>7, <1>8, Zenon

\* The step that the running context is about to take.
LEMMA AtFacts ==
    ASSUME DevType, NEW c \in CPU, NEW l, At(c, l)
    PROVE  /\ want[c] = None
           /\ IF pc[c].intr = "none" THEN pc[c].thread = l ELSE pc[c].intr = l
BY Zenon DEF At, Ctx

\* Which steps only a thread, and which only a handler takes.
LEMMA WhoseStep ==
    ASSUME DevType, NEW c \in CPU, NEW l, At(c, l)
    PROVE  /\ l \notin IntrPC => pc[c].intr = "none"
           /\ l \notin ThreadPC => pc[c].intr # "none"
BY AtFacts DEF DevType

-----------------------------------------------------------------------------
(* The locks and the interrupt enable bit *)

\* The locks a CPU needs are finitely many.
LEMMA LocksFinite ==
    ASSUME Finite
    PROVE  \A c \in CPU : IsFiniteSet(Locks(c)) /\ Locks(c) \subseteq Lock
<1>1. \A c \in CPU : Locks(c) \in SUBSET Lock
  BY Zenon DEF Locks
<1> QED
  BY <1>1, SpinlockAssumption, Zenon DEF Finite, SubsetCount

\* One lock counts one, and none counts nothing.
LEMMA OneLock == ASSUME Finite PROVE Cardinality({}) = 0 /\ \A l : Cardinality({l}) = 1
<1>1. IsFiniteSet({}) /\ Cardinality({}) = 0
  BY Zenon DEF Finite, EmptyCount
<1>2. ASSUME NEW l PROVE Cardinality({l}) = 1
  <2>1. {} \cup {l} = {l} /\ l \notin {}
    BY Zenon
  <2>2. Cardinality({} \cup {l}) = Cardinality({}) + 1
    BY <1>1, <2>1, Zenon DEF Finite, AddCount
  <2> QED
    BY <1>1, <2>1, <2>2
<1> QED
  BY <1>1, <1>2, Zenon

\* acquire(): the CPU goes on to spin with interrupts off.
LEMMA AcquireKeeps ==
    ASSUME Finite, DevType, SpinInv, NEW c \in CPU, NEW l \in Lock,
           Acquire(c, l), want[c] = None, l \notin Locks(c), Locks(c)' = Locks(c) \cup {l}, Rest(c),
           pc'[c].intr = "none" <=> pc[c].intr = "none"
    PROVE  SpinInv'
<1>0. /\ cpu \in [CPU -> [sie : BOOLEAN, noff : Int, intena : BOOLEAN]]
      /\ want \in [CPU -> Lock \cup {None}] /\ owner' = owner
      /\ want' = [want EXCEPT ![c] = l] /\ cpu' = [cpu EXCEPT ![c] = PushOff(cpu[c])]
  BY Zenon DEF DevType, Acquire, CpuRec
<1> DEFINE S == Locks(c)
<1>1. Cardinality(S \cup {l}) = Cardinality(S) + 1 /\ Cardinality(S) \in Nat
  BY LocksFinite, Zenon DEF Finite, AddCount, SubsetCount
<1>2. Cardinality(S) = 0 <=> S = {}
  BY LocksFinite, Zenon DEF Finite, EmptyCount, SubsetCount
<1>3. /\ cpu'[c].sie = FALSE /\ cpu'[c].noff = cpu[c].noff + 1
      /\ cpu'[c].intena = IF cpu[c].noff = 0 THEN cpu[c].sie ELSE cpu[c].intena
  BY <1>0, Zenon DEF PushOff
<1> DEFINE T == S \cup {l}
<1>4. /\ \A m \in Lock : owner[m] = c <=> m \in S
      /\ cpu[c].noff = Cardinality(S)
      /\ cpu[c].sie <=> S = {} /\ pc[c].intr = "none"
      /\ S # {} => (cpu[c].intena <=> pc[c].intr = "none")
  BY SpinlockAssumption DEF SpinInv
<1>5. Locks(c)' = T /\ Cardinality(T) = Cardinality(S) + 1 /\ l \in T /\ l \notin S
  BY <1>1, Zenon
<1> HIDE DEF S
<1>6. /\ \A m \in Lock : owner'[m] = c \/ want'[c] = m <=> m \in T
      /\ want'[c] # None => owner'[want'[c]] # c
  BY <1>0, <1>4, <1>5, Zenon
<1> HIDE DEF T
<1>7. /\ cpu'[c].noff = Cardinality(T)
      /\ cpu'[c].sie <=> T = {} /\ pc'[c].intr = "none"
      /\ T # {} => (cpu'[c].intena <=> pc'[c].intr = "none")
  BY <1>1, <1>2, <1>3, <1>4, <1>5, Zenon
<1>8. \A d \in CPU \ {c} : /\ Locks(d)' = Locks(d) /\ pc'[d].intr = pc[d].intr
                           /\ cpu'[d] = cpu[d] /\ want'[d] = want[d]
  BY <1>0, Zenon DEF Rest
<1> QED
  BY <1>0, <1>5, <1>6, <1>7, <1>8 DEF SpinInv

\* release() of a lock that c holds.
LEMMA ReleaseKeeps ==
    ASSUME Finite, DevType, SpinInv, NEW c \in CPU, NEW l \in Lock,
           Release(c, l), want[c] = None, l \in Locks(c), Locks(c)' = Locks(c) \ {l}, Rest(c),
           pc'[c].intr = "none" <=> pc[c].intr = "none"
    PROVE  SpinInv'
<1>0. /\ cpu \in [CPU -> [sie : BOOLEAN, noff : Int, intena : BOOLEAN]]
      /\ owner \in [Lock -> CPU \cup {None}] /\ want' = want
      /\ owner' = [owner EXCEPT ![l] = None] /\ cpu' = [cpu EXCEPT ![c] = PopOff(cpu[c])]
  BY Zenon DEF DevType, Release, CpuRec
<1> DEFINE S == Locks(c)
           T == S \ {l}
<1>1. Cardinality(T) = Cardinality(S) - 1 /\ Cardinality(S) \in Nat
  BY LocksFinite, Zenon DEF Finite, RemoveCount, SubsetCount
<1>2. (Cardinality(T) = 0 <=> T = {}) /\ (Cardinality(S) = 0 <=> S = {})
  <2>1. IsFiniteSet(S) /\ IsFiniteSet(T)
    BY LocksFinite, Zenon DEF Finite, RemoveCount
  <2> QED
    BY <2>1, Zenon DEF Finite, EmptyCount, SubsetCount
<1>3. /\ cpu'[c].sie = IF cpu[c].noff = 1 /\ cpu[c].intena THEN TRUE ELSE cpu[c].sie
      /\ cpu'[c].noff = cpu[c].noff - 1 /\ cpu'[c].intena = cpu[c].intena
  BY <1>0 DEF PopOff
<1>4. /\ \A m \in Lock : owner[m] = c <=> m \in S
      /\ cpu[c].noff = Cardinality(S)
      /\ cpu[c].sie <=> S = {} /\ pc[c].intr = "none"
      /\ S # {} => (cpu[c].intena <=> pc[c].intr = "none")
  BY SpinlockAssumption DEF SpinInv
<1>5. Locks(c)' = T /\ l \in S /\ l \notin T /\ T \subseteq S
  BY Zenon
<1>6. /\ \A m \in Lock : owner'[m] = c \/ want'[c] = m <=> m \in T
      /\ want'[c] = None
  BY <1>0, <1>4, <1>5, SpinlockAssumption, Zenon
<1> HIDE DEF S, T
<1>7. /\ cpu'[c].noff = Cardinality(T)
      /\ cpu'[c].sie <=> T = {} /\ pc'[c].intr = "none"
      /\ T # {} => (cpu'[c].intena <=> pc'[c].intr = "none")
  <2>1. S # {} /\ (cpu[c].noff = 1 <=> T = {}) /\ cpu'[c].noff = Cardinality(T)
    BY <1>1, <1>2, <1>3, <1>4, <1>5
  <2>2. ~cpu[c].sie /\ (cpu[c].intena <=> pc[c].intr = "none")
    BY <1>4, <2>1, Zenon
  <2> QED
    BY <1>3, <2>1, <2>2, Zenon
<1>8. \A d \in CPU \ {c} : /\ Locks(d)' = Locks(d) /\ pc'[d].intr = pc[d].intr
                           /\ cpu'[d] = cpu[d] /\ want'[d] = want[d]
                           /\ \A m \in Lock : owner'[m] = d <=> owner[m] = d
  <2>1. owner[l] = c
    BY <1>4, <1>5, Zenon
  <2> QED
    BY <1>0, <2>1, SpinlockAssumption, Zenon DEF Rest
<1>9. \A d \in CPU \ {c} : want'[d] # None => owner'[want'[d]] # d
  BY <1>0, <1>8, SpinlockAssumption DEF SpinInv, DevType
<1> QED
  BY <1>5, <1>6, <1>7, <1>8, <1>9 DEF SpinInv

\* A step that takes and drops no lock.
LEMMA SpinFrame ==
    ASSUME SpinInv, UNCHANGED spinVars,
           \A d \in CPU : Locks(d)' = Locks(d) /\ (pc'[d].intr = "none" <=> pc[d].intr = "none")
    PROVE  SpinInv'
BY DEF SpinInv, spinVars

\* The test-and-set of a spinning CPU succeeds.
LEMMA SpinKeeps ==
    ASSUME DevType, SpinInv, NEW c \in CPU, TestAndSet(c), UNCHANGED <<pc, key>>
    PROVE  SpinInv'
<1>0. /\ want[c] \in Lock /\ owner[want[c]] = None /\ cpu' = cpu
      /\ owner' = [owner EXCEPT ![want[c]] = c] /\ want' = [want EXCEPT ![c] = None]
      /\ owner \in [Lock -> CPU \cup {None}] /\ want \in [CPU -> Lock \cup {None}]
  BY Zenon DEF DevType, TestAndSet
<1>1. \A d \in CPU : Locks(d)' = Locks(d)
  BY Zenon DEF Locks
<1>2. \A d \in CPU, l \in Lock :
         (owner'[l] = d \/ want'[d] = l) <=> (owner[l] = d \/ want[d] = l)
  BY <1>0, SpinlockAssumption, Zenon
<1>3. \A d \in CPU : want'[d] # None => owner'[want'[d]] # d
  BY <1>0, SpinlockAssumption DEF SpinInv
<1> QED
  BY <1>0, <1>1, <1>2, <1>3 DEF SpinInv

-----------------------------------------------------------------------------
(* Steps of a context from one point of the code to another *)

\* What the running context of c, at from, needs of l before it goes to to.
Needs(c, from, k, l) ==
    IF pc[c].intr = "none" THEN ThreadNeeds(from, l) ELSE IntrNeeds(from, k, l)

\* The contexts of other CPUs do not move, except that threads may wake up.
LEMMA MovesRest ==
    ASSUME NEW c \in CPU, NEW to, Moves(c, to), KeyKept(c)
    PROVE  Rest(c)
<1>1. \A d \in CPU \ {c}, l \in Lock :
         ThreadNeeds(pc'[d].thread, l) <=> ThreadNeeds(pc[d].thread, l)
  BY DEF Moves, Woken, ThreadNeeds
<1> QED
  BY <1>1, Zenon DEF Moves, Rest, Locks, KeyKept

\* What the CPU needs is what its running context needs.
LEMMA LocksAt ==
    ASSUME DevType, CtxInv, NEW c \in CPU, NEW from, At(c, from)
    PROVE  /\ want[c] = None
           /\ Locks(c) = {l \in Lock : Needs(c, from, key[c], l)}
<1>1. /\ want[c] = None
      /\ IF pc[c].intr = "none" THEN pc[c].thread = from ELSE pc[c].intr = from
  BY AtFacts, Zenon
<1>2. CASE pc[c].intr = "none"
  BY <1>1, <1>2, Zenon DEF Locks, Needs, IntrNeeds
<1>3. CASE pc[c].intr # "none"
  BY <1>1, <1>3, Zenon DEF Locks, Needs, CtxInv
<1> QED
  BY <1>1, <1>2, <1>3, Zenon

\* The same after a step: what the CPU needs then is what its new step needs.
LEMMA LocksAfter ==
    ASSUME CtxInv, NEW c \in CPU, NEW to, Moves(c, to), pc[c].intr # "none" => to # "none"
    PROVE  /\ Locks(c)' = {l \in Lock : Needs(c, to, key'[c], l)}
           /\ pc'[c].intr = "none" <=> pc[c].intr = "none"
<1>1. pc'[c].intr = "none" <=> pc[c].intr = "none"
  BY Zenon DEF Moves
<1>2. CASE pc[c].intr = "none"
  BY <1>2, Zenon DEF Moves, Locks, Needs, IntrNeeds
<1>3. CASE pc[c].intr # "none"
  <2>1. \A l \in Lock : ~ThreadNeeds(pc'[c].thread, l)
    BY <1>3, Zenon DEF Moves, CtxInv, Woken, ThreadNeeds
  <2> QED
    BY <1>3, <2>1, Zenon DEF Moves, Locks, Needs
<1> QED
  BY <1>1, <1>2, <1>3, Zenon

\* No step within a context lets the thread into a critical section under it.
LEMMA MovesCtx ==
    ASSUME CtxInv, NEW c \in CPU, NEW to, Moves(c, to), pc[c].intr # "none" => to # "none"
    PROVE  CtxInv'
<1>1. \A d \in CPU : pc[d].intr # "none" =>
         \A l \in Lock : ThreadNeeds(pc'[d].thread, l) <=> ThreadNeeds(pc[d].thread, l)
  BY DEF Moves, Woken, ThreadNeeds
<1>2. \A d \in CPU : pc'[d].intr # "none" => pc[d].intr # "none"
  BY Zenon DEF Moves
<1> QED
  BY <1>1, <1>2, Zenon DEF CtxInv

\* push_off() and pop_off() keep the types of a CPU's fields.
LEMMA FieldsType ==
    ASSUME NEW k \in CpuRec, NEW on \in BOOLEAN, NEW kept \in BOOLEAN, NEW n \in Int
    PROVE  /\ [sie |-> on, intena |-> kept, noff |-> n] \in CpuRec
           /\ [k EXCEPT !.noff = n, !.sie = on] \in CpuRec
<1>1. [sie |-> on, intena |-> kept, noff |-> n] \in CpuRec
  BY Zenon DEF CpuRec
<1>2. [k EXCEPT !.noff = n, !.sie = on] \in CpuRec
  BY Zenon DEF CpuRec
<1> QED
  BY <1>1, <1>2, Zenon

\* So do interrupts and the return from them.
LEMMA SieType ==
    ASSUME NEW k \in CpuRec
    PROVE  Trap(k) \in CpuRec /\ Sret(k) \in CpuRec
BY Zenon DEF CpuRec, Trap, Sret

\* push_off() and pop_off() lead from the fields of a CPU to such fields.
LEMMA PushPopType ==
    ASSUME NEW k \in CpuRec
    PROVE  PushOff(k) \in CpuRec /\ PopOff(k) \in CpuRec
<1> DEFINE kept == IF k.noff = 0 THEN k.sie ELSE k.intena
           on == IF k.noff = 1 /\ k.intena THEN TRUE ELSE k.sie
<1>1. k.sie \in BOOLEAN /\ k.intena \in BOOLEAN /\ k.noff \in Int
  BY Zenon DEF CpuRec
<1>2. on \in BOOLEAN /\ kept \in BOOLEAN
  BY <1>1, Zenon
<1>4. k.noff - 1 \in Int /\ k.noff + 1 \in Int
  BY <1>1
<1>3. /\ PushOff(k) = [sie |-> FALSE, intena |-> kept, noff |-> k.noff + 1]
      /\ PopOff(k) = [k EXCEPT !.noff = k.noff - 1, !.sie = on]
  BY Zenon DEF PushOff, PopOff
<1> HIDE DEF on, kept
<1>5. FALSE \in BOOLEAN
  BY Zenon
<1>6. [sie |-> FALSE, intena |-> kept, noff |-> k.noff + 1] \in CpuRec
  BY <1>2, <1>4, <1>5, FieldsType, Zenon
<1>7. [k EXCEPT !.noff = k.noff - 1, !.sie = on] \in CpuRec
  BY <1>2, <1>4, FieldsType, Zenon
<1> QED
  BY <1>3, <1>6, <1>7, Zenon

\* pop_off() takes one from noff.
LEMMA PopNoff == ASSUME NEW k \in CpuRec PROVE PopOff(k).noff = k.noff - 1
BY Zenon DEF CpuRec, PopOff

\* Locks and keys keep their types.
LEMMA TypeKept ==
    ASSUME DevType, NEW c \in CPU, NEW to, Moves(c, to), KeyKept(c),
           \/ UNCHANGED spinVars
           \/ \E l \in Lock : Acquire(c, l) \/ Release(c, l)
    PROVE  DevType'
<1>0. /\ cpu \in [CPU -> CpuRec]
      /\ want \in [CPU -> Lock \cup {None}] /\ owner \in [Lock -> CPU \cup {None}]
  BY Zenon DEF DevType
<1>1. PushOff(cpu[c]) \in CpuRec /\ PopOff(cpu[c]) \in CpuRec
  BY <1>0, PushPopType, Zenon
<1>2. /\ cpu' \in [CPU -> CpuRec]
      /\ want' \in [CPU -> Lock \cup {None}] /\ owner' \in [Lock -> CPU \cup {None}]
  BY <1>0, <1>1, Zenon DEF Acquire, Release, spinVars
<1> QED
  BY <1>2, Zenon DEF DevType, Moves, KeyKept

\* A step that ends in acquire(l).
LEMMA AcquireStep ==
    ASSUME Finite, DevType, CtxInv, SpinInv, NEW c \in CPU, NEW from, NEW to, NEW l \in Lock,
           At(c, from), Moves(c, to), pc[c].intr # "none" => to # "none", Acquire(c, l),
           KeyKept(c),
           ~Needs(c, from, key[c], l),
           \A m \in Lock : Needs(c, to, key'[c], m) <=> Needs(c, from, key[c], m) \/ m = l
    PROVE  DevType' /\ CtxInv' /\ SpinInv'
<1>1. want[c] = None /\ Locks(c) = {m \in Lock : Needs(c, from, key[c], m)}
  BY LocksAt, Zenon
<1>2. Locks(c)' = {m \in Lock : Needs(c, to, key'[c], m)}
      /\ (pc'[c].intr = "none" <=> pc[c].intr = "none")
  BY LocksAfter, Zenon
<1>3. l \notin Locks(c) /\ Locks(c)' = Locks(c) \cup {l}
  BY <1>1, <1>2, Zenon
<1> QED
  BY <1>1, <1>2, <1>3, MovesRest, MovesCtx, TypeKept, AcquireKeeps, Zenon

\* A step that ends in release(l).
LEMMA ReleaseStep ==
    ASSUME Finite, DevType, CtxInv, SpinInv, NEW c \in CPU, NEW from, NEW to, NEW l \in Lock,
           At(c, from), Moves(c, to), pc[c].intr # "none" => to # "none", Release(c, l),
           KeyKept(c),
           Needs(c, from, key[c], l),
           \A m \in Lock : Needs(c, to, key'[c], m) <=> Needs(c, from, key[c], m) /\ m # l
    PROVE  DevType' /\ CtxInv' /\ SpinInv'
<1>1. want[c] = None /\ Locks(c) = {m \in Lock : Needs(c, from, key[c], m)}
  BY LocksAt, Zenon
<1>2. Locks(c)' = {m \in Lock : Needs(c, to, key'[c], m)}
      /\ (pc'[c].intr = "none" <=> pc[c].intr = "none")
  BY LocksAfter, Zenon
<1>3. l \in Locks(c) /\ Locks(c)' = Locks(c) \ {l}
  BY <1>1, <1>2, Zenon
<1> QED
  BY <1>1, <1>2, <1>3, MovesRest, MovesCtx, TypeKept, ReleaseKeeps, Zenon

\* A step inside or outside the critical sections.
LEMMA InsideStep ==
    ASSUME DevType, CtxInv, SpinInv, NEW c \in CPU, NEW from, NEW to,
           At(c, from), Moves(c, to), pc[c].intr # "none" => to # "none", UNCHANGED spinVars,
           KeyKept(c),
           \A m \in Lock : Needs(c, to, key'[c], m) <=> Needs(c, from, key[c], m)
    PROVE  DevType' /\ CtxInv' /\ SpinInv'
<1>1. Locks(c) = {m \in Lock : Needs(c, from, key[c], m)}
  BY LocksAt, Zenon
<1>2. Locks(c)' = {m \in Lock : Needs(c, to, key'[c], m)}
      /\ (pc'[c].intr = "none" <=> pc[c].intr = "none")
  BY LocksAfter, Zenon
<1>3. Locks(c)' = Locks(c)
  BY <1>1, <1>2, Zenon
<1>4. \A d \in CPU : Locks(d)' = Locks(d) /\ (pc'[d].intr = "none" <=> pc[d].intr = "none")
  BY <1>2, <1>3, MovesRest, Zenon DEF Rest
<1> QED
  BY <1>4, MovesCtx, TypeKept, SpinFrame, Zenon

-----------------------------------------------------------------------------
(* The steps of the threads *)

\* The key of c's handler is the only one that a step changes.
LEMMA KeySame == ASSUME DevType, NEW c \in CPU, UNCHANGED key PROVE KeyKept(c)
BY DEF DevType, KeyKept

\* A step of c that sets the key of its own handler leaves the others alone.
LEMMA KeySet ==
    ASSUME DevType, NEW c \in CPU, NEW k, key' = [key EXCEPT ![c] = k]
    PROVE  KeyKept(c) /\ key'[c] = k
BY Zenon DEF DevType, KeyKept

\* Steps that have nothing to do with the locks.
LEMMA ElsewhereKeeps == ASSUME Finite, LockInv, UNCHANGED <<pc, spinVars, key>> PROVE LockInv'
<1>1. /\ \A d \in CPU : Locks(d)' = Locks(d)
      /\ pc' = pc /\ key' = key /\ cpu' = cpu /\ owner' = owner /\ want' = want
  BY Zenon DEF Locks, spinVars
<1>2. DevType'
  BY <1>1, Zenon DEF LockInv, DevType
<1>3. CtxInv'
  BY <1>1, Zenon DEF LockInv, CtxInv
<1>4. SpinInv'
  BY <1>1, SpinFrame, Zenon DEF LockInv, spinVars
<1> QED
  BY <1>2, <1>3, <1>4, Zenon DEF LockInv

\* A point of the thread's code outside of critical sections, and one inside that of l.
Free(t) == \A m \in Lock : ~ThreadNeeds(t, m)
Inside(t, l) == \A m \in Lock : ThreadNeeds(t, m) <=> m = l

\* The locks around the points of the system calls' code.
LEMMA ThreadPoints ==
    /\ Free("user") /\ Free("putc")
    /\ Free("read_sleep") /\ Free("read_woken")
    /\ Inside("read", "cons") /\ Inside("read_doze", "cons")
    /\ Free("put_sleep") /\ Free("put_woken") /\ Inside("put", "uart")
    /\ Inside("start", "uart") /\ Inside("start_thr", "uart")
    /\ Inside("sync", "pr") /\ Inside("sync_thr", "pr")
    /\ Free("nap_sleep") /\ Free("nap_woken") /\ Inside("nap0", "tickslock")
    /\ Inside("nap", "tickslock") /\ Inside("nap_doze", "tickslock")
BY Zenon DEF Free, Inside, ThreadNeeds

\* A thread, outside of critical sections, takes a lock.
LEMMA ThreadAcquires ==
    ASSUME Finite, LockInv, NEW c \in CPU, NEW from \in ThreadPC \ IntrPC, NEW to \in ThreadPC,
           NEW l \in Lock, At(c, from), Goto(c, to), Acquire(c, l), UNCHANGED key,
           Free(from), Inside(to, l)
    PROVE  LockInv'
<1>1. DevType /\ CtxInv /\ SpinInv
  BY Zenon DEF LockInv
<1>2. pc[c].intr = "none"
  BY <1>1, WhoseStep, Zenon
<1>3. Moves(c, to) /\ KeyKept(c)
  BY <1>1, <1>2, GotoMoves, KeySame, Zenon
<1>4. /\ ~Needs(c, from, key[c], l)
      /\ \A m \in Lock : Needs(c, to, key'[c], m) <=> Needs(c, from, key[c], m) \/ m = l
  BY <1>2, Zenon DEF Needs, Free, Inside
<1>5. DevType' /\ CtxInv' /\ SpinInv'
  BY <1>1, <1>2, <1>3, <1>4, AcquireStep
<1> QED
  BY <1>5, Zenon DEF LockInv

\* A thread gives up its only lock.
LEMMA ThreadReleases ==
    ASSUME Finite, LockInv, NEW c \in CPU, NEW from \in ThreadPC,
           NEW to \in ThreadPC,
           pc[c].intr = "none",
           NEW l \in Lock, At(c, from), Goto(c, to), Release(c, l), UNCHANGED key,
           Inside(from, l), Free(to)
    PROVE  LockInv'
<1>1. DevType /\ CtxInv /\ SpinInv
  BY Zenon DEF LockInv
<1>3. Moves(c, to) /\ KeyKept(c)
  BY <1>1, GotoMoves, KeySame, Zenon
<1>4. /\ Needs(c, from, key[c], l)
      /\ \A m \in Lock : Needs(c, to, key'[c], m) <=> Needs(c, from, key[c], m) /\ m # l
  BY Zenon DEF Needs, Free, Inside
<1>5. DevType' /\ CtxInv' /\ SpinInv'
  BY <1>1, <1>3, <1>4, ReleaseStep
<1> QED
  BY <1>5, Zenon DEF LockInv

\* A thread stays in, or outside of, its critical section.
LEMMA ThreadStays ==
    ASSUME Finite, LockInv, NEW c \in CPU, NEW from \in ThreadPC,
           NEW to \in ThreadPC,
           pc[c].intr = "none", At(c, from), Moves(c, to), UNCHANGED <<spinVars, key>>,
           (Free(from) /\ Free(to)) \/ \E l \in Lock : Inside(from, l) /\ Inside(to, l)
    PROVE  LockInv'
<1>1. DevType /\ CtxInv /\ SpinInv
  BY Zenon DEF LockInv
<1>3. KeyKept(c)
  BY <1>1, KeySame, Zenon
<1>4. \A m \in Lock : Needs(c, to, key'[c], m) <=> Needs(c, from, key[c], m)
  BY Zenon DEF Needs, Free, Inside
<1>5. DevType' /\ CtxInv' /\ SpinInv'
  BY <1>1, <1>3, <1>4, InsideStep, Zenon
<1> QED
  BY <1>5, Zenon DEF LockInv

\* A system call takes its first lock.
LEMMA BeginKeeps == ASSUME Finite, LockInv, NEW c \in CPU, Begin(c) PROVE LockInv'
<1>0. "user" \in ThreadPC \ IntrPC /\ {"read", "put", "nap0", "sync"} \subseteq ThreadPC
      /\ {"cons", "uart", "tickslock", "pr"} \subseteq Lock
  BY SpinlockAssumption, Zenon DEF ThreadPC, IntrPC
<1>1. CASE SysRead(c)
  BY <1>0, <1>1, ThreadAcquires, ThreadPoints, Zenon DEF SysRead, SysCall, inVars
<1>2. CASE SysWrite(c)
  BY <1>0, <1>2, ThreadAcquires, ThreadPoints, Zenon DEF SysWrite, SysCall, inVars
<1>3. CASE SysSleep(c)
  BY <1>0, <1>3, ThreadAcquires, ThreadPoints, Zenon DEF SysSleep, SysCall, inVars
<1>4. CASE Printf(c)
  BY <1>0, <1>4, ThreadAcquires, ThreadPoints, Zenon DEF Printf, inVars
<1> QED
  BY <1>1, <1>2, <1>3, <1>4, Zenon DEF Begin

\* consoleread(), consolewrite() and sys_sleep() on their way.
LEMMA ThreadKeeps == ASSUME Finite, LockInv, NEW c \in CPU, Thread(c) PROVE LockInv'
<1>0. "cons" \in Lock /\ "uart" \in Lock /\ "tickslock" \in Lock
  BY SpinlockAssumption, Zenon
<1>t. /\ "read_woken" \in ThreadPC \ IntrPC /\ "put_woken" \in ThreadPC \ IntrPC
      /\ "putc" \in ThreadPC \ IntrPC /\ "nap_woken" \in ThreadPC \ IntrPC
      /\ "read" \in ThreadPC \ IntrPC /\ "read_doze" \in ThreadPC \ IntrPC
      /\ "put" \in ThreadPC \ IntrPC /\ "nap0" \in ThreadPC \ IntrPC
      /\ "nap" \in ThreadPC \ IntrPC /\ "nap_doze" \in ThreadPC \ IntrPC
      /\ "user" \in ThreadPC /\ "read_sleep" \in ThreadPC
      /\ "put_sleep" \in ThreadPC /\ "nap_sleep" \in ThreadPC
      /\ "start" \in ThreadPC
  BY DEF ThreadPC, IntrPC
<1>a. DevType
  BY Zenon DEF LockInv
<1>b. \A l \in ThreadPC \ IntrPC : At(c, l) => pc[c].intr = "none"
  BY <1>a, WhoseStep, Zenon
<1>1. CASE ReadLine(c)
  BY <1>0, <1>t, <1>1, <1>b, ThreadReleases, ThreadPoints, Zenon DEF ReadLine, Return
<1>2. CASE ReadSome(c)
  BY <1>2, ElsewhereKeeps, Zenon DEF ReadSome
<1>3. CASE ReadFault(c)
  BY <1>0, <1>t, <1>3, <1>b, ThreadReleases, ThreadPoints, Zenon DEF ReadFault, Return
<1>4. CASE ReadKilled(c)
  BY <1>0, <1>t, <1>4, <1>b, ThreadReleases, ThreadPoints, Zenon DEF ReadKilled, Return, inVars
<1>5. CASE ReadEmpty(c)
  <2>1. Moves(c, "read_doze") /\ pc[c].intr = "none"
    BY <1>0, <1>t, <1>5, <1>a, <1>b, GotoMoves, Zenon DEF ReadEmpty
  <2> QED
    BY <1>0, <1>t, <1>5, <2>1, ThreadStays, ThreadPoints, Zenon DEF ReadEmpty, inVars
<1>6. CASE ReadSleep(c)
  BY <1>0, <1>t, <1>6, <1>b, ThreadReleases, ThreadPoints, Zenon DEF ReadSleep, Doze, inVars
<1>7. CASE ReadResume(c)
  BY <1>0, <1>t, <1>7, ThreadAcquires, ThreadPoints, Zenon DEF ReadResume, Resume, inVars
<1>8. CASE PutSleep(c)
  BY <1>0, <1>t, <1>8, <1>b, ThreadReleases, ThreadPoints, Zenon DEF PutSleep, Doze, inVars
<1>9. CASE PutResume(c)
  BY <1>0, <1>t, <1>9, ThreadAcquires, ThreadPoints, Zenon DEF PutResume, Resume, inVars
<1>10. CASE Put(c)
  <2>1. Moves(c, "start") /\ pc[c].intr = "none"
    BY <1>0, <1>t, <1>10, <1>a, <1>b, GotoMoves, Zenon DEF Put
  <2> QED
    BY <1>0, <1>t, <1>10, <2>1, ThreadStays, ThreadPoints, Zenon DEF Put, inVars
<1>11. CASE WriteMore(c)
  BY <1>0, <1>t, <1>11, ThreadAcquires, ThreadPoints, Zenon DEF WriteMore, Resume, inVars
<1>12. CASE WriteFault(c)
  <2>1. Moves(c, "user") /\ pc[c].intr = "none"
    BY <1>0, <1>t, <1>12, <1>a, <1>b, GotoMoves, Zenon DEF WriteFault, Return
  <2> QED
    BY <1>0, <1>t, <1>12, <2>1, ThreadStays, ThreadPoints, Zenon DEF WriteFault, inVars
<1>13. CASE NapStart(c)
  <2>1. Moves(c, "nap") /\ pc[c].intr = "none"
    BY <1>0, <1>t, <1>13, <1>a, <1>b, GotoMoves, Zenon DEF NapStart
  <2> QED
    BY <1>0, <1>t, <1>13, <2>1, ThreadStays, ThreadPoints, Zenon DEF NapStart, inVars
<1>14. CASE NapDone(c)
  BY <1>0, <1>t, <1>14, <1>b, ThreadReleases, ThreadPoints, Zenon DEF NapDone, Return, inVars
<1>15. CASE NapWait(c)
  <2>1. Moves(c, "nap_doze") /\ pc[c].intr = "none"
    BY <1>0, <1>t, <1>15, <1>a, <1>b, GotoMoves, Zenon DEF NapWait
  <2> QED
    BY <1>0, <1>t, <1>15, <2>1, ThreadStays, ThreadPoints, Zenon DEF NapWait, inVars
<1>16. CASE NapSleep(c)
  BY <1>0, <1>t, <1>16, <1>b, ThreadReleases, ThreadPoints, Zenon DEF NapSleep, Doze, inVars
<1>17. CASE NapResume(c)
  BY <1>0, <1>t, <1>17, ThreadAcquires, ThreadPoints, Zenon DEF NapResume, Resume, inVars
<1> QED
  BY <1>1, <1>2, <1>3, <1>4, <1>5, <1>6, <1>7, <1>8, <1>9, <1>10, <1>11, <1>12, <1>13,
     <1>14, <1>15, <1>16, <1>17, ZenonT(60) DEF Thread

-----------------------------------------------------------------------------
(* The steps of the interrupt handlers, and those of either context *)

\* A handler takes a lock.
LEMMA HandlerAcquires ==
    ASSUME Finite, LockInv, NEW c \in CPU, NEW from, NEW to \in IntrPC \ {"none"},
           NEW l \in Lock, pc[c].intr # "none", At(c, from), Goto(c, to), Acquire(c, l), KeyKept(c),
           ~IntrNeeds(from, key[c], l),
           \A m \in Lock : IntrNeeds(to, key'[c], m) <=> IntrNeeds(from, key[c], m) \/ m = l
    PROVE  LockInv'
<1>1. DevType /\ CtxInv /\ SpinInv
  BY Zenon DEF LockInv
<1>2. Moves(c, to)
  BY <1>1, GotoMoves, Zenon
<1>3. /\ ~Needs(c, from, key[c], l)
      /\ \A m \in Lock : Needs(c, to, key'[c], m) <=> Needs(c, from, key[c], m) \/ m = l
  BY Zenon DEF Needs
<1>4. DevType' /\ CtxInv' /\ SpinInv'
  BY <1>1, <1>2, <1>3, AcquireStep, ZenonT(60)
<1> QED
  BY <1>4, Zenon DEF LockInv

\* A handler gives up a lock.
LEMMA HandlerReleases ==
    ASSUME Finite, LockInv, NEW c \in CPU, NEW from, NEW to \in IntrPC \ {"none"},
           NEW l \in Lock, pc[c].intr # "none", At(c, from), Moves(c, to),
           Release(c, l), KeyKept(c), IntrNeeds(from, key[c], l),
           \A m \in Lock : IntrNeeds(to, key'[c], m) <=> IntrNeeds(from, key[c], m) /\ m # l
    PROVE  LockInv'
<1>1. DevType /\ CtxInv /\ SpinInv
  BY Zenon DEF LockInv
<1>3. /\ Needs(c, from, key[c], l)
      /\ \A m \in Lock : Needs(c, to, key'[c], m) <=> Needs(c, from, key[c], m) /\ m # l
  BY Zenon DEF Needs
<1>4. DevType' /\ CtxInv' /\ SpinInv'
  BY <1>1, <1>3, ReleaseStep, Zenon
<1> QED
  BY <1>4, Zenon DEF LockInv

\* A handler stays in its critical sections.
LEMMA HandlerStays ==
    ASSUME Finite, LockInv, NEW c \in CPU, NEW from, NEW to \in IntrPC \ {"none"},
           pc[c].intr # "none", At(c, from), Moves(c, to), UNCHANGED <<spinVars, key>>,
           \A m \in Lock : IntrNeeds(to, key[c], m) <=> IntrNeeds(from, key[c], m)
    PROVE  LockInv'
<1>1. DevType /\ CtxInv /\ SpinInv
  BY Zenon DEF LockInv
<1>2. KeyKept(c)
  BY <1>1, KeySame, Zenon
<1>3. \A m \in Lock : Needs(c, to, key'[c], m) <=> Needs(c, from, key[c], m)
  BY Zenon DEF Needs
<1>4. DevType' /\ CtxInv' /\ SpinInv'
  BY <1>1, <1>2, <1>3, InsideStep, Zenon
<1> QED
  BY <1>4, Zenon DEF LockInv

\* The locks around the points of the handlers' code.
LEMMA HandlerPoints ==
    \A k, m : /\ ~IntrNeeds("getc", k, m) /\ ~IntrNeeds("complete", k, m)
              /\ IntrNeeds("key", k, m) <=> m = "cons"
              /\ IntrNeeds("keyed", k, m) <=> m = "cons"
              /\ IntrNeeds("sync", k, m) <=> m = "cons" \/ (m = "pr" /\ k = "dump")
              /\ IntrNeeds("sync_thr", k, m) <=> m = "cons" \/ (m = "pr" /\ k = "dump")
              /\ IntrNeeds("start", k, m) <=> m = "uart"
              /\ IntrNeeds("start_thr", k, m) <=> m = "uart"
              /\ IntrNeeds("clock", k, m) <=> m = "tickslock"
BY DEF IntrNeeds

\* uartintr(): a key, or none.
LEMMA GetcKeeps == ASSUME Finite, LockInv, NEW c \in CPU, Getc(c) \/ GetcNone(c) PROVE LockInv'
<1>0. /\ "cons" \in Lock /\ "uart" \in Lock /\ DevType
      /\ "key" \in IntrPC \ {"none"} /\ "start" \in IntrPC \ {"none"} /\ "getc" \notin ThreadPC
  BY SpinlockAssumption, Zenon DEF IntrPC, ThreadPC, LockInv
<1>1. CASE Getc(c)
  <2>1. At(c, "getc") /\ Goto(c, "key") /\ Acquire(c, "cons") /\ key' = [key EXCEPT ![c] = rhr]
    BY <1>1, Zenon DEF Getc
  <2>2. KeyKept(c) /\ pc[c].intr # "none"
    BY <1>0, <2>1, KeySet, WhoseStep, Zenon
  <2> QED
    BY <1>0, <2>1, <2>2, HandlerPoints, HandlerAcquires
<1>2. CASE GetcNone(c)
  <2>1. At(c, "getc") /\ Goto(c, "start") /\ Acquire(c, "uart") /\ key' = key
    BY <1>2, Zenon DEF GetcNone, Resume, inVars
  <2>2. KeyKept(c) /\ pc[c].intr # "none"
    BY <1>0, <2>1, KeySame, WhoseStep, Zenon
  <2> QED
    BY <1>0, <2>1, <2>2, HandlerPoints, HandlerAcquires
<1> QED
  BY <1>1, <1>2, Zenon

\* consoleintr() before and after its echo.
LEMMA ConsoleIntrKeeps == ASSUME Finite, LockInv, NEW c \in CPU, ConsoleIntr(c) PROVE LockInv'
<1>0. /\ "pr" \in Lock /\ "pr" # "cons" /\ DevType
      /\ "sync" \in IntrPC \ {"none"} /\ "key" \notin ThreadPC
  BY SpinlockAssumption, Zenon DEF IntrPC, ThreadPC, LockInv
<1>1. /\ At(c, "key") /\ Goto(c, "sync") /\ key' = key
      /\ IF key[c] = "dump" THEN Acquire(c, "pr") ELSE UNCHANGED spinVars
  BY Zenon DEF ConsoleIntr, inVars
<1>2. KeyKept(c) /\ pc[c].intr # "none" /\ Moves(c, "sync")
  BY <1>0, <1>1, KeySame, WhoseStep, GotoMoves, Zenon
<1>3. CASE key[c] = "dump"
  <2>1. /\ ~IntrNeeds("key", key[c], "pr")
        /\ \A m \in Lock : IntrNeeds("sync", key'[c], m) <=> IntrNeeds("key", key[c], m) \/ m = "pr"
    BY <1>0, <1>1, <1>3, HandlerPoints, Zenon
  <2> QED
    BY <1>0, <1>1, <1>2, <1>3, <2>1, HandlerAcquires
<1>4. CASE key[c] # "dump"
  <2>1. \A m \in Lock : IntrNeeds("sync", key[c], m) <=> IntrNeeds("key", key[c], m)
    BY <1>4, HandlerPoints, Zenon
  <2> QED
    BY <1>0, <1>1, <1>2, <1>4, <2>1, HandlerStays, Zenon
<1> QED
  BY <1>3, <1>4, Zenon

\* consoleintr() ends, and with it the critical section of cons.lock.
LEMMA KeyDoneKeeps == ASSUME Finite, LockInv, NEW c \in CPU, KeyDone(c) PROVE LockInv'
<1>0. /\ "cons" \in Lock /\ DevType
      /\ "getc" \in IntrPC \ {"none"} /\ "keyed" \notin ThreadPC /\ "read_woken" \in ThreadPC
      /\ Woken("read_sleep", "read_woken")
  BY SpinlockAssumption, Zenon DEF IntrPC, ThreadPC, LockInv, Woken
<1>1. /\ At(c, "keyed") /\ Release(c, "cons") /\ key' = [key EXCEPT ![c] = None]
      /\ Wake("read_sleep", "read_woken", c, "getc") \/ Goto(c, "getc")
  BY Zenon DEF KeyDone
<1>2. KeyKept(c) /\ pc[c].intr # "none"
  BY <1>0, <1>1, KeySet, WhoseStep, Zenon
<1>3. Moves(c, "getc")
  BY <1>0, <1>1, <1>2, GotoMoves, WakeMoves, Zenon
<1>4. /\ IntrNeeds("keyed", key[c], "cons")
      /\ \A m \in Lock : IntrNeeds("getc", key'[c], m)
                          <=> IntrNeeds("keyed", key[c], m) /\ m # "cons"
  BY HandlerPoints, Zenon
<1> QED
  BY <1>0, <1>1, <1>2, <1>3, <1>4, HandlerReleases

\* A step between two points of either context that need the same locks.
LEMMA EitherStays ==
    ASSUME Finite, LockInv, NEW c \in CPU, NEW from \in ThreadPC,
           NEW to \in (ThreadPC \cap IntrPC) \ {"none"},
           NEW l \in Lock, At(c, from), Moves(c, to), UNCHANGED <<spinVars, key>>,
           Inside(from, l), Inside(to, l),
           \A m \in Lock : IntrNeeds(to, key[c], m) <=> IntrNeeds(from, key[c], m)
    PROVE  LockInv'
<1>1. CASE pc[c].intr = "none"
  BY <1>1, ThreadStays, Zenon
<1>2. CASE pc[c].intr # "none"
  BY <1>2, HandlerStays, Zenon
<1> QED
  BY <1>1, <1>2, Zenon

\* uartputc_sync() and uartstart(), up to their ends.
LEMMA UartKeeps ==
    ASSUME Finite, LockInv, NEW c \in CPU, SyncIdle(c) \/ SyncPut(c) \/ StartTake(c) \/ StartPut(c)
    PROVE  LockInv'
<1>0. /\ "uart" \in Lock /\ "pr" \in Lock /\ DevType
      /\ "put_woken" \in ThreadPC /\ Woken("put_sleep", "put_woken")
      /\ "sync" \in (ThreadPC \cap IntrPC) \ {"none"}
      /\ "sync_thr" \in (ThreadPC \cap IntrPC) \ {"none"}
      /\ "start" \in (ThreadPC \cap IntrPC) \ {"none"}
      /\ "start_thr" \in (ThreadPC \cap IntrPC) \ {"none"}
  BY SpinlockAssumption, Zenon DEF IntrPC, ThreadPC, LockInv, Woken
<1>1. CASE SyncIdle(c)
  <2>1. At(c, "sync") /\ Goto(c, "sync_thr") /\ UNCHANGED <<spinVars, key>>
    BY <1>1 DEF SyncIdle, inVars
  <2>2. Moves(c, "sync_thr")
    BY <1>0, <2>1, GotoMoves, Zenon
  <2> QED
    BY <1>0, <2>1, <2>2, ThreadPoints, HandlerPoints, EitherStays, Zenon
<1>2. CASE SyncPut(c)
  <2>1. At(c, "sync_thr") /\ Goto(c, "sync") /\ UNCHANGED <<spinVars, key>>
    BY <1>2, Zenon DEF SyncPut, inVars
  <2>2. Moves(c, "sync")
    BY <1>0, <2>1, GotoMoves, Zenon
  <2> QED
    BY <1>0, <2>1, <2>2, ThreadPoints, HandlerPoints, EitherStays, Zenon
<1>3. CASE StartTake(c)
  <2>1. At(c, "start") /\ Wake("put_sleep", "put_woken", c, "start_thr")
        /\ UNCHANGED <<spinVars, key>>
    BY <1>3, Zenon DEF StartTake, inVars
  <2>2. Moves(c, "start_thr")
    BY <1>0, <2>1, WakeMoves, Zenon
  <2> QED
    BY <1>0, <2>1, <2>2, ThreadPoints, HandlerPoints, EitherStays
<1>4. CASE StartPut(c)
  <2>1. At(c, "start_thr") /\ Goto(c, "start") /\ UNCHANGED <<spinVars, key>>
    BY <1>4, Zenon DEF StartPut, inVars
  <2>2. Moves(c, "start")
    BY <1>0, <2>1, GotoMoves, Zenon
  <2> QED
    BY <1>0, <2>1, <2>2, ThreadPoints, HandlerPoints, EitherStays, Zenon
<1> QED
  BY <1>1, <1>2, <1>3, <1>4, Zenon

\* uartstart() ends, and with it the critical section of uart_tx_lock.
LEMMA StartDoneKeeps == ASSUME Finite, LockInv, NEW c \in CPU, StartDone(c) PROVE LockInv'
<1>0. /\ "uart" \in Lock /\ DevType /\ "complete" \in IntrPC \ {"none"}
      /\ "start" \in ThreadPC /\ "user" \in ThreadPC /\ "putc" \in ThreadPC
  BY SpinlockAssumption DEF IntrPC, ThreadPC, LockInv
<1>1. At(c, "start") /\ Release(c, "uart") /\ key' = key
  BY Zenon DEF StartDone, inVars
<1>2. KeyKept(c)
  BY <1>0, <1>1, KeySame, Zenon
<1>3. CASE pc[c].intr = "none"
  <2>1. Goto(c, "user") \/ Goto(c, "putc")
    BY <1>3, Zenon DEF StartDone, Ctx, Return
  <2> QED
    BY <1>0, <1>1, <1>3, <2>1, ThreadPoints, ThreadReleases, Zenon
<1>4. CASE pc[c].intr # "none"
  <2>1. Goto(c, "complete")
    BY <1>4, Zenon DEF StartDone, Ctx
  <2>2. Moves(c, "complete")
    BY <1>0, <1>4, <2>1, GotoMoves, Zenon
  <2> QED
    BY <1>0, <1>1, <1>2, <1>4, <2>2, HandlerPoints, HandlerReleases
<1> QED
  BY <1>3, <1>4, Zenon

\* uartputc_sync() has sent everything: pr.lock is released if it was taken.
LEMMA SyncDoneKeeps == ASSUME Finite, LockInv, NEW c \in CPU, SyncDone(c) PROVE LockInv'
<1>0. /\ "pr" \in Lock /\ "pr" # "cons" /\ DevType /\ CtxInv /\ SpinInv
      /\ "keyed" \in IntrPC \ {"none"} /\ "sync" \in ThreadPC /\ "user" \in ThreadPC
  BY SpinlockAssumption, Zenon DEF IntrPC, ThreadPC, LockInv
<1>1. /\ At(c, "sync") /\ key' = key
      /\ IF owner["pr"] = c THEN Release(c, "pr") ELSE UNCHANGED spinVars
  BY Zenon DEF SyncDone, inVars
<1>2. KeyKept(c) /\ want[c] = None /\ Locks(c) = {l \in Lock : Needs(c, "sync", key[c], l)}
  BY <1>0, <1>1, KeySame, LocksAt, Zenon
<1>3. owner["pr"] = c <=> Needs(c, "sync", key[c], "pr")
  BY <1>0, <1>2, SpinlockAssumption DEF SpinInv
<1>4. CASE pc[c].intr = "none"
  <2>1. Goto(c, "user")
    BY <1>4, Zenon DEF SyncDone, Ctx
  <2>2. Release(c, "pr")
    BY <1>0, <1>1, <1>3, <1>4, ThreadPoints, Zenon DEF Needs, Inside
  <2> QED
    BY <1>0, <1>1, <1>4, <2>1, <2>2, ThreadPoints, ThreadReleases, Zenon
<1>5. CASE pc[c].intr # "none"
  <2>1. Goto(c, "keyed")
    BY <1>5, Zenon DEF SyncDone, Ctx
  <2>2. Moves(c, "keyed")
    BY <1>0, <1>5, <2>1, GotoMoves, Zenon
  <2>3. owner["pr"] = c <=> key[c] = "dump"
    BY <1>0, <1>3, <1>5, HandlerPoints, Zenon DEF Needs
  <2>4. CASE key[c] = "dump"
    BY <1>0, <1>1, <1>2, <1>5, <2>2, <2>3, <2>4, HandlerPoints, HandlerReleases
  <2>5. CASE key[c] # "dump"
    BY <1>0, <1>1, <1>2, <1>5, <2>2, <2>3, <2>5, HandlerPoints, HandlerStays, ZenonT(60)
  <2> QED
    BY <2>4, <2>5
<1> QED
  BY <1>4, <1>5

-----------------------------------------------------------------------------
(* Entering and leaving the handlers *)

\* Of a step of c, only c's own part of the invariant needs a proof.
LEMMA OwnPart ==
    ASSUME DevType, SpinInv, NEW c \in CPU, Rest(c),
           \A d \in CPU \ {c} : /\ cpu'[d] = cpu[d] /\ want'[d] = want[d]
                                /\ \A l \in Lock : owner'[l] = d <=> owner[l] = d,
           \A l \in Lock : owner'[l] = c \/ want'[c] = l <=> l \in Locks(c)',
           want'[c] # None => owner'[want'[c]] # c,
           cpu'[c].noff = Cardinality(Locks(c)'),
           cpu'[c].sie <=> Locks(c)' = {} /\ pc'[c].intr = "none",
           Locks(c)' # {} => (cpu'[c].intena <=> pc'[c].intr = "none")
    PROVE  SpinInv'
<1>1. \A d \in CPU \ {c} : want[d] # None => want[d] \in Lock /\ owner[want[d]] # d
  BY DEF DevType, SpinInv
<1>2. \A d \in CPU \ {c} : want'[d] # None => owner'[want'[d]] # d
  BY <1>1
<1>3. \A d \in CPU \ {c} : \A l \in Lock : owner'[l] = d \/ want'[d] = l <=> l \in Locks(d)'
  BY DEF SpinInv, Rest
<1>4. \A d \in CPU \ {c} :
         /\ cpu'[d].noff = Cardinality(Locks(d)')
         /\ cpu'[d].sie <=> Locks(d)' = {} /\ pc'[d].intr = "none"
         /\ Locks(d)' # {} => (cpu'[d].intena <=> pc'[d].intr = "none")
  BY DEF SpinInv, Rest
<1>5. SUFFICES ASSUME NEW d \in CPU
               PROVE  /\ \A l \in Lock : owner'[l] = d \/ want'[d] = l <=> l \in Locks(d)'
                      /\ want'[d] # None => owner'[want'[d]] # d
                      /\ cpu'[d].noff = Cardinality(Locks(d)')
                      /\ cpu'[d].sie <=> Locks(d)' = {} /\ pc'[d].intr = "none"
                      /\ Locks(d)' # {} => (cpu'[d].intena <=> pc'[d].intr = "none")
  BY Zenon DEF SpinInv
<1>6. CASE d = c
  BY <1>6, Zenon
<1>7. CASE d # c
  BY <1>2, <1>3, <1>4, <1>7, Zenon
<1> QED
  BY <1>6, <1>7, Zenon

\* A CPU that takes an interrupt holds no lock and waits for none.
LEMMA TrapFinds ==
    ASSUME Finite, LockInv, NEW c \in CPU, cpu[c].sie
    PROVE  /\ Locks(c) = {} /\ cpu[c].noff = 0 /\ want[c] = None
           /\ \A l \in Lock : owner[l] # c /\ ~ThreadNeeds(pc[c].thread, l)
<1>1. Locks(c) = {}
  BY Zenon DEF LockInv, SpinInv
<1>2. cpu[c].noff = 0
  BY <1>1, OneLock, Zenon DEF LockInv, SpinInv
<1>3. want[c] = None /\ \A l \in Lock : owner[l] # c
  BY <1>1 DEF LockInv, SpinInv, DevType
<1>4. \A l \in Lock : ~ThreadNeeds(pc[c].thread, l)
  BY <1>1 DEF Locks
<1> QED
  BY <1>1, <1>2, <1>3, <1>4, Zenon

\* The UART's interrupt is taken.
LEMMA UartTrapKeeps == ASSUME Finite, LockInv, NEW c \in CPU, UartTrap(c) PROVE LockInv'
<1>0. DevType /\ CtxInv /\ SpinInv
  BY Zenon DEF LockInv
<1>1. /\ cpu[c].sie /\ pc[c].intr = "none" /\ pc' = [pc EXCEPT ![c].intr = "getc"]
      /\ cpu' = [cpu EXCEPT ![c] = Trap(cpu[c])] /\ owner' = owner /\ want' = want /\ key' = key
  BY Zenon DEF UartTrap, inVars
<1>2. /\ pc \in [CPU -> [thread : ThreadPC, intr : IntrPC]] /\ cpu \in [CPU -> CpuRec]
      /\ "getc" \in IntrPC
  BY <1>0, Zenon DEF DevType, IntrPC
<1>3. pc' \in [CPU -> [thread : ThreadPC, intr : IntrPC]]
  BY <1>1, <1>2, Zenon
<1>4. /\ pc'[c].intr = "getc" /\ pc'[c].thread = pc[c].thread
      /\ \A d \in CPU \ {c} : pc'[d] = pc[d]
  BY <1>1, <1>2, Zenon
<1>6. Trap(cpu[c]) \in CpuRec
  BY <1>2, SieType, Zenon
<1>7. cpu' \in [CPU -> CpuRec]
  BY <1>1, <1>2, <1>6, Zenon
<1>8. cpu'[c].sie = FALSE /\ cpu'[c].noff = cpu[c].noff /\ \A d \in CPU \ {c} : cpu'[d] = cpu[d]
  BY <1>1, <1>2, Zenon DEF Trap, CpuRec
<1>9. Rest(c)
  BY <1>1, <1>4, Zenon DEF Rest, Locks
<1>10. Locks(c)' = {}
  BY <1>1, <1>4, TrapFinds, HandlerPoints DEF Locks
<1>11. SpinInv'
  <2>1. /\ \A l \in Lock : owner'[l] = c \/ want'[c] = l <=> l \in Locks(c)'
        /\ want'[c] # None => owner'[want'[c]] # c
    BY <1>1, <1>10, TrapFinds, SpinlockAssumption
  <2>2. cpu'[c].noff = Cardinality(Locks(c)')
    BY <1>1, <1>8, <1>10, TrapFinds, OneLock, Zenon
  <2> QED
    BY <1>0, <1>1, <1>4, <1>8, <1>9, <1>10, <2>1, <2>2, OwnPart, Zenon
<1>12. CtxInv'
  BY <1>0, <1>1, <1>4, TrapFinds DEF CtxInv
<1> QED
  BY <1>0, <1>1, <1>3, <1>7, <1>11, <1>12 DEF LockInv, DevType

\* plic_complete() and the return from the interrupt.
LEMMA CompleteKeeps == ASSUME Finite, LockInv, NEW c \in CPU, Complete(c) PROVE LockInv'
<1>0. DevType /\ CtxInv /\ SpinInv
  BY DEF LockInv
<1>1. /\ At(c, "complete") /\ Goto(c, "none") /\ cpu' = [cpu EXCEPT ![c] = Sret(cpu[c])]
      /\ owner' = owner /\ want' = want /\ key' = key
  BY Zenon DEF Complete, inVars
<1>2. /\ pc \in [CPU -> [thread : ThreadPC, intr : IntrPC]] /\ cpu \in [CPU -> CpuRec]
      /\ "none" \in IntrPC /\ "complete" \notin ThreadPC
  BY <1>0, Zenon DEF DevType, IntrPC, ThreadPC
<1>3. pc[c].intr # "none" /\ want[c] = None /\ Locks(c) = {}
  BY <1>0, <1>1, <1>2, WhoseStep, LocksAt, HandlerPoints DEF Needs
<1>4. /\ pc' = [pc EXCEPT ![c].intr = "none"]
      /\ pc' \in [CPU -> [thread : ThreadPC, intr : IntrPC]]
      /\ pc'[c].intr = "none" /\ pc'[c].thread = pc[c].thread
      /\ \A d \in CPU \ {c} : pc'[d] = pc[d]
  BY <1>1, <1>2, <1>3, Zenon DEF Goto, Ctx
<1>6. Sret(cpu[c]) \in CpuRec
  BY <1>2, SieType, Zenon
<1>7. cpu' \in [CPU -> CpuRec]
  BY <1>1, <1>2, <1>6, Zenon
<1>8. cpu'[c].sie = TRUE /\ cpu'[c].noff = cpu[c].noff /\ \A d \in CPU \ {c} : cpu'[d] = cpu[d]
  BY <1>1, <1>2 DEF Sret, CpuRec
<1>9. Rest(c)
  BY <1>1, <1>4, Zenon DEF Rest, Locks
<1>10. Locks(c)' = {}
  BY <1>0, <1>1, <1>3, <1>4, Zenon DEF Locks, CtxInv, IntrNeeds
<1>11. SpinInv'
  <2>1. /\ \A l \in Lock : owner'[l] = c \/ want'[c] = l <=> l \in Locks(c)'
        /\ want'[c] # None => owner'[want'[c]] # c
    BY <1>0, <1>1, <1>3, <1>10, ZenonT(60) DEF SpinInv
  <2>2. cpu[c].noff = Cardinality(Locks(c))
    BY <1>0, Zenon DEF SpinInv
  <2>3. cpu'[c].noff = Cardinality(Locks(c)')
    BY <1>3, <1>8, <1>10, <2>2, Zenon
  <2> QED
    BY <1>0, <1>1, <1>4, <1>8, <1>9, <1>10, <2>1, <2>3, OwnPart, Zenon
<1>12. CtxInv'
  BY <1>0, <1>4, Zenon DEF CtxInv
<1> QED
  BY <1>0, <1>1, <1>4, <1>7, <1>11, <1>12, ZenonT(60) DEF LockInv, DevType

\* The timer of hart 0 interrupts, and clockintr() calls acquire().
LEMMA TimerTrapKeeps == ASSUME Finite, LockInv, NEW c \in CPU, TimerTrap(c) PROVE LockInv'
<1>0. DevType /\ CtxInv /\ SpinInv
  BY DEF LockInv
<1>1. /\ cpu[c].sie /\ pc[c].intr = "none" /\ pc' = [pc EXCEPT ![c].intr = "clock"]
      /\ cpu' = [cpu EXCEPT ![c] = PushOff(Trap(cpu[c]))]
      /\ want' = [want EXCEPT ![c] = "tickslock"] /\ owner' = owner /\ key' = key
  BY Zenon DEF TimerTrap, inVars
<1>2. /\ pc \in [CPU -> [thread : ThreadPC, intr : IntrPC]] /\ cpu \in [CPU -> CpuRec]
      /\ want \in [CPU -> Lock \cup {None}] /\ "clock" \in IntrPC /\ "tickslock" \in Lock
  BY <1>0, SpinlockAssumption, Zenon DEF DevType, IntrPC
<1>3. /\ pc' \in [CPU -> [thread : ThreadPC, intr : IntrPC]]
      /\ want' \in [CPU -> Lock \cup {None}]
  BY <1>1, <1>2, Zenon
<1>4. /\ pc'[c].intr = "clock" /\ pc'[c].thread = pc[c].thread /\ want'[c] = "tickslock"
      /\ \A d \in CPU \ {c} : pc'[d] = pc[d] /\ want'[d] = want[d]
  BY <1>1, <1>2, Zenon
<1>5. PushOff(Trap(cpu[c])) \in CpuRec
  BY <1>2, SieType, PushPopType, Zenon
<1>6. cpu' \in [CPU -> CpuRec] /\ \A d \in CPU \ {c} : cpu'[d] = cpu[d]
  BY <1>1, <1>2, <1>5, Zenon
<1>7. cpu'[c].sie = FALSE /\ cpu'[c].noff = 1 /\ cpu'[c].intena = FALSE
  <2>1. Trap(cpu[c]).sie = FALSE /\ Trap(cpu[c]).noff = 0
    BY <1>1, <1>2, TrapFinds DEF Trap, CpuRec
  <2> QED
    BY <1>1, <1>2, <2>1 DEF PushOff
<1>8. Rest(c)
  BY <1>1, <1>4, Zenon DEF Rest, Locks
<1>9. Locks(c)' = {"tickslock"}
  BY <1>1, <1>2, <1>4, TrapFinds, HandlerPoints DEF Locks
<1>10. SpinInv'
  <2>1. /\ \A l \in Lock : owner'[l] = c \/ want'[c] = l <=> l \in Locks(c)'
        /\ want'[c] # None => owner'[want'[c]] # c
    BY <1>1, <1>2, <1>4, <1>9, TrapFinds
  <2>2. cpu'[c].noff = Cardinality(Locks(c)')
    BY <1>7, <1>9, OneLock
  <2> QED
    BY <1>0, <1>1, <1>4, <1>6, <1>7, <1>8, <1>9, <2>1, <2>2, OwnPart, ZenonT(60)
<1>11. CtxInv'
  BY <1>0, <1>1, <1>4, TrapFinds DEF CtxInv
<1> QED
  BY <1>0, <1>1, <1>3, <1>6, <1>10, <1>11, ZenonT(60) DEF LockInv, DevType

\* clockintr() advances ticks, releases its lock and returns.
LEMMA ClockIntrKeeps == ASSUME Finite, LockInv, NEW c \in CPU, ClockIntr(c) PROVE LockInv'
<1>0. DevType /\ CtxInv /\ SpinInv
  BY DEF LockInv
<1>1. /\ At(c, "clock") /\ Wake("nap_sleep", "nap_woken", c, "none")
      /\ owner' = [owner EXCEPT !["tickslock"] = None]
      /\ cpu' = [cpu EXCEPT ![c] = Sret(PopOff(cpu[c]))] /\ want' = want /\ key' = key
  BY Zenon DEF ClockIntr, inVars
<1>2. /\ pc \in [CPU -> [thread : ThreadPC, intr : IntrPC]] /\ cpu \in [CPU -> CpuRec]
      /\ owner \in [Lock -> CPU \cup {None}] /\ "none" \in IntrPC /\ "clock" \notin ThreadPC
      /\ "tickslock" \in Lock /\ "nap_woken" \in ThreadPC /\ Woken("nap_sleep", "nap_woken")
  BY <1>0, SpinlockAssumption, Zenon DEF DevType, IntrPC, ThreadPC, Woken
<1>3. pc[c].intr # "none" /\ want[c] = None /\ Locks(c) = {"tickslock"}
  BY <1>0, <1>1, <1>2, WhoseStep, LocksAt, HandlerPoints DEF Needs
<1>4. Moves(c, "none")
  BY <1>0, <1>1, <1>2, <1>3, WakeMoves, Zenon
<1>5. owner["tickslock"] = c
  BY <1>0, <1>2, <1>3, SpinlockAssumption DEF SpinInv
<1>6. /\ owner' \in [Lock -> CPU \cup {None}] /\ owner'["tickslock"] = None
      /\ \A l \in Lock \ {"tickslock"} : owner'[l] = owner[l]
  BY <1>1, <1>2, Zenon
<1>7. Sret(PopOff(cpu[c])) \in CpuRec
  BY <1>2, SieType, PushPopType, Zenon
<1>8. cpu' \in [CPU -> CpuRec] /\ \A d \in CPU \ {c} : cpu'[d] = cpu[d]
  BY <1>1, <1>2, <1>7, Zenon
<1>9. cpu[c].noff = 1
  <2>1. cpu[c].noff = Cardinality(Locks(c))
    BY <1>0 DEF SpinInv
  <2> QED
    BY <1>3, <2>1, OneLock, Zenon
<1>10. cpu'[c].sie = TRUE /\ cpu'[c].noff = 0
  <2>1. PopOff(cpu[c]) \in CpuRec /\ PopOff(cpu[c]).noff = 0
    BY <1>2, <1>9, PushPopType, PopNoff
  <2> QED
    BY <1>1, <1>2, <2>1 DEF Sret, CpuRec
<1>11. Rest(c)
  BY <1>0, <1>1, <1>4, KeySame, MovesRest
<1>12. Locks(c)' = {} /\ pc'[c].intr = "none"
  <2>1. pc'[c].intr = "none" /\ \A l \in Lock : ~ThreadNeeds(pc'[c].thread, l)
    BY <1>0, <1>3, <1>4, Zenon DEF Moves, CtxInv, Woken, ThreadNeeds
  <2> QED
    BY <2>1, Zenon DEF Locks, IntrNeeds
<1>13. SpinInv'
  <2>1. \A d \in CPU \ {c} : \A l \in Lock : owner'[l] = d <=> owner[l] = d
    BY <1>2, <1>5, <1>6, SpinlockAssumption, Zenon
  <2>2. \A l \in Lock : owner[l] = c => l = "tickslock"
    BY <1>0, <1>3, Zenon DEF SpinInv
  <2>3. /\ \A l \in Lock : owner'[l] = c \/ want'[c] = l <=> l \in Locks(c)'
        /\ want'[c] # None => owner'[want'[c]] # c
    BY <1>1, <1>3, <1>6, <1>12, <2>2, SpinlockAssumption, Zenon
  <2>4. cpu'[c].noff = Cardinality(Locks(c)')
    BY <1>10, <1>12, OneLock, Zenon
  <2> QED
    BY <1>0, <1>1, <1>8, <1>10, <1>11, <1>12, <2>1, <2>3, <2>4, OwnPart, Zenon
<1>14. CtxInv'
  <2>1. \A d \in CPU \ {c} : pc'[d].intr # "none" =>
           \A l \in Lock : ~ThreadNeeds(pc'[d].thread, l)
    BY <1>0, <1>4 DEF Moves, CtxInv, Woken, ThreadNeeds
  <2> QED
    BY <1>12, <2>1, Zenon DEF CtxInv
<1> QED
  BY <1>0, <1>1, <1>4, <1>6, <1>8, <1>13, <1>14, Zenon DEF LockInv, DevType, Moves

-----------------------------------------------------------------------------
(* All steps *)

\* Waking threads up, as kill() does, does not change what they hold.
LEMMA KillKeeps == ASSUME Finite, LockInv, NEW c \in CPU, Kill(c) PROVE LockInv'
<1>0. DevType /\ CtxInv /\ SpinInv
  BY DEF LockInv
<1>1. UNCHANGED <<spinVars, key>>
  BY Zenon DEF Kill, inVars
<1>2. /\ pc \in [CPU -> [thread : ThreadPC, intr : IntrPC]]
      /\ "read_woken" \in ThreadPC /\ "put_woken" \in ThreadPC /\ "nap_woken" \in ThreadPC
  BY <1>0, Zenon DEF DevType, ThreadPC
<1>3. PICK t \in ThreadPC : Woken(pc[c].thread, t) /\ pc' = [pc EXCEPT ![c].thread = t]
  <2> DEFINE s == pc[c].thread
             t == CASE s = "read_sleep" -> "read_woken"
                    [] s = "put_sleep" -> "put_woken"
                    [] s = "nap_sleep" -> "nap_woken"
                    [] OTHER -> s
  <2>1. t \in ThreadPC /\ Woken(s, t)
    BY <1>2, Zenon DEF Woken
  <2>2. pc' = [pc EXCEPT ![c].thread = t]
    BY Zenon DEF Kill
  <2> QED
    BY <2>1, <2>2, Zenon
<1>4. /\ pc' \in [CPU -> [thread : ThreadPC, intr : IntrPC]]
      /\ \A d \in CPU : pc'[d].intr = pc[d].intr /\ Woken(pc[d].thread, pc'[d].thread)
  BY <1>2, <1>3, Zenon DEF Woken
<1>5. \A d \in CPU, l \in Lock : ThreadNeeds(pc'[d].thread, l) <=> ThreadNeeds(pc[d].thread, l)
  BY <1>4 DEF Woken, ThreadNeeds
<1>6. \A d \in CPU : Locks(d)' = Locks(d)
  BY <1>1, <1>4, <1>5, Zenon DEF Locks
<1>7. SpinInv'
  BY <1>0, <1>1, <1>4, <1>6, SpinFrame, Zenon
<1>8. CtxInv'
  BY <1>0, <1>4, <1>5, Zenon DEF CtxInv
<1>9. DevType'
  BY <1>0, <1>1, <1>4, Zenon DEF DevType, spinVars
<1> QED
  BY <1>7, <1>8, <1>9, Zenon DEF LockInv

\* acquire() succeeds.
LEMMA SpinStep == ASSUME Finite, LockInv, NEW c \in CPU, Spin(c) PROVE LockInv'
<1>0. DevType /\ CtxInv /\ SpinInv
  BY DEF LockInv
<1>1. TestAndSet(c) /\ UNCHANGED <<pc, key>>
  BY Zenon DEF Spin, inVars
<1>2. SpinInv'
  BY <1>0, <1>1, SpinKeeps, Zenon
<1>3. CtxInv'
  BY <1>0, <1>1, Zenon DEF CtxInv
<1>4. DevType'
  BY <1>0, <1>1, Zenon DEF DevType, TestAndSet
<1> QED
  BY <1>2, <1>3, <1>4, Zenon DEF LockInv

\* The steps of the interrupt handlers.
LEMMA HandlerKeeps == ASSUME Finite, LockInv, NEW c \in CPU, Handler(c) PROVE LockInv'
BY UartTrapKeeps, GetcKeeps, CompleteKeeps, ConsoleIntrKeeps, KeyDoneKeeps, ClockIntrKeeps, Zenon
   DEF Handler

\* The steps that threads and handlers share.
LEMMA CommonKeeps == ASSUME Finite, LockInv, NEW c \in CPU, Common(c) PROVE LockInv'
BY SpinStep, UartKeeps, SyncDoneKeeps, StartDoneKeeps, Zenon DEF Common

\* After boot no lock is taken, and interrupts are on.
LEMMA LockInit == ASSUME Finite, Init PROVE LockInv
<1>1. /\ pc = [c \in CPU |-> [thread |-> "user", intr |-> "none"]]
      /\ cpu = [c \in CPU |-> [sie |-> TRUE, noff |-> 0, intena |-> FALSE]]
      /\ owner = [l \in Lock |-> None] /\ want = [c \in CPU |-> None]
      /\ key = [c \in CPU |-> None]
  BY Zenon DEF Init, SpinInit
<1>2. "user" \in ThreadPC /\ "none" \in IntrPC
  BY Zenon DEF ThreadPC, IntrPC
<1>3. [sie |-> TRUE, noff |-> 0, intena |-> FALSE] \in CpuRec
  BY DEF CpuRec
<1>4. DevType
  BY <1>1, <1>2, <1>3, Zenon DEF DevType
<1>5. CtxInv
  BY <1>1 DEF CtxInv
<1>6. \A c \in CPU : Locks(c) = {}
  BY <1>1, Zenon DEF Locks, ThreadNeeds, IntrNeeds
<1>7. SpinInv
  BY <1>1, <1>6, OneLock, SpinlockAssumption, Zenon DEF SpinInv
<1> QED
  BY <1>4, <1>5, <1>7, Zenon DEF LockInv

\* Every step of the program keeps the invariant.
LEMMA LockStep == ASSUME Finite, LockInv, [Next]_vars PROVE LockInv'
<1>1. CASE Press
  BY <1>1, ElsewhereKeeps, Zenon DEF Press, inVars
<1>2. CASE Transmit
  BY <1>2, ElsewhereKeeps, Zenon DEF Transmit, inVars
<1>3. CASE UNCHANGED vars
  BY <1>3, ElsewhereKeeps, Zenon DEF vars, inVars
<1>4. CASE Quiet
  BY <1>3, <1>4, Zenon DEF Quiet
<1>5. CASE \E c \in CPU : Begin(c) \/ TimerTrap(c) \/ Kill(c)
  BY <1>5, BeginKeeps, TimerTrapKeeps, KillKeeps, Zenon
<1>6. CASE \E c \in CPU : Thread(c) \/ Handler(c) \/ Common(c)
  BY <1>6, ThreadKeeps, HandlerKeeps, CommonKeeps, Zenon
<1> QED
  BY <1>1, <1>2, <1>3, <1>4, <1>5, <1>6, Zenon DEF Next

\* The invariant says of the locks what the project checks.
LEMMA LockInvOff == ASSUME LockInv PROVE InterruptsOff
<1> SUFFICES ASSUME NEW c \in CPU
             PROVE  LET held == {l \in Lock : owner[l] = c}
                        spun == {l \in Lock : want[c] = l} IN
                    /\ held \cap spun = {}
                    /\ cpu[c].sie => held \cup spun = {} /\ pc[c].intr = "none"
                    /\ cpu[c].noff = Cardinality(held \cup spun)
  BY Zenon DEF InterruptsOff
<1> DEFINE held == {l \in Lock : owner[l] = c}
           spun == {l \in Lock : want[c] = l}
<1>1. held \cup spun = Locks(c)
  <2>1. Locks(c) \subseteq Lock
    BY Zenon DEF Locks
  <2>2. \A l \in Lock : owner[l] = c \/ want[c] = l <=> l \in Locks(c)
    BY Zenon DEF LockInv, SpinInv
  <2> QED
    BY <2>1, <2>2, Zenon
<1>2. held \cap spun = {}
  BY SpinlockAssumption DEF LockInv, SpinInv
<1>3. cpu[c].noff = Cardinality(Locks(c)) /\ (cpu[c].sie => Locks(c) = {} /\ pc[c].intr = "none")
  BY Zenon DEF LockInv, SpinInv
<1> QED
  BY <1>1, <1>2, <1>3, Zenon
=============================================================================
