------------------------------ MODULE Spinlock ------------------------------
(***************************************************************************)
(* kernel/spinlock.c as seen by one CPU: the interrupt enable bit of       *)
(* sstatus, mycpu()->noff and mycpu()->intena, and the owner lk->cpu of    *)
(* each lock.  A spinning CPU is one with want[c] set: push_off() has run  *)
(* and the test-and-set has not succeeded yet.                             *)
(***************************************************************************)
EXTENDS Integers, FiniteSets

CONSTANTS CPU, Lock,
          None        \* no owner, no lock, no character

\* The locks of the console, the UART, printf() and the clock are among them.
ASSUME SpinlockAssumption ==
    /\ IsFiniteSet(CPU) /\ IsFiniteSet(Lock)
    /\ None \notin CPU /\ None \notin Lock
    /\ {"cons", "uart", "pr", "tickslock"} \subseteq Lock

VARIABLES cpu,        \* [sie, noff, intena] of each CPU
          owner,      \* lk->cpu, None while lk->locked is 0
          want        \* the lock that the CPU spins for in acquire()

spinVars == <<cpu, owner, want>>

SpinInit ==
    /\ cpu = [c \in CPU |-> [sie |-> TRUE, noff |-> 0, intena |-> FALSE]]
    /\ owner = [l \in Lock |-> None]
    /\ want = [c \in CPU |-> None]

\* Mutant of PushOff: interrupts stay enabled.
PushOffEnabled(k) ==
    [k EXCEPT !.intena = IF k.noff = 0 THEN k.sie ELSE @, !.noff = @ + 1]

PushOff(k) ==
    [sie |-> FALSE,
     intena |-> IF k.noff = 0 THEN k.sie ELSE k.intena,
     noff |-> k.noff + 1]

PopOff(k) ==
    [k EXCEPT !.noff = @ - 1,
              !.sie = IF k.noff = 1 /\ k.intena THEN TRUE ELSE @]

\* acquire(): push_off(), then the CPU spins.
Acquire(c, l) ==
    /\ cpu' = [cpu EXCEPT ![c] = PushOff(@)]
    /\ want' = [want EXCEPT ![c] = l]
    /\ UNCHANGED owner

\* The test-and-set finds lk->locked 0.
TestAndSet(c) ==
    /\ want[c] # None
    /\ owner[want[c]] = None
    /\ owner' = [owner EXCEPT ![want[c]] = c]
    /\ want' = [want EXCEPT ![c] = None]
    /\ UNCHANGED cpu

Release(c, l) ==
    /\ owner' = [owner EXCEPT ![l] = None]
    /\ cpu' = [cpu EXCEPT ![c] = PopOff(@)]
    /\ UNCHANGED want

\* An interrupt clears SIE, and the sret that ends it sets it again.
Trap(k) == [k EXCEPT !.sie = FALSE]
Sret(k) == [k EXCEPT !.sie = TRUE]
=============================================================================
