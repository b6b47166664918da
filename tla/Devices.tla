------------------------------ MODULE Devices -------------------------------
(***************************************************************************)
(* The console, the UART and the clock, with the interrupts and spinlocks  *)
(* that tie them together: kernel/console.c, uart.c, plic.c, the device    *)
(* half of trap.c, sys_sleep() and the locking of printf.c.                *)
(*                                                                         *)
(* Each CPU runs one thread, and an interrupt handler on top of it while   *)
(* pc[c].intr is not "none".  One action is one stretch of code between    *)
(* two points where another CPU, the device or an interrupt can interfere: *)
(* a spin on a lock, a device register, a sleep.  The scheduler is left to *)
(* Proc: a sleeping thread leaves its CPU idle with interrupts on.         *)
(***************************************************************************)
EXTENDS Spinlock, Sequences, FiniteSetsExt

CONSTANTS Plans,             \* bound: the values todo starts with
          Hart0,             \* the CPU whose timer advances ticks
          Key,               \* what can be typed
          OutChar,           \* what is written
          INPUT_BUF_SIZE, UART_TX_BUF_SIZE,
          UINT,              \* 2^32: indices and ticks are modulo UINT
          First,             \* the index the rings start at, after some use
          MaxArg             \* bound: the n of a system call

VARIABLES todo,     \* bound: what is still to come, the [calls] of each
                    \* thread and the number of [keys] (out of [typed]),
                    \* [ticks] and [kills]
          pc,       \* [thread, intr]: where each context of a CPU is
          left,     \* n of consoleread(), of consolewrite(), of sys_sleep()
          got,      \* consoleread(): n < target
          start,    \* sys_sleep(): ticks0
          killed,   \* p->killed
          key,      \* c of consoleintr()
          echo,     \* characters uartputc_sync() still has to send
          cons,     \* [buf, r, w, e]
          tx,       \* [buf, r, w]: uart_tx_buf, uart_tx_r, uart_tx_w
          sent,     \* the character uartstart() took last
          rhr,      \* external: the received character, None if none
          thr,      \* external: characters in the transmit FIFO
          irq,      \* external: the UART's interrupt is pending at the PLIC
          claimed,  \* external: claimed and not completed
          ticks

inVars  == <<cons, key>>
outVars == <<tx, sent>>
devVars == <<rhr, thr, irq, claimed>>
argVars == <<left, got, start, killed>>
vars == <<todo, spinVars, pc, argVars, echo, inVars, outVars, devVars, ticks>>

Init ==
    /\ SpinInit
    /\ todo \in Plans
    /\ pc = [c \in CPU |-> [thread |-> "user", intr |-> "none"]]
    /\ left = [c \in CPU |-> 0] /\ start = [c \in CPU |-> 0]
    /\ got = [c \in CPU |-> FALSE] /\ killed = [c \in CPU |-> FALSE]
    /\ key = [c \in CPU |-> None] /\ echo = [c \in CPU |-> 0]
    /\ cons = [buf |-> [i \in 0 .. INPUT_BUF_SIZE - 1 |-> "nul"],
               r |-> First, w |-> First, e |-> First]
    /\ tx = [buf |-> [i \in 0 .. UART_TX_BUF_SIZE - 1 |-> "nul"],
             r |-> First, w |-> First]
    /\ sent = "nul"
    /\ rhr = None /\ thr = 0 /\ irq = FALSE /\ claimed = FALSE
    /\ ticks = First

-----------------------------------------------------------------------------
\* The running context of CPU c, and control flow within it.
Ctx(c) == IF pc[c].intr = "none" THEN "thread" ELSE "intr"

At(c, l) == pc[c][Ctx(c)] = l /\ want[c] = None

Goto(c, l) == pc' = [pc EXCEPT ![c][Ctx(c)] = l]

\* wakeup(chan), called on CPU c, which then goes on at l.
Wake(from, to, c, l) ==
    pc' = [d \in CPU |->
              LET p == IF pc[d].thread = from THEN [pc[d] EXCEPT !.thread = to]
                                              ELSE pc[d] IN
              IF d = c THEN [p EXCEPT ![Ctx(c)] = l] ELSE p]

\* The call is over: its locals are dead.
Return(c) ==
    /\ Goto(c, "user")
    /\ left' = [left EXCEPT ![c] = 0] /\ start' = [start EXCEPT ![c] = 0]
    /\ got' = [got EXCEPT ![c] = FALSE]
    /\ killed' = [killed EXCEPT ![c] = FALSE]

\* acquire() succeeds after its spin.
Spin(c) ==
    /\ TestAndSet(c)
    /\ UNCHANGED <<pc, argVars, echo, inVars, outVars, devVars, ticks>>

\* sleep(chan, lk): the thread holds p->lock from before it lets go of lk
\* until it is SLEEPING, so a wakeup() made under lk finds it asleep.
Doze(c, from, to, lk) ==
    /\ At(c, from)
    /\ Goto(c, to)
    /\ Release(c, lk)
    /\ UNCHANGED <<argVars, echo, inVars, outVars, devVars, ticks>>

\* sleep() goes on after a wakeup and takes lk again.
Resume(c, from, to, lk) ==
    /\ At(c, from)
    /\ Goto(c, to)
    /\ Acquire(c, lk)
    /\ UNCHANGED <<argVars, echo, inVars, outVars, devVars, ticks>>

\* kill(): a sleeping victim becomes runnable.
Kill(c) ==
    /\ pc[c].thread # "user"
    /\ ~killed[c]
    /\ todo.kills > 0
    /\ todo' = [todo EXCEPT !.kills = @ - 1]
    /\ killed' = [killed EXCEPT ![c] = TRUE]
    /\ pc' = [pc EXCEPT ![c].thread =
                 CASE @ = "read_sleep" -> "read_woken"
                   [] @ = "put_sleep" -> "put_woken"
                   [] @ = "nap_sleep" -> "nap_woken"
                   [] OTHER -> @]
    /\ UNCHANGED <<spinVars, left, got, start, echo, inVars, outVars, devVars, ticks>>

-----------------------------------------------------------------------------
\* The thread's next call.
Called(c, what) ==
    /\ todo.calls[c] # << >> /\ Head(todo.calls[c]) = what
    /\ todo' = [todo EXCEPT !.calls[c] = Tail(@)]

\* A system call of the thread: what it does up to its first lock.
SysCall(c, what, n, lk, l) ==
    /\ At(c, "user")
    /\ Called(c, what)
    /\ Goto(c, l)
    /\ left' = [left EXCEPT ![c] = n]
    /\ Acquire(c, lk)
    /\ UNCHANGED <<got, start, killed, echo, inVars, outVars, devVars, ticks>>

SysRead(c)  == \E n \in 1 .. MaxArg : SysCall(c, "read", n, "cons", "read")
SysWrite(c) == \E n \in 1 .. MaxArg : SysCall(c, "write", n, "uart", "put")
SysSleep(c) == \E n \in 0 .. MaxArg : SysCall(c, "sleep", n, "tickslock", "nap0")

\* printf() of one character, the unit of everything it prints.
Printf(c) ==
    /\ At(c, "user")
    /\ Called(c, "print")
    /\ Goto(c, "sync")
    /\ Acquire(c, "pr")
    /\ echo' = [echo EXCEPT ![c] = 1]
    /\ UNCHANGED <<argVars, inVars, outVars, devVars, ticks>>

-----------------------------------------------------------------------------
\* console.c.  Indices are uints, and buf is used modulo its size.
Sub(a, b) == (a - b) % UINT
InputFrom(i, n) == [j \in 1 .. n |-> cons.buf[((i + j - 1) % UINT) % INPUT_BUF_SIZE]]
Entered == InputFrom(cons.r, Sub(cons.w, cons.r))
Edited  == InputFrom(cons.w, Sub(cons.e, cons.w))

Ends == {"newline", "eof"}

\* How many characters the loop of consoleread() delivers when it asks for n
\* of s: up to the end of the line, and not an end-of-file mark.
Delivered(s, n) ==
    Max({m \in 0 .. Len(s) :
            /\ m <= n
            /\ \A i \in 1 .. m : s[i] # "eof"
            /\ \A i \in 1 .. m - 1 : s[i] # "newline"})

\* Mutant of Consumed: the end-of-file mark after a partial line is dropped.
ConsumedEof(c, s, m) == IF m < Len(s) /\ m < left[c] /\ s[m + 1] = "eof" THEN m + 1 ELSE m

\* The end-of-file mark is consumed only when nothing was delivered.
Consumed(c, s, m) ==
    IF m = 0 /\ ~got[c] /\ s[1] = "eof" THEN 1 ELSE m

\* consoleread() under cons.lock, with input: the loop delivers m characters
\* and ends at n, at the end of a line or at an end-of-file mark.
ReadLine(c) ==
    /\ At(c, "read")
    /\ cons.r # cons.w
    /\ LET s == Entered
           m == Delivered(s, left[c]) IN
       /\ \/ m = left[c]
          \/ m < Len(s) /\ s[m + 1] = "eof"
          \/ m > 0 /\ s[m] = "newline"
       /\ cons' = [cons EXCEPT !.r = (@ + Consumed(c, s, m)) % UINT]
    /\ Release(c, "cons")
    /\ Return(c)
    /\ UNCHANGED <<echo, key, outVars, devVars, ticks>>

\* The loop takes what there is and wants more.
ReadSome(c) ==
    /\ At(c, "read")
    /\ cons.r # cons.w
    /\ LET n == Len(Entered) IN
       /\ Delivered(Entered, left[c]) = n
       /\ n < left[c] /\ Entered[n] # "newline"
       /\ cons' = [cons EXCEPT !.r = cons.w]
       /\ left' = [left EXCEPT ![c] = @ - n]
       /\ got' = [got EXCEPT ![c] = TRUE]
    /\ UNCHANGED <<spinVars, pc, start, killed, echo, key, outVars, devVars, ticks>>

\* either_copyout() fails: the character it was given is gone.
ReadFault(c) ==
    /\ At(c, "read")
    /\ cons.r # cons.w
    /\ \E m \in 1 .. Delivered(Entered, left[c]) :
          cons' = [cons EXCEPT !.r = (@ + m) % UINT]
    /\ Release(c, "cons")
    /\ Return(c)
    /\ UNCHANGED <<echo, key, outVars, devVars, ticks>>

\* No input: give up if killed, and otherwise sleep.  killed() is not under
\* cons.lock: a kill() can come between it and the sleep.
ReadKilled(c) ==
    /\ At(c, "read")
    /\ cons.r = cons.w /\ killed[c]
    /\ Release(c, "cons")
    /\ Return(c)
    /\ UNCHANGED <<echo, inVars, outVars, devVars, ticks>>

ReadEmpty(c) ==
    /\ At(c, "read")
    /\ cons.r = cons.w /\ ~killed[c]
    /\ Goto(c, "read_doze")
    /\ UNCHANGED <<spinVars, argVars, echo, inVars, outVars, devVars, ticks>>

ReadSleep(c)  == Doze(c, "read_doze", "read_sleep", "cons")
ReadResume(c) == Resume(c, "read_woken", "read", "cons")

\* consoleintr(): what a key does to the buffer; '\r' becomes '\n'.
Stored(k) == IF k = "return" THEN "newline" ELSE k

Accepted(k) == k \notin {"nul", "bs", "kill", "dump"} /\ Sub(cons.e, cons.r) < INPUT_BUF_SIZE

\* ^U goes back to the last newline of the edited part, or to w.
KillLen == LET s == Edited IN Len(s) - Max({i \in 0 .. Len(s) : i = 0 \/ s[i] = "newline"})

\* Characters consputc() sends: an erased character takes three.
EchoLen(k) ==
    CASE k = "kill" -> 3 * KillLen
      [] k = "bs"   -> IF cons.e # cons.w THEN 3 ELSE 0
      [] k = "dump" -> 1
      [] OTHER      -> IF Accepted(k) THEN 1 ELSE 0

Commits(ch, used) == ch \in Ends \/ used = INPUT_BUF_SIZE

Store(ch) ==
    LET e1 == (cons.e + 1) % UINT IN
    [cons EXCEPT !.buf[cons.e % INPUT_BUF_SIZE] = ch,
                 !.e = e1,
                 !.w = IF Commits(ch, Sub(e1, cons.r)) THEN e1 ELSE @]

Applied(k) ==
    CASE k = "kill" -> [cons EXCEPT !.e = Sub(@, KillLen)]
      [] k = "bs"   -> IF cons.e # cons.w THEN [cons EXCEPT !.e = Sub(@, 1)] ELSE cons
      [] OTHER      -> IF Accepted(k) THEN Store(Stored(k)) ELSE cons

\* procdump() prints under pr.lock; the others echo under cons.lock alone.
ConsoleIntr(c) ==
    /\ At(c, "key")
    /\ Goto(c, "sync")
    /\ echo' = [echo EXCEPT ![c] = EchoLen(key[c])]
    /\ IF key[c] = "dump" THEN Acquire(c, "pr") ELSE UNCHANGED spinVars
    /\ UNCHANGED <<argVars, inVars, outVars, devVars, ticks>>

KeyDone(c) ==
    /\ At(c, "keyed")
    /\ cons' = Applied(key[c])
    /\ IF cons'.w # cons.w
       THEN Wake("read_sleep", "read_woken", c, "getc")
       ELSE Goto(c, "getc")
    /\ key' = [key EXCEPT ![c] = None]
    /\ Release(c, "cons")
    /\ UNCHANGED <<argVars, echo, outVars, devVars, ticks>>

-----------------------------------------------------------------------------
\* uart.c.  uartputc_sync() polls LSR and then writes THR; its callers hold a
\* lock, so its own push_off() changes nothing.
SyncIdle(c) ==
    /\ At(c, "sync")
    /\ echo[c] > 0 /\ thr = 0
    /\ Goto(c, "sync_thr")
    /\ UNCHANGED <<spinVars, argVars, echo, inVars, outVars, devVars, ticks>>

SyncPut(c) ==
    /\ At(c, "sync_thr")
    /\ thr' = thr + 1
    /\ echo' = [echo EXCEPT ![c] = @ - 1]
    /\ Goto(c, "sync")
    /\ UNCHANGED <<spinVars, argVars, inVars, outVars, rhr, irq, claimed, ticks>>

\* Everything is sent: back in consoleintr(), or out of printf().
SyncDone(c) ==
    /\ At(c, "sync")
    /\ echo[c] = 0
    /\ Goto(c, IF Ctx(c) = "intr" THEN "keyed" ELSE "user")
    /\ IF owner["pr"] = c THEN Release(c, "pr") ELSE UNCHANGED spinVars
    /\ killed' = IF Ctx(c) = "intr" THEN killed ELSE [killed EXCEPT ![c] = FALSE]
    /\ UNCHANGED <<left, got, start, echo, inVars, outVars, devVars, ticks>>

\* Mutant of TxFull: one slot too many.
TxFullLate == tx.w = (tx.r + UART_TX_BUF_SIZE + 1) % UINT

TxFull == tx.w = (tx.r + UART_TX_BUF_SIZE) % UINT

\* uartputc() under uart_tx_lock.
PutSleep(c) == TxFull /\ Doze(c, "put", "put_sleep", "uart")

PutResume(c) == Resume(c, "put_woken", "put", "uart")

Put(c) ==
    /\ At(c, "put")
    /\ ~TxFull
    /\ \E o \in OutChar :
          tx' = [tx EXCEPT !.buf[tx.w % UART_TX_BUF_SIZE] = o, !.w = (@ + 1) % UINT]
    /\ Goto(c, "start")
    /\ UNCHANGED <<spinVars, argVars, echo, inVars, sent, devVars, ticks>>

\* uartstart() takes a character when the UART is idle; all who wait for room
\* are woken.
StartTake(c) ==
    /\ At(c, "start")
    /\ tx.r # tx.w /\ thr = 0
    /\ sent' = tx.buf[tx.r % UART_TX_BUF_SIZE]
    /\ tx' = [tx EXCEPT !.r = (@ + 1) % UINT]
    /\ Wake("put_sleep", "put_woken", c, "start_thr")
    /\ UNCHANGED <<spinVars, argVars, echo, inVars, devVars, ticks>>

StartPut(c) ==
    /\ At(c, "start_thr")
    /\ thr' = thr + 1
    /\ Goto(c, "start")
    /\ UNCHANGED <<spinVars, argVars, echo, inVars, outVars, rhr, irq, claimed, ticks>>

\* uartstart() returns and uart_tx_lock is released: by uartputc(), whose
\* caller consolewrite() goes on or ends, or by uartintr().
StartDone(c) ==
    /\ At(c, "start")
    /\ tx.r = tx.w \/ thr # 0
    /\ Release(c, "uart")
    /\ IF Ctx(c) = "intr" THEN Goto(c, "complete") /\ UNCHANGED argVars
       ELSE IF left[c] = 1 THEN Return(c)
       ELSE /\ Goto(c, "putc")
            /\ left' = [left EXCEPT ![c] = @ - 1]
            /\ UNCHANGED <<got, start, killed>>
    /\ UNCHANGED <<echo, inVars, outVars, devVars, ticks>>

\* The next character of consolewrite(), or either_copyin() fails.
WriteMore(c) == Resume(c, "putc", "put", "uart")

WriteFault(c) ==
    /\ At(c, "putc")
    /\ Return(c)
    /\ UNCHANGED <<spinVars, echo, inVars, outVars, devVars, ticks>>

-----------------------------------------------------------------------------
\* Interrupts.  kerneltrap() and usertrap() run devintr() with interrupts
\* off; plic_claim() gives the UART's interrupt to one CPU.
PlicClaim == irq /\ ~claimed /\ irq' = FALSE /\ claimed' = TRUE

UartTrap(c) ==
    /\ cpu[c].sie /\ pc[c].intr = "none"
    /\ PlicClaim
    /\ cpu' = [cpu EXCEPT ![c] = Trap(@)]
    /\ pc' = [pc EXCEPT ![c].intr = "getc"]
    /\ UNCHANGED <<owner, want, argVars, echo, inVars, outVars, rhr, thr, ticks>>

\* uartintr(): uartgetc() reads a character, or there is none.
Getc(c) ==
    /\ At(c, "getc")
    /\ rhr # None
    /\ key' = [key EXCEPT ![c] = rhr]
    /\ rhr' = None
    /\ Goto(c, "key")
    /\ Acquire(c, "cons")
    /\ UNCHANGED <<argVars, echo, cons, outVars, thr, irq, claimed, ticks>>

\* Mutant of GetcNone: uartintr() returns without sending what is buffered.
GetcNoneOnly(c) ==
    /\ At(c, "getc")
    /\ rhr = None
    /\ Goto(c, "complete")
    /\ UNCHANGED <<spinVars, argVars, echo, inVars, outVars, devVars, ticks>>

GetcNone(c) == rhr = None /\ Resume(c, "getc", "start", "uart")

\* plic_complete(), and back from the interrupt.
Complete(c) ==
    /\ At(c, "complete")
    /\ claimed' = FALSE
    /\ Goto(c, "none")
    /\ cpu' = [cpu EXCEPT ![c] = Sret(@)]
    /\ UNCHANGED <<owner, want, argVars, echo, inVars, outVars, rhr, thr, irq, ticks>>

\* The timer of hart 0: clockintr() up to its lock, and the rest.
TimerTrap(c) ==
    /\ c = Hart0 /\ todo.ticks > 0
    /\ todo' = [todo EXCEPT !.ticks = @ - 1]
    /\ cpu[c].sie /\ pc[c].intr = "none"
    /\ cpu' = [cpu EXCEPT ![c] = PushOff(Trap(@))]
    /\ want' = [want EXCEPT ![c] = "tickslock"]
    /\ pc' = [pc EXCEPT ![c].intr = "clock"]
    /\ UNCHANGED <<owner, argVars, echo, inVars, outVars, devVars, ticks>>

ClockIntr(c) ==
    /\ At(c, "clock")
    /\ ticks' = (ticks + 1) % UINT
    /\ Wake("nap_sleep", "nap_woken", c, "none")
    /\ owner' = [owner EXCEPT !["tickslock"] = None]
    /\ cpu' = [cpu EXCEPT ![c] = Sret(PopOff(@))]
    /\ UNCHANGED <<want, argVars, echo, inVars, outVars, devVars>>

-----------------------------------------------------------------------------
\* sys_sleep() under tickslock.
NapStart(c) ==
    /\ At(c, "nap0")
    /\ start' = [start EXCEPT ![c] = ticks]
    /\ Goto(c, "nap")
    /\ UNCHANGED <<spinVars, left, got, killed, echo, inVars, outVars, devVars, ticks>>

NapOver(c) == Sub(ticks, start[c]) >= left[c]

NapDone(c) ==
    /\ At(c, "nap")
    /\ NapOver(c) \/ killed[c]
    /\ Release(c, "tickslock")
    /\ Return(c)
    /\ UNCHANGED <<echo, inVars, outVars, devVars, ticks>>

NapWait(c) ==
    /\ At(c, "nap")
    /\ ~NapOver(c) /\ ~killed[c]
    /\ Goto(c, "nap_doze")
    /\ UNCHANGED <<spinVars, argVars, echo, inVars, outVars, devVars, ticks>>

NapSleep(c)  == Doze(c, "nap_doze", "nap_sleep", "tickslock")
NapResume(c) == Resume(c, "nap_woken", "nap", "tickslock")

-----------------------------------------------------------------------------
\* External: a key is pressed; the FIFO sends a character, and interrupts
\* when it is empty.
Press ==
    /\ rhr = None
    /\ rhr' \in todo.typed /\ todo.keys > 0
    /\ todo' = [todo EXCEPT !.keys = @ - 1]
    /\ irq' = TRUE
    /\ UNCHANGED <<spinVars, pc, argVars, echo, inVars, outVars, thr, claimed, ticks>>

Transmit ==
    /\ thr > 0
    /\ thr' = thr - 1
    /\ irq' = (irq \/ thr = 1)
    /\ UNCHANGED <<spinVars, pc, argVars, echo, inVars, outVars, rhr, claimed, ticks>>

\* Everything planned has happened: the threads are idle or wait for more.
Quiet ==
    /\ todo.keys = 0 /\ todo.ticks = 0 /\ ~irq /\ thr = 0
    /\ \A c \in CPU :
          /\ pc[c].intr = "none" /\ want[c] = None
          /\ \/ pc[c].thread \in {"read_sleep", "nap_sleep"}
             \/ pc[c].thread = "user" /\ todo.calls[c] = << >>
    /\ UNCHANGED vars

Begin(c) == SysRead(c) \/ SysWrite(c) \/ SysSleep(c) \/ Printf(c)

Thread(c) ==
    \/ ReadLine(c) \/ ReadSome(c) \/ ReadFault(c) \/ ReadKilled(c)
    \/ ReadEmpty(c) \/ ReadSleep(c) \/ ReadResume(c)
    \/ PutSleep(c) \/ PutResume(c) \/ Put(c) \/ WriteMore(c) \/ WriteFault(c)
    \/ NapStart(c) \/ NapDone(c) \/ NapWait(c) \/ NapSleep(c) \/ NapResume(c)

Handler(c) ==
    \/ UartTrap(c) \/ Getc(c) \/ GetcNone(c) \/ Complete(c)
    \/ ConsoleIntr(c) \/ KeyDone(c) \/ ClockIntr(c)

Common(c) ==
    \/ Spin(c) \/ SyncIdle(c) \/ SyncPut(c) \/ SyncDone(c)
    \/ StartTake(c) \/ StartPut(c) \/ StartDone(c)

Next ==
    \/ Press \/ Quiet
    \/ \E c \in CPU : Begin(c) \/ TimerTrap(c) \/ Kill(c)
    \/ /\ Transmit \/ \E c \in CPU : Thread(c) \/ Handler(c) \/ Common(c)
       /\ UNCHANGED todo

Spec == Init /\ [][Next]_vars

-----------------------------------------------------------------------------
\* No handler runs with interrupts on (kerneltrap() would panic), and no CPU
\* waits for a lock that it holds itself, as it would if an interrupt came
\* inside a critical section: interrupts are off while a lock is held or spun
\* for, and noff counts those locks, so that the last release() restores them.
InterruptsOff ==
    \A c \in CPU :
        LET held == {l \in Lock : owner[l] = c}
            spun == {l \in Lock : want[c] = l} IN
        /\ held \cap spun = {}
        /\ cpu[c].sie => held \cup spun = {} /\ pc[c].intr = "none"
        /\ cpu[c].noff = Cardinality(held \cup spun)

\* A character typed is edited, entered and read in order and at most once,
\* a read gets at most one line, and an end-of-file mark is not lost: the
\* console's ring, with its indices r, w and e that wrap, is a line discipline.
Input == INSTANCE Tty WITH Char <- {Stored(k) : k \in Key}, Newline <- "newline",
                           Eof <- "eof", Capacity <- INPUT_BUF_SIZE,
                           entered <- Entered, line <- Edited
TtySpec == Input!Spec

\* Characters written leave uartstart() once and in order, although writers
\* on two CPUs and the interrupt handler all run it.
Output == INSTANCE Fifo WITH Byte <- OutChar \cup {"nul"}, Capacity <- UART_TX_BUF_SIZE,
                             q <- [j \in 1 .. Sub(tx.w, tx.r) |->
                                      tx.buf[((tx.r + j - 1) % UINT) % UART_TX_BUF_SIZE]],
                             out <- sent
TxFifo == Output!Spec

\* Buffered output does not get stuck: while uart_tx_lock is free and the ring
\* is not empty, the UART has something to send and will interrupt, or its
\* interrupt is pending, or a handler has yet to call uartstart().  The sync
\* writers, who take no part in the lock, never fill the 16-entry FIFO: each
\* CPU adds at most one character after it saw the FIFO empty.
TxMoves ==
    /\ tx.r # tx.w /\ owner["uart"] = None =>
          \/ thr > 0 \/ irq
          \/ \E c \in CPU : pc[c].intr \in {"getc", "key", "sync", "sync_thr", "keyed", "start"}
    /\ thr <= Cardinality(CPU)

\* Nobody sleeps through what they wait for: a reader sleeps only while no
\* line is entered, a writer while the ring is full, sys_sleep() until its
\* ticks have passed.
NoLostWakeup ==
    \A c \in CPU :
        /\ pc[c].thread = "read_sleep" => cons.r = cons.w
        /\ pc[c].thread = "put_sleep" => TxFull
        /\ pc[c].thread = "nap_sleep" => ~NapOver(c)

\* Neither the UART's ring nor a thread that waits for a device gets stuck.
NobodyStuck == TxMoves /\ NoLostWakeup
=============================================================================
