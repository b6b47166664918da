---------------------------- MODULE Interprocess ----------------------------
(***************************************************************************)
(* user/interprocess.c: two children that print lines, with a character in *)
(* a pipe as the token that keeps their lines apart.  printf() writes one  *)
(* character at a time.  All processes keep both ends of the pipe open, so *)
(* that a read() waits for the token and never finds the end of the data.  *)
(* No result of a system call is looked at.                                *)
(***************************************************************************)
EXTENDS Integers, Sequences, FiniteSets

CONSTANTS Names,      \* the names of the children, in the order of creation
          Loops,      \* lines printed by a child
          LineLen,    \* characters of a line
          MaxFaults   \* bound: failing pipe() and fork()s, and kills

VARIABLES mainPc,   \* next step of main()
          piped,    \* pipe() has succeeded: p[] holds its ends
          tokens,   \* characters in the pipe
          pc,       \* next step of each child
          made,     \* calls of create_child() that main() has made
          waits,    \* calls of wait() that have returned
          lines,    \* lines each child has printed
          col,      \* characters of the current line already printed
          faults    \* failed calls and kills so far

vars == <<mainPc, piped, tokens, pc, made, waits, lines, col, faults>>

Name == {Names[k] : k \in DOMAIN Names}

Init ==
    /\ mainPc = "pipe" /\ piped = FALSE
    /\ tokens = 0
    /\ pc = [c \in Name |-> "unborn"]
    /\ made = 0 /\ waits = 0
    /\ lines = [c \in Name |-> 0]
    /\ col = [c \in Name |-> 0]
    /\ faults = 0

Fault == faults < MaxFaults /\ faults' = faults + 1

-----------------------------------------------------------------------------
\* A pipe() that fails is not noticed: p[] keeps what happens to be on the stack.
MakePipe ==
    /\ mainPc = "pipe"
    /\ mainPc' = "write"
    /\ \/ piped' = TRUE /\ UNCHANGED faults
       \/ Fault /\ UNCHANGED piped
    /\ UNCHANGED <<tokens, pc, made, waits, lines, col>>

\* What a write() puts into the pipe: nothing, if there is none.
Put == IF piped THEN tokens + 1 ELSE tokens

PutToken ==
    /\ mainPc = "write"
    /\ mainPc' = "run"
    /\ tokens' = Put
    /\ UNCHANGED <<piped, pc, made, waits, lines, col, faults>>

\* A fork() that fails is not noticed.
CreateChild ==
    /\ mainPc = "run" /\ made < Len(Names)
    /\ made' = made + 1
    /\ \/ pc' = [pc EXCEPT ![Names[made + 1]] = "read"] /\ UNCHANGED faults
       \/ Fault /\ UNCHANGED pc
    /\ UNCHANGED <<mainPc, piped, tokens, waits, lines, col>>

\* wait(0) returns when another child has ended, or at once when there is none.
\* main() returns after the last.
WaitChild ==
    /\ mainPc = "run" /\ made = Len(Names)
    /\ \/ waits < Cardinality({c \in Name : pc[c] = "dead"})
       \/ waits >= Cardinality({c \in Name : pc[c] # "unborn"})
    /\ waits' = waits + 1
    /\ mainPc' = IF waits + 1 = Len(Names) THEN "dead" ELSE "run"
    /\ UNCHANGED <<piped, tokens, pc, made, lines, col, faults>>

\* Mutant of ReadToken: the token stays in the pipe.
ReadTokenPeek(c) ==
    /\ pc[c] = "read" /\ (piped => tokens > 0)
    /\ pc' = [pc EXCEPT ![c] = "printf"]
    /\ UNCHANGED <<mainPc, piped, tokens, made, waits, lines, col, faults>>

\* Without a pipe read() returns -1, or a typed character if p[0] happens to be
\* the number of the console, and the child goes on all the same.
ReadToken(c) ==
    /\ pc[c] = "read"
    /\ \/ piped /\ tokens > 0 /\ tokens' = tokens - 1
       \/ ~piped /\ UNCHANGED tokens
    /\ pc' = [pc EXCEPT ![c] = "printf"]
    /\ UNCHANGED <<mainPc, piped, made, waits, lines, col, faults>>

\* One character of printf().
Putc(c) ==
    /\ pc[c] = "printf"
    /\ col' = [col EXCEPT ![c] = (@ + 1) % LineLen]
    /\ IF col[c] + 1 = LineLen
       THEN pc' = [pc EXCEPT ![c] = "write"] /\ lines' = [lines EXCEPT ![c] = @ + 1]
       ELSE UNCHANGED <<pc, lines>>
    /\ UNCHANGED <<mainPc, piped, tokens, made, waits, faults>>

\* The next round, or exit(0).
WriteToken(c) ==
    /\ pc[c] = "write"
    /\ tokens' = Put
    /\ pc' = [pc EXCEPT ![c] = IF lines[c] < Loops THEN "read" ELSE "dead"]
    /\ UNCHANGED <<mainPc, piped, made, waits, lines, col, faults>>

\* Somebody kills the child, with or without the token.
Kill(c) ==
    /\ pc[c] \in {"read", "printf", "write"}
    /\ Fault
    /\ pc' = [pc EXCEPT ![c] = "dead"]
    /\ UNCHANGED <<mainPc, piped, tokens, made, waits, lines, col>>

\* Or main(): the children go on without it.
KillMain ==
    /\ mainPc # "dead"
    /\ Fault
    /\ mainPc' = "dead"
    /\ UNCHANGED <<piped, tokens, pc, made, waits, lines, col>>

-----------------------------------------------------------------------------
Main == MakePipe \/ PutToken \/ CreateChild \/ WaitChild
Step(c) == ReadToken(c) \/ Putc(c) \/ WriteToken(c)

Next == Main \/ KillMain \/ \E c \in Name : Step(c) \/ Kill(c)

\* A process that is not blocked runs.
Fairness == WF_vars(Main) /\ \A c \in Name : WF_vars(Step(c))

-----------------------------------------------------------------------------
\* "The outputs of interprocess child processes no longer intermix": while a
\* child has printed a part of a line nobody else prints, even if that child is
\* killed there.  It rests on the pipe: where pipe() has failed nothing keeps the
\* lines apart.
LinesWhole ==
    piped => \A c, d \in Name : c # d /\ col[c] > 0 => col[d] = 0 /\ pc[d] # "printf"

\* Without failures and kills all lines are printed and every process ends.
Printed ==
    \/ faults > 0
    \/ waits = Len(Names) /\ \A c \in Name : pc[c] = "dead" /\ lines[c] = Loops
AllPrinted == <>Printed
=============================================================================
