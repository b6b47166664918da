-------------------------------- MODULE Sh ----------------------------------
(***************************************************************************)
(* The shell at work: main(), runcmd() and fork1() of user/sh.c on top of  *)
(* the parser (ShParse) and the file table (Files), with the processes it  *)
(* forks, the programs they become, and init, which adopts what is left    *)
(* behind.                                                                 *)
(*                                                                         *)
(* prog[p] is the sequence of system calls that process p is about to      *)
(* make.  runcmd() is the operator Run, which turns a command into calls.  *)
(* A program named r reads its input to the end, one named w writes two    *)
(* bytes, one named d calls dup() and pipe(); all of them then exit.       *)
(***************************************************************************)
EXTENDS Files, ShParse

CONSTANT Scripts     \* bound: the sequences of lines that are typed

VARIABLES state,     \* "unused", "live" or "zombie"
          parent,    \* p->parent
          prog,
          p0, p1,    \* p[0] and p[1] of runcmd()
          made,      \* the files of a sys_pipe() under way
          script     \* lines still to come

procVars == <<state, parent, prog, p0, p1, made>>
vars == <<fileVars, procVars, script>>

initproc == 0
User == Proc \ {initproc}
Shell == Min(User)

\* What parsecmd() makes of the lines of the scripts.
Parsed == [s \in UNION {{x[k] : k \in DOMAIN x} : x \in Scripts} |-> ParseCmd(s)]

\* A system call: its name, a descriptor, and a command or a program.
Call(op) == [op |-> op, fd |-> 0, arg |-> << >>]
CloseFd(d) == [Call("close") EXCEPT !.fd = d]
Fork(calls) == [Call("fork") EXCEPT !.arg = calls]
RunCmd(cmd) == [Call("run") EXCEPT !.arg = cmd]

\* Mutant of RunPipe: the shell keeps its write end of the pipe open.
RunPipeOpen(l, r) ==
    << Call("pipe"),
       Fork(<<CloseFd(1), Call("dupw"), Call("closer"), Call("closew"), RunCmd(l)>>),
       Fork(<<CloseFd(0), Call("dupr"), Call("closer"), Call("closew"), RunCmd(r)>>),
       Call("closer"), Call("wait"), Call("wait"), Call("exit") >>

RunPipe(l, r) ==
    << Call("pipe"),
       Fork(<<CloseFd(1), Call("dupw"), Call("closer"), Call("closew"), RunCmd(l)>>),
       Fork(<<CloseFd(0), Call("dupr"), Call("closer"), Call("closew"), RunCmd(r)>>),
       Call("closer"), Call("closew"), Call("wait"), Call("wait"), Call("exit") >>

\* runcmd(); parsecmd() has exited on a syntax error.
Run(cmd) ==
    CASE cmd[1] = "SYNTAX" -> <<Call("exit")>>
      [] cmd[1] = "EXEC"   -> IF cmd[2] = << >> THEN <<Call("exit")>>
                              ELSE <<[Call("exec") EXCEPT !.arg = cmd[2][1]], Call("exit")>>
      [] cmd[1] = "REDIR"  -> <<CloseFd(IF cmd[4] = "<" THEN 0 ELSE 1), Call("open"), RunCmd(cmd[2])>>
      [] cmd[1] = "LIST"   -> <<Fork(<<RunCmd(cmd[2])>>), Call("wait"), RunCmd(cmd[3])>>
      [] cmd[1] = "PIPE"   -> RunPipe(cmd[2], cmd[3])
      [] cmd[1] = "BACK"   -> <<Fork(<<RunCmd(cmd[2])>>), Call("exit")>>

Init ==
    /\ FilesInit({initproc, Shell})
    /\ state = [p \in Proc |-> IF p = Shell THEN "live" ELSE IF p = initproc THEN "init" ELSE "unused"]
    /\ parent = [p \in Proc |-> initproc]
    /\ prog = [p \in Proc |-> IF p = Shell THEN <<Call("console"), Call("getcmd")>> ELSE << >>]
    /\ p0 = [p \in Proc |-> 0] /\ p1 = [p \in Proc |-> 0] /\ made = [p \in Proc |-> << >>]
    /\ script \in Scripts

-----------------------------------------------------------------------------
\* Process p is about to make call op; a fileclose() is finished first.
At(p, op) == state[p] = "live" /\ ~Closing(p) /\ Head(prog[p]).op = op
Arg(p) == Head(prog[p]).arg
Go(p, calls) == prog' = [prog EXCEPT ![p] = calls]
Continue(p) == Go(p, Tail(prog[p]))

\* panic() and exit(1).
Fail(p) == Go(p, <<Call("exit")>>)

FinishClose(p) ==
    /\ Closing(p) /\ Release(p)
    /\ UNCHANGED <<procVars, script>>

\* main() makes sure that 0, 1 and 2 are open: it opens the console until it
\* gets another one, which it closes.
Console(p) ==
    /\ At(p, "console")
    /\ IF CanOpen(p)
       THEN /\ Open(p, "device")
            /\ Go(p, IF Lowest(FreeFds(p)) >= 3 THEN <<CloseFd(Lowest(FreeFds(p)))>> \o Tail(prog[p])
                                                 ELSE prog[p])
       ELSE Continue(p) /\ UNCHANGED fileVars
    /\ UNCHANGED <<state, parent, p0, p1, made, script>>

IsCd(s) == Len(s) >= 3 /\ SubSeq(s, 1, 3) = <<"c", "d", " ">>

\* getcmd() and the body of main()'s loop; at the end of the input main()
\* exits.
GetCmd ==
    /\ At(Shell, "getcmd")
    /\ script # << >>
    /\ script' = Tail(script)
    /\ LET s == Head(script) IN
       Go(Shell, IF s = << >> THEN <<Call("exit")>>
                 ELSE IF IsCd(s) THEN <<Call("getcmd")>>
                 ELSE <<Fork(<<RunCmd(Parsed[s])>>), Call("wait"), Call("getcmd")>>)
    /\ UNCHANGED <<fileVars, state, parent, p0, p1, made>>

\* runcmd() itself.
Expand(p) ==
    /\ At(p, "run")
    /\ Go(p, Run(Arg(p)))
    /\ UNCHANGED <<fileVars, state, parent, p0, p1, made, script>>

\* fork1(): the child starts with its part of the command.
Fork1(p) ==
    /\ At(p, "fork")
    /\ LET free == {q \in User : state[q] = "unused"} IN
       IF free = {} THEN Fail(p) /\ UNCHANGED <<fileVars, state, parent, p0, p1>>
       ELSE LET q == Min(free) IN
            /\ state' = [state EXCEPT ![q] = "live"]
            /\ parent' = [parent EXCEPT ![q] = p]
            /\ prog' = [prog EXCEPT ![q] = Arg(p), ![p] = Tail(@)]
            /\ p0' = [p0 EXCEPT ![q] = p0[p]] /\ p1' = [p1 EXCEPT ![q] = p1[p]]
            /\ DupAll(p, q)
    /\ UNCHANGED <<made, script>>

\* The calls on descriptors.
CloseCall(p) ==
    /\ \/ At(p, "close") /\ Close(p, Head(prog[p]).fd)
       \/ At(p, "closer") /\ Close(p, p0[p])
       \/ At(p, "closew") /\ Close(p, p1[p])
    /\ Continue(p)
    /\ UNCHANGED <<state, parent, p0, p1, made, script>>

DupCall(p) ==
    /\ \/ At(p, "dupr") /\ Dup(p, p0[p])
       \/ At(p, "dupw") /\ Dup(p, p1[p])
    /\ Continue(p)
    /\ UNCHANGED <<state, parent, p0, p1, made, script>>

\* open() of a redirection may fail for want of a file, or of the name.
OpenCall(p) ==
    /\ At(p, "open")
    /\ \/ Open(p, "inode") /\ Continue(p)
       \/ Fail(p) /\ UNCHANGED fileVars
    /\ UNCHANGED <<state, parent, p0, p1, made, script>>

\* pipe(): two files, then a page and two descriptors; whatever is missing, it
\* fails.
PipeCall(p) ==
    /\ At(p, "pipe")
    /\ \/ /\ Len(made[p]) < 2 /\ PipeFile
          /\ made' = [made EXCEPT ![p] = Append(@, Lowest(FreeFiles))]
          /\ UNCHANGED <<prog, p0, p1>>
       \/ /\ Len(made[p]) = 2 /\ PipeEnds(p, made[p])
          /\ made' = [made EXCEPT ![p] = IF HasTwoFds(p) THEN << >> ELSE @]
          /\ p0' = [p0 EXCEPT ![p] = NewFd0(p)] /\ p1' = [p1 EXCEPT ![p] = NewFd1(p)]
          /\ Go(p, IF HasTwoFds(p) THEN Tail(prog[p]) ELSE <<Call("bad")>>)
       \/ /\ Len(made[p]) < 2 => FreeFiles = {}
          /\ Go(p, <<Call("bad")>>)
          /\ UNCHANGED <<fileVars, p0, p1, made>>
    /\ UNCHANGED <<state, parent, script>>

PipeFails(p) ==
    /\ At(p, "bad")
    /\ IF made[p] = << >> THEN Fail(p) /\ UNCHANGED <<fileVars, made>>
       ELSE /\ PipeBad(p, made[p])
            /\ made' = [made EXCEPT ![p] = Tail(@)]
            /\ UNCHANGED prog
    /\ UNCHANGED <<state, parent, p0, p1, script>>

\* exec() of r, w or d; of any other name it fails and runcmd() exits.
Exec(p) ==
    /\ At(p, "exec")
    /\ Go(p, CASE Arg(p) = <<"r">> -> <<Call("read"), Call("exit")>>
               [] Arg(p) = <<"w">> -> <<Call("write"), Call("write"), Call("exit")>>
               [] Arg(p) = <<"d">> -> <<Call("dupr"), Call("pipe"), Call("exit")>>
               [] OTHER -> Tail(prog[p]))
    /\ UNCHANGED <<fileVars, state, parent, p0, p1, made, script>>

\* r reads its standard input until there is nothing more.
Reading(p) ==
    /\ At(p, "read")
    /\ \/ ReadByte(p, 0) /\ UNCHANGED prog
       \/ AtEof(p, 0) /\ Continue(p) /\ UNCHANGED fileVars
    /\ UNCHANGED <<state, parent, p0, p1, made, script>>

\* w writes to its standard output; nobody may be reading.
Writing(p) ==
    /\ At(p, "write")
    /\ \/ WriteByte(p, 1)
       \/ WriteGoesElsewhere(p, 1) /\ UNCHANGED fileVars
    /\ Continue(p)
    /\ UNCHANGED <<state, parent, p0, p1, made, script>>

\* exit() closes the descriptors one by one, gives the children to init and
\* leaves a zombie.
Exit(p) ==
    /\ At(p, "exit")
    /\ IF \E d \in Fd : IsOpen(p, d)
       THEN /\ Close(p, Min({d \in Fd : IsOpen(p, d)}))
            /\ UNCHANGED <<state, parent, prog, p0, p1>>
       ELSE /\ state' = [state EXCEPT ![p] = "zombie"]
            /\ parent' = [q \in Proc |-> IF parent[q] = p THEN initproc ELSE parent[q]]
            /\ prog' = [prog EXCEPT ![p] = << >>]
            /\ p0' = [p0 EXCEPT ![p] = 0] /\ p1' = [p1 EXCEPT ![p] = 0]
            /\ UNCHANGED fileVars
    /\ UNCHANGED <<made, script>>

\* wait(0) returns for any child, or at once if there is none.
Zombies(p) == {q \in Proc : parent[q] = p /\ state[q] = "zombie"}
Children(p) == {q \in Proc : parent[q] = p /\ state[q] # "unused"}

Reap(q) ==
    /\ state' = [state EXCEPT ![q] = "unused"]
    /\ parent' = [parent EXCEPT ![q] = initproc]

Wait(p) ==
    /\ At(p, "wait")
    /\ IF Children(p) = {} THEN UNCHANGED <<state, parent>>
                           ELSE \E q \in Zombies(p) : Reap(q)
    /\ Continue(p)
    /\ UNCHANGED <<fileVars, p0, p1, made, script>>

\* init waits for processes without a parent; if it was the shell, it starts
\* another one, which has init's descriptors.
InitReap(q) ==
    /\ q # Shell /\ q \in Zombies(initproc)
    /\ Reap(q)
    /\ UNCHANGED <<fileVars, prog, p0, p1, made, script>>

InitRestart ==
    /\ Shell \in Zombies(initproc)
    /\ state' = [state EXCEPT ![Shell] = "live"]
    /\ prog' = [prog EXCEPT ![Shell] = <<Call("console"), Call("getcmd")>>]
    /\ DupAll(initproc, Shell)
    /\ UNCHANGED <<parent, p0, p1, made, script>>

-----------------------------------------------------------------------------
Step(p) ==
    \/ FinishClose(p) \/ Console(p) \/ Expand(p) \/ Fork1(p) \/ CloseCall(p)
    \/ DupCall(p) \/ OpenCall(p) \/ PipeCall(p) \/ PipeFails(p) \/ Exec(p)
    \/ Reading(p) \/ Writing(p) \/ Exit(p) \/ Wait(p)

InitStep == InitRestart \/ \E q \in User : InitReap(q)

Next == GetCmd \/ InitStep \/ \E p \in User : Step(p)

Spec == Init /\ [][Next]_vars

\* Whoever can take a step does so in the end: the scheduler runs every
\* runnable process, and the lines of the script are typed.
Fairness == WF_vars(GetCmd) /\ WF_vars(InitStep) /\ \A p \in User : WF_vars(Step(p))

-----------------------------------------------------------------------------
\* The descriptors' bookkeeping is exact through all forks, dups, closes,
\* failing pipe()s and exits of a command (see FilesCounted in Files).
RefsExact == FilesCounted(made)

\* The prompt comes back after every command: no pipeline waits for an end of
\* file that never comes, because someone still has a write end.  And what is
\* run in the background ends too.
PromptReturns ==
    (\E p \in User : p # Shell /\ state[p] # "unused")
        ~> (At(Shell, "getcmd") /\ \A p \in User \ {Shell} : state[p] = "unused")
=============================================================================
