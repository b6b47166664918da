------------------------------- MODULE MCUser -------------------------------
(***************************************************************************)
(* User programs that live on pipes and descriptors: the ring of           *)
(* circulate_byte (Circulate), the token of interprocess (Interprocess)    *)
(* and the shell at work (Sh).  They have no state in common: subject      *)
(* tells which one a behaviour is about.                                   *)
(*                                                                         *)
(* The shell has five processes and four files: enough for a pipeline of   *)
(* two, and too little for a longer one or for two lists in a pipeline.    *)
(* With five descriptors the pipe() of d finds one, and not a second.      *)
(***************************************************************************)
EXTENDS Sh

CONSTANTS NUM_CHILDREN, NUM_LOOPS, RingPipeSize, MaxFaults, Names, Loops, LineLen

VARIABLES subject,
          ringQ, open, pc, buf, ringK, loops, faults,
          mainPc, piped, tokens, turnPc, turnMade, waits, lines, col, turnFaults

ringVars == <<ringQ, open, pc, buf, ringK, loops, faults>>
turnVars == <<mainPc, piped, tokens, turnPc, turnMade, waits, lines, col, turnFaults>>

MCNames == <<"A", "B">>

MCScripts == {
    <<<<"w", "|", "r">>>>,
    <<<<"d">>>>,
    <<<<"w", "&">>, <<"r", "<", "f">>>>,
    <<<<"w", ">", "f", ";", "w">>, <<"c", "d", " ", "x">>>>,
    <<<<"w", ">", "f", "|", "r", "|", "r">>>>,
    <<<<"(", "w", ";", "w", ")", "|", "(", "r", ";", "w", ")">>>>,
    <<<<"x", "|", "w">>, << >>, <<"w", "|">>>> }

C == INSTANCE Circulate WITH PIPESIZE <- RingPipeSize, q <- ringQ, k <- ringK
T == INSTANCE Interprocess WITH pc <- turnPc, made <- turnMade, faults <- turnFaults

UserInit ==
    /\ C!Init /\ T!Init /\ Init
    /\ \/ subject = "shell"
       \/ subject \in {"ring", "turns"} /\ script = CHOOSE s \in Scripts : TRUE

UserNext ==
    \/ subject = "ring" /\ C!Next /\ UNCHANGED <<vars, turnVars, subject>>
    \/ subject = "turns" /\ T!Next /\ UNCHANGED <<vars, ringVars, subject>>
    \/ subject = "shell" /\ Next /\ UNCHANGED <<ringVars, turnVars, subject>>

\* The fairness of the program that the behaviour is about.
UserSpec ==
    /\ UserInit /\ [][UserNext]_<<vars, ringVars, turnVars, subject>>
    /\ \/ subject = "ring" /\ C!Fairness
       \/ subject = "turns" /\ T!Fairness
       \/ subject = "shell" /\ Fairness

\* No read() of the ring finds end of file and no write() fails too early (see
\* Circulate), and the lines of interprocess do not intermix if its pipe() has
\* succeeded (see Interprocess).
TurnsRight == C!AllLoops /\ T!LinesWhole

\* Every process of the ring ends, whatever fails and whoever is killed (see
\* Circulate), and so do those of interprocess if nothing fails and
\* none is killed.
AllEnd == <>((subject = "ring" => C!Ended) /\ (subject = "turns" => T!Printed))

\* The prompt of the shell comes back after every command, and what is run in
\* the background ends too (see Sh).
ShellReady == subject = "shell" => PromptReturns
=============================================================================
