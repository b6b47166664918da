-------------------------------- MODULE Tty ---------------------------------
(***************************************************************************)
(* What the console promises about input: a line discipline.  Characters   *)
(* can be edited until the line is entered; a read gets at most one line,  *)
(* and an end-of-file mark is consumed only by a read that gets nothing    *)
(* else.                                                                   *)
(***************************************************************************)
EXTENDS Naturals, Sequences

CONSTANTS Char,       \* what can be stored, Newline and Eof among it
          Newline, Eof,
          Capacity    \* characters that fit, entered or not

VARIABLES entered,    \* characters a read may take
          line        \* the line being edited

vars == <<entered, line>>

Init == entered = << >> /\ line = << >>

\* A character is typed; the end of the line, or of the space, enters it.
Type(ch) ==
    /\ Len(entered) + Len(line) < Capacity
    /\ IF ch \in {Newline, Eof} \/ Len(entered) + Len(line) + 1 = Capacity
       THEN entered' = entered \o Append(line, ch) /\ line' = << >>
       ELSE line' = Append(line, ch) /\ UNCHANGED entered

Erase ==
    /\ line # << >>
    /\ line' = SubSeq(line, 1, Len(line) - 1)
    /\ UNCHANGED entered

EraseLine == line # << >> /\ line' = << >> /\ UNCHANGED entered

\* A read takes n characters.
Take(n) ==
    /\ \A i \in 1 .. n - 1 : entered[i] \notin {Newline, Eof}
    /\ entered[n] = Eof => n = 1
    /\ entered' = SubSeq(entered, n + 1, Len(entered))
    /\ UNCHANGED line

Next ==
    \/ \E ch \in Char : Type(ch)
    \/ Erase \/ EraseLine
    \/ \E n \in 1 .. Len(entered) : Take(n)

Spec == Init /\ [][Next]_vars
=============================================================================
