------------------------------ MODULE ShLines -------------------------------
(* A line typed at the prompt of the shell, a key at a time (gets()).      *)
EXTENDS ShParse

CONSTANTS Keys,      \* what is typed
          MaxLine    \* bound: length of the line, below nbuf of main()

VARIABLE line        \* buf

LineInit == line = << >>

Type == /\ Len(line) < MaxLine
        /\ \E c \in Keys : line' = Append(line, c)

\* main() has parsed the line; getcmd() clears buf for the next one.
Enter == line # << >> /\ line' = << >>

LineNext == Type \/ Enter

\* parsecmd() builds the command that the grammar gives the line, with its
\* words as NUL-terminated strings, and rejects exactly the lines that are in
\* error.
ParseRight ==
    Meaning(line) = IF ParseCmd(line) = Syntax THEN {} ELSE {ParseCmd(line)}
=============================================================================
