------------------------------ MODULE ShParse -------------------------------
(***************************************************************************)
(* The parser of user/sh.c, over characters, and the grammar it should     *)
(* accept, over tokens.                                                    *)
(*                                                                         *)
(* A parsing function gets the line s and a position i (ps), and returns   *)
(* [i, cmd]: where it got to, and a command or Syntax if it called         *)
(* panic().  A command is a tuple that starts with its type.  A word is    *)
(* given by its positions <<q, eq>>; eq is the first one after it.         *)
(***************************************************************************)
EXTENDS Integers, Sequences, FiniteSets

CONSTANT MAXARGS

Whitespace == {" "}
Symbols == {"<", "|", ">", "&", ";", "(", ")"}

\* The constructors of commands, and what panic() leaves instead of one.
ExecCmd(argv) == <<"EXEC", argv>>
RedirCmd(subcmd, file, tok) == <<"REDIR", subcmd, file, tok>>
PipeCmd(left, right) == <<"PIPE", left, right>>
ListCmd(left, right) == <<"LIST", left, right>>
BackCmd(subcmd) == <<"BACK", subcmd>>
Syntax == <<"SYNTAX">>

Res(i, cmd) == [i |-> i, cmd |-> cmd]

\* *s, where the line ends in a NUL.
CharAt(s, i) == IF i > Len(s) THEN "nul" ELSE s[i]

\* The first position from i on that is not in Chars.
SkipIn(s, i, Chars) ==
    CHOOSE j \in i .. Len(s) + 1 :
        /\ \A k \in i .. j - 1 : s[k] \in Chars
        /\ CharAt(s, j) \notin Chars

Skip(s, i) == SkipIn(s, i, Whitespace)

Peek(s, i, toks) == CharAt(s, Skip(s, i)) \in toks

\* gettoken(): [tok, q, eq, i].
GetToken(s, i) ==
    LET q  == Skip(s, i)
        c  == CharAt(s, q)
        Tok(t, eq) == [tok |-> t, q |-> q, eq |-> eq, i |-> Skip(s, eq)] IN
    CASE c = "nul" -> Tok(c, q)
      [] c = ">" /\ CharAt(s, q + 1) = ">" -> Tok("+", q + 2)
      [] c \in Symbols /\ ~(c = ">" /\ CharAt(s, q + 1) = ">") -> Tok(c, q + 1)
      [] OTHER -> Tok("a", SkipIn(s, q, {x \in {s[k] : k \in 1 .. Len(s)} :
                                            x \notin Whitespace \cup Symbols}))

RECURSIVE ParseLine(_, _), ParseBacks(_, _), ParsePipe(_, _), ParseRedirs(_, _),
          ParseArgs(_, _, _), SetExec(_, _)

\* while(peek "<>"): the file's name must follow.
ParseRedirs(s, r) ==
    IF r.cmd = Syntax \/ ~Peek(s, r.i, {"<", ">"}) THEN r
    ELSE LET op == GetToken(s, r.i)
             w  == GetToken(s, op.i) IN
         IF w.tok # "a" THEN Res(w.i, Syntax)
         ELSE ParseRedirs(s, Res(w.i, RedirCmd(r.cmd, <<w.q, w.eq>>, op.tok)))

ParseBlock(s, i) ==
    LET r == ParseLine(s, GetToken(s, i).i) IN
    IF r.cmd = Syntax \/ ~Peek(s, r.i, {")"}) THEN Res(r.i, Syntax)
    ELSE ParseRedirs(s, Res(GetToken(s, r.i).i, r.cmd))

\* The execcmd inside the redirections of cmd gets the arguments argv: the
\* code keeps a pointer to it.
SetExec(cmd, argv) ==
    IF cmd[1] = "EXEC" THEN ExecCmd(argv) ELSE [cmd EXCEPT ![2] = SetExec(@, argv)]

\* The loop of parseexec(), with argv so far.
ParseArgs(s, r, argv) ==
    IF r.cmd = Syntax THEN r
    ELSE IF Peek(s, r.i, {"|", ")", "&", ";"}) THEN Res(r.i, SetExec(r.cmd, argv))
    ELSE LET w == GetToken(s, r.i) IN
         CASE w.tok = "nul" -> Res(w.i, SetExec(r.cmd, argv))
           [] w.tok = "a" /\ Len(argv) + 1 < MAXARGS ->
                  ParseArgs(s, ParseRedirs(s, Res(w.i, r.cmd)), Append(argv, <<w.q, w.eq>>))
           [] OTHER -> Res(w.i, Syntax)

ParseExec(s, i) ==
    IF Peek(s, i, {"("}) THEN ParseBlock(s, i)
    ELSE ParseArgs(s, ParseRedirs(s, Res(i, ExecCmd(<< >>))), << >>)

\* A command followed by op, in parsepipe() and parseline(): combine it with
\* what Parse makes of the rest.
Then(s, r, op, Cmd(_, _), Parse(_, _)) ==
    IF r.cmd = Syntax \/ ~Peek(s, r.i, {op}) THEN r
    ELSE LET rest == Parse(s, GetToken(s, r.i).i) IN
         Res(rest.i, IF rest.cmd = Syntax THEN Syntax ELSE Cmd(r.cmd, rest.cmd))

ParsePipe(s, i) == Then(s, ParseExec(s, i), "|", PipeCmd, ParsePipe)

ParseBacks(s, r) ==
    IF r.cmd = Syntax \/ ~Peek(s, r.i, {"&"}) THEN r
    ELSE ParseBacks(s, Res(GetToken(s, r.i).i, BackCmd(r.cmd)))

ParseLine(s, i) == Then(s, ParseBacks(s, ParsePipe(s, i)), ";", ListCmd, ParseLine)

\* Mutant of Terminated: the file name of a redirection is not terminated.
RECURSIVE TerminatedWords(_)
TerminatedWords(cmd) ==
    CASE cmd[1] = "EXEC" -> {cmd[2][k][2] : k \in DOMAIN cmd[2]}
      [] cmd[1] \in {"REDIR", "BACK"} -> TerminatedWords(cmd[2])
      [] cmd[1] \in {"PIPE", "LIST"} -> TerminatedWords(cmd[2]) \cup TerminatedWords(cmd[3])

\* nulterminate(): the positions where it stores a NUL.
RECURSIVE Terminated(_)
Terminated(cmd) ==
    CASE cmd[1] = "EXEC" -> {cmd[2][k][2] : k \in DOMAIN cmd[2]}
      [] cmd[1] = "REDIR" -> Terminated(cmd[2]) \cup {cmd[3][2]}
      [] cmd[1] \in {"PIPE", "LIST"} -> Terminated(cmd[2]) \cup Terminated(cmd[3])
      [] cmd[1] = "BACK" -> Terminated(cmd[2])

\* The C string that starts at q once there are NULs at nuls.
CString(s, q, nuls) ==
    LET end == CHOOSE j \in q .. Len(s) + 1 :
                  /\ j \in nuls \cup {Len(s) + 1}
                  /\ \A k \in q .. j - 1 : k \notin nuls IN
    SubSeq(s, q, end - 1)

\* The command as runcmd() sees it: its words are strings.
RECURSIVE Strings(_, _, _)
Strings(s, cmd, nuls) ==
    CASE cmd[1] = "EXEC" ->
            ExecCmd([k \in DOMAIN cmd[2] |-> CString(s, cmd[2][k][1], nuls)])
      [] cmd[1] = "REDIR" ->
            RedirCmd(Strings(s, cmd[2], nuls), CString(s, cmd[3][1], nuls), cmd[4])
      [] cmd[1] \in {"PIPE", "LIST"} ->
            <<cmd[1], Strings(s, cmd[2], nuls), Strings(s, cmd[3], nuls)>>
      [] cmd[1] = "BACK" -> BackCmd(Strings(s, cmd[2], nuls))

ParseCmd(s) ==
    LET r == ParseLine(s, 1) IN
    IF r.cmd = Syntax \/ Skip(s, r.i) # Len(s) + 1 THEN Syntax
    ELSE Strings(s, r.cmd, Terminated(r.cmd))

-----------------------------------------------------------------------------
(***************************************************************************)
(* The grammar, as sets of commands that a sequence of tokens stands for:  *)
(*     line   ::=  pipe {"&"} [";" line]                                   *)
(*     pipe   ::=  cmd ["|" pipe]                                          *)
(*     cmd    ::=  {word | redir}  |  "(" line ")" {redir}                 *)
(*     redir  ::=  ("<" | ">" | ">>") word                                 *)
(***************************************************************************)
RECURSIVE Tokens(_)
Tokens(s) ==
    IF s = << >> THEN << >>
    ELSE LET word == {n \in 1 .. Len(s) : \A k \in 1 .. n : s[k] \notin Whitespace \cup Symbols}
             len == Cardinality(word)
             From(n) == Tokens(SubSeq(s, n, Len(s))) IN
         CASE s[1] \in Whitespace -> From(2)
           [] len > 0 -> <<<<"a", SubSeq(s, 1, len)>>>> \o From(len + 1)
           [] Len(s) > 1 /\ s[1] = ">" /\ s[2] = ">" -> <<<<"+", << >>>>>> \o From(3)
           [] OTHER -> <<<<s[1], << >>>>>> \o From(2)

IsRedir(tok) == tok[1] \in {"<", ">", "+"}

RECURSIVE Redirected(_, _)
Redirected(cmd, t) ==
    IF t = << >> THEN cmd
    ELSE IF IsRedir(t[1]) THEN Redirected(RedirCmd(cmd, t[2][2], t[1][1]), SubSeq(t, 3, Len(t)))
    ELSE Redirected(cmd, Tail(t))

\* Words and redirections only, each redirection with its word.
WellFormed(t) ==
    \A k \in DOMAIN t :
        \/ t[k][1] = "a"
        \/ IsRedir(t[k]) /\ k < Len(t) /\ t[k + 1][1] = "a"

IsWord(t, k) == t[k][1] = "a" /\ (k = 1 \/ ~IsRedir(t[k - 1]))

Words(t) == LET Pick[k \in 0 .. Len(t)] ==
                   IF k = 0 THEN << >>
                   ELSE IF IsWord(t, k) THEN Append(Pick[k - 1], t[k][2]) ELSE Pick[k - 1] IN
            Pick[Len(t)]

RECURSIVE Line(_), Pipeline(_)

Simple(t) ==
    IF WellFormed(t) /\ Len(Words(t)) < MAXARGS
    THEN {Redirected(ExecCmd(Words(t)), t)} ELSE {}

Grouped(t) ==
    UNION {{Redirected(cmd, SubSeq(t, k + 1, Len(t))) : cmd \in Line(SubSeq(t, 2, k - 1))} :
           k \in {k \in 2 .. Len(t) :
                     /\ t[1][1] = "(" /\ t[k][1] = ")"
                     /\ LET rest == SubSeq(t, k + 1, Len(t)) IN
                        WellFormed(rest) /\ Words(rest) = << >>}}

Command(t) == Simple(t) \cup Grouped(t)

\* Both sides of an operator, in every way to split t.
Joined(t, op, Cmd(_, _), L(_), R(_)) ==
    UNION {{Cmd(l, r) : l \in L(SubSeq(t, 1, k - 1)), r \in R(SubSeq(t, k + 1, Len(t)))} :
           k \in {k \in DOMAIN t : t[k][1] = op}}

Pipeline(t) == Command(t) \cup Joined(t, "|", PipeCmd, Command, Pipeline)

RECURSIVE Job(_)
Job(t) ==
    Pipeline(t) \cup
    IF t # << >> /\ t[Len(t)][1] = "&"
    THEN {BackCmd(c) : c \in Job(SubSeq(t, 1, Len(t) - 1))} ELSE {}

Line(t) == Job(t) \cup Joined(t, ";", ListCmd, Job, Line)

\* The commands that s stands for: one, or none if s is in error.
Meaning(s) == Line(Tokens(s))
=============================================================================
