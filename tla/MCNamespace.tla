---------------------------- MODULE MCNamespace -----------------------------
(* Instances of Namespace for TLC. *)
EXTENDS Namespace, TLC

CONSTANTS p1, p2

\* p1 makes directories, moves into them and removes them; p2 makes, links and
\* removes files by the same names.
DirsAndFiles ==
    (p1 :> {<<"mkdir", <<"a">>, << >> >>, <<"mkdir", <<"a", "b">>, << >> >>,
            <<"chdir", <<"a", "b">>, << >> >>, <<"unlink", <<"a">>, << >> >>,
            <<"open", <<"..">>, << >> >>} @@
     p2 :> {<<"create", <<"a", "b">>, << >> >>, <<"create", <<"a">>, << >> >>,
            <<"link", <<"a">>, <<"a", "b">> >>,
            <<"unlink", <<"a", "b">>, << >> >>})
=============================================================================
