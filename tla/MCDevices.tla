----------------------------- MODULE MCDevices ------------------------------
(***************************************************************************)
(* The console, the UART and the clock on two CPUs, of which c0 has the    *)
(* clock, with plans that each bring two or three of their users together. *)
(* The indices of the rings start one below their wrap.                    *)
(***************************************************************************)
EXTENDS Devices, TLC

CONSTANTS c0, c1

Plan(calls0, calls1, keys, typed, ticksToCome, kills) ==
    [calls |-> c0 :> calls0 @@ c1 :> calls1, keys |-> keys, typed |-> typed,
     ticks |-> ticksToCome, kills |-> kills]

MCPlans == {
    Plan(<<"read">>, << >>, 4, {"x", "return", "bs", "kill"}, 0, 0),
    Plan(<<"read">>, << >>, 3, {"x", "return", "eof"}, 0, 1),
    Plan(<<"read">>, <<"read">>, 2, {"x", "eof"}, 0, 0),
    Plan(<<"print">>, <<"read">>, 1, {"x", "bs", "dump", "eof", "nul"}, 0, 1),
    Plan(<<"write">>, <<"write", "print">>, 0, {}, 0, 0),
    Plan(<<"sleep">>, <<"sleep", "print">>, 0, {}, 3, 1),
    Plan(<<"write">>, <<"print">>, 1, {"x"}, 1, 0) }
=============================================================================
