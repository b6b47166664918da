-------------------------------- MODULE Fifo --------------------------------
(***************************************************************************)
(* What a pipe promises about its bytes: a bounded queue.  Every byte put  *)
(* is taken once and in order; a read whose destination is not mapped      *)
(* takes a byte without delivering it.                                     *)
(***************************************************************************)
EXTENDS Naturals, Sequences

CONSTANTS Byte, Capacity

VARIABLES q,    \* the bytes written and not yet read
          out   \* the byte delivered last

Init == q = << >> /\ out \in Byte

Put(b) == Len(q) < Capacity /\ q' = Append(q, b) /\ UNCHANGED out

Get == q # << >> /\ out' = Head(q) /\ q' = Tail(q)

Lose == q # << >> /\ q' = Tail(q) /\ UNCHANGED out

Next == Get \/ Lose \/ \E b \in Byte : Put(b)

Spec == Init /\ [][Next]_<<q, out>>
=============================================================================
