----------------------------- MODULE BlockStore -----------------------------
(***************************************************************************)
(* What the buffer cache promises: the blocks of the disk, each of which   *)
(* at most one process at a time has to itself, to look at and to change.  *)
(***************************************************************************)
CONSTANTS Proc, Block, Val, Nobody

VARIABLES mem,     \* the contents of every block
          owner    \* the process that has the block to itself

Init == mem \in [Block -> Val] /\ owner = [k \in Block |-> Nobody]

Take(p, k) ==
    /\ owner[k] = Nobody
    /\ owner' = [owner EXCEPT ![k] = p]
    /\ UNCHANGED mem

Change(p, k, v) ==
    /\ owner[k] = p
    /\ mem' = [mem EXCEPT ![k] = v]
    /\ UNCHANGED owner

Give(p, k) ==
    /\ owner[k] = p
    /\ owner' = [owner EXCEPT ![k] = Nobody]
    /\ UNCHANGED mem

Next ==
    \E p \in Proc, k \in Block :
        Take(p, k) \/ Give(p, k) \/ \E v \in Val : Change(p, k, v)

Spec == Init /\ [][Next]_<<mem, owner>>
=============================================================================
