------------------------------ MODULE MCMemory ------------------------------
(***************************************************************************)
(* Memory, and the user library and the parser of the shell, which are     *)
(* sequential: pages and page tables (Vm), malloc() (Umalloc) and          *)
(* parsecmd() (ShLines).  They have no state in common: subject tells      *)
(* which one a behaviour is about.                                         *)
(***************************************************************************)
EXTENDS Vm, TLC

CONSTANTS Requests, HeaderSize, NALLOC, HeapEnd, MAXARGS, Keys, MaxLine

VARIABLES subject, mem, freep, brk, arena, live, line

heapVars == <<mem, freep, brk, arena, live>>

\* A program of one segment, and one of two.
Programs == {<<1>>, <<3, 6>>}

\* Sizes in the middle of a page, and one below zero.
Steps == {-13, -3, 2, 5}

VmSymmetry == Permutations(Proc)

U == INSTANCE Umalloc
P == INSTANCE ShLines

MCInit == Init /\ U!Init /\ P!LineInit /\ subject \in {"vm", "malloc", "parser"}

MCNext ==
    \/ subject = "vm" /\ Next /\ UNCHANGED <<heapVars, line, subject>>
    \/ subject = "malloc" /\ U!Next /\ UNCHANGED <<vars, line, subject>>
    \/ subject = "parser" /\ P!LineNext /\ UNCHANGED <<vars, heapVars, subject>>

MCSpec == MCInit /\ [][MCNext]_<<vars, heapVars, line, subject>>

\* malloc() never hands out memory twice and free() loses none (see Umalloc).
HeapSound == U!HeapSound

\* parsecmd() builds the command that the grammar gives the line, and rejects
\* exactly the lines that are in error (see ShLines).
ParseRight == P!ParseRight
=============================================================================
