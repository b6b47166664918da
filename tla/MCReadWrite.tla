---------------------------- MODULE MCReadWrite -----------------------------
(***************************************************************************)
(* What read() and write() reach through a file descriptor: a pipe (Pipe), *)
(* and files on the disk that mkfs made (Blocks).  They have no state in   *)
(* common: subject tells which one a behaviour is about.                   *)
(*                                                                         *)
(* Two processes use three open files: f1 and f2 share the inode that mkfs *)
(* filled, f3 is an empty file.  The disk is too small for two files of    *)
(* full length.                                                            *)
(***************************************************************************)
EXTENDS Pipe, Sequences, TLC

CONSTANTS p1, p2, f1, f2, f3, FsProc, File, FSSIZE, NINODES, LOGSIZE, IPB, BPB, BSIZE,
          NDIRECT, MAXOPBLOCKS

VARIABLES subject,
          used, blocks, addrs, size, file, todo, booted, calls, off, ilock, l, logged,
          dirty, torn

fsVars == <<used, blocks, addrs, size, file, todo, booted, calls, off, ilock, l, logged,
            dirty, torn>>

\* Writers among themselves, readers among themselves, and bytes are
\* interchangeable.
PipeSymmetry == Permutations(Writer) \cup Permutations(Reader) \cup Permutations(Byte)

Files == <<3>>
Ip == f1 :> 2 @@ f2 :> 2 @@ f3 :> 3

W(x, n, v) == [op |-> "write", f |-> x, n |-> n, val |-> v]
R(x, n) == [op |-> "read", f |-> x, n |-> n, val |-> 0]
T(x) == [op |-> "trunc", f |-> x, n |-> 0, val |-> 0]

Plans == {
    p1 :> <<R(f1, 1), W(f1, 7, 13)>> @@ p2 :> <<W(f2, 3, 14)>>,
    p1 :> <<W(f1, 8, 13), T(f1)>> @@ p2 :> <<W(f3, 7, 14), R(f3, 2)>>,
    p1 :> <<T(f1), W(f1, 3, 13)>> @@ p2 :> <<R(f2, 2), W(f2, 6, 14)>>,
    p1 :> <<W(f3, 7, 13), T(f3), W(f1, 7, 15)>> @@ p2 :> <<T(f2), R(f2, 3)>> }

B == INSTANCE Blocks WITH Proc <- FsProc, data <- blocks, lock <- ilock

\* The layout of the disk and the files of mkfs are such as Image and Blocks ask for.
ASSUME DiskAssumption == B!ImageAssumption /\ B!BlocksAssumption

ReadWriteInit ==
    /\ Init /\ B!Init
    /\ \/ subject = "files"
       \/ subject = "pipe" /\ calls = CHOOSE t \in Plans : TRUE

\* Both ends of the pipe are closed, and nothing is left to do.
Closed == ref = {} /\ (\A p \in Proc : pc[p] = "idle") /\ UNCHANGED vars

ReadWriteNext ==
    \/ subject = "pipe" /\ (Next \/ Closed) /\ UNCHANGED <<fsVars, subject>>
    \/ subject = "files" /\ B!Next /\ UNCHANGED <<vars, subject>>

ReadWriteSpec == ReadWriteInit /\ [][ReadWriteNext]_<<vars, fsVars, subject>>

\* A block is free or belongs to one inode, and the bitmap says which (see Blocks).
BlocksOwned == B!BlocksOwned

\* A file reads back what was written to it (see Blocks).
ContentsRight == B!ContentsRight

\* An operation gives the log all that it changes, and no more than it has
\* reserved (see Blocks).
LogComplete == B!LogComplete
=============================================================================
