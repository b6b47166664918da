------------------------------- MODULE Image --------------------------------
(***************************************************************************)
(* The layout of the disk, and mkfs/mkfs.c, which writes the first image.  *)
(* A block is BSIZE cells.  A cell holds a byte or, in an indirect block,  *)
(* a block number, so that a stale data block really looks like pointers   *)
(* when it is taken for an indirect block.                                 *)
(***************************************************************************)
EXTENDS Integers, Sequences, FiniteSets, FiniteSetsExt

CONSTANTS FSSIZE, NINODES, LOGSIZE, IPB, BPB, BSIZE, NDIRECT,
          Files       \* lengths of the files mkfs is given

NINDIRECT == BSIZE    \* one cell is one uint
MAXFILE == NDIRECT + NINDIRECT
ROOTINO == 1

\* [ boot block | sb block | log | inode blocks | free bit map | data blocks ]
ninodeblocks == NINODES \div IPB + 1
nbitmap == FSSIZE \div BPB + 1
nmeta == 2 + LOGSIZE + ninodeblocks + nbitmap
inodestart == 2 + LOGSIZE
bmapstart == 2 + LOGSIZE + ninodeblocks
IBLOCK(i) == i \div IPB + inodestart
BBLOCK(b) == b \div BPB + bmapstart

Block == 0 .. FSSIZE - 1
Data  == nmeta .. FSSIZE - 1
Inode == 1 .. NINODES
Cells == 0 .. BSIZE - 1

\* The root directory's size is rounded up to whole blocks even if its entries
\* fill them; the files must not make that happen, or it ends in a block that
\* was never allocated.
ImageAssumption ==
    /\ {FSSIZE, NINODES, IPB, BPB, BSIZE, NDIRECT} \subseteq Nat \ {0} /\ LOGSIZE \in Nat
    /\ nmeta < FSSIZE
    /\ Len(Files) < NINODES /\ \A k \in DOMAIN Files : Files[k] <= MAXFILE * BSIZE
    /\ (2 + Len(Files)) % BSIZE # 0

VARIABLES used,      \* the blocks whose bit is set
          data,      \* the contents of the blocks; only those of data blocks matter
          addrs,     \* ip->addrs
          size,      \* ip->size
          file,      \* what each file should contain (history)
          todo       \* mkfs: iappend() calls to make

diskVars == <<used, data, addrs, size>>

\* iappend() of k bytes v to inode i.  A directory entry is one byte here.
Append1(i, v, k) == [inum |-> i, val |-> v, n |-> k]

\* main(): the entries "." and "..", then for each file its entry and its
\* contents, BSIZE bytes at a time.
MkCalls ==
    LET Copied(k) == <<Append1(ROOTINO, 1, 1)>> \o
                      [j \in 1 .. (Files[k] + BSIZE - 1) \div BSIZE |->
                          Append1(k + 1, 2, Min({BSIZE, Files[k] - (j - 1) * BSIZE}))]
        From[k \in 1 .. Len(Files) + 1] ==
            IF k > Len(Files) THEN << >> ELSE Copied(k) \o From[k + 1] IN
    <<Append1(ROOTINO, 1, 1), Append1(ROOTINO, 1, 1)>> \o From[1]

MkInit ==
    /\ used = {}
    /\ data = [b \in Block |-> [c \in Cells |-> 0]]
    /\ addrs = [i \in Inode |-> [k \in 0 .. NDIRECT |-> 0]]
    /\ size = [i \in Inode |-> 0]
    /\ file = [i \in Inode |-> << >>]
    /\ todo = MkCalls

-----------------------------------------------------------------------------
\* The block number in slot bn of inode i, 0 if there is none.
Slot(i, bn) ==
    IF bn < NDIRECT THEN addrs[i][bn]
    ELSE IF addrs[i][NDIRECT] = 0 THEN 0
    ELSE data[addrs[i][NDIRECT]][bn - NDIRECT]

\* Block b becomes the next one on the way to slot bn: the slot itself, or the
\* indirect block in front of it.
Install(i, bn, b, d) ==
    IF bn < NDIRECT \/ addrs[i][NDIRECT] = 0
    THEN /\ addrs' = [addrs EXCEPT ![i][Min({bn, NDIRECT})] = b]
         /\ data' = d
    ELSE /\ data' = [d EXCEPT ![addrs[i][NDIRECT]][bn - NDIRECT] = b]
         /\ UNCHANGED addrs

\* Cells from .. from + k - 1 of block b get v.
Fill(b, from, k, v) ==
    [data EXCEPT ![b] = [c \in Cells |-> IF c \in from .. from + k - 1 THEN v ELSE @[c]]]

\* s with k copies of v from position off on.
Overwrite(s, off, k, v) ==
    [j \in 1 .. Max({Len(s), off + k}) |->
        IF j - 1 \in off .. off + k - 1 THEN v ELSE s[j]]

-----------------------------------------------------------------------------
\* The blocks mkfs has handed out are those below freeblock: used holds them
\* until balloc() writes the bitmap.
freeblock == nmeta + Cardinality(used)

\* iappend(): a block that is missing is the next free one,
MkAlloc ==
    /\ todo # << >>
    /\ LET i  == Head(todo).inum
           bn == size[i] \div BSIZE IN
       /\ Slot(i, bn) = 0
       /\ Install(i, bn, freeblock, data)
    /\ used' = used \cup {freeblock}
    /\ UNCHANGED <<size, file, todo>>

\* and the bytes go to the end of the file, as many as fit into the block.
MkAppend ==
    /\ todo # << >>
    /\ LET i   == Head(todo).inum
           off == size[i]
           b   == Slot(i, off \div BSIZE)
           n1  == Min({Head(todo).n, BSIZE - (off % BSIZE)}) IN
       /\ b # 0
       /\ data' = Fill(b, off % BSIZE, n1, Head(todo).val)
       /\ size' = [size EXCEPT ![i] = off + n1]
       /\ file' = [file EXCEPT ![i] = Overwrite(@, off, n1, Head(todo).val)]
       /\ todo' = IF n1 = Head(todo).n THEN Tail(todo)
                                       ELSE [todo EXCEPT ![1].n = @ - n1]
    /\ UNCHANGED <<used, addrs>>

\* main() makes the root directory end at the end of a block, and balloc()
\* marks everything below freeblock.
RootSize == (size[ROOTINO] \div BSIZE + 1) * BSIZE

MkFinish ==
    /\ size' = [size EXCEPT ![ROOTINO] = RootSize]
    /\ file' = [file EXCEPT ![ROOTINO] =
                   Overwrite(@, size[ROOTINO], RootSize - size[ROOTINO], 0)]
    /\ used' = 0 .. freeblock - 1
    /\ UNCHANGED <<data, addrs>>
=============================================================================
