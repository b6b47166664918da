------------------------------- MODULE Blocks -------------------------------
(***************************************************************************)
(* The contents of files: block allocation, bmap(), itrunc(), readi(),     *)
(* writei() and iupdate() of kernel/fs.c under filewrite() and fileread()  *)
(* of kernel/file.c, on the image that mkfs made (Image).                  *)
(*                                                                         *)
(* Processes share open files (struct file, with its offset) and inodes.   *)
(* An inode's contents change only under ip->lock; a step is what is done  *)
(* under one buffer's lock.  begin_op() and end_op() delimit an operation, *)
(* whose blocks logged collects; the log itself is the module Log.         *)
(***************************************************************************)
EXTENDS Image

CONSTANTS Proc,
          File, Ip,        \* open files, and the inode f->ip of each
          MAXOPBLOCKS,
          Plans,           \* bound: the calls each process makes
          NIL

\* What the kernel relies on: filewrite() needs some blocks of an operation for itself.
BlocksAssumption == Ip \in [File -> Inode] /\ MAXOPBLOCKS >= 5 + nbitmap

VARIABLES booted,    \* the kernel runs
          calls,     \* bound: calls still to be made
          off,       \* f->off
          lock,      \* who holds ip->lock
          l,         \* locals of each process
          logged,    \* blocks log_write() was given in the operation
          dirty,     \* blocks changed in the cache since their log_write()
          torn       \* blocks whose last copyin failed half way

kernVars == <<off, lock, l, logged, dirty, torn>>
vars == <<diskVars, file, todo, booted, calls, kernVars>>

\* f: the open file.  left: bytes filewrite() still has to write.  n1, tot:
\* those of this writei(), and those it has written.  val: what it writes.
\* got: the block balloc() returned.  next: where itrunc() is.
Idle == [pc |-> "idle", f |-> NIL, i |-> 0, left |-> 0, n1 |-> 0, tot |-> 0,
         val |-> 0, got |-> 0, next |-> 0]

Init ==
    /\ MkInit
    /\ booted = FALSE
    /\ calls \in Plans
    /\ off = [f \in File |-> 0]
    /\ lock = [i \in Inode |-> NIL]
    /\ l = [p \in Proc |-> Idle]
    /\ logged = [p \in Proc |-> {}]
    /\ dirty = {} /\ torn = {}

Boot ==
    /\ ~booted /\ todo = << >>
    /\ booted' = TRUE
    /\ MkFinish
    /\ UNCHANGED <<todo, calls, kernVars>>

-----------------------------------------------------------------------------
At(p, x) == booted /\ l[p].pc = x
Become(p, rec) == l' = [l EXCEPT ![p] = rec]
Log(p, B) == logged' = [logged EXCEPT ![p] = @ \cup B]

Iupdate(p, i) == dirty' = dirty \ {IBLOCK(i)} /\ Log(p, {IBLOCK(i)})

Called(p, op) ==
    /\ At(p, "idle")
    /\ calls[p] # << >> /\ Head(calls[p]).op = op
    /\ calls' = [calls EXCEPT ![p] = Tail(@)]

\* filewrite() writes a few blocks at a time.
MaxWrite == ((MAXOPBLOCKS - 1 - 1 - 2) \div 2) * BSIZE

SysWrite(p) ==
    /\ Called(p, "write")
    /\ LET c == Head(calls[p]) IN
       Become(p, [Idle EXCEPT !.pc = "begin", !.f = c.f, !.i = Ip[c.f],
                              !.left = c.n, !.val = c.val])
    /\ UNCHANGED <<diskVars, file, todo, booted, off, lock, logged, dirty, torn>>

\* begin_op(), ilock(), and the tests at the head of writei().
WriteFits(p, n) ==
    /\ off[l[p].f] <= size[l[p].i]
    /\ off[l[p].f] + n <= MAXFILE * BSIZE

WriteBegin(p) ==
    /\ At(p, "begin")
    /\ lock[l[p].i] = NIL
    /\ LET n1 == Min({l[p].left, MaxWrite}) IN
       IF WriteFits(p, n1)
       THEN /\ Become(p, [l[p] EXCEPT !.pc = "map", !.n1 = n1])
            /\ lock' = [lock EXCEPT ![l[p].i] = p]
       ELSE Become(p, Idle) /\ UNCHANGED lock
    /\ UNCHANGED <<diskVars, file, todo, booted, calls, off, logged, dirty, torn>>

Pos(p) == off[l[p].f] + l[p].tot
Bn(p) == Pos(p) \div BSIZE

\* bmap() finds no block: balloc() takes the first free one, under the lock of
\* the bitmap's buffer, or writei() stops.
Balloc(p) ==
    /\ At(p, "map")
    /\ Slot(l[p].i, Bn(p)) = 0
    /\ IF Block \ used = {}
       THEN Become(p, [l[p] EXCEPT !.pc = "end"]) /\ UNCHANGED <<used, logged>>
       ELSE LET b == Min(Block \ used) IN
            /\ used' = used \cup {b}
            /\ Log(p, {BBLOCK(b)})
            /\ Become(p, [l[p] EXCEPT !.pc = "zero", !.got = b])
    /\ UNCHANGED <<data, addrs, size, file, todo, booted, calls, off, lock, dirty, torn>>

\* Mutant of Zeroed: balloc() does not call bzero().
ZeroedNot(b) == data

\* bzero() of the new block,
Zeroed(b) == [data EXCEPT ![b] = [c \in Cells |-> 0]]

\* Mutant of Installed: bmap() does not log the indirect block.
InstalledSilent(p) == {}

\* and bmap() enters it in the inode, which writei() will log at the end, or in
\* the indirect block.
Installed(p) ==
    IF Bn(p) < NDIRECT \/ addrs[l[p].i][NDIRECT] = 0 THEN {} ELSE {addrs[l[p].i][NDIRECT]}

BzeroInstall(p) ==
    /\ At(p, "zero")
    /\ Install(l[p].i, Bn(p), l[p].got, Zeroed(l[p].got))
    /\ Log(p, {l[p].got} \cup Installed(p))
    /\ dirty' = (dirty \cup IF addrs' # addrs THEN {IBLOCK(l[p].i)} ELSE {addrs[l[p].i][NDIRECT]})
                    \ ({l[p].got} \cup Installed(p))
    /\ torn' = torn \ {l[p].got}
    /\ Become(p, [l[p] EXCEPT !.pc = "map", !.got = 0])
    /\ UNCHANGED <<used, size, file, todo, booted, calls, off, lock>>

\* Mutant of Room: the offset within the block is forgotten.
RoomWhole(p) == Min({l[p].n1 - l[p].tot, BSIZE})

\* m of writei().
Room(p) == Min({l[p].n1 - l[p].tot, BSIZE - (Pos(p) % BSIZE)})

\* One round of writei()'s loop, with the block there: either_copyin() and
\* log_write().
Copy(p) ==
    /\ At(p, "map")
    /\ LET b == Slot(l[p].i, Bn(p))
           m == Room(p) IN
       /\ b # 0
       /\ data' = Fill(b, Pos(p) % BSIZE, m, l[p].val)
       /\ file' = [file EXCEPT ![l[p].i] = Overwrite(@, Pos(p), m, l[p].val)]
       /\ Log(p, {b})
       /\ dirty' = dirty \ {b} /\ torn' = torn \ {b}
       /\ Become(p, [l[p] EXCEPT !.tot = @ + m,
                                 !.pc = IF l[p].tot + m = l[p].n1 THEN "end" ELSE "map"])
    /\ UNCHANGED <<used, addrs, size, todo, booted, calls, off, lock>>

\* either_copyin() fails after k bytes: they are in the buffer, which is not
\* logged; those inside the file can be read.
CopyFault(p) ==
    /\ At(p, "map")
    /\ \E k \in 0 .. Room(p) - 1 :
       LET b == Slot(l[p].i, Bn(p))
           seen == Min({k, Max({0, Len(file[l[p].i]) - Pos(p)})}) IN
       /\ b # 0
       /\ data' = Fill(b, Pos(p) % BSIZE, k, l[p].val)
       /\ file' = [file EXCEPT ![l[p].i] = Overwrite(@, Pos(p), seen, l[p].val)]
       /\ dirty' = dirty \cup (IF data' = data THEN {} ELSE {b})
       /\ torn' = torn \cup (IF data' = data THEN {} ELSE {b})
       /\ Become(p, [l[p] EXCEPT !.pc = "end"])
    /\ UNCHANGED <<used, addrs, size, todo, booted, calls, off, lock, logged>>

\* writei() ends with iupdate(); iunlock(), end_op(); filewrite() goes on if
\* everything was written.
WriteEnd(p) ==
    /\ At(p, "end")
    /\ size' = [size EXCEPT ![l[p].i] = Max({@, Pos(p)})]
    /\ off' = [off EXCEPT ![l[p].f] = Pos(p)]
    /\ Iupdate(p, l[p].i)
    /\ lock' = [lock EXCEPT ![l[p].i] = NIL]
    /\ Become(p, [l[p] EXCEPT !.pc = IF l[p].tot = l[p].n1 THEN "next" ELSE "stop"])
    /\ UNCHANGED <<used, data, addrs, file, todo, booted, calls, torn>>

WriteNext(p) ==
    /\ booted /\ l[p].pc \in {"next", "stop"}
    /\ logged' = [logged EXCEPT ![p] = {}]
    /\ Become(p, IF l[p].pc = "next" /\ l[p].left > l[p].n1
                 THEN [l[p] EXCEPT !.pc = "begin", !.left = @ - l[p].n1, !.n1 = 0, !.tot = 0]
                 ELSE Idle)
    /\ UNCHANGED <<diskVars, file, todo, booted, calls, off, lock, dirty, torn>>

\* fileread(): all of it is under ip->lock, and a failed copyout leaves the
\* offset alone.
Read(p) ==
    /\ Called(p, "read")
    /\ LET f == Head(calls[p]).f
           i == Ip[f] IN
       /\ lock[i] = NIL
       /\ \/ /\ off[f] <= size[i]
             /\ off' = [off EXCEPT ![f] = Min({@ + Head(calls[p]).n, size[i]})]
          \/ UNCHANGED off
    /\ UNCHANGED <<diskVars, file, todo, booted, lock, l, logged, dirty, torn>>

-----------------------------------------------------------------------------
\* itrunc(), for open() with O_TRUNC, or when iput() frees an inode: the
\* direct blocks, the entries of the indirect block, that block, the inode.
SysTrunc(p) ==
    /\ Called(p, "trunc")
    /\ LET i == Ip[Head(calls[p]).f] IN
       /\ lock[i] = NIL
       /\ lock' = [lock EXCEPT ![i] = p]
       /\ Become(p, [Idle EXCEPT !.pc = "trunc", !.i = i])
    /\ UNCHANGED <<diskVars, file, todo, booted, off, logged, dirty, torn>>

\* The k-th block that itrunc() looks at; MAXFILE stands for the indirect block.
TruncBlock(i, k) == IF k = MAXFILE THEN addrs[i][NDIRECT] ELSE Slot(i, k)

\* bfree() and ip->addrs[k] = 0.
Bfree(p) ==
    /\ At(p, "trunc") /\ l[p].next <= MAXFILE
    /\ LET i == l[p].i
           k == l[p].next
           b == TruncBlock(i, k) IN
       /\ IF b = 0 THEN UNCHANGED <<used, logged>>
          ELSE used' = used \ {b} /\ Log(p, {BBLOCK(b)})
       /\ IF b # 0 /\ (k < NDIRECT \/ k = MAXFILE)
          THEN /\ addrs' = [addrs EXCEPT ![i][Min({k, NDIRECT})] = 0]
               /\ dirty' = dirty \cup {IBLOCK(i)}
          ELSE UNCHANGED <<addrs, dirty>>
    /\ Become(p, [l[p] EXCEPT !.next = @ + 1])
    /\ UNCHANGED <<data, size, file, todo, booted, calls, off, lock, torn>>

TruncEnd(p) ==
    /\ At(p, "trunc") /\ l[p].next > MAXFILE
    /\ LET i == l[p].i IN
       /\ size' = [size EXCEPT ![i] = 0]
       /\ file' = [file EXCEPT ![i] = << >>]
       /\ lock' = [lock EXCEPT ![i] = NIL]
       /\ Iupdate(p, i)
    /\ Become(p, [l[p] EXCEPT !.pc = "stop"])
    /\ UNCHANGED <<used, data, addrs, todo, booted, calls, off, torn>>

-----------------------------------------------------------------------------
Mkfs == (MkAlloc \/ MkAppend) /\ UNCHANGED <<booted, calls, kernVars>>

\* Every call has returned.
Done ==
    /\ booted
    /\ \A p \in Proc : At(p, "idle") /\ calls[p] = << >>
    /\ UNCHANGED vars

Step(p) ==
    \/ SysWrite(p) \/ WriteBegin(p) \/ Balloc(p) \/ BzeroInstall(p) \/ Copy(p)
    \/ CopyFault(p) \/ WriteEnd(p) \/ WriteNext(p) \/ Read(p)
    \/ SysTrunc(p) \/ Bfree(p) \/ TruncEnd(p)

Next == Mkfs \/ Boot \/ Done \/ \E p \in Proc : Step(p)

Spec == Init /\ [][Next]_vars

-----------------------------------------------------------------------------
Reads(i) == [j \in 1 .. size[i] |-> data[Slot(i, (j - 1) \div BSIZE)][(j - 1) % BSIZE]]

\* The places that point to block b, and the processes that have just got it.
Owners(b) ==
    {<<i, k>> \in Inode \X (0 .. NDIRECT) : addrs[i][k] = b}
    \cup {<<i, c, "ind">> : <<i, c>> \in {<<i, c>> \in Inode \X Cells :
                lock[i] = NIL /\ addrs[i][NDIRECT] # 0 /\ data[addrs[i][NDIRECT]][c] = b}}
    \cup {<<p>> : p \in {p \in Proc : l[p].got = b}}

\* No block belongs to two files, no block in use is marked free and none is
\* lost, whatever processes write, truncate and run out of space at the same
\* time.  Blocks below an unlocked file's size are there, so that readi()
\* allocates nothing outside a transaction, where log_write() would panic.
BlocksOwned ==
    booted =>
    /\ \A b \in Data : Cardinality(Owners(b)) <= 1
    /\ (\A i \in Inode : lock[i] = NIL) => used = (0 .. nmeta - 1) \cup {b \in Data : Owners(b) # {}}
    /\ \A i \in Inode : lock[i] = NIL =>
          \A bn \in 0 .. MAXFILE - 1 : bn * BSIZE < size[i] => Slot(i, bn) \in used \cap Data

\* A file reads back as what was written to it and, between mkfs's image, the
\* writes and the truncations, as nothing else: old contents of reused blocks
\* never show.
ContentsRight ==
    \A i \in Inode : booted /\ lock[i] = NIL => Reads(i) = file[i]

\* When no operation is under way the log has been given every change, with
\* one exception: bytes that a failing either_copyin() left in a buffer.
WritesLogged ==
    (\A p \in Proc : l[p].pc = "idle") => dirty \subseteq torn

\* An operation writes fewer blocks than it reserved in the log: log_write()
\* panics one block before the log is full.
LogFits == \A p \in Proc : Cardinality(logged[p]) < MAXOPBLOCKS

\* Each operation gives the log all that it changes, within its reservation.
LogComplete == WritesLogged /\ LogFits
=============================================================================
