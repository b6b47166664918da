------------------------------- MODULE Files --------------------------------
(***************************************************************************)
(* The file table and the descriptors of processes: kernel/file.c and the  *)
(* descriptor calls of kernel/sysfile.c, with the open and close sides of  *)
(* kernel/pipe.c.  Each operation on the table is one step, under          *)
(* ftable.lock; a call that makes several is several steps.                *)
(*                                                                         *)
(* A pipe holds a number of bytes here; Pipe is the model of its ring.     *)
(***************************************************************************)
EXTENDS Integers, Sequences, FiniteSets, FiniteSetsExt

CONSTANTS Proc, NFILE, NOFILE,
          NPIPE,      \* bound: pages that kalloc() has for pipes
          PIPESIZE

VARIABLES ftable,    \* [ref, type, pipe, writable] of each struct file
          ofile,     \* p->ofile: a file or 0
          pipe,      \* [readopen, writeopen, n] of each pipe
          ff         \* fileclose(): the copy of a file that has to be released

fileVars == <<ftable, ofile, pipe, ff>>

File == 1 .. NFILE
Fd == 0 .. NOFILE - 1
NoFile == [ref |-> 0, type |-> "none", pipe |-> 0, writable |-> FALSE]
NoPipe == [readopen |-> FALSE, writeopen |-> FALSE, n |-> 0]

FreeFiles == {f \in File : ftable[f].ref = 0}
FreeFds(p) == {d \in Fd : ofile[p][d] = 0}
\* -1 if there is none.
Lowest(S) == IF S = {} THEN -1 ELSE Min(S)

IsOpen(p, fd) == fd \in Fd /\ ofile[p][fd] # 0

\* init has opened the console as 0, 1 and 2, through one file, and procs have
\* inherited it.
FilesInit(procs) ==
    /\ ftable = [f \in File |-> IF f = 1
                                THEN [NoFile EXCEPT !.ref = 3 * Cardinality(procs), !.type = "device"]
                                ELSE NoFile]
    /\ ofile = [p \in Proc |-> [d \in Fd |-> IF p \in procs /\ d < 3 THEN 1 ELSE 0]]
    /\ pipe = [k \in 1 .. NPIPE |-> NoPipe]
    /\ ff = [p \in Proc |-> NoFile]

-----------------------------------------------------------------------------
\* open(): filealloc() and fdalloc() under the lock of the inode.
CanOpen(p) == FreeFiles # {} /\ FreeFds(p) # {}

Open(p, type) ==
    /\ CanOpen(p)
    /\ LET f == Lowest(FreeFiles) IN
       /\ ftable' = [ftable EXCEPT ![f] = [NoFile EXCEPT !.ref = 1, !.type = type]]
       /\ ofile' = [ofile EXCEPT ![p][Lowest(FreeFds(p))] = f]
    /\ UNCHANGED <<pipe, ff>>

\* dup(): fdalloc() and filedup().
Dup(p, fd) ==
    /\ IF IsOpen(p, fd) /\ FreeFds(p) # {}
       THEN LET f == ofile[p][fd] IN
            /\ ofile' = [ofile EXCEPT ![p][Lowest(FreeFds(p))] = f]
            /\ ftable' = [ftable EXCEPT ![f].ref = @ + 1]
       ELSE UNCHANGED <<ofile, ftable>>
    /\ UNCHANGED <<pipe, ff>>

\* fork(): the child's descriptors are the parent's, each with a filedup().
DupAll(p, child) ==
    /\ ofile' = [ofile EXCEPT ![child] = ofile[p]]
    /\ ftable' = [f \in File |->
                     [ftable[f] EXCEPT !.ref = @ + Cardinality({d \in Fd : ofile[p][d] = f})]]
    /\ UNCHANGED <<pipe, ff>>

\* Mutant of Copied: fileclose() uses the slot after it gave it up.
CopiedNot(p) == IF ff[p].ref = 0 THEN NoFile ELSE ftable[ff[p].ref]

\* The copy of the file that fileclose() made.
Copied(p) == ff[p]

\* fileclose() under ftable.lock: the last reference frees the slot.  ff.ref
\* remembers which slot it was.
DropFile(p, f, fds) ==
    /\ ftable' = [ftable EXCEPT ![f] = IF @.ref > 1 THEN [@ EXCEPT !.ref = @ - 1] ELSE NoFile]
    /\ ff' = [ff EXCEPT ![p] = IF ftable[f].ref > 1 THEN NoFile ELSE [ftable[f] EXCEPT !.ref = f]]
    /\ ofile' = fds
    /\ UNCHANGED pipe

Close(p, fd) ==
    IF IsOpen(p, fd) THEN DropFile(p, ofile[p][fd], [ofile EXCEPT ![p][fd] = 0])
                     ELSE UNCHANGED fileVars

\* The rest of fileclose(): pipeclose(), which frees the pipe with its last
\* end; iput() for the others is in Namespace.
Closing(p) == ff[p] # NoFile

CloseEnd(pi, writable) ==
    LET q == IF writable THEN [pi EXCEPT !.writeopen = FALSE] ELSE [pi EXCEPT !.readopen = FALSE] IN
    IF q.readopen \/ q.writeopen THEN q ELSE NoPipe

Release(p) ==
    /\ pipe' = IF Copied(p).type = "pipe"
               THEN [pipe EXCEPT ![Copied(p).pipe] = CloseEnd(@, Copied(p).writable)]
               ELSE pipe
    /\ ff' = [ff EXCEPT ![p] = NoFile]
    /\ UNCHANGED <<ftable, ofile>>

-----------------------------------------------------------------------------
\* sys_pipe().  The files that pipealloc() has taken are nobody's yet: the
\* caller remembers them as made, <<f0>> and then <<f0, f1>>.
PipeFile ==
    /\ FreeFiles # {}
    /\ ftable' = [ftable EXCEPT ![Lowest(FreeFiles)] = [NoFile EXCEPT !.ref = 1]]
    /\ UNCHANGED <<ofile, pipe, ff>>

FreePipes == {k \in DOMAIN pipe : pipe[k] = NoPipe}
HasTwoFds(p) == Cardinality(FreeFds(p)) >= 2
NewFd0(p) == Lowest(FreeFds(p))
NewFd1(p) == Lowest(FreeFds(p) \ {NewFd0(p)})

\* kalloc() has a page, the files become the ends of the pipe, and the
\* descriptors refer to them if there are two.
PipeEnds(p, made) ==
    /\ FreePipes # {}
    /\ LET k == Lowest(FreePipes)
           End(writable) == [ref |-> 1, type |-> "pipe", pipe |-> k, writable |-> writable] IN
       /\ ftable' = [ftable EXCEPT ![made[1]] = End(FALSE), ![made[2]] = End(TRUE)]
       /\ pipe' = [pipe EXCEPT ![k] = [readopen |-> TRUE, writeopen |-> TRUE, n |-> 0]]
    /\ ofile' = IF HasTwoFds(p)
                THEN [ofile EXCEPT ![p][NewFd0(p)] = made[1], ![p][NewFd1(p)] = made[2]]
                ELSE ofile
    /\ UNCHANGED ff

\* bad: the files made so far are closed, one after the other.
PipeBad(p, made) == DropFile(p, made[1], ofile)

-----------------------------------------------------------------------------
\* read() and write() of one byte on a descriptor.
PipeOf(p, fd) == ftable[ofile[p][fd]].pipe
OnPipe(p, fd) == IsOpen(p, fd) /\ ftable[ofile[p][fd]].type = "pipe"

ReadByte(p, fd) ==
    /\ OnPipe(p, fd) /\ pipe[PipeOf(p, fd)].n > 0
    /\ pipe' = [pipe EXCEPT ![PipeOf(p, fd)].n = @ - 1]
    /\ UNCHANGED <<ftable, ofile, ff>>

AtEof(p, fd) ==
    OnPipe(p, fd) => pipe[PipeOf(p, fd)].n = 0 /\ ~pipe[PipeOf(p, fd)].writeopen

WriteByte(p, fd) ==
    /\ OnPipe(p, fd)
    /\ pipe[PipeOf(p, fd)].readopen /\ pipe[PipeOf(p, fd)].n < PIPESIZE
    /\ pipe' = [pipe EXCEPT ![PipeOf(p, fd)].n = @ + 1]
    /\ UNCHANGED <<ftable, ofile, ff>>

WriteGoesElsewhere(p, fd) == OnPipe(p, fd) => ~pipe[PipeOf(p, fd)].readopen

-----------------------------------------------------------------------------
\* A file is in use exactly while descriptors, or a sys_pipe() under way (made),
\* refer to it, and as often; an end of a pipe is open exactly while there is
\* a file for it or a fileclose() that has yet to close it, so that readers
\* see the end of the data when the last writer is gone, and not before.
FilesCounted(made) ==
    /\ \A f \in File :
          ftable[f].ref = Cardinality({<<p, d>> \in Proc \X Fd : ofile[p][d] = f})
                          + Cardinality({<<p, i>> \in Proc \X {1, 2} : i \in DOMAIN made[p] /\ made[p][i] = f})
    /\ \A k \in DOMAIN pipe :
          LET Has(writable) == \/ \E f \in File : /\ ftable[f].ref > 0 /\ ftable[f].type = "pipe"
                                                  /\ ftable[f].pipe = k
                                                  /\ ftable[f].writable = writable
                               \/ \E p \in Proc : /\ ff[p].type = "pipe" /\ ff[p].pipe = k
                                                  /\ ff[p].writable = writable IN
          /\ pipe[k].readopen <=> Has(FALSE)
          /\ pipe[k].writeopen <=> Has(TRUE)
=============================================================================
