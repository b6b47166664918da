----------------------------- MODULE Namespace ------------------------------
(***************************************************************************)
(* Inodes, directories and path names: the system calls of                 *)
(* kernel/sysfile.c that walk and change the tree, over the inode table    *)
(* and the directories of kernel/fs.c.                                     *)
(*                                                                         *)
(* A step is what a process does while it holds an inode's lock, up to the *)
(* next lock it takes.  Locks that stay held are in lock.  An inode in the *)
(* table and its copy on the disk have the same contents whenever it is    *)
(* unlocked and valid, so there is one copy.  Which slot of the table      *)
(* an inode occupies does not matter.  "." is left out of directories.     *)
(***************************************************************************)
EXTENDS Integers, Sequences, FiniteSets

CONSTANTS Proc,      \* processes
          NINODES,   \* number of inodes on the disk
          Name,      \* names of directory entries, except ".."
          Call,      \* the system calls each process makes, with their two paths
          MaxLinks,  \* bound on nlink beyond which there is no new link()
          NIL

ASSUME NamespaceAssumption ==
    /\ NINODES \in Nat \ {0} /\ MaxLinks \in Nat
    /\ ".." \notin Name
    /\ \A p \in Proc : \A c \in Call[p] :
        /\ c[1] \in {"open", "create", "mkdir", "link", "unlink", "chdir"}
        /\ {c[2], c[3]} \subseteq Seq(Name \cup {".."})
    /\ NIL \notin Proc

Inode == 1 .. NINODES
ROOTINO == 1
DirName == Name \cup {".."}

VARIABLES
    type, nlink,   \* dip->type and dip->nlink
    ents,          \* the entries of a directory: inode numbers, or 0
    ref, valid,    \* ip->ref and ip->valid
    lock,          \* the process that holds ip->lock
    cwd,           \* p->cwd
    file,          \* the inode of the process's open file, or 0
    l              \* local variables of each process

disk == <<type, nlink, ents>>
vars == <<disk, ref, valid, lock, cwd, file, l>>

\* pc and ret: the next step, and the one after iput(put).  call, path, new and
\* par: the system call, the rest of its path, the second path of link() and
\* namex()'s argument nameiparent.  cur, dp and ip: the inodes namex(), and the
\* call itself, are working on.
Idle == [pc |-> "idle", ret |-> "idle", put |-> 0, call |-> "none", path |-> << >>,
         new |-> << >>, par |-> FALSE, cur |-> 0, dp |-> 0, ip |-> 0]

NoEnts == [n \in DirName |-> 0]

\* The image mkfs makes, and processes in its root directory.
Init ==
    /\ type = [i \in Inode |-> IF i = ROOTINO THEN "dir" ELSE "free"]
    /\ nlink = [i \in Inode |-> IF i = ROOTINO THEN 1 ELSE 0]
    /\ ents = [i \in Inode |-> IF i = ROOTINO THEN [NoEnts EXCEPT ![".."] = ROOTINO]
                                              ELSE NoEnts]
    /\ ref = [i \in Inode |-> IF i = ROOTINO THEN Cardinality(Proc) ELSE 0]
    /\ valid = [i \in Inode |-> FALSE]
    /\ lock = [i \in Inode |-> NIL]
    /\ cwd = [p \in Proc |-> ROOTINO]
    /\ file = [p \in Proc |-> 0]
    /\ l = [p \in Proc |-> Idle]

-----------------------------------------------------------------------------
(* Pieces of steps *)

At(p, c) == l[p].pc = c

\* ip->valid after iget(i), which starts a table entry anew if nobody has it.
Got(i) == [valid EXCEPT ![i] = @ /\ ref[i] > 0]

\* The inode that the process is about to lock, or 0.
Wants(p) ==
    CASE At(p, "namex") /\ l[p].path # << >> -> l[p].cur
      [] At(p, "named") -> l[p].cur
      [] l[p].pc \in {"found", "create_ip", "unlink_ip", "link_bad"} -> l[p].ip
      [] OTHER -> 0

\* ilock() waits for the lock and reads the inode if need be.  One that is free
\* on the disk is the panic "ilock: no type".
Ilock(i) == lock[i] = NIL /\ (valid[i] \/ type[i] # "free")

IlockPanic(p) ==
    /\ Wants(p) # 0
    /\ lock[Wants(p)] = NIL
    /\ ~Ilock(Wants(p))
    /\ l' = [l EXCEPT ![p].pc = "panic"]
    /\ UNCHANGED <<disk, ref, valid, lock, cwd, file>>

\* The local variables when iput(i) is next, and then the step ret.
PutThen(p, i, ret) == [l[p] EXCEPT !.pc = "put", !.put = i, !.ret = ret]

-----------------------------------------------------------------------------
(* iput() *)

\* Mutant of LastPut: the links are not looked at.
LastPutLinked(i) == ref[i] = 1 /\ valid[i]

\* No links and no other references.
LastPut(i) == ref[i] = 1 /\ valid[i] /\ nlink[i] = 0

Drop(p) ==
    /\ ref' = [ref EXCEPT ![l[p].put] = @ - 1]
    /\ l' = [l EXCEPT ![p] = IF l[p].ret = "idle" THEN Idle
                             ELSE [@ EXCEPT !.pc = l[p].ret, !.put = 0, !.ret = "idle"]]

Iput(p) ==
    /\ At(p, "put")
    /\ ~LastPut(l[p].put)
    /\ Drop(p)
    /\ UNCHANGED <<disk, valid, lock, cwd, file>>

\* The inode is locked, truncated and freed on the disk.
IputFree(p) ==
    LET i == l[p].put IN
    /\ At(p, "put")
    /\ LastPut(i)
    /\ lock' = [lock EXCEPT ![i] = p]
    /\ type' = [type EXCEPT ![i] = "free"]
    /\ ents' = [ents EXCEPT ![i] = NoEnts]
    /\ l' = [l EXCEPT ![p].pc = "put_unlock"]
    /\ UNCHANGED <<nlink, ref, valid, cwd, file>>

IputUnlock(p) ==
    /\ At(p, "put_unlock")
    /\ valid' = [valid EXCEPT ![l[p].put] = FALSE]
    /\ lock' = [lock EXCEPT ![l[p].put] = NIL]
    /\ l' = [l EXCEPT ![p].pc = "put_drop"]
    /\ UNCHANGED <<disk, ref, cwd, file>>

IputDrop(p) ==
    /\ At(p, "put_drop")
    /\ Drop(p)
    /\ UNCHANGED <<disk, valid, lock, cwd, file>>

-----------------------------------------------------------------------------
(* namex() *)

\* A system call starts with a path from the root or the current directory.
SysCall(p, c, start) ==
    /\ At(p, "idle")
    /\ c[1] \in {"open", "create"} => file[p] = 0
    /\ c[1] = "link" => \A i \in Inode : nlink[i] < MaxLinks
    /\ l' = [l EXCEPT ![p] = [Idle EXCEPT !.pc = "namex", !.call = c[1], !.path = c[2],
                                          !.new = c[3], !.cur = start,
                                          !.par = c[1] \in {"create", "mkdir", "unlink"}]]
    /\ ref' = [ref EXCEPT ![start] = @ + 1]
    /\ valid' = Got(start)
    /\ UNCHANGED <<disk, lock, cwd, file>>

\* One element of the path: a directory is given up for its entry.
NamexStep(p) ==
    LET i == l[p].cur
        next == ents[i][Head(l[p].path)]
    IN
    /\ At(p, "namex") /\ l[p].path # << >>
    /\ Ilock(i)
    /\ type[i] = "dir" /\ next # 0
    /\ ~(l[p].par /\ Len(l[p].path) = 1)
    /\ ref' = [ref EXCEPT ![next] = @ + 1]
    /\ valid' = [Got(next) EXCEPT ![i] = TRUE]
    /\ l' = [l EXCEPT ![p] = [PutThen(p, i, "namex") EXCEPT !.cur = next, !.path = Tail(@)]]
    /\ UNCHANGED <<disk, lock, cwd, file>>

\* namex() returns the parent, with the last element of the path to come.
NamexParent(p) ==
    /\ At(p, "namex") /\ l[p].par /\ Len(l[p].path) = 1
    /\ Ilock(l[p].cur)
    /\ type[l[p].cur] = "dir"
    /\ valid' = [valid EXCEPT ![l[p].cur] = TRUE]
    /\ l' = [l EXCEPT ![p].pc = "named"]
    /\ UNCHANGED <<disk, ref, lock, cwd, file>>

\* Mutant: link() does not go to its label bad.
FailedQuietly(p) == "idle"

\* What a call that has not found its file does next.
Failed(p) == IF l[p].call = "link2" THEN "link_bad" ELSE "idle"

\* Not a directory, or no such entry.
NamexFail(p) ==
    LET i == l[p].cur IN
    /\ At(p, "namex") /\ l[p].path # << >>
    /\ Ilock(i)
    /\ \/ type[i] # "dir"
       \/ ents[i][Head(l[p].path)] = 0 /\ ~(l[p].par /\ Len(l[p].path) = 1)
    /\ valid' = [valid EXCEPT ![i] = TRUE]
    /\ l' = [l EXCEPT ![p] = [PutThen(p, i, Failed(p)) EXCEPT !.cur = 0]]
    /\ UNCHANGED <<disk, ref, lock, cwd, file>>

\* The end of the path; the root has no parent to be returned.
NamexEnd(p) ==
    /\ At(p, "namex") /\ l[p].path = << >>
    /\ l' = [l EXCEPT ![p] = IF l[p].par THEN [PutThen(p, l[p].cur, Failed(p)) EXCEPT !.cur = 0]
                                         ELSE [@ EXCEPT !.pc = "named"]]
    /\ UNCHANGED <<disk, ref, valid, lock, cwd, file>>

\* namex() has returned l[p].cur, which the call locks.
Named(p, calls) == At(p, "named") /\ l[p].call \in calls /\ Ilock(l[p].cur)

-----------------------------------------------------------------------------
(* open(), close() and chdir() *)

\* The last piece of open(), with ip locked: a new file, or an error.
Opened(p, i) ==
    \/ file' = [file EXCEPT ![p] = i] /\ l' = [l EXCEPT ![p] = Idle]
    \/ l' = [l EXCEPT ![p] = [PutThen(p, i, "idle") EXCEPT !.cur = 0, !.ip = 0]]
       /\ UNCHANGED file

Open(p) ==
    /\ Named(p, {"open"})
    /\ Opened(p, l[p].cur)
    /\ valid' = [valid EXCEPT ![l[p].cur] = TRUE]
    /\ UNCHANGED <<disk, ref, lock, cwd>>

Close(p) ==
    /\ At(p, "idle")
    /\ file[p] # 0
    /\ file' = [file EXCEPT ![p] = 0]
    /\ l' = [l EXCEPT ![p] = PutThen(p, file[p], "idle")]
    /\ UNCHANGED <<disk, ref, valid, lock, cwd>>

\* p->cwd changes after iput() of the old one.
Chdir(p) ==
    LET i == l[p].cur IN
    /\ Named(p, {"chdir"})
    /\ valid' = [valid EXCEPT ![i] = TRUE]
    /\ l' = [l EXCEPT ![p] = IF type[i] = "dir" THEN PutThen(p, cwd[p], "chdir_done")
                             ELSE [PutThen(p, i, "idle") EXCEPT !.cur = 0]]
    /\ UNCHANGED <<disk, ref, lock, cwd, file>>

ChdirDone(p) ==
    /\ At(p, "chdir_done")
    /\ cwd' = [cwd EXCEPT ![p] = l[p].cur]
    /\ l' = [l EXCEPT ![p] = Idle]
    /\ UNCHANGED <<disk, ref, valid, lock, file>>

-----------------------------------------------------------------------------
(* create(), for open() with O_CREATE and for mkdir() *)

Wanted(p) == IF l[p].call = "mkdir" THEN "dir" ELSE "file"
Entry(p, d) == ents[d][Head(l[p].path)]

\* The name exists: dp is given up before ip is locked.
CreateFound(p) ==
    LET d == l[p].cur
        i == Entry(p, d)
    IN
    /\ Named(p, {"create", "mkdir"})
    /\ i # 0
    /\ ref' = [ref EXCEPT ![i] = @ + 1]
    /\ valid' = [Got(i) EXCEPT ![d] = TRUE]
    /\ l' = [l EXCEPT ![p] = [PutThen(p, d, "found") EXCEPT !.ip = i, !.cur = 0]]
    /\ UNCHANGED <<disk, lock, cwd, file>>

CreateOpen(p) ==
    LET i == l[p].ip IN
    /\ At(p, "found")
    /\ Ilock(i)
    /\ valid' = [valid EXCEPT ![i] = TRUE]
    /\ IF Wanted(p) = "file" /\ type[i] = "file" THEN Opened(p, i)
       ELSE /\ l' = [l EXCEPT ![p] = [PutThen(p, i, "idle") EXCEPT !.ip = 0]]
            /\ UNCHANGED file
    /\ UNCHANGED <<disk, ref, lock, cwd>>

\* ialloc(): a free inode gets its type on the disk and is referenced; dp stays
\* locked.
CreateAlloc(p) ==
    LET d == l[p].cur IN
    /\ Named(p, {"create", "mkdir"})
    /\ Entry(p, d) = 0
    /\ \E i \in Inode :
        /\ type[i] = "free"
        /\ type' = [type EXCEPT ![i] = Wanted(p)]
        /\ nlink' = [nlink EXCEPT ![i] = 0]
        /\ ref' = [ref EXCEPT ![i] = @ + 1]
        /\ valid' = [Got(i) EXCEPT ![d] = TRUE]
        /\ l' = [l EXCEPT ![p].pc = "create_ip", ![p].ip = i, ![p].dp = d, ![p].cur = 0]
    /\ lock' = [lock EXCEPT ![d] = p]
    /\ UNCHANGED <<ents, cwd, file>>

\* "ialloc: no inodes".  The scan is not atomic, and may miss one that is freed
\* behind it.
CreateNoInodes(p) ==
    /\ Named(p, {"create", "mkdir"})
    /\ Entry(p, l[p].cur) = 0
    /\ valid' = [valid EXCEPT ![l[p].cur] = TRUE]
    /\ l' = [l EXCEPT ![p] = [PutThen(p, l[p].cur, "idle") EXCEPT !.cur = 0]]
    /\ UNCHANGED <<disk, ref, lock, cwd, file>>

\* The new inode gets its entry in dp, and a directory its "..", which counts
\* as a link to dp.
CreateLink(p) ==
    LET i == l[p].ip
        d == l[p].dp
        dir == Wanted(p) = "dir"
    IN
    /\ At(p, "create_ip")
    /\ Ilock(i)
    /\ nlink' = [nlink EXCEPT ![i] = 1, ![d] = IF dir THEN @ + 1 ELSE @]
    /\ ents' = [ents EXCEPT ![i] = IF dir THEN [NoEnts EXCEPT ![".."] = d] ELSE NoEnts,
                            ![d][Head(l[p].path)] = i]
    /\ valid' = [valid EXCEPT ![i] = TRUE]
    /\ lock' = [lock EXCEPT ![d] = NIL, ![i] = p]
    /\ l' = [l EXCEPT ![p] = [PutThen(p, d, "created") EXCEPT !.dp = 0]]
    /\ UNCHANGED <<type, ref, cwd, file>>

\* dirlink() finds no room on the disk: ip has no links and is given up again.
CreateUndo(p) ==
    LET i == l[p].ip IN
    /\ At(p, "create_ip")
    /\ Ilock(i)
    /\ nlink' = [nlink EXCEPT ![i] = 0]
    /\ valid' = [valid EXCEPT ![i] = TRUE]
    /\ l' = [l EXCEPT ![p] = [PutThen(p, i, "dp_locked") EXCEPT !.ip = 0]]
    /\ UNCHANGED <<type, ents, ref, lock, cwd, file>>

\* Mutant: iput() in place of iunlockput().
PutDpLocked(p) ==
    /\ At(p, "dp_locked")
    /\ l' = [l EXCEPT ![p] = [PutThen(p, l[p].dp, "idle") EXCEPT !.dp = 0]]
    /\ UNCHANGED <<disk, ref, valid, lock, cwd, file>>

\* iunlockput(dp) at the end of a call that failed.
PutDp(p) ==
    LET d == l[p].dp IN
    /\ At(p, "dp_locked")
    /\ lock' = [lock EXCEPT ![d] = NIL]
    /\ l' = [l EXCEPT ![p] = [PutThen(p, d, "idle") EXCEPT !.dp = 0]]
    /\ UNCHANGED <<disk, ref, valid, cwd, file>>

\* create() has returned ip, locked, to open() or mkdir().
Created(p) ==
    LET i == l[p].ip IN
    /\ At(p, "created")
    /\ lock' = [lock EXCEPT ![i] = NIL]
    /\ IF l[p].call = "create" THEN Opened(p, i)
       ELSE /\ l' = [l EXCEPT ![p] = [PutThen(p, i, "idle") EXCEPT !.ip = 0]]
            /\ UNCHANGED file
    /\ UNCHANGED <<disk, ref, valid, cwd>>

-----------------------------------------------------------------------------
(* unlink() *)

\* dp is locked, and its entry looked up.
UnlinkDp(p) ==
    LET d == l[p].cur
        i == Entry(p, d)
    IN
    /\ Named(p, {"unlink"})
    /\ IF Head(l[p].path) = ".." \/ i = 0
       THEN /\ valid' = [valid EXCEPT ![d] = TRUE]
            /\ l' = [l EXCEPT ![p] = [PutThen(p, d, "idle") EXCEPT !.cur = 0]]
            /\ UNCHANGED <<ref, lock>>
       ELSE /\ ref' = [ref EXCEPT ![i] = @ + 1]
            /\ valid' = [Got(i) EXCEPT ![d] = TRUE]
            /\ lock' = [lock EXCEPT ![d] = p]
            /\ l' = [l EXCEPT ![p].pc = "unlink_ip", ![p].ip = i, ![p].dp = d, ![p].cur = 0]
    /\ UNCHANGED <<disk, cwd, file>>

IsDirEmpty(i) == \A n \in Name : ents[i][n] = 0

\* ip is locked too.
UnlinkIp(p) ==
    LET i == l[p].ip
        d == l[p].dp
        dir == type[i] = "dir"
    IN
    /\ At(p, "unlink_ip")
    /\ Ilock(i)
    /\ valid' = [valid EXCEPT ![i] = TRUE]
    /\ IF dir /\ ~IsDirEmpty(i)
       THEN /\ l' = [l EXCEPT ![p] = [PutThen(p, i, "dp_locked") EXCEPT !.ip = 0]]
            /\ UNCHANGED <<disk, lock>>
       ELSE /\ ents' = [ents EXCEPT ![d][Head(l[p].path)] = 0]
            /\ nlink' = [nlink EXCEPT ![d] = IF dir THEN @ - 1 ELSE @]
            /\ lock' = [lock EXCEPT ![d] = NIL, ![i] = p]
            /\ l' = [l EXCEPT ![p] = [PutThen(p, d, "unlinked") EXCEPT !.dp = 0]]
            /\ UNCHANGED type
    /\ UNCHANGED <<ref, cwd, file>>

Unlinked(p) ==
    LET i == l[p].ip IN
    /\ At(p, "unlinked")
    /\ nlink' = [nlink EXCEPT ![i] = @ - 1]
    /\ lock' = [lock EXCEPT ![i] = NIL]
    /\ l' = [l EXCEPT ![p] = [PutThen(p, i, "idle") EXCEPT !.ip = 0]]
    /\ UNCHANGED <<type, ents, ref, valid, cwd, file>>

-----------------------------------------------------------------------------
(* link() *)

\* The link is counted before the walk to its directory.
Link(p, start) ==
    LET i == l[p].cur IN
    /\ Named(p, {"link"})
    /\ IF type[i] = "dir"
       THEN /\ l' = [l EXCEPT ![p] = [PutThen(p, i, "idle") EXCEPT !.cur = 0]]
            /\ valid' = [valid EXCEPT ![i] = TRUE]
            /\ UNCHANGED <<nlink, ref>>
       ELSE /\ nlink' = [nlink EXCEPT ![i] = @ + 1]
            /\ ref' = [ref EXCEPT ![start] = @ + 1]
            /\ valid' = [Got(start) EXCEPT ![i] = TRUE]
            /\ l' = [l EXCEPT ![p] = [Idle EXCEPT !.pc = "namex", !.call = "link2", !.par = TRUE,
                                                  !.path = l[p].new, !.cur = start, !.ip = i]]
    /\ UNCHANGED <<type, ents, lock, cwd, file>>

\* dirlink(dp, name, ip->inum) fails if the name exists or the disk is full.
LinkDp(p) ==
    LET d == l[p].cur IN
    /\ Named(p, {"link2"})
    /\ valid' = [valid EXCEPT ![d] = TRUE]
    /\ \/ /\ Entry(p, d) = 0
          /\ ents' = [ents EXCEPT ![d][Head(l[p].path)] = l[p].ip]
          /\ l' = [l EXCEPT ![p] = [PutThen(p, d, "linked") EXCEPT !.cur = 0]]
       \/ /\ l' = [l EXCEPT ![p] = [PutThen(p, d, "link_bad") EXCEPT !.cur = 0]]
          /\ UNCHANGED ents
    /\ UNCHANGED <<type, nlink, ref, lock, cwd, file>>

Linked(p) ==
    /\ At(p, "linked")
    /\ l' = [l EXCEPT ![p] = [PutThen(p, l[p].ip, "idle") EXCEPT !.ip = 0]]
    /\ UNCHANGED <<disk, ref, valid, lock, cwd, file>>

LinkBad(p) ==
    LET i == l[p].ip IN
    /\ At(p, "link_bad")
    /\ Ilock(i)
    /\ nlink' = [nlink EXCEPT ![i] = @ - 1]
    /\ valid' = [valid EXCEPT ![i] = TRUE]
    /\ l' = [l EXCEPT ![p] = [PutThen(p, i, "idle") EXCEPT !.ip = 0]]
    /\ UNCHANGED <<type, ents, ref, lock, cwd, file>>

-----------------------------------------------------------------------------
Panic == \E p \in Proc : At(p, "panic")

Begin(p) == \E c \in Call[p], start \in {ROOTINO, cwd[p]} : SysCall(p, c, start)

PutStep(p) == Iput(p) \/ IputFree(p) \/ IputUnlock(p) \/ IputDrop(p)
WalkStep(p) ==
    NamexStep(p) \/ NamexParent(p) \/ NamexFail(p) \/ NamexEnd(p) \/ IlockPanic(p)
FileStep(p) == Open(p) \/ Close(p) \/ Chdir(p) \/ ChdirDone(p)
CreateStep(p) ==
    \/ CreateFound(p) \/ CreateOpen(p) \/ CreateAlloc(p) \/ CreateNoInodes(p)
    \/ CreateLink(p) \/ CreateUndo(p) \/ PutDp(p) \/ Created(p)
UnlinkStep(p) == UnlinkDp(p) \/ UnlinkIp(p) \/ Unlinked(p)
LinkStep(p) ==
    LinkDp(p) \/ Linked(p) \/ LinkBad(p) \/ \E s \in {ROOTINO, cwd[p]} : Link(p, s)

Step(p) ==
    PutStep(p) \/ WalkStep(p) \/ FileStep(p) \/ CreateStep(p) \/ UnlinkStep(p) \/ LinkStep(p)

\* A panic stops the machine.
Next ==
    \/ ~Panic /\ \E p \in Proc : Begin(p) \/ Step(p)
    \/ Panic /\ UNCHANGED vars

Spec == Init /\ [][Next]_vars

-----------------------------------------------------------------------------
(* Safety *)

\* The pointers to inode i that a process has, in its structures and its calls.
Pointers(i) ==
    {<<p, "file">> : p \in {q \in Proc : file[q] = i}}
    \cup {<<p, "cwd">> : p \in {q \in Proc :
                cwd[q] = i /\ "chdir_done" \notin {l[q].pc, l[q].ret}}}
    \cup {<<p, "put">> : p \in {q \in Proc : l[q].put = i}}
    \cup {<<p, "cur">> : p \in {q \in Proc : l[q].cur = i}}
    \cup {<<p, "dp">> : p \in {q \in Proc : l[q].dp = i}}
    \cup {<<p, "ip">> : p \in {q \in Proc : l[q].ip = i}}

\* "ip->ref tracks the number of in-memory pointers to the entry": exactly, on
\* every path through every call, the ones that fail included.
RefCounts == \A i \in Inode : ref[i] = Cardinality(Pointers(i))

\* The entries that name inode i, and the ".." of the directories in it.
Links(i) ==
    {<<d, n>> \in Inode \X Name : ents[d][n] = i}
    \cup {<<d, "..">> : d \in {e \in Inode : ents[e][".."] = i /\ \E n \in Name : ents[i][n] = e}}

\* nlink never falls below the number of links to an inode, whatever calls are
\* under way, so that no name in a directory leads to an inode that has been
\* freed, and unlink() does not panic with "unlink: nlink < 1".  (It may be above:
\* an entry made in a directory that was unlinked meanwhile goes with it.)
LinksCounted ==
    \A i \in Inode :
        /\ Cardinality(Links(i)) <= nlink[i]
        /\ Links(i) # {} => type[i] # "free"

\* An open file and a current directory stay allocated when their names go,
\* although unlink() in another process drops the last link.
OpenStaysAllocated ==
    \A p \in Proc :
        /\ file[p] # 0 => type[file[p]] # "free"
        /\ "chdir_done" \notin {l[p].pc, l[p].ret} => type[cwd[p]] # "free"

\* ip->ref is right, and does what it is for.
InodesKept == RefCounts /\ OpenStaysAllocated

\* iput(): "no other process can have ip locked, so this acquiresleep() won't
\* block (or deadlock)".  It is called with a spinlock held.
IputWontBlock ==
    \A p \in Proc : At(p, "put") /\ LastPut(l[p].put) => lock[l[p].put] = NIL

\* "iput() frees if the reference and link counts have fallen to zero": no inode
\* is left allocated with neither.
NoneForgotten == \A i \in Inode : type[i] # "free" /\ nlink[i] = 0 => ref[i] > 0

\* The inodes a process has locked at each point of its call.
Holds(p) ==
    (IF l[p].pc \in {"create_ip", "unlink_ip", "dp_locked"} \/ l[p].ret = "dp_locked"
     THEN {l[p].dp} ELSE {})
    \cup (IF "created" \in {l[p].pc, l[p].ret} \/ "unlinked" \in {l[p].pc, l[p].ret}
          THEN {l[p].ip} ELSE {})
    \cup (IF At(p, "put_unlock") THEN {l[p].put} ELSE {})

\* Every lock that a call takes is released on each of its paths.
LocksReleased ==
    \A i \in Inode, p \in Proc : Panic \/ (lock[i] = p <=> i \in Holds(p))

\* The locks of inodes: iput() never waits for one, and no path forgets one.
LocksSafe == IputWontBlock /\ LocksReleased

=============================================================================
