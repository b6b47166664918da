------------------------------- MODULE LogInv -------------------------------
(***************************************************************************)
(* Proofs about Log, for any number of processes, blocks and crashes and   *)
(* any size of the log: a commit runs alone, and no change is lost on its  *)
(* way through the cache and the log to the disk; Log implements           *)
(* AtomicDisk, so that what the file system calls of a transaction write   *)
(* takes effect as a whole or not at all; and log_write() finds the log    *)
(* full only when what begin_op() has reserved is used up.                 *)
(***************************************************************************)
EXTENDS Log, Counting, TLAPS

Waiting == {"idle", "begin", "begin_sleep"}
Committing == {"write_log", "install_trans", "commit_done"}
PC == Waiting \cup Committing \cup {"op"}

At(l) == \E p \in Proc : pc[p] = l
Recovering == boot \in {"read_head", "install_trans"}
Installing == At("install_trans") \/ boot = "install_trans"

LogType ==
    /\ home \in [Block -> Val]
    /\ slot \in [SlotIndex -> Val]
    /\ hdr \in Seq(Block) /\ lh \in Seq(Block)
    /\ cache \in [Block -> Val \cup {NoVal}]
    /\ pin \in [Block -> Int]
    /\ outstanding \in Nat
    /\ committing \in BOOLEAN
    /\ tail \in Nat
    /\ pc \in [Proc -> PC]
    /\ boot \in {"read_head", "install_trans", "up", "panic"}

\* log.outstanding counts the calls; the last one to end commits, and nobody
\* begins meanwhile.
CallInv ==
    /\ outstanding = Cardinality(Ops)
    /\ CommitExcludesCalls
    /\ Recovering => \A p \in Proc : pc[p] = "idle"

Injective(s) == \A i, j \in DOMAIN s : s[i] = s[j] => i = j

\* A block is at most once in the log, which fits on the disk.  The header on
\* the disk is that of the log while it is being installed, and else empty.
ShapeInv ==
    /\ Injective(lh) /\ Len(lh) <= nlog - 1
    /\ Injective(hdr) /\ Len(hdr) <= nlog - 1
    /\ tail <= Len(lh)
    /\ boot # "read_head" => hdr = IF Installing THEN lh ELSE << >>
    /\ boot = "read_head" => lh = << >>
    /\ ~At("write_log") /\ ~Installing => tail = 0
    /\ ~At("op") /\ ~At("write_log") /\ ~Installing => lh = << >>

\* Where the contents of a block are.  In the log, log block i is a copy once
\* write_log() is past it, and so is the home location once install_trans() is;
\* outside the log, cache and disk agree.
Copied == At("write_log") => \A i \in 1 .. tail : slot[i] = Contents(lh[i])
Committed == At("install_trans") => \A i \in 1 .. Len(lh) : slot[i] = Contents(lh[i])
Installed == Installing => \A i \in 1 .. tail : home[lh[i]] = slot[i]
Clean == \A b \in Block :
             Recovering \/ (boot = "up" /\ b \notin Entries(lh)) => Contents(b) = home[b]

DataInv == Copied /\ Committed /\ Installed /\ Clean

LInv == LogType /\ CallInv /\ ShapeInv /\ DataInv /\ PinnedOnce

\* What the steps take for granted about finite sets (FiniteHolds, below).
Finite ==
    /\ EmptyCount /\ SubsetCount /\ AddCount /\ RemoveCount
    /\ RangeCount /\ PairCount

-----------------------------------------------------------------------------
(* What the invariant says at the places where the code uses it *)

\* bread() finds every block, and the entries of a log are blocks.
LEMMA Types ==
    ASSUME LogType
    PROVE  /\ \A b \in Block : Contents(b) \in Val
           /\ DOMAIN lh = 1 .. Len(lh) /\ Len(lh) \in Nat
           /\ \A i \in 1 .. Len(lh) : lh[i] \in Block
           /\ DOMAIN hdr = 1 .. Len(hdr) /\ Len(hdr) \in Nat
           /\ \A i \in 1 .. Len(hdr) : hdr[i] \in Block
  BY DEF LogType, Contents

\* log_write() adds an entry and keeps the others.
LEMMA Appended ==
    ASSUME NEW s \in Seq(Block), NEW b \in Block
    PROVE  /\ Append(s, b) \in Seq(Block)
           /\ DOMAIN Append(s, b) = DOMAIN s \cup {Len(s) + 1}
           /\ Append(s, b)[Len(s) + 1] = b
           /\ \A i \in DOMAIN s : Append(s, b)[i] = s[i]
  OBVIOUS

\* The next block that write_log() and install_trans() copy.
LEMMA Next1 ==
    ASSUME LogType, ShapeInv, tail < Len(lh)
    PROVE  /\ tail + 1 \in 1 .. Len(lh)
           /\ tail + 1 \in SlotIndex
           /\ lh[tail + 1] \in Block
           /\ slot[tail + 1] \in Val
<1>1. tail + 1 \in 1 .. Len(lh) /\ tail + 1 \in SlotIndex
  BY Types, LogAssumption DEF LogType, ShapeInv, SlotIndex
<1> QED
  BY <1>1, Types, Zenon DEF LogType

\* log.outstanding tells whether a call is the last one.
LEMMA CallsCount ==
    ASSUME Finite, CallInv
    PROVE  /\ IsFiniteSet(Ops)
           /\ \A p \in Proc \ Ops : Cardinality(Ops \cup {p}) = outstanding + 1
           /\ \A p \in Ops : /\ Cardinality(Ops \ {p}) = outstanding - 1
                             /\ outstanding \in Nat \ {0}
                             /\ outstanding = 1 => Ops = {p}
<1>1. IsFiniteSet(Ops)
  BY LogAssumption DEF Finite, SubsetCount, Ops
<1> USE <1>1
<1>2. \A p \in Proc \ Ops : Cardinality(Ops \cup {p}) = outstanding + 1
  BY Zenon DEF CallInv, Finite, AddCount
<1>3. ASSUME NEW p \in Ops
      PROVE  /\ Cardinality(Ops \ {p}) = outstanding - 1
             /\ outstanding \in Nat \ {0}
             /\ outstanding = 1 => Ops = {p}
  <2>1. Cardinality(Ops \ {p}) = outstanding - 1 /\ IsFiniteSet(Ops \ {p})
    BY Zenon DEF CallInv, Finite, RemoveCount
  <2>2. outstanding \in Nat /\ Cardinality(Ops \ {p}) \in Nat
    BY <2>1, Zenon DEF CallInv, Finite, SubsetCount
  <2>3. outstanding = 1 => Ops \ {p} = {}
    BY <2>1, <2>2 DEF Finite, SubsetCount
  <2> QED
    BY <2>1, <2>2, <2>3
<1> QED
  BY <1>2, <1>3, Zenon

-----------------------------------------------------------------------------
\* The blocks on the image are as mkfs wrote them.
LEMMA InitInv == ASSUME Finite PROVE Init => LInv
<1> SUFFICES ASSUME Init PROVE LInv
  OBVIOUS
<1> USE LogAssumption DEF Init, At, Waiting, Committing, Recovering, Installing
<1>1. LogType
  <2>1. home \in [Block -> Val] /\ slot \in [SlotIndex -> Val]
    OBVIOUS
  <2>2. hdr \in Seq(Block) /\ lh \in Seq(Block)
    OBVIOUS
  <2>3. cache \in [Block -> Val \cup {NoVal}] /\ pin \in [Block -> Int]
    OBVIOUS
  <2>4. pc \in [Proc -> PC]
    BY DEF PC
  <2> QED
    BY <2>1, <2>2, <2>3, <2>4, Zenon DEF LogType
<1>2. CallInv
  <2>1. Ops = {}
    BY DEF Ops
  <2> QED
    BY <2>1 DEF CallInv, CommitExcludesCalls, Finite, EmptyCount
<1>3. ShapeInv
  BY DEF ShapeInv, Injective
<1>4. DataInv /\ PinnedOnce
  BY DEF DataInv, Copied, Committed, Installed, Clean, PinnedOnce, Contents
<1> QED
  BY <1>1, <1>2, <1>3, <1>4 DEF LInv

\* Every step keeps the variables of the log, of the cache and of the disk in
\* their types.
LEMMA TypeStep == ASSUME Finite PROVE LInv /\ [Next]_vars => LogType'
<1> SUFFICES ASSUME LInv, [Next]_vars PROVE LogType'
  BY Zenon
<1> USE LogAssumption DEF LInv, LogType, disk, PC, Waiting, Committing
<1>1. ASSUME NEW p \in Proc, SysCall(p) PROVE LogType'
  BY <1>1, Zenon DEF SysCall
<1>2. ASSUME NEW p \in Proc, BeginOp(p) PROVE LogType'
  <2>1. pc' \in [Proc -> PC]
    BY <1>2, Zenon DEF BeginOp
  <2>2. outstanding' \in Nat
    BY <1>2 DEF BeginOp
  <2> QED
    BY <1>2, <2>1, <2>2 DEF BeginOp
<1>3. ASSUME NEW p \in Proc, EndOp(p) PROVE LogType'
  <2>1. pc' \in [Proc -> PC] /\ committing' \in BOOLEAN
    BY <1>3, Zenon DEF EndOp, Awake
  <2>2. p \in Ops /\ CallInv
    BY <1>3 DEF EndOp, Ops
  <2>3. outstanding \in Nat \ {0}
    BY <2>2, CallsCount, Zenon
  <2> QED
    BY <1>3, <2>1, <2>3 DEF EndOp
<1>4. ASSUME NEW p \in Proc, NEW b \in Block, NEW v \in Val, LogWrite(p, b, v) PROVE LogType'
  <2>1. lh' = lh \/ lh' = Append(lh, b)
    BY <1>4, Zenon DEF LogWrite, AddToLog
  <2>2. pin' \in [Block -> Int]
    BY <1>4 DEF LogWrite, AddToLog
  <2>3. cache' \in [Block -> Val \cup {NoVal}] /\ boot' \in {"up", "panic"}
    BY <1>4, Zenon DEF LogWrite
  <2>4. lh \in Seq(Block) /\ Append(lh, b) \in Seq(Block)
    BY Appended
  <2>5. lh' \in Seq(Block)
    BY <2>1, <2>4, Zenon
  <2> QED
    BY <1>4, <2>2, <2>3, <2>5, Zenon DEF LogWrite
<1>5. ASSUME NEW p \in Proc, WriteLog(p) PROVE LogType'
  <2>1. lh[tail + 1] \in Block /\ tail + 1 \in SlotIndex /\ Contents(lh[tail + 1]) \in Val
    BY <1>5, Next1, Types, Zenon DEF WriteLog
  <2> QED
    BY <1>5, <2>1 DEF WriteLog
<1>6. ASSUME NEW p \in Proc, WriteHead(p) PROVE LogType'
  BY <1>6, Zenon DEF WriteHead
<1>7. ASSUME InstallBlock, pin' \in [Block -> Int] PROVE LogType'
  BY <1>7, Next1 DEF InstallBlock
<1>8. ASSUME NEW p \in Proc, InstallTrans(p) PROVE LogType'
  <2>1. pin' \in [Block -> Int]
    BY <1>8, Next1, SMTT(60) DEF InstallTrans, InstallBlock
  <2> QED
    BY <1>7, <1>8, <2>1, Zenon DEF InstallTrans
<1>9. ASSUME NEW p \in Proc, ClearLog(p) PROVE LogType'
  BY <1>9 DEF ClearLog, ClearHead
<1>10. ASSUME NEW p \in Proc, CommitDone(p) PROVE LogType'
  BY <1>10, Zenon DEF CommitDone, Awake
<1>11. ASSUME NEW b \in Block, Evict(b) PROVE LogType'
  BY <1>11, Zenon DEF Evict
<1>12. CASE RecoverRead
  BY <1>12, Zenon DEF RecoverRead
<1>13. CASE RecoverInstall
  BY <1>7, <1>13, Zenon DEF RecoverInstall
<1>14. CASE RecoverClear
  BY <1>14 DEF RecoverClear, ClearHead
<1>15. CASE Crash
  <2>1. lh' \in Seq(Block)
    BY <1>15 DEF Crash
  <2>2. cache' \in [Block -> Val \cup {NoVal}] /\ pin' \in [Block -> Int]
    BY <1>15 DEF Crash
  <2>3. pc' \in [Proc -> PC]
    BY <1>15, Zenon DEF Crash
  <2> QED
    BY <1>15, <2>1, <2>2, <2>3, Zenon DEF Crash
<1>16. CASE UNCHANGED vars
  BY <1>16, Zenon DEF vars
<1> QED
  BY <1>1, <1>2, <1>3, <1>4, <1>5, <1>6, <1>8, <1>9, <1>10, <1>11, <1>12, <1>13,
     <1>14, <1>15, <1>16, Zenon DEF Next, Call, Commit, Recover

\* begin_op() and end_op() keep log.outstanding the number of calls, and
\* let one of them commit when it is 0.
LEMMA CallStep == ASSUME Finite PROVE LInv /\ [Next]_vars => CallInv'
<1> SUFFICES ASSUME LInv, [Next]_vars PROVE CallInv'
  OBVIOUS
<1> USE DEF LInv, LogType, Waiting, Committing, PC, Recovering
<1>1. ASSUME UNCHANGED <<pc, outstanding, committing>>, Recovering' => Recovering
      PROVE  CallInv'
  BY <1>1, Zenon DEF CallInv, CommitExcludesCalls, Ops
<1>2. ASSUME NEW p \in Proc, SysCall(p) PROVE CallInv'
  <2>1. Ops' = Ops
    BY <1>2, Zenon DEF SysCall, Ops
  <2> QED
    BY <1>2, <2>1 DEF SysCall, CallInv, CommitExcludesCalls
<1>3. ASSUME NEW p \in Proc, BeginOp(p) PROVE CallInv'
  <2>1. CASE UNCHANGED outstanding /\ pc' = [pc EXCEPT ![p] = "begin_sleep"]
    <3>1. Ops' = Ops
      BY <1>3, <2>1, Zenon DEF BeginOp, Ops
    <3> QED
      BY <1>3, <2>1, <3>1 DEF BeginOp, CallInv, CommitExcludesCalls
  <2>2. CASE ~MustWait /\ outstanding' = outstanding + 1 /\ pc' = [pc EXCEPT ![p] = "op"]
    <3>1. p \in Proc \ Ops /\ Ops' = Ops \cup {p}
      BY <1>3, <2>2 DEF BeginOp, Ops
    <3>2. outstanding' = Cardinality(Ops')
      BY <2>2, <3>1, CallsCount, Zenon
    <3>3. ~committing
      BY <2>2, Zenon DEF MustWait
    <3> QED
      BY <1>3, <2>2, <3>2, <3>3 DEF BeginOp, CallInv, CommitExcludesCalls
  <2> QED
    BY <1>3, <2>1, <2>2, Zenon DEF BeginOp
<1>4. ASSUME NEW p \in Proc, EndOp(p) PROVE CallInv'
  <2>1. p \in Ops /\ Ops' = Ops \ {p}
    BY <1>4 DEF EndOp, Ops, Awake
  <2>2. outstanding' = Cardinality(Ops')
    BY <1>4, <2>1, CallsCount DEF EndOp
  <2>3. \A q \in Proc : pc[q] \notin Committing
    BY <1>4, Zenon DEF EndOp, CallInv, CommitExcludesCalls
  <2>4. CASE outstanding = 1
    <3>1. \A q \in Proc \ {p} : pc[q] \in Waiting
      BY <2>1, <2>3, <2>4, CallsCount, Zenon DEF Ops
    <3> QED
      BY <1>4, <2>2, <2>4, <3>1 DEF EndOp, CallInv, CommitExcludesCalls
  <2>5. CASE outstanding # 1
    BY <1>4, <2>2, <2>3, <2>5, ZenonT(60) DEF EndOp, Awake, CallInv, CommitExcludesCalls
  <2> QED
    BY <2>4, <2>5, Zenon
<1>5. ASSUME NEW p \in Proc, NEW l \in Committing, pc[p] \in Committing,
             pc' = [pc EXCEPT ![p] = l], UNCHANGED <<outstanding, committing, boot>>
      PROVE  CallInv'
  <2>1. Ops' = Ops
    BY <1>5, Zenon DEF Ops
  <2> QED
    BY <1>5, <2>1 DEF CallInv, CommitExcludesCalls
<1>6. ASSUME NEW p \in Proc, CommitDone(p) PROVE CallInv'
  <2>1. Ops' = Ops
    BY <1>6 DEF CommitDone, Awake, Ops
  <2>2. \A q \in Proc : pc'[q] \in Waiting
    BY <1>6 DEF CommitDone, Awake, CallInv, CommitExcludesCalls
  <2> QED
    BY <1>6, <2>1, <2>2, Zenon DEF CommitDone, CallInv, CommitExcludesCalls
<1>7. CASE Crash
  <2>1. Ops' = {}
    BY <1>7, Zenon DEF Crash, Ops
  <2> QED
    BY <1>7, <2>1 DEF Crash, CallInv, CommitExcludesCalls, Finite, EmptyCount
<1>8. CASE RecoverRead \/ RecoverInstall \/ RecoverClear
  BY <1>1, <1>8, Zenon DEF RecoverRead, RecoverInstall, InstallBlock, RecoverClear, ClearHead
<1>9. ASSUME NEW p \in Proc, NEW b \in Block, NEW v \in Val, LogWrite(p, b, v) PROVE CallInv'
  BY <1>1, <1>9 DEF LogWrite
<1>10. ASSUME NEW p \in Proc, WriteLog(p) \/ InstallTrans(p) PROVE CallInv'
  BY <1>1, <1>10, Zenon DEF WriteLog, InstallTrans, InstallBlock
<1>11. ASSUME NEW b \in Block, Evict(b) PROVE CallInv'
  BY <1>1, <1>11, Zenon DEF Evict
<1>12. CASE UNCHANGED vars
  BY <1>1, <1>12 DEF vars
<1>13. ASSUME NEW p \in Proc, WriteHead(p) \/ ClearLog(p) PROVE CallInv'
  BY <1>5, <1>13, Zenon DEF WriteHead, ClearLog, ClearHead
<1> QED
  BY <1>2, <1>3, <1>4, <1>6, <1>7, <1>8, <1>9, <1>10, <1>11, <1>12, <1>13, Zenon
  DEF Next, Call, Commit, Recover

\* write_log(), install_trans() and file system calls exclude each other.
LEMMA Places ==
    ASSUME CallInv
    PROVE  /\ At("op") => ~At("write_log") /\ ~At("install_trans")
           /\ At("write_log") => ~At("install_trans")
           /\ Recovering => ~At("op") /\ ~At("write_log") /\ ~At("install_trans")
  BY DEF CallInv, CommitExcludesCalls, At, Recovering

\* log_write(), write_head() and recovery keep the header in memory and the
\* one on the disk in step.
LEMMA ShapeStep == ASSUME Finite PROVE LInv /\ [Next]_vars => ShapeInv'
<1> SUFFICES ASSUME LInv, [Next]_vars PROVE ShapeInv'
  OBVIOUS
<1> USE LogAssumption DEF LInv, LogType, Recovering, Installing, Injective
<1>1. ASSUME UNCHANGED <<lh, hdr, tail, pc, boot>> PROVE ShapeInv'
  BY <1>1, Zenon DEF ShapeInv, At
<1>2. ASSUME NEW p \in Proc, SysCall(p) PROVE ShapeInv'
  BY <1>2, Zenon DEF SysCall, ShapeInv, At, disk
<1>3. ASSUME NEW p \in Proc, BeginOp(p) PROVE ShapeInv'
  BY <1>3, SMTT(60) DEF BeginOp, ShapeInv, At, disk
<1>4. ASSUME NEW p \in Proc, EndOp(p) PROVE ShapeInv'
  <2>1. boot = "up" /\ ~At("write_log") /\ ~At("install_trans") /\ p \in Ops
    BY <1>4, Places, Zenon DEF EndOp, At, Ops
  <2>2. UNCHANGED <<lh, hdr, tail, boot>> /\ tail = 0 /\ hdr = << >>
    BY <1>4, <2>1 DEF EndOp, ShapeInv, disk
  <2>3. ~At("install_trans")'
    BY <1>4, <2>1, Zenon DEF EndOp, Awake, At
  <2>4. lh = << >> \/ At("write_log")' \/ At("op")'
    <3>1. CASE outstanding = 1
      BY <1>4, <3>1, Zenon DEF EndOp, At
    <3>2. CASE outstanding # 1
      <4>1. Ops \ {p} # {}
        <5>1. Cardinality(Ops \ {p}) = outstanding - 1 /\ outstanding \in Nat \ {0}
          BY <2>1, CallsCount
        <5>2. Cardinality({}) = 0
          BY Zenon DEF Finite, EmptyCount
        <5>3. Cardinality(Ops \ {p}) # 0
          BY <3>2, <5>1
        <5> QED
          BY <5>2, <5>3, Zenon
      <4> QED
        BY <1>4, <3>2, <4>1 DEF EndOp, Awake, At, Ops
    <3> QED
      BY <3>1, <3>2
  <2> QED
    BY <2>1, <2>2, <2>3, <2>4, Zenon DEF ShapeInv
<1>5. ASSUME NEW p \in Proc, NEW b \in Block, NEW v \in Val, LogWrite(p, b, v) PROVE ShapeInv'
  <2>1. boot = "up" /\ At("op") /\ At("op")' /\ ~At("install_trans") /\ ~At("install_trans")'
        /\ UNCHANGED <<hdr, tail>> /\ boot' \in {"up", "panic"}
        /\ At("write_log")' = At("write_log")
    BY <1>5, Places, Zenon DEF LogWrite, At, disk
  <2>2. CASE UNCHANGED lh
    BY <2>1, <2>2, Zenon DEF ShapeInv
  <2>3. CASE lh' = Append(lh, b) /\ ~TooBig /\ b \notin Entries(lh)
    <3>1. Len(lh') = Len(lh) + 1 /\ Len(lh') <= nlog - 1
      BY <2>3 DEF TooBig
    <3>2. Injective(lh')
      BY <2>3, SMTT(60) DEF ShapeInv, Entries
    <3> QED
      BY <2>1, <3>1, <3>2, SMTT(60) DEF ShapeInv
  <2> QED
    BY <1>5, <2>2, <2>3, Zenon DEF LogWrite, AddToLog
<1>6. ASSUME NEW p \in Proc, WriteLog(p) PROVE ShapeInv'
  <2>1. /\ UNCHANGED <<lh, hdr, boot>> /\ At("write_log") /\ At("write_log")'
        /\ At("op")' = At("op") /\ At("install_trans")' = At("install_trans")
        /\ boot = "up" /\ tail < Len(lh) /\ tail' = tail + 1
    BY <1>6, Zenon DEF WriteLog, At
  <2>2. tail' <= Len(lh)
    BY <2>1
  <2> QED
    BY <2>1, <2>2 DEF ShapeInv
<1>7. ASSUME NEW p \in Proc, WriteHead(p) PROVE ShapeInv'
  BY <1>7, SMTT(60) DEF WriteHead, ShapeInv, At, disk
<1>8. ASSUME NEW p \in Proc, InstallTrans(p) PROVE ShapeInv'
  BY <1>8, SMTT(60) DEF InstallTrans, InstallBlock, ShapeInv, At, disk
<1>9. ASSUME NEW p \in Proc, ClearLog(p) PROVE ShapeInv'
  BY <1>9, SMTT(60) DEF ClearLog, ClearHead, ShapeInv, At, disk
<1>10. ASSUME NEW p \in Proc, CommitDone(p) PROVE ShapeInv'
  BY <1>10, Zenon DEF CommitDone, Awake, ShapeInv, At, disk
<1>11. ASSUME NEW b \in Block, Evict(b) PROVE ShapeInv'
  BY <1>1, <1>11, Zenon DEF Evict, disk
<1>12. CASE RecoverRead
  BY <1>12, SMTT(60) DEF RecoverRead, ShapeInv, At, disk
<1>13. CASE RecoverInstall
  BY <1>13, SMTT(60) DEF RecoverInstall, InstallBlock, ShapeInv, At
<1>14. CASE RecoverClear
  BY <1>14, SMTT(60) DEF RecoverClear, ClearHead, ShapeInv, At
<1>15. CASE Crash
  BY <1>15, SMTT(60) DEF Crash, ShapeInv, At, disk
<1>16. CASE UNCHANGED vars
  BY <1>1, <1>16, Zenon DEF vars, disk
<1> QED
  BY <1>2, <1>3, <1>4, <1>5, <1>6, <1>7, <1>8, <1>9, <1>10, <1>11, <1>12, <1>13,
     <1>14, <1>15, <1>16, Zenon DEF Next, Call, Commit, Recover

\* Pins, in the form the proofs use.
Pinned(b) == \E i \in DOMAIN lh : lh[i] = b /\ (At("install_trans") => i > tail)
Pins == \A b \in Block : pin[b] = IF ~Recovering /\ Pinned(b) THEN 1 ELSE 0

\* PinnedOnce, block by block.
LEMMA PinsForm == LogType => (PinnedOnce <=> Pins)
<1> SUFFICES ASSUME LogType PROVE PinnedOnce <=> Pins
  BY Zenon
<1>1. ~Recovering <=> boot \in {"up", "panic"}
  BY Zenon DEF LogType, Recovering
<1>2. \A i \in DOMAIN lh : (~\E p \in Proc : pc[p] = "install_trans" /\ i <= tail)
                              <=> (At("install_trans") => i > tail)
  BY DEF LogType, At
<1> QED
  BY <1>1, <1>2 DEF PinnedOnce, Pins, Pinned

\* bpin() in log_write() and bunpin() in install_trans() balance.
LEMMA PinStep == ASSUME Finite PROVE LInv /\ [Next]_vars => PinnedOnce'
<1> SUFFICES ASSUME LInv, [Next]_vars PROVE PinnedOnce'
  OBVIOUS
<1>a. LogType' /\ CallInv'
  BY TypeStep, CallStep
<1>b. LogType /\ CallInv /\ ShapeInv /\ Pins
  BY PinsForm DEF LInv
<1> USE <1>b
<1>c. (LogType => (PinnedOnce <=> Pins))'
  BY PinsForm, PTL
<1> SUFFICES Pins'
  BY <1>a, <1>c, Zenon
<1>1. ASSUME UNCHANGED <<lh, pin, boot>>, At("install_trans")' <=> At("install_trans"),
             At("install_trans") => UNCHANGED tail
      PROVE  Pins'
  BY <1>1 DEF Pins, Pinned, Recovering
<1>2. ASSUME NEW p \in Proc, SysCall(p) \/ BeginOp(p) \/ EndOp(p) \/ CommitDone(p) PROVE Pins'
  <2>1. CASE SysCall(p) \/ BeginOp(p)
    BY <1>1, <2>1 DEF SysCall, BeginOp, At, LogType
  <2>2. CASE EndOp(p)
    BY <1>1, <2>2, Zenon DEF EndOp, Awake, At, LogType
  <2>3. CASE CommitDone(p)
    BY <1>1, <2>3, Zenon DEF CommitDone, Awake, At, LogType
  <2> QED
    BY <1>2, <2>1, <2>2, <2>3, Zenon
<1>3. ASSUME NEW p \in Proc, NEW b \in Block, NEW v \in Val, LogWrite(p, b, v) PROVE Pins'
  <2>1. ~At("install_trans") /\ ~At("install_trans")' /\ ~Recovering /\ ~Recovering'
    BY <1>3, Places, Zenon DEF LogWrite, At, Recovering
  <2>2. CASE UNCHANGED <<lh, pin>>
    BY <2>1, <2>2, Zenon DEF Pins, Pinned
  <2>3. CASE lh' = Append(lh, b) /\ pin' = [pin EXCEPT ![b] = @ + 1] /\ b \notin Entries(lh)
    <3>0. /\ DOMAIN lh' = DOMAIN lh \cup {Len(lh) + 1}
          /\ lh'[Len(lh) + 1] = b /\ \A i \in DOMAIN lh : lh'[i] = lh[i]
      BY <2>3, Appended, SMTT(60) DEF LogType
    <3>1. \A c \in Block : Pinned(c)' <=> Pinned(c) \/ c = b
      BY <2>1, <3>0, Zenon DEF Pinned
    <3>2. ~Pinned(b)
      BY <2>3, Zenon DEF Pinned, Entries
    <3> QED
      BY <2>1, <2>3, <3>1, <3>2 DEF Pins, LogType
  <2> QED
    BY <1>3, <2>2, <2>3, Zenon DEF LogWrite, AddToLog
<1>4. ASSUME NEW p \in Proc, WriteLog(p) PROVE Pins'
  <2>1. ~At("install_trans") /\ ~At("install_trans")'
    BY <1>4, Places, Zenon DEF WriteLog, At
  <2> QED
    BY <1>1, <1>4, <2>1, Zenon DEF WriteLog
<1>5. ASSUME NEW p \in Proc, WriteHead(p) PROVE Pins'
  <2>1. ~At("install_trans") /\ tail' = 0
    BY <1>5, Places, Zenon DEF WriteHead, At
  <2> QED
    BY <1>5, <2>1 DEF WriteHead, Pins, Pinned, Recovering, LogType
<1>6. ASSUME NEW p \in Proc, InstallTrans(p) PROVE Pins'
  <2>1. At("install_trans") /\ At("install_trans")' /\ ~Recovering /\ ~Recovering'
    BY <1>6 DEF InstallTrans, InstallBlock, At, Recovering
  <2>2. tail + 1 \in DOMAIN lh /\ lh[tail + 1] \in Block
    BY <1>6, Next1, Types, Zenon DEF InstallTrans, InstallBlock
  <2>3. \A c \in Block : Pinned(c)' <=> Pinned(c) /\ c # lh[tail + 1]
    BY <1>6, <2>1, <2>2, SMTT(60) DEF InstallTrans, InstallBlock, Pinned, ShapeInv, Injective,
       LogType
  <2>4. Pinned(lh[tail + 1])
    BY <2>2 DEF Pinned, LogType
  <2> QED
    BY <1>6, <2>1, <2>2, <2>3, <2>4 DEF InstallTrans, Pins, LogType
<1>7. ASSUME NEW p \in Proc, ClearLog(p) PROVE Pins'
  <2>1. At("install_trans") /\ tail = Len(lh)
    BY <1>7, Zenon DEF ClearLog, ClearHead, At
  <2>2. \A c \in Block : ~Pinned(c) /\ ~Pinned(c)'
    BY <1>7, <2>1, Types, SMTT(60) DEF ClearLog, ClearHead, Pinned
  <2> QED
    BY <1>7, <2>2, Zenon DEF ClearLog, ClearHead, Pins
<1>8. CASE RecoverRead \/ RecoverInstall
  BY <1>8, Zenon DEF RecoverRead, RecoverInstall, InstallBlock, Pins, Recovering
<1>9. CASE RecoverClear
  <2>1. \A c \in Block : ~Pinned(c)'
    BY <1>9 DEF RecoverClear, ClearHead, Pinned
  <2> QED
    BY <1>9, <2>1, Zenon DEF RecoverClear, ClearHead, Pins, Recovering
<1>10. CASE Crash
  BY <1>10, Zenon DEF Crash, Pins, Recovering
<1>11. ASSUME NEW b \in Block, Evict(b) PROVE Pins'
  BY <1>1, <1>11, Zenon DEF Evict, At
<1>12. CASE UNCHANGED vars
  BY <1>1, <1>12, Zenon DEF vars, At
<1> QED
  BY <1>2, <1>3, <1>4, <1>5, <1>6, <1>7, <1>8, <1>9, <1>10, <1>11, <1>12 DEF Next, Call, Commit,
     Recover

\* A block that can be evicted is as it is on the disk.
LEMMA EvictClean == ASSUME LInv, NEW b \in Block, Evict(b) PROVE Contents(b) = home[b]
<1>1. CASE Recovering \/ b \notin Entries(lh)
  BY <1>1, Zenon DEF LInv, LogType, DataInv, Clean, Evict, Recovering
<1>2. CASE b \in Entries(lh) /\ ~Recovering
  <2>1. PICK i \in DOMAIN lh : lh[i] = b
    BY <1>2, Zenon DEF Entries
  <2>2. ~Pinned(b)
    <3>1. pin[b] = 0 /\ boot = "up"
      BY <1>2, Zenon DEF LInv, LogType, Evict, Recovering
    <3> QED
      BY <1>2, <3>1, PinsForm DEF LInv, Pins
  <2>3. At("install_trans") /\ i \in 1 .. tail /\ i \in 1 .. Len(lh)
    BY <2>1, <2>2, Types, SMTT(60) DEF Pinned, LInv, LogType
  <2> QED
    BY <2>1, <2>3, Zenon DEF LInv, DataInv, Committed, Installed, Installing
<1> QED
  BY <1>1, <1>2, Zenon

\* write_log(), install_trans() and recovery copy the contents of the blocks
\* in an order that loses none.
LEMMA DataStep == LInv /\ [Next]_vars => DataInv'
<1> SUFFICES ASSUME LInv, [Next]_vars PROVE DataInv'
  BY Zenon
<1>a. LogType /\ CallInv /\ ShapeInv /\ Copied /\ Committed /\ Installed /\ Clean
  BY Zenon DEF LInv, DataInv
<1> USE <1>a
<1>b. \A i \in 1 .. tail : i \in 1 .. Len(lh)
  BY Types, SMTT(60) DEF ShapeInv, LogType
<1> USE DEF DataInv
<1>1. ASSUME UNCHANGED <<home, slot, lh, tail, boot>>, \A b \in Block : Contents(b)' = Contents(b),
             At("write_log")' => At("write_log") \/ tail = 0,
             At("install_trans")' => At("install_trans")
      PROVE  DataInv'
  <2>1. \A i \in 1 .. Len(lh) : Contents(lh[i])' = Contents(lh[i])
    <3> SUFFICES ASSUME NEW i \in 1 .. Len(lh) PROVE Contents(lh[i])' = Contents(lh[i])
      OBVIOUS
    <3>1. lh[i] \in Block /\ lh'[i] = lh[i]
      BY <1>1, Types, Zenon
    <3> QED
      BY <1>1, <3>1, Zenon DEF Contents
  <2>2. Copied'
    BY <1>1, <1>b, <2>1 DEF Copied
  <2>3. Committed'
    BY <1>1, <2>1, Zenon DEF Committed
  <2>4. Installed'
    BY <1>1, Zenon DEF Installed, Installing
  <2>5. Clean'
    BY <1>1, Zenon DEF Clean, Recovering, Entries
  <2> QED
    BY <2>2, <2>3, <2>4, <2>5, Zenon
<1>2. ASSUME NEW p \in Proc, SysCall(p) \/ BeginOp(p) \/ EndOp(p) \/ CommitDone(p) PROVE DataInv'
  <2>1. UNCHANGED <<home, slot, lh, tail, boot, cache>>
    BY <1>2, Zenon DEF SysCall, BeginOp, EndOp, CommitDone, disk
  <2>2. At("install_trans")' => At("install_trans")
    BY <1>2, Zenon DEF SysCall, BeginOp, EndOp, CommitDone, Awake, At, LogType
  <2>3. At("write_log")' => At("write_log") \/ tail = 0
    <3>1. CASE EndOp(p)
      BY <3>1, Places, Zenon DEF EndOp, At, ShapeInv, Installing
    <3>2. CASE SysCall(p) \/ BeginOp(p) \/ CommitDone(p)
      BY <3>2, Zenon DEF SysCall, BeginOp, CommitDone, Awake, At, LogType
    <3> QED
      BY <1>2, <3>1, <3>2, Zenon
  <2> QED
    BY <1>1, <2>1, <2>2, <2>3, Zenon DEF Contents
<1>3. ASSUME NEW p \in Proc, NEW b \in Block, NEW v \in Val, LogWrite(p, b, v) PROVE DataInv'
  <2>1. /\ ~At("write_log")' /\ ~At("install_trans")'
        /\ boot = "up" /\ boot' \in {"up", "panic"}
        /\ UNCHANGED <<home, slot>>
    BY <1>3, Places, Zenon DEF LogWrite, At, disk
  <2>2. \A c \in Block \ {b} : Contents(c)' = Contents(c)
    <3>1. home' = home /\ cache' = [cache EXCEPT ![b] = v]
      BY <1>3, Zenon DEF LogWrite, disk
    <3> QED
      BY <3>1 DEF Contents, LogType
  <2>3. boot' = "up" => Entries(lh) \cup {b} \subseteq Entries(lh')
    <3>1. CASE lh' = lh /\ b \in Entries(lh)
      <4>1. Entries(lh') = Entries(lh)
        BY <3>1, Zenon
      <4> QED
        BY <3>1, <4>1
    <3>2. CASE lh' = Append(lh, b)
      BY <3>2, Appended, SMTT(60) DEF Entries, LogType
    <3> QED
      BY <1>3, <2>1, <3>1, <3>2, Zenon DEF LogWrite, AddToLog
  <2>4. Clean'
    BY <2>1, <2>2, <2>3, Zenon DEF Clean, Recovering, Entries
  <2> QED
    <3>1. ~Installing'
      BY <2>1 DEF Installing, Recovering
    <3> QED
      BY <2>1, <2>4, <3>1, Zenon DEF Copied, Committed, Installed
<1>4. ASSUME NEW p \in Proc, WriteLog(p) PROVE DataInv'
  <2>1. /\ At("write_log") /\ ~At("install_trans")' /\ boot = "up"
        /\ UNCHANGED <<home, lh, boot>> /\ tail' = tail + 1
    BY <1>4, Places, Zenon DEF WriteLog, At
  <2>2. tail + 1 \in 1 .. Len(lh) /\ tail + 1 \in SlotIndex /\ lh[tail + 1] \in Block
    <3>1. tail < Len(lh)
      BY <1>4, Zenon DEF WriteLog
    <3> QED
      BY <3>1, Next1, Zenon
  <2>3. \A b \in Block : Contents(b)' = Contents(b)
    BY <1>4, <2>2, Types, LogAssumption, Zenon DEF WriteLog, Contents, LogType
  <2>4. \A i \in 1 .. tail + 1 : slot'[i] = Contents(lh[i])
    <3>1. slot'[tail + 1] = Contents(lh[tail + 1])
      BY <1>4, <2>2, Zenon DEF WriteLog, LogType
    <3>2. \A i \in 1 .. tail : slot'[i] = slot[i]
      BY <1>4, <2>2, SMTT(60) DEF WriteLog, LogType, SlotIndex
    <3>3. \A i \in 1 .. tail + 1 : i = tail + 1 \/ i \in 1 .. tail
      BY DEF LogType
    <3> QED
      BY <2>1, <3>1, <3>2, <3>3, Zenon DEF Copied
  <2>5. \A i \in 1 .. tail + 1 : Contents(lh[i])' = Contents(lh[i])
    <3>1. \A i \in 1 .. tail + 1 : lh[i] \in Block
      BY <2>2, Types, SMTT(60) DEF LogType
    <3> QED
      BY <2>1, <2>3, <3>1, Zenon DEF Contents
  <2>6. Clean'
    BY <2>1, <2>3, Zenon DEF Clean, Recovering, Entries
  <2> QED
    BY <2>1, <2>4, <2>5, <2>6, Zenon DEF Copied, Committed, Installed, Installing
<1>5. ASSUME NEW p \in Proc, WriteHead(p) PROVE DataInv'
  <2>1. At("write_log") /\ boot = "up" /\ tail = Len(lh) /\ tail' = 0
        /\ UNCHANGED <<home, slot, cache, lh, boot>>
    BY <1>5, Zenon DEF WriteHead, At
  <2>2. ~At("write_log")'
    BY <1>5, Zenon DEF WriteHead, At, CallInv, CommitExcludesCalls, LogType
  <2>3. Committed'
    BY <2>1, Zenon DEF Copied, Committed, Contents
  <2>4. Clean'
    BY <2>1, Zenon DEF Clean, Recovering, Entries, Contents
  <2> QED
    BY <2>1, <2>2, <2>3, <2>4 DEF Copied, Installed
<1>6. ASSUME InstallBlock, Installing, UNCHANGED pc, boot \in {"up", "install_trans"} PROVE DataInv'
  <2>1. tail + 1 \in 1 .. Len(lh) /\ lh[tail + 1] \in Block /\ slot[tail + 1] \in Val
    BY <1>6, Next1, Zenon DEF InstallBlock
  <2>2. UNCHANGED <<slot, lh, boot>> /\ tail' = tail + 1
    BY <1>6, Zenon DEF InstallBlock
  <2>3. \A b \in Block :
            /\ Contents(b)' = IF b = lh[tail + 1] THEN slot[tail + 1] ELSE Contents(b)
            /\ home'[b] = IF b = lh[tail + 1] THEN slot[tail + 1] ELSE home[b]
    BY <1>6, <2>1, LogAssumption, Zenon DEF InstallBlock, Contents, LogType
  <2>4. \A i \in 1 .. Len(lh) : lh[i] \in Block /\ (i # tail + 1 => lh[i] # lh[tail + 1])
    BY <2>1, Types, Zenon DEF ShapeInv, Injective
  <2>5. ~At("write_log")' /\ (At("install_trans")' => At("install_trans"))
    BY <1>6, Places, Zenon DEF At, Installing, Recovering
  <2>6. Committed'
    <3>1. \A i \in 1 .. Len(lh) : Contents(lh[i])'
                                     = IF i = tail + 1 THEN slot[i] ELSE Contents(lh[i])
      BY <2>2, <2>3, <2>4, SMTT(60) DEF Contents
    <3> QED
      BY <2>2, <2>5, <3>1, Zenon DEF Committed
  <2>7. Installed'
    <3>1. \A i \in 1 .. tail + 1 : i = tail + 1 \/ (i \in 1 .. tail /\ i # tail + 1)
      BY DEF LogType
    <3>2. \A i \in 1 .. tail : home[lh[i]] = slot[i]
      BY <1>6, Zenon DEF Installed
    <3>3. \A i \in 1 .. tail + 1 : home'[lh[i]] = slot[i]
      BY <1>b, <2>1, <2>3, <2>4, <3>1, <3>2, Zenon
    <3> QED
      BY <2>2, <3>3, Zenon DEF Installed
  <2>8. Clean'
    BY <2>2, <2>3, Zenon DEF Clean, Recovering, Entries
  <2> QED
    BY <2>5, <2>6, <2>7, <2>8, Zenon DEF Copied
<1>7. ASSUME NEW p \in Proc, InstallTrans(p) PROVE DataInv'
  BY <1>6, <1>7, Zenon DEF InstallTrans, InstallBlock, Installing, At
<1>8. CASE RecoverInstall
  BY <1>6, <1>8, Zenon DEF RecoverInstall, InstallBlock, Installing
<1>9. ASSUME NEW p \in Proc, ClearLog(p) PROVE DataInv'
  <2>1. At("install_trans") /\ tail = Len(lh) /\ boot = "up" /\ UNCHANGED <<home, cache, boot>>
    BY <1>9 DEF ClearLog, ClearHead, At
  <2>2. ~At("write_log")' /\ ~At("install_trans")'
    BY <1>9, Zenon DEF ClearLog, At, CallInv, CommitExcludesCalls, LogType
  <2>3. \A i \in 1 .. Len(lh) : Contents(lh[i]) = home[lh[i]]
    BY <2>1, Zenon DEF Committed, Installed, Installing
  <2>4. \A b \in Block : Contents(b) = home[b]
    BY <2>1, <2>3, Types, Zenon DEF Clean, Entries
  <2>5. Clean'
    BY <2>1, <2>4, Zenon DEF Clean, Contents
  <2> QED
    BY <2>1, <2>2, <2>5, Zenon DEF Copied, Committed, Installed, Installing
<1>10. ASSUME NEW b \in Block, Evict(b) PROVE DataInv'
  <2>1. Contents(b) = home[b]
    BY <1>10, EvictClean
  <2>2. \A c \in Block : Contents(c)' = Contents(c)
    BY <1>10, <2>1, Zenon DEF Evict, Contents, LogType, disk
  <2> QED
    BY <1>1, <1>10, <2>2, Zenon DEF Evict, At, disk
<1>11. CASE RecoverRead
  <2>1. tail' = 0 /\ ~At("write_log")' /\ ~At("install_trans")'
    BY <1>11, Places, Zenon DEF RecoverRead, ShapeInv, At, Installing, Recovering
  <2>2. Clean'
    BY <1>11, Zenon DEF RecoverRead, Clean, Recovering, Contents, disk
  <2> QED
    BY <2>1, <2>2 DEF Copied, Committed, Installed
<1>12. CASE RecoverClear
  <2>1. ~At("write_log")' /\ ~At("install_trans")' /\ boot' = "up"
    BY <1>12, Places, Zenon DEF RecoverClear, ClearHead, At, Recovering
  <2>2. Clean'
    BY <1>12, Zenon DEF RecoverClear, ClearHead, Clean, Recovering, Contents
  <2> QED
    BY <2>1, <2>2, Zenon DEF Copied, Committed, Installed, Installing
<1>13. CASE Crash
  <2>1. ~At("write_log")' /\ ~At("install_trans")' /\ boot' = "read_head"
    BY <1>13, Zenon DEF Crash, At
  <2>2. Clean'
    BY <1>13, Zenon DEF Crash, Clean, Contents, disk
  <2> QED
    BY <2>1, <2>2, Zenon DEF Copied, Committed, Installed, Installing
<1>14. CASE UNCHANGED vars
  BY <1>1, <1>14, Zenon DEF vars, At, Contents, disk
<1> QED
  BY <1>2, <1>3, <1>4, <1>5, <1>7, <1>8, <1>9, <1>10, <1>11, <1>12, <1>13, <1>14, Zenon DEF Next,
     Call, Commit, Recover

\* Nothing is left of a transaction once nobody is in a call.
LEMMA Quiescent == ASSUME LInv PROVE QuiescentIsDurable
<1> SUFFICES ASSUME boot = "up", \A p \in Proc : pc[p] \in Waiting
             PROVE  /\ lh = << >> /\ hdr = << >>
                    /\ \A b \in Block : Contents(b) = home[b] /\ pin[b] = 0
  BY Zenon DEF QuiescentIsDurable, Waiting
<1>1. ~At("op") /\ ~At("write_log") /\ ~Installing
  BY Zenon DEF At, Installing, Waiting
<1>2. lh = << >> /\ hdr = << >>
  BY <1>1, Zenon DEF LInv, ShapeInv
<1>3. \A b \in Block : b \notin Entries(lh) /\ ~Pinned(b)
  BY <1>2 DEF Entries, Pinned
<1> QED
  BY <1>2, <1>3, PinsForm, Zenon DEF LInv, DataInv, Clean, Pins

-----------------------------------------------------------------------------
(* Transactions are atomic *)

\* What recovery makes of the disk, by entry of the header.
LEMMA RecoveredIs ==
    ShapeInv => \A b \in Block :
        /\ \A i \in DOMAIN hdr : hdr[i] = b => Recovered(b) = slot[i]
        /\ b \notin Entries(hdr) => Recovered(b) = home[b]
<1> SUFFICES ASSUME ShapeInv, NEW b \in Block
             PROVE  /\ \A i \in DOMAIN hdr : hdr[i] = b => Recovered(b) = slot[i]
                    /\ b \notin Entries(hdr) => Recovered(b) = home[b]
  OBVIOUS
<1>1. ASSUME NEW i \in DOMAIN hdr, hdr[i] = b PROVE Recovered(b) = slot[i]
  <2>1. \E j \in DOMAIN hdr : hdr[j] = b
    BY <1>1, Zenon
  <2>2. (CHOOSE j \in DOMAIN hdr : hdr[j] = b) = i
    BY <1>1, <2>1, Zenon DEF ShapeInv, Injective
  <2> QED
    BY <1>1, <2>2, Zenon DEF Recovered, Entries
<1> QED
  BY <1>1, Zenon DEF Recovered

View(b) == IF boot \in {"up", "panic"} THEN Contents(b) ELSE Recovered(b)
Mem == [b \in Block |-> View(b)]
Durable == [b \in Block |-> Recovered(b)]
absVars == <<Mem, Durable, Ops>>

\* Every step of Log is a step of AtomicDisk, or changes nothing there.
LEMMA AtomicStep == LInv /\ LInv' /\ [Next]_vars => [Atomic!Next]_absVars
<1> SUFFICES ASSUME LInv, LInv', [Next]_vars PROVE [Atomic!Next]_absVars
  BY Zenon
<1>a. /\ LogType /\ CallInv /\ ShapeInv /\ ShapeInv'
      /\ Copied /\ Committed /\ Installed /\ Clean
  BY Zenon DEF LInv, DataInv
<1>b. \A b \in Block :
        /\ \A i \in DOMAIN hdr : hdr[i] = b => Recovered(b) = slot[i]
        /\ b \notin Entries(hdr) => Recovered(b) = home[b]
  BY <1>a, RecoveredIs, Zenon
<1>c. \A b \in Block :
        /\ \A i \in DOMAIN hdr' : hdr'[i] = b => Recovered(b)' = slot'[i]
        /\ b \notin Entries(hdr') => Recovered(b)' = home'[b]
  <2>1. (ShapeInv => \A b \in Block :
            /\ \A i \in DOMAIN hdr : hdr[i] = b => Recovered(b) = slot[i]
            /\ b \notin Entries(hdr) => Recovered(b) = home[b])'
    BY RecoveredIs, PTL
  <2> QED
    BY <1>a, <2>1 DEF Entries
<1>d. ASSUME UNCHANGED disk PROVE \A b \in Block : Recovered(b)' = Recovered(b)
  BY <1>d DEF disk, Recovered, Entries
<1>1. ASSUME \A b \in Block : View(b)' = View(b) /\ Recovered(b)' = Recovered(b), Ops' = Ops
      PROVE  UNCHANGED absVars
  BY <1>1, Zenon DEF absVars, Mem, Durable
<1>2. ASSUME NEW p \in Proc, SysCall(p) \/ CommitDone(p) PROVE UNCHANGED absVars
  <2>1. UNCHANGED <<disk, cache, boot>>
    BY <1>2 DEF SysCall, CommitDone
  <2>2. Ops' = Ops
    BY <1>2, <1>a, Zenon DEF SysCall, CommitDone, Awake, Ops, LogType
  <2> QED
    BY <1>1, <1>d, <2>1, <2>2, Zenon DEF View, Contents, disk
<1>3. ASSUME NEW p \in Proc, BeginOp(p) PROVE [Atomic!Next]_absVars
  <2>1. UNCHANGED Mem /\ UNCHANGED Durable
    BY <1>3, <1>d, Zenon DEF BeginOp, Mem, Durable, View, Contents, disk
  <2>2. Ops' = Ops \/ (p \notin Ops /\ Ops' = Ops \cup {p})
    BY <1>3, <1>a DEF BeginOp, Ops, LogType
  <2>3. CASE Ops' = Ops
    BY <2>1, <2>3, Zenon DEF absVars
  <2>4. CASE p \notin Ops /\ Ops' = Ops \cup {p}
    <3>1. Atomic!Begin(p)
      BY <2>1, <2>4, Zenon DEF Atomic!Begin, Mem, View, Durable, Ops
    <3> QED
      BY <3>1, Zenon DEF Atomic!Next
  <2> QED
    BY <2>2, <2>3, <2>4, Zenon
<1>4. ASSUME NEW p \in Proc, EndOp(p) PROVE Atomic!Next
  <2>1. UNCHANGED Mem /\ UNCHANGED Durable
    BY <1>4, <1>d, Zenon DEF EndOp, Mem, Durable, View, Contents, disk
  <2>2. p \in Ops /\ Ops' = Ops \ {p}
    BY <1>4, <1>a, Zenon DEF EndOp, Awake, Ops, LogType
  <2>3. Atomic!End(p)
    BY <2>1, <2>2, Zenon DEF Atomic!End, Mem, View, Durable, Ops
  <2> QED
    BY <2>3, Zenon DEF Atomic!Next
<1>5. ASSUME NEW p \in Proc, NEW b \in Block, NEW v \in Val, LogWrite(p, b, v) PROVE Atomic!Next
  <2>1. UNCHANGED Durable /\ UNCHANGED Ops /\ p \in Ops
    BY <1>5, <1>d, Zenon DEF LogWrite, Durable, Ops
  <2>2. \A c \in Block : View(c)' = IF c = b THEN v ELSE View(c)
    BY <1>5, <1>a, LogAssumption DEF LogWrite, View, Contents, LogType, disk
  <2>3. Mem' = [Mem EXCEPT ![b] = v]
    BY <2>2, Zenon DEF Mem
  <2>4. Atomic!Write(p, b, v)
    BY <2>1, <2>3, Zenon DEF Atomic!Write, Mem, View, Durable, Ops
  <2> QED
    BY <2>4, Zenon DEF Atomic!Next
<1>6. ASSUME NEW p \in Proc, WriteLog(p) PROVE UNCHANGED absVars
  <2>1. hdr = << >> /\ UNCHANGED <<home, hdr, pc>> /\ boot = "up" /\ boot' = "up"
    <3>1. ~Installing /\ boot = "up"
      BY <1>6, <1>a, Places, Zenon DEF WriteLog, At, Installing
    <3> QED
      BY <1>6, <1>a, <3>1, Zenon DEF WriteLog, ShapeInv
  <2>2. \A b \in Block : Recovered(b) = home[b] /\ Recovered(b)' = home[b]
    BY <2>1 DEF Recovered, Entries
  <2>3. \A b \in Block : Contents(b)' = Contents(b)
    <3>1. lh[tail + 1] \in Block /\ Contents(lh[tail + 1]) \in Val
      BY <1>6, <1>a, Next1, Types, Zenon DEF WriteLog
    <3>2. cache' = [cache EXCEPT ![lh[tail + 1]] = Contents(lh[tail + 1])]
      BY <1>6, Zenon DEF WriteLog
    <3> QED
      BY <1>a, <2>1, <3>1, <3>2, LogAssumption, Zenon DEF Contents, LogType
  <2> QED
    BY <1>1, <2>1, <2>2, <2>3 DEF View, Ops
<1>7. ASSUME NEW p \in Proc, WriteHead(p) PROVE Atomic!Next
  <2>1. /\ At("write_log") /\ boot = "up" /\ tail = Len(lh) /\ hdr' = lh
        /\ UNCHANGED <<home, slot, cache, boot>>
    BY <1>7, Zenon DEF WriteHead, At
  <2>2. Ops = {} /\ Ops' = {}
    BY <1>7, <1>a, <2>1, Places, Zenon DEF WriteHead, At, Ops, LogType
  <2>3. \A b \in Block : Recovered(b)' = Contents(b)
    <3>1. ASSUME NEW b \in Block, NEW i \in DOMAIN lh, lh[i] = b PROVE Recovered(b)' = Contents(b)
      BY <1>a, <1>c, <2>1, <3>1, Types, Zenon DEF Copied
    <3>2. ASSUME NEW b \in Block, b \notin Entries(lh) PROVE Recovered(b)' = Contents(b)
      BY <1>a, <1>c, <2>1, <3>2, Zenon DEF Clean
    <3> QED
      BY <3>1, <3>2, Zenon DEF Entries
  <2>4. \A b \in Block : View(b) = Contents(b) /\ View(b)' = Contents(b)
    BY <2>1, Zenon DEF View, Contents
  <2>5. Durable' = Mem /\ Mem' = Mem
    BY <2>3, <2>4, Zenon DEF Mem, Durable
  <2>6. Atomic!Commit
    BY <2>2, <2>5, Zenon DEF Atomic!Commit, Mem, View, Durable, Ops
  <2> QED
    BY <2>6, Zenon DEF Atomic!Next
<1>8. ASSUME InstallBlock, Installing, boot # "read_head"
      PROVE  \A b \in Block : Recovered(b)' = Recovered(b)
  <2>1. hdr = lh /\ UNCHANGED <<hdr, slot>> /\ tail + 1 \in DOMAIN lh
    BY <1>8, <1>a, Next1, Types, Zenon DEF InstallBlock, ShapeInv
  <2>2. \A b \in Block \ Entries(hdr) : home'[b] = home[b]
    BY <1>8, <1>a, <2>1, Zenon DEF InstallBlock, Entries, LogType
  <2> QED
    BY <1>b, <1>c, <2>1, <2>2 DEF Entries
<1>9. ASSUME NEW p \in Proc, InstallTrans(p) PROVE UNCHANGED absVars
  <2>1. At("install_trans") /\ boot = "up" /\ UNCHANGED <<boot, pc>>
    BY <1>9, Zenon DEF InstallTrans, InstallBlock, At
  <2>2. tail + 1 \in DOMAIN lh /\ lh[tail + 1] \in Block /\ slot[tail + 1] \in Val
    BY <1>9, <1>a, Next1, Types, Zenon DEF InstallTrans, InstallBlock
  <2>3. slot[tail + 1] = Contents(lh[tail + 1])
    BY <1>a, <2>1, <2>2, Types, Zenon DEF Committed
  <2>4. \A b \in Block : Contents(b)' = Contents(b)
    BY <1>9, <1>a, <2>2, <2>3, LogAssumption, Zenon
       DEF InstallTrans, InstallBlock, Contents, LogType
  <2>5. \A b \in Block : Recovered(b)' = Recovered(b)
    BY <1>8, <1>9, <2>1, Zenon DEF InstallTrans, Installing
  <2> QED
    BY <1>1, <2>1, <2>4, <2>5, Zenon DEF View, Ops
<1>10. CASE RecoverInstall
  <2>1. \A b \in Block : Recovered(b)' = Recovered(b)
    BY <1>8, <1>10, Zenon DEF RecoverInstall, Installing
  <2> QED
    BY <1>1, <1>10, <2>1, Zenon DEF RecoverInstall, InstallBlock, View, Ops
<1>11. ASSUME ClearHead, Installing, boot # "read_head"
       PROVE  \A b \in Block : Recovered(b) = home[b] /\ Recovered(b)' = home[b]
  <2>1. hdr = lh /\ tail = Len(lh) /\ hdr' = << >> /\ UNCHANGED home
    BY <1>11, <1>a, Zenon DEF ClearHead, ShapeInv
  <2>2. \A i \in DOMAIN hdr : home[hdr[i]] = slot[i]
    BY <1>11, <1>a, <2>1, Types, Zenon DEF Installed
  <2>3. \A b \in Block : Recovered(b) = home[b]
    BY <1>b, <2>2 DEF Entries
  <2>4. \A b \in Block : Recovered(b)' = home[b]
    BY <2>1 DEF Recovered, Entries
  <2> QED
    BY <2>3, <2>4, Zenon
<1>12. ASSUME NEW p \in Proc, ClearLog(p) PROVE UNCHANGED absVars
  <2>1. \A b \in Block : Recovered(b)' = Recovered(b)
    BY <1>11, <1>12, Zenon DEF ClearLog, At, Installing
  <2>2. Ops' = Ops
    BY <1>12, <1>a, Zenon DEF ClearLog, Ops, LogType
  <2> QED
    BY <1>1, <1>12, <2>1, <2>2, Zenon DEF ClearLog, ClearHead, View, Contents
<1>13. CASE RecoverClear
  <2>1. \A b \in Block : Recovered(b) = home[b] /\ Recovered(b)' = home[b]
    BY <1>11, <1>13, Zenon DEF RecoverClear, Installing
  <2>2. \A b \in Block : Contents(b)' = home[b]
    BY <1>a, <1>13, Zenon DEF RecoverClear, ClearHead, Clean, Recovering, Contents
  <2> QED
    BY <1>1, <1>13, <2>1, <2>2, Zenon DEF RecoverClear, View, Ops
<1>14. CASE RecoverRead
  BY <1>1, <1>d, <1>14, Zenon DEF RecoverRead, View, Ops
<1>15. ASSUME NEW b \in Block, Evict(b) PROVE UNCHANGED absVars
  <2>1. \A c \in Block : Contents(c)' = Contents(c)
    BY <1>a, <1>15, EvictClean, Zenon DEF Evict, Contents, LogType, disk
  <2> QED
    BY <1>1, <1>d, <1>15, <2>1 DEF Evict, View, Ops
<1>16. CASE Crash
  <2>1. Durable' = Durable /\ Mem' = Durable /\ Ops' = {}
    BY <1>d, <1>16, Zenon DEF Crash, Durable, Mem, View, Ops
  <2>2. Atomic!Crash
    BY <2>1 DEF Atomic!Crash, Mem, View, Durable, Ops
  <2> QED
    BY <2>2, Zenon DEF Atomic!Next
<1>17. CASE UNCHANGED vars
  BY <1>1, <1>d, <1>17, Zenon DEF vars, disk, View, Contents, Ops
<1> QED
  BY <1>2, <1>3, <1>4, <1>5, <1>6, <1>7, <1>9, <1>10, <1>12, <1>13, <1>14, <1>15,
     <1>16, <1>17 DEF Next, Call, Commit, Recover

-----------------------------------------------------------------------------
(* The reservation *)

\* What a call has written is in the log, so that only its first write of a
\* block can add an entry.
WroteInv ==
    /\ wrote \in [Proc -> SUBSET Block]
    /\ \A p \in Proc : IsFiniteSet(wrote[p]) /\ Cardinality(wrote[p]) <= OpBlocks
    /\ \A p \in Proc : wrote[p] \subseteq IF p \in Ops THEN Entries(lh) ELSE {}

\* What the calls in progress may still write if each may write k blocks; room
\* blocks hold it, and what is in the log.
Pairs(calls, w, k) == {r \in calls \X (1 .. k) : r[2] > Cardinality(w[r[1]])}
Left(k) == Pairs(Ops, wrote, k)
Fits(k, room) == ~Recovering => Len(lh) + Cardinality(Left(k)) <= room

\* A call that begin_op() lets in, beside n others and l blocks, fits too.
Enough(k, room) ==
    \A n, l \in Nat :
        l + (n + 1) * MAXOPBLOCKS <= LOGSIZE /\ (n = 0 => l = 0) => l + (n + 1) * k <= room

\* The log has room for all that the calls in progress have reserved, as far as
\* begin_op() knows; log_write() has panicked because the log was full.
SpaceInv == Fits(MAXOPBLOCKS, LOGSIZE) /\ (boot = "panic" => TooBig)

RInv == LInv /\ WroteInv /\ SpaceInv

\* What begin_op() has let in has k each.
LEMMA LeftBound ==
    ASSUME Finite, NEW k \in Nat, NEW O \in SUBSET Proc, NEW w
    PROVE  /\ IsFiniteSet(Pairs(O, w, k)) /\ Cardinality(Pairs(O, w, k)) \in Nat
           /\ Cardinality(Pairs(O, w, k)) <= Cardinality(O) * k
<1> DEFINE B == Pairs(O, w, k)
<1>1. IsFiniteSet(O)
  BY LogAssumption, Zenon DEF Finite, SubsetCount
<1>2. IsFiniteSet(1 .. k) /\ Cardinality(1 .. k) = k
  BY DEF Finite, RangeCount
<1>3. /\ IsFiniteSet(O \X (1 .. k))
      /\ Cardinality(O \X (1 .. k)) = Cardinality(O) * k
  BY <1>1, <1>2, Zenon DEF Finite, PairCount
<1>4. B \in SUBSET (O \X (1 .. k))
  BY Zenon DEF Pairs
<1> HIDE DEF B
<1>5. /\ IsFiniteSet(B) /\ Cardinality(B) \in Nat
      /\ Cardinality(B) <= Cardinality(O \X (1 .. k))
  BY <1>3, <1>4, Zenon DEF Finite, SubsetCount
<1>6. QED
  BY <1>3, <1>5, Zenon DEF B

\* The calls in progress are the same, and they are in the log that was, or
\* there are none.
LEMMA CallsSame ==
    ASSUME LInv, [Next]_vars,
           \A p \in Proc : ~BeginOp(p) /\ ~EndOp(p), ~Crash
    PROVE  Ops' = Ops
<1> USE DEF LInv, LogType, Ops, Awake, disk
<1>1. ASSUME NEW p \in Proc, SysCall(p) \/ CommitDone(p) PROVE Ops' = Ops
  BY <1>1, Zenon DEF SysCall, CommitDone
<1>2. ASSUME NEW p \in Proc, \E b \in Block, v \in Val : LogWrite(p, b, v) PROVE Ops' = Ops
  BY <1>2, Zenon DEF LogWrite
<1>3. ASSUME NEW p \in Proc, WriteLog(p) \/ InstallTrans(p) PROVE Ops' = Ops
  BY <1>3, Zenon DEF WriteLog, InstallTrans, InstallBlock
<1>4. ASSUME NEW p \in Proc, WriteHead(p) \/ ClearLog(p) PROVE Ops' = Ops
  BY <1>4, Zenon DEF WriteHead, ClearLog, ClearHead
<1>5. ASSUME NEW b \in Block, Evict(b) PROVE Ops' = Ops
  BY <1>5, Zenon DEF Evict
<1>6. CASE Recover
  BY <1>6, Zenon DEF Recover, RecoverRead, RecoverInstall, RecoverClear, InstallBlock, ClearHead
<1>7. CASE UNCHANGED vars
  BY <1>7, Zenon DEF vars
<1>8. QED
  BY <1>1, <1>2, <1>3, <1>4, <1>5, <1>6, <1>7, Zenon DEF Next, Call, Commit

\* Nobody is in a call while the log is emptied or filled by recovery.
LEMMA LogSame ==
    ASSUME LInv, [Next]_vars, Ops # {},
           \A p \in Proc, b \in Block, v \in Val : ~LogWrite(p, b, v), ~Crash
    PROVE  lh' = lh /\ boot' = boot
<1>1. PICK q \in Proc : pc[q] = "op"
  BY Zenon DEF Ops
<1>2. ~Recovering /\ \A p \in Proc : ~ClearLog(p)
  BY <1>1 DEF LInv, CallInv, CommitExcludesCalls, ClearLog
<1>3. ASSUME NEW p \in Proc, Call(p) PROVE lh' = lh /\ boot' = boot
  BY <1>3, Zenon DEF Call, SysCall, BeginOp, EndOp
<1>4. ASSUME NEW p \in Proc, Commit(p) PROVE lh' = lh /\ boot' = boot
  BY <1>2, <1>4, Zenon DEF Commit, WriteLog, WriteHead, InstallTrans, InstallBlock, CommitDone
<1>5. ASSUME NEW b \in Block, Evict(b) PROVE lh' = lh /\ boot' = boot
  BY <1>5, Zenon DEF Evict
<1>6. ~Recover
  BY <1>2, Zenon DEF Recover, RecoverRead, RecoverInstall, RecoverClear, Recovering
<1>7. QED
  BY <1>3, <1>4, <1>5, <1>6, Zenon DEF Next, vars

\* Only log_write() adds to what a call has written, and only its end or a
\* crash forgets it.
LEMMA WroteSame ==
    ASSUME LInv, [Next]_vars,
           \A p \in Proc, b \in Block, v \in Val : ~LogWrite(p, b, v),
           \A p \in Proc : ~EndOp(p), ~Crash
    PROVE  wrote' = wrote
<1>1. ASSUME NEW p \in Proc, Call(p) PROVE wrote' = wrote
  BY <1>1 DEF Call, SysCall, BeginOp
<1>2. ASSUME NEW p \in Proc, Commit(p) PROVE wrote' = wrote
  BY <1>2, Zenon DEF Commit, WriteLog, WriteHead, InstallTrans, InstallBlock, ClearLog, ClearHead,
              CommitDone
<1>3. CASE Recover
  BY <1>3, Zenon DEF Recover, RecoverRead, RecoverInstall, RecoverClear, InstallBlock, ClearHead
<1>4. ASSUME NEW b \in Block, Evict(b) PROVE wrote' = wrote
  BY <1>4 DEF Evict
<1>5. QED
  BY <1>1, <1>2, <1>3, <1>4, Zenon DEF Next, vars

\* How the calls in progress change.
LEMMA CallsChange ==
    ASSUME LInv, NEW p \in Proc
    PROVE  /\ BeginOp(p) => Ops' = Ops \/ (Ops' = Ops \cup {p} /\ p \notin Ops /\ ~MustWait)
           /\ EndOp(p) => Ops' = Ops \ {p} /\ p \in Ops
           /\ Crash => Ops' = {}
<1> USE DEF LInv, LogType, Ops
<1>1. BeginOp(p) => Ops' = Ops \/ (Ops' = Ops \cup {p} /\ p \notin Ops /\ ~MustWait)
  BY Zenon DEF BeginOp
<1>2. EndOp(p) => Ops' = Ops \ {p} /\ p \in Ops
  BY Zenon DEF EndOp, Awake
<1>3. QED
  BY <1>1, <1>2, Zenon DEF Crash

\* What log_write() does to the entries of the log.
LEMMA Logged ==
    ASSUME LogType, NEW p \in Proc, NEW b \in Block, NEW v \in Val, LogWrite(p, b, v), ~TooBig
    PROVE  /\ Entries(lh') = Entries(lh) \cup {b}
           /\ b \in Entries(lh) => lh' = lh
           /\ Len(lh') \in Nat /\ Len(lh') <= Len(lh) + 1
           /\ wrote' = [wrote EXCEPT ![p] = @ \cup {b}] /\ boot' = boot
<1>1. /\ wrote' = [wrote EXCEPT ![p] = @ \cup {b}] /\ boot' = boot
      /\ AddToLog(b)
  BY Zenon DEF LogWrite
<1>2. CASE b \in Entries(lh)
  BY <1>1, <1>2, Types DEF AddToLog
<1>3. CASE b \notin Entries(lh)
  <2>1. lh' = Append(lh, b) /\ lh \in Seq(Block)
    BY <1>1, <1>3, Zenon DEF AddToLog, LogType
  <2>2. Len(lh') = Len(lh) + 1 /\ Len(lh) \in Nat
    BY <2>1
  <2>3. Entries(lh') = Entries(lh) \cup {b}
    BY <2>1, Appended DEF Entries
  <2>4. QED
    BY <1>1, <1>3, <2>2, <2>3
<1>4. QED
  BY <1>2, <1>3, Zenon

\* Each step keeps what the calls have written in the log.
LEMMA WroteStep ==
    ASSUME Finite PROVE RInv /\ [Next]_vars => WroteInv'
<1>1. SUFFICES ASSUME RInv, [Next]_vars PROVE WroteInv'
  BY Zenon
<1>2. /\ LInv /\ LogType
      /\ wrote \in [Proc -> SUBSET Block]
      /\ \A p \in Proc : IsFiniteSet(wrote[p]) /\ Cardinality(wrote[p]) <= OpBlocks
      /\ \A p \in Proc : wrote[p] \subseteq IF p \in Ops THEN Entries(lh) ELSE {}
  BY <1>1, Zenon DEF RInv, LInv, WroteInv
<1> USE <1>2
<1>3. 0 <= OpBlocks /\ IsFiniteSet({}) /\ Cardinality({}) = 0
  BY LogAssumption DEF Finite, EmptyCount
<1>4. ASSUME NEW p \in Proc, NEW b \in Block, NEW v \in Val, LogWrite(p, b, v) PROVE WroteInv'
  <2>1. Ops' = Ops /\ p \in Ops
    <3>1. pc' = pc /\ pc[p] = "op"
      BY <1>4, Zenon DEF LogWrite
    <3>2. QED
      BY <3>1, Zenon DEF Ops
  <2>2. CASE TooBig
    <3>1. lh' = lh /\ wrote' = wrote
      BY <1>4, <2>2, Zenon DEF LogWrite
    <3>2. Entries(lh') = Entries(lh)
      BY <3>1, Zenon
    <3>3. QED
      BY <2>1, <3>1, <3>2, Zenon DEF WroteInv
  <2>3. CASE ~TooBig
    <3>1. Entries(lh') = Entries(lh) \cup {b} /\ wrote' = [wrote EXCEPT ![p] = @ \cup {b}]
      BY <1>4, <2>3, Logged
    <3>2. /\ IsFiniteSet(wrote[p] \cup {b})
          /\ Cardinality(wrote[p] \cup {b}) = IF b \in wrote[p] THEN Cardinality(wrote[p])
                                                               ELSE Cardinality(wrote[p]) + 1
      <4>1. CASE b \in wrote[p]
        <5>1. wrote[p] \cup {b} = wrote[p]
          BY <4>1, Zenon
        <5>2. QED
          BY <4>1, <5>1, Zenon
      <4>2. CASE b \notin wrote[p]
        BY <4>2, Zenon DEF Finite, AddCount
      <4>3. QED
        BY <4>1, <4>2, Zenon
    <3>3. b \in wrote[p] \/ Cardinality(wrote[p]) < OpBlocks
      BY <1>4, Zenon DEF LogWrite
    <3>4. Cardinality(wrote[p] \cup {b}) <= OpBlocks
      <4>1. Cardinality(wrote[p]) \in Nat
        BY Zenon DEF Finite, SubsetCount
      <4>2. QED
        BY <3>2, <3>3, <4>1, LogAssumption
    <3>5. wrote'[p] = wrote[p] \cup {b} /\ \A q \in Proc \ {p} : wrote'[q] = wrote[q]
      BY <3>1, Zenon
    <3>6. wrote' \in [Proc -> SUBSET Block]
      BY <3>1, Zenon
    <3>7. \A q \in Proc : wrote'[q] \subseteq IF q \in Ops' THEN Entries(lh') ELSE {}
      BY <2>1, <3>1, <3>5
    <3>8. \A q \in Proc : IsFiniteSet(wrote'[q]) /\ Cardinality(wrote'[q]) <= OpBlocks
      BY <3>2, <3>4, <3>5, Zenon
    <3>9. QED
      BY <3>6, <3>7, <3>8, Zenon DEF WroteInv
  <2>4. QED
    BY <2>2, <2>3, Zenon
<1>5. ASSUME NEW p \in Proc, EndOp(p) PROVE WroteInv'
  <2>1. Ops' = Ops \ {p} /\ wrote' = [wrote EXCEPT ![p] = {}] /\ lh' = lh
    BY <1>5, CallsChange, Zenon DEF EndOp
  <2>2. Entries(lh') = Entries(lh)
    BY <2>1, Zenon
  <2>3. QED
    BY <1>3, <2>1, <2>2, Zenon DEF WroteInv
<1>6. CASE Crash
  <2>1. wrote' = [p \in Proc |-> {}]
    BY <1>6, Zenon DEF Crash
  <2>2. QED
    BY <1>3, <2>1, Zenon DEF WroteInv
<1>7. CASE /\ \A p \in Proc, b \in Block, v \in Val : ~LogWrite(p, b, v)
           /\ \A p \in Proc : ~EndOp(p)
           /\ ~Crash
  <2>1. wrote' = wrote
    BY <1>1, <1>7, WroteSame, Zenon
  <2>2. Ops # {} => lh' = lh
    BY <1>1, <1>7, LogSame, Zenon
  <2>3. Ops \subseteq Ops'
    <3>1. CASE \E p \in Proc : BeginOp(p)
      BY <3>1, CallsChange, Zenon
    <3>2. CASE ~\E p \in Proc : BeginOp(p)
      BY <1>1, <1>7, <3>2, CallsSame, Zenon
    <3>3. QED
      BY <3>1, <3>2, Zenon
  <2>4. Ops # {} => Entries(lh') = Entries(lh)
    BY <2>2, Zenon
  <2>5. \A p \in Proc : wrote'[p] \subseteq IF p \in Ops' THEN Entries(lh') ELSE {}
    BY <2>1, <2>3, <2>4, Zenon
  <2>6. QED
    BY <2>1, <2>5, Zenon DEF WroteInv
<1>8. QED
  BY <1>4, <1>5, <1>6, <1>7, Zenon

\* Each step leaves room for what the calls in progress may still write.
LEMMA FitsStep ==
    ASSUME Finite, NEW k \in Nat, NEW room \in Nat, OpBlocks <= k, Enough(k, room)
    PROVE  LInv /\ WroteInv /\ Fits(k, room) /\ [Next]_vars => Fits(k, room)'
<1>1. SUFFICES ASSUME LInv, WroteInv, Fits(k, room), [Next]_vars PROVE Fits(k, room)'
  BY Zenon
<1>2. /\ LInv /\ LogType /\ WroteInv
      /\ ~Recovering => Len(lh) + Cardinality(Left(k)) <= room
      /\ Len(lh) \in Nat
  BY <1>1, Types, Zenon DEF LInv, Fits
<1>3. OpBlocks \in Nat /\ MAXOPBLOCKS \in Nat /\ LOGSIZE \in Nat /\ OpBlocks <= k
  BY LogAssumption
<1>4. /\ IsFiniteSet(Left(k)) /\ Cardinality(Left(k)) \in Nat
      /\ IsFiniteSet(Left(k)') /\ Cardinality(Left(k)') \in Nat
      /\ Cardinality(Left(k)') <= Cardinality(Ops') * k
  <2>1. Ops \in SUBSET Proc /\ Ops' \in SUBSET Proc
    BY Zenon DEF Ops
  <2>2. QED
    BY <2>1, LeftBound, Zenon DEF Left
<1>a. ASSUME boot' = "up", Len(lh') + Cardinality(Left(k)') <= room PROVE Fits(k, room)'
  BY <1>a DEF Fits
<1>b. boot = "up" => Len(lh) + Cardinality(Left(k)) <= room
  BY <1>2 DEF Recovering
<1>5. ASSUME NEW p \in Proc, NEW b \in Block, NEW v \in Val, LogWrite(p, b, v), TooBig
      PROVE  Fits(k, room)'
  <2>1. boot' = "panic" /\ UNCHANGED <<lh, wrote, pc>> /\ boot = "up"
    BY <1>5, Zenon DEF LogWrite
  <2>2. Left(k)' = Left(k)
    BY <2>1, Zenon DEF Left, Pairs, Ops
  <2>3. QED
    BY <1>b, <2>1, <2>2, Zenon DEF Fits
<1>c. ASSUME NEW p \in Proc, NEW b \in Block, NEW v \in Val, LogWrite(p, b, v), ~TooBig
      PROVE  Fits(k, room)'
  <2>1. boot = "up" /\ p \in Ops /\ Ops' = Ops
    BY <1>c, Zenon DEF LogWrite, Ops
  <2>3. /\ b \in Entries(lh) => lh' = lh
        /\ Len(lh') \in Nat /\ Len(lh') <= Len(lh) + 1
        /\ wrote' = [wrote EXCEPT ![p] = @ \cup {b}] /\ boot' = boot
    BY <1>2, <1>c, Logged, Zenon
  <2>4. CASE b \in wrote[p]
    <3>1. lh' = lh
      BY <1>2, <2>1, <2>3, <2>4, Zenon DEF WroteInv
    <3>2. wrote' = wrote
      BY <1>2, <2>3, <2>4, Zenon DEF WroteInv
    <3>3. Left(k)' = Left(k)
      BY <2>1, <3>2, Zenon DEF Left, Pairs
    <3>4. QED
      BY <1>a, <1>b, <2>1, <2>3, <3>1, <3>3, Zenon
  <2>5. CASE b \notin wrote[p]
    <3> DEFINE n == Cardinality(wrote[p])
    <3>1. n \in Nat /\ n < OpBlocks
      BY <1>2, <1>c, <2>5, Zenon DEF LogWrite, WroteInv, Finite, SubsetCount
    <3>2. Cardinality(wrote'[p]) = n + 1 /\ \A q \in Proc \ {p} : wrote'[q] = wrote[q]
      BY <1>2, <2>3, <2>5, Zenon DEF WroteInv, Finite, AddCount
    <3>3. <<p, n + 1>> \in Left(k)
      BY <1>3, <2>1, <3>1 DEF Left, Pairs
    <3>4. Left(k)' \subseteq Left(k) \ {<<p, n + 1>>}
      <4>1. ASSUME NEW x \in Left(k)' PROVE x \in Left(k) /\ x # <<p, n + 1>>
        <5>1. PICK q \in Ops, i \in 1 .. k : x = <<q, i>>
          BY <2>1, <4>1 DEF Left, Pairs
        <5>2. i > Cardinality(wrote'[q])
          BY <4>1, <5>1, Zenon DEF Left, Pairs
        <5>3. i > Cardinality(wrote[q]) /\ (q = p => i > n + 1)
          <6>1. CASE q = p
            BY <1>3, <3>1, <3>2, <5>2, <6>1, SMTT(60)
          <6>2. CASE q # p
            BY <3>2, <5>2, <6>2, Zenon DEF Ops
          <6>3. QED
            BY <6>1, <6>2, Zenon
        <5>4. QED
          BY <3>1, <5>1, <5>3, SMTT(60) DEF Left, Pairs
      <4>2. QED
        BY <4>1, Zenon
    <3>5. Cardinality(Left(k)') <= Cardinality(Left(k)) - 1
      <4>1. /\ IsFiniteSet(Left(k) \ {<<p, n + 1>>})
            /\ Cardinality(Left(k) \ {<<p, n + 1>>}) = Cardinality(Left(k)) - 1
        BY <1>4, <3>3, Zenon DEF Finite, RemoveCount
      <4>2. Cardinality(Left(k)') <= Cardinality(Left(k) \ {<<p, n + 1>>})
        BY <3>4, <4>1, Zenon DEF Finite, SubsetCount
      <4>3. QED
        BY <4>1, <4>2, Zenon
    <3>6. Len(lh') + Cardinality(Left(k)') <= room
      BY <1>2, <1>3, <1>4, <1>b, <2>1, <2>3, <3>5
    <3>7. QED
      BY <1>a, <2>1, <2>3, <3>6, Zenon
  <2>6. QED
    BY <2>4, <2>5, Zenon
<1>6. ASSUME NEW p \in Proc, EndOp(p) PROVE Fits(k, room)'
  <2>1. /\ boot = "up" /\ boot' = boot /\ lh' = lh
        /\ Ops' = Ops \ {p} /\ wrote' = [wrote EXCEPT ![p] = {}]
    BY <1>2, <1>6, CallsChange, Zenon DEF EndOp
  <2>2. Left(k)' \subseteq Left(k)
    BY <1>2, <2>1, Zenon DEF Left, Pairs, WroteInv, Ops
  <2>3. Cardinality(Left(k)') <= Cardinality(Left(k))
    BY <1>4, <2>2, Zenon DEF Finite, SubsetCount
  <2>4. Len(lh') + Cardinality(Left(k)') <= room
    BY <1>2, <1>3, <1>4, <1>b, <2>1, <2>3
  <2>5. QED
    BY <1>a, <2>1, <2>4, Zenon
<1>7. ASSUME NEW p \in Proc, BeginOp(p), Ops' # Ops PROVE Fits(k, room)'
  <2>1. /\ boot = "up" /\ boot' = boot /\ lh' = lh
        /\ Ops' = Ops \cup {p} /\ p \notin Ops /\ ~MustWait
    BY <1>2, <1>7, CallsChange, Zenon DEF BeginOp
  <2>2. outstanding \in Nat /\ Cardinality(Ops') = outstanding + 1
    BY <1>2, <2>1, CallsCount, Zenon DEF LInv, LogType
  <2>3. Len(lh) + (outstanding + 1) * MAXOPBLOCKS <= LOGSIZE
    BY <1>2, <1>3, <2>1, <2>2 DEF MustWait, NoSpace
  <2>4. outstanding = 0 => Len(lh) = 0
    <3>1. SUFFICES ASSUME outstanding = 0 PROVE lh = << >>
      OBVIOUS
    <3>2. ~At("op")
      BY <1>2, <3>1, CallsCount, Zenon DEF LInv, CallInv, Finite, SubsetCount, At, Ops
    <3>3. ~At("write_log") /\ ~Installing
      BY <1>2, <2>1, Zenon DEF At, Installing, MustWait, LInv, CallInv, CommitExcludesCalls
    <3>4. QED
      BY <1>2, <3>2, <3>3, Zenon DEF LInv, ShapeInv
  <2>5. /\ Len(lh) + (outstanding + 1) * k <= room
        /\ Cardinality(Left(k)') <= (outstanding + 1) * k
    BY <1>2, <1>4, <2>2, <2>3, <2>4, Zenon DEF Enough
  <2>6. Len(lh') + Cardinality(Left(k)') <= room
    <3> DEFINE r == (outstanding + 1) * k
    <3>1. r \in Nat
      BY <2>2
    <3>2. Len(lh) + r <= room /\ Cardinality(Left(k)') <= r
      BY <2>5, Zenon
    <3> HIDE DEF r
    <3>3. QED
      BY <1>2, <1>4, <2>1, <3>1, <3>2
  <2>7. QED
    BY <1>a, <2>1, <2>6, Zenon
<1>8. CASE Crash
  <2>1. boot' = "read_head"
    BY <1>8, Zenon DEF Crash
  <2>2. QED
    BY <2>1 DEF Fits, Recovering
<1>9. CASE RecoverClear
  <2>1. boot' = "up" /\ lh' = << >> /\ Ops' = {}
    BY <1>2, <1>9, Zenon DEF RecoverClear, ClearHead, LInv, CallInv, Recovering, Ops
  <2>2. Left(k)' = {}
    BY <2>1, Zenon DEF Left, Pairs
  <2>3. Len(lh') + Cardinality(Left(k)') <= room
    BY <1>3, <2>1, <2>2 DEF Finite, EmptyCount
  <2>4. QED
    BY <1>a, <2>1, <2>3, Zenon
<1>10. CASE /\ \A p \in Proc, b \in Block, v \in Val : ~LogWrite(p, b, v)
            /\ \A p \in Proc : ~EndOp(p)
            /\ ~Crash /\ ~RecoverClear /\ Ops' = Ops
  <2>1. Left(k)' = Left(k)
    <3>1. wrote' = wrote
      BY <1>1, <1>2, <1>10, WroteSame, Zenon
    <3>2. QED
      BY <1>10, <3>1, Zenon DEF Left, Pairs
  <2>2. \/ boot' = boot /\ lh' = lh
        \/ boot' = "up" /\ boot = "up" /\ lh' = << >>
        \/ boot' = "install_trans"
    <3>1. ASSUME NEW p \in Proc, Call(p) \/ Commit(p)
          PROVE  boot = "up" /\ boot' = boot /\ (lh' = lh \/ lh' = << >>)
      BY <1>10, <3>1, Zenon DEF Call, SysCall, BeginOp, Commit, WriteLog, WriteHead, InstallTrans,
                       InstallBlock, ClearLog, ClearHead, CommitDone
    <3>2. ASSUME NEW b \in Block, Evict(b) PROVE boot' = boot /\ lh' = lh
      BY <3>2, Zenon DEF Evict
    <3>3. ASSUME Recover PROVE boot' = "install_trans"
      BY <1>10, <3>3, Zenon DEF Recover, RecoverRead, RecoverInstall, InstallBlock
    <3>4. QED
      BY <1>1, <1>10, <3>1, <3>2, <3>3, Zenon DEF Next, vars
  <2>3. CASE boot' = boot /\ lh' = lh
    BY <1>1, <2>1, <2>3, Zenon DEF Fits, Recovering
  <2>4. CASE boot' = "up" /\ boot = "up" /\ lh' = << >>
    <3>1. Len(lh') + Cardinality(Left(k)') <= room
      BY <1>2, <1>3, <1>4, <1>b, <2>1, <2>4
    <3>2. QED
      BY <1>a, <2>4, <3>1, Zenon
  <2>5. CASE boot' = "install_trans"
    BY <2>5 DEF Fits, Recovering
  <2>6. QED
    BY <2>2, <2>3, <2>4, <2>5, Zenon
<1>11. CASE \E p \in Proc : BeginOp(p)
  <2>1. ASSUME Ops' = Ops PROVE Fits(k, room)'
    <3>1. boot = "up" /\ boot' = boot /\ lh' = lh /\ wrote' = wrote
      BY <1>11, Zenon DEF BeginOp
    <3>2. Left(k)' = Left(k)
      BY <2>1, <3>1, Zenon DEF Left, Pairs
    <3>3. QED
      BY <1>a, <1>b, <3>1, <3>2, Zenon
  <2>2. QED
    BY <1>7, <1>11, <2>1, Zenon
<1>12. QED
  BY <1>1, <1>2, <1>5, <1>c, <1>6, <1>8, <1>9, <1>10, <1>11, CallsSame, Zenon

\* log_write() panics when the log is full, and the log stays as it is.
LEMMA PanicStep ==
    ASSUME [Next]_vars, boot' = "panic"
    PROVE  lh' = lh /\ (boot = "panic" \/ (boot = "up" /\ TooBig))
<1>1. ASSUME NEW p \in Proc, NEW b \in Block, NEW v \in Val, LogWrite(p, b, v)
      PROVE  boot = "up" /\ TooBig /\ lh' = lh
  BY <1>1 DEF LogWrite
<1>2. ASSUME \A p \in Proc, b \in Block, v \in Val : ~LogWrite(p, b, v)
      PROVE  boot = "panic" /\ lh' = lh
  <2>1. ASSUME NEW p \in Proc, Call(p) \/ Commit(p) PROVE FALSE
    BY <1>2, <2>1 DEF Call, SysCall, BeginOp, EndOp, Commit, WriteLog, WriteHead, InstallTrans,
                      InstallBlock, ClearLog, ClearHead, CommitDone
  <2>2. ASSUME Recover \/ Crash PROVE FALSE
    BY <2>2 DEF Recover, RecoverRead, RecoverInstall, RecoverClear, InstallBlock, Crash
  <2>3. ASSUME NEW b \in Block, Evict(b) PROVE boot' = boot /\ lh' = lh
    BY <2>3, Zenon DEF Evict
  <2>4. QED
    BY <2>1, <2>2, <2>3, Zenon DEF Next, vars
<1>3. QED
  BY <1>1, <1>2, Zenon

\* The reservations of the calls in progress fit into LOGSIZE blocks.
LEMMA SpaceStep ==
    ASSUME Finite PROVE RInv /\ [Next]_vars => SpaceInv'
<1>1. MAXOPBLOCKS \in Nat /\ LOGSIZE \in Nat /\ OpBlocks <= MAXOPBLOCKS
  BY LogAssumption
<1>2. Enough(MAXOPBLOCKS, LOGSIZE)
  BY Zenon DEF Enough
<1>3. QED
  BY <1>1, <1>2, FitsStep, PanicStep, Zenon DEF RInv, SpaceInv, TooBig

\* Nothing is written at first.
LEMMA InitSpace == ASSUME Finite PROVE Init => WroteInv /\ SpaceInv
<1>1. IsFiniteSet({}) /\ Cardinality({}) = 0 /\ 0 <= OpBlocks
  BY LogAssumption DEF Finite, EmptyCount
<1>2. Init => Recovering /\ boot # "panic"
  BY DEF Init, Recovering
<1>3. QED
  BY <1>1, <1>2, Zenon DEF Init, WroteInv, SpaceInv, Fits

-----------------------------------------------------------------------------
(* From the library *)

F == INSTANCE FiniteSetTheorems

\* The library counts as the modules do.
LEMMA SameCount ==
    /\ \A S : F!IsFiniteSet(S) <=> IsFiniteSet(S)
    /\ \A S : F!Cardinality(S) = Cardinality(S)
<1>1. ASSUME NEW S PROVE F!IsFiniteSet(S) <=> IsFiniteSet(S)
  BY Zenon DEF IsFiniteSet, F!IsFiniteSet
<1>2. ASSUME NEW S PROVE F!Cardinality(S) = Cardinality(S)
  BY Zenon DEF Cardinality, F!Cardinality
<1> QED
  BY <1>1, <1>2, Zenon

\* What the proofs above use of finite sets.
LEMMA FiniteHolds == Finite
<1>1. EmptyCount
  BY F!FS_EmptySet, SameCount, Zenon DEF EmptyCount
<1>2. SubsetCount
  BY F!FS_EmptySet, F!FS_CardinalityType, F!FS_Subset, SameCount, Zenon DEF SubsetCount
<1>3. AddCount
  BY F!FS_AddElement, SameCount, Zenon DEF AddCount
<1>4. RemoveCount
  BY F!FS_RemoveElement, SameCount, Zenon DEF RemoveCount
<1>5. RangeCount
  BY F!FS_Interval, SameCount DEF RangeCount
<1>6. PairCount
  BY F!FS_Product, SameCount, Zenon DEF PairCount
<1> QED
  BY <1>1, <1>2, <1>3, <1>4, <1>5, <1>6, ZenonT(60) DEF Finite

\* The invariant behind the theorems about the log.
LEMMA Inductive == Spec => []LInv
<1>1. LInv /\ [Next]_vars => LInv'
  BY TypeStep, CallStep, ShapeStep, DataStep, PinStep, FiniteHolds, Zenon DEF LInv
<1>2. Init => LInv
  BY InitInv, FiniteHolds, Zenon
<1> QED
  BY <1>1, <1>2, PTL DEF Spec

\* commit() runs alone: whoever is in it, nobody else is in a file system call
\* (begin_op(), end_op()).
THEOREM CommitAlone == Spec => []CommitExcludesCalls
<1>1. LInv => CommitExcludesCalls
  BY Zenon DEF LInv, CallInv
<1> QED
  BY <1>1, Inductive, PTL

\* Changes stay in the cache, pinned once, until install_trans() has copied them
\* home, and nothing is left of a transaction once nobody is in a call.
THEOREM Kept == Spec => []ChangesKept
<1>1. LInv => ChangesKept
  BY Quiescent, Zenon DEF ChangesKept, LInv
<1> QED
  BY <1>1, Inductive, PTL

\* The disk changes for good, all at once, when write_head() writes the header
\* of the log (commit()), and not when a crash interrupts write_log(),
\* install_trans() or recovery, however often: Log implements AtomicDisk.
THEOREM CrashAtomic == Spec => AtomicSpec
<1>1. Init => Atomic!Init
  BY DEF Atomic!Init, Init, Recovered, Entries, Ops
<1> QED
  BY <1>1, AtomicStep, Inductive, PTL
  DEF Spec, AtomicSpec, Atomic!Spec, absVars, Mem, View, Durable, Ops

\* The invariant behind the theorems about the room in the log.
LEMMA InductiveSpace == Spec => []RInv
<1>1. Init => WroteInv /\ SpaceInv
  BY InitSpace, FiniteHolds, Zenon
<1>2. RInv /\ LInv' /\ [Next]_vars => RInv'
  BY WroteStep, SpaceStep, FiniteHolds, Zenon DEF RInv
<1>3. Init => LInv
  BY InitInv, FiniteHolds, Zenon
<1> QED
  BY <1>1, <1>2, <1>3, Inductive, PTL DEF Spec, RInv

\* "too big a transaction" comes only to calls that have used up what begin_op()
\* reserved for them, but for the blocks that the disk lacks (log_write()): for
\* any number of calls and any use they make of their reservations.
THEOREM ReservationHolds == Spec => []ReservationSuffices
<1>1. ASSUME RInv, boot = "panic" PROVE Cardinality(Unused) <= Missing
  <2>1. Unused = Left(MAXOPBLOCKS)
    BY Zenon DEF Unused, Left, Pairs
  <2>2. Len(lh) + Cardinality(Unused) <= LOGSIZE /\ TooBig
    BY <1>1, <2>1 DEF RInv, SpaceInv, Fits, Recovering
  <2>3. Len(lh) \in Nat /\ Cardinality(Unused) \in Nat
    <3>1. Ops \in SUBSET Proc /\ MAXOPBLOCKS \in Nat
      BY LogAssumption, Zenon DEF Ops
    <3>2. QED
      BY <1>1, <2>1, <3>1, Types, LeftBound, FiniteHolds, Zenon DEF Left, RInv, LInv
  <2>4. QED
    BY <2>2, <2>3, LogAssumption DEF TooBig, Missing
<1>2. RInv => ReservationSuffices
  BY <1>1, Zenon DEF ReservationSuffices
<1> QED
  BY <1>2, InductiveSpace, PTL

\* The calls leave a block of their reservation unused, two of them fit into the
\* log, and the disk has room for all of it.
RoomToSpare ==
    OpBlocks < MAXOPBLOCKS /\ 2 * MAXOPBLOCKS <= LOGSIZE /\ LOGSIZE <= nlog

\* Where each call leaves one block of its reservation unused, log_write() never
\* finds the log full, although the log has a block less than begin_op() counts
\* on and the panic does not ask whether the block is in the log already.
THEOREM RoomForAll ==
    ASSUME RoomToSpare
    PROVE  Spec => [](boot # "panic")
<1> DEFINE Inv == Fits(OpBlocks, LOGSIZE - 2) /\ boot # "panic"
<1>1. /\ OpBlocks \in Nat /\ MAXOPBLOCKS \in Nat /\ LOGSIZE \in Nat /\ nlog \in Nat
      /\ OpBlocks < MAXOPBLOCKS /\ 2 * MAXOPBLOCKS <= LOGSIZE /\ LOGSIZE <= nlog
  BY LogAssumption DEF RoomToSpare
<1>2. Enough(OpBlocks, LOGSIZE - 2)
  <2>1. SUFFICES ASSUME NEW n \in Nat, NEW l \in Nat,
                        l + (n + 1) * MAXOPBLOCKS <= LOGSIZE, n = 0 => l = 0
                 PROVE  l + (n + 1) * OpBlocks <= LOGSIZE - 2
    BY Zenon DEF Enough
  <2>2. CASE n = 0
    BY <1>1, <2>1, <2>2
  <2>3. CASE n # 0
    <3>1. (n + 1) * MAXOPBLOCKS = (n + 1) * OpBlocks + (n + 1) * (MAXOPBLOCKS - OpBlocks)
      BY <1>1
    <3>2. (n + 1) * (MAXOPBLOCKS - OpBlocks) >= 2
      BY <1>1, <2>3
    <3>3. QED
      BY <1>1, <2>1, <3>1, <3>2
  <2>4. QED
    BY <2>2, <2>3
<1>3. Init => Inv
  BY DEF Init, Fits, Recovering
<1>4. ASSUME RInv, Inv, [Next]_vars PROVE Inv'
  <2>1. LOGSIZE - 2 \in Nat /\ OpBlocks <= OpBlocks
    BY <1>1
  <2>2. Fits(OpBlocks, LOGSIZE - 2)'
    BY <1>1, <1>2, <1>4, <2>1, FitsStep, FiniteHolds, Zenon DEF RInv
  <2>3. boot = "up" => ~TooBig
    <3>1. SUFFICES ASSUME boot = "up" PROVE ~TooBig
      BY Zenon
    <3>2. Len(lh) + Cardinality(Left(OpBlocks)) <= LOGSIZE - 2
      BY <1>4, <3>1 DEF Fits, Recovering
    <3>3. Len(lh) \in Nat /\ Cardinality(Left(OpBlocks)) \in Nat
      <4>1. Ops \in SUBSET Proc
        BY Zenon DEF Ops
      <4>2. QED
        BY <1>1, <1>4, <4>1, Types, LeftBound, FiniteHolds, Zenon DEF Left, RInv, LInv
    <3>4. QED
      BY <1>1, <3>2, <3>3 DEF TooBig
  <2>4. boot' # "panic"
    BY <1>4, <2>3, PanicStep, Zenon
  <2>5. QED
    BY <2>2, <2>4, Zenon
<1>5. RInv /\ Inv /\ [Next]_vars => Inv'
  BY <1>4, Zenon
<1>6. Inv => boot # "panic"
  BY Zenon
<1> HIDE DEF Inv
<1> QED
  BY <1>3, <1>5, <1>6, InductiveSpace, PTL DEF Spec
=============================================================================
