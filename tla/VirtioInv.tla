----------------------------- MODULE VirtioInv ------------------------------
(***************************************************************************)
(* Proofs about VirtioDisk: for any number of processes and descriptors,   *)
(* and whatever the order in which the device completes requests, the      *)
(* descriptors and the two rings are consistent and nobody waits for the   *)
(* disk in vain.                                                           *)
(***************************************************************************)
EXTENDS VirtioDisk, Counting, TLAPS

Index == 0 .. IDX - 1

\* The n entries of ring r from index y on.
Ahead(x, y) == (x - y) % IDX
At(r, y, i) == r[(y + i) % NUM]
Entries(r, y, n) == {At(r, y, i) : i \in 0 .. n - 1}
Set(r, x, h) == [r EXCEPT ![x % NUM] = h]
Distinct(r, y, n) == \A i, j \in 0 .. n - 1 : At(r, y, i) = At(r, y, j) => i = j

Offered == Entries(avail, seen, Ahead(aidx, seen))
Returned == Entries(used, used_idx, Ahead(uidx, used_idx))

VirtioType ==
    /\ free \in [Desc -> BOOLEAN]
    /\ desc \in [Desc -> [addr : Proc \cup Desc \cup {NIL}, next : Desc]]
    /\ ops \in [Desc -> [write : BOOLEAN, sector : Proc \cup {NIL}]]
    /\ info \in [Desc -> [b : Proc \cup {NIL}, status : {"0", "0xff"}]]
    /\ avail \in [Desc -> Desc] /\ used \in [Desc -> Desc]
    /\ aidx \in Index /\ uidx \in Index /\ used_idx \in Index /\ seen \in Index
    /\ pc \in [Proc -> {"idle", "alloc", "alloc_sleep", "sleep", "woken"}]
    /\ write \in [Proc -> BOOLEAN]
    /\ idx \in [Proc -> [0 .. 2 -> Desc]]
    /\ onDisk \in [Proc -> BOOLEAN]
    /\ data \in [Proc -> Val] /\ block \in [Proc -> Val]
    /\ busy \subseteq Desc

\* The descriptors of a request, and what hangs on them.
Linked(p) ==
    LET f == idx[p] IN
    /\ f[0] # f[1] /\ f[0] # f[2] /\ f[1] # f[2]
    /\ \A i \in 0 .. 2 : ~free[f[i]]
    /\ desc[f[0]].next = f[1] /\ desc[f[1]].next = f[2]
    /\ desc[f[1]].addr = p /\ desc[f[2]].addr = f[0]
    /\ info[f[0]].b = p
    /\ ops[f[0]] = [write |-> write[p], sector |-> p]

\* Every descriptor is free or belongs to one request.
Owned ==
    /\ \A p \in Active : Linked(p)
    /\ \A p, q \in Active, i, j \in 0 .. 2 : idx[p][i] = idx[q][j] => p = q
    /\ \A i \in Desc : free[i] \/ \E p \in Active, j \in 0 .. 2 : i = idx[p][j]

\* A request is in one place: offered to the device, being worked on or
\* returned.  It is done only when its data has been moved.
Placed ==
    /\ Distinct(avail, seen, Ahead(aidx, seen))
    /\ Distinct(used, used_idx, Ahead(uidx, used_idx))
    /\ Offered \cap busy = {} /\ Offered \cap Returned = {} /\ busy \cap Returned = {}
    /\ \A h \in Offered \cup busy \cup Returned :
           \E p \in Active : onDisk[p] /\ idx[p][0] = h
    /\ \A h \in Returned : info[h].status = "0"
    /\ \A p \in Active : ~onDisk[p] \/ idx[p][0] \in Returned => data[p] = block[p]

VInv == VirtioType /\ Owned /\ Placed

-----------------------------------------------------------------------------
(* What the steps use of the rings and of counting; it is proved further down *)

Finite ==
    /\ EmptyCount /\ SubsetCount /\ AddCount /\ RemoveCount /\ UnionCount
    /\ RangeCount /\ ImageCount /\ LeastOne

\* Counting the descriptors in a set.
CountsDesc ==
    \A S \in SUBSET Desc :
        /\ IsFiniteSet(S) /\ Cardinality(S) \in Nat
        /\ \A T \in SUBSET S : Cardinality(T) <= Cardinality(S)

\* A ring that two descriptors are not in takes one of them behind its entries.
PutKeeps ==
    \A r \in [Desc -> Desc], x, y \in Index, h, k \in Desc :
        /\ Distinct(r, y, Ahead(x, y)) /\ h # k
        /\ h \notin Entries(r, y, Ahead(x, y)) /\ k \notin Entries(r, y, Ahead(x, y))
        => /\ Set(r, x, h) \in [Desc -> Desc]
           /\ Distinct(Set(r, x, h), y, Ahead(Plus1(x), y))
           /\ Entries(Set(r, x, h), y, Ahead(Plus1(x), y)) = Entries(r, y, Ahead(x, y)) \cup {h}

\* The entry at the reader's index is taken, and reset.
TakeKeeps ==
    \A r \in [Desc -> Desc], x, y \in Index :
        x # y /\ Distinct(r, y, Ahead(x, y))
        => /\ Set(r, y, 0) \in [Desc -> Desc]
           /\ r[y % NUM] \in Entries(r, y, Ahead(x, y))
           /\ Distinct(Set(r, y, 0), Plus1(y), Ahead(x, Plus1(y)))
           /\ Entries(Set(r, y, 0), Plus1(y), Ahead(x, Plus1(y)))
                 = Entries(r, y, Ahead(x, y)) \ {r[y % NUM]}

RingFacts ==
    /\ 0 \in Desc /\ 0 \in Index /\ Ahead(0, 0) = 0
    /\ \A x \in Index : Plus1(x) \in Index
    /\ PutKeeps /\ TakeKeeps

\* alloc3_desc() takes three free descriptors.
TakesThree ==
    Cardinality(FreeDescs) >= 3 =>
        /\ First3 \in [0 .. 2 -> Desc]
        /\ First3[0] # First3[1] /\ First3[0] # First3[2] /\ First3[1] # First3[2]
        /\ free[First3[0]] /\ free[First3[1]] /\ free[First3[2]]

-----------------------------------------------------------------------------
(* The steps *)

\* Nothing happens to a descriptor and what hangs on it.
Same(d) ==
    desc'[d] = desc[d] /\ info'[d].b = info[d].b /\ ops'[d] = ops[d] /\ free'[d] = free[d]

\* Putting an entry in a ring.
LEMMA PutIs ==
    ASSUME RingFacts, NEW r \in [Desc -> Desc], NEW x \in Index, NEW y \in Index,
           NEW h \in Desc, NEW k \in Desc, h # k, Distinct(r, y, Ahead(x, y)),
           h \notin Entries(r, y, Ahead(x, y)), k \notin Entries(r, y, Ahead(x, y))
    PROVE  /\ Set(r, x, h) \in [Desc -> Desc]
           /\ Distinct(Set(r, x, h), y, Ahead(Plus1(x), y))
           /\ Entries(Set(r, x, h), y, Ahead(Plus1(x), y)) = Entries(r, y, Ahead(x, y)) \cup {h}
  BY DEF RingFacts, PutKeeps

\* The three descriptors of a request.
LEMMA Indices == \A i : i \in 0 .. 2 <=> i = 0 \/ i = 1 \/ i = 2
  OBVIOUS

\* A request stays linked while nothing happens to its descriptors.
LEMMA LinkedKept ==
    ASSUME NEW q \in Proc, Linked(q), \A i \in 0 .. 2 : Same(idx[q][i]),
           idx'[q] = idx[q], write'[q] = write[q]
    PROVE  Linked(q)'
<1> DEFINE g == idx[q]
<1>1. /\ Same(g[0]) /\ Same(g[1]) /\ Same(g[2])
      /\ idx'[q] = g /\ write'[q] = write[q]
  BY Indices, Zenon
<1>2. /\ g[0] # g[1] /\ g[0] # g[2] /\ g[1] # g[2]
      /\ desc[g[0]].next = g[1] /\ desc[g[1]].next = g[2]
      /\ desc[g[1]].addr = q /\ desc[g[2]].addr = g[0]
      /\ info[g[0]].b = q
      /\ ops[g[0]] = [write |-> write[q], sector |-> q]
      /\ \A i \in 0 .. 2 : ~free[g[i]]
  BY Zenon DEF Linked
<1>3. \A i \in 0 .. 2 : ~free'[g[i]]
  BY <1>2, Zenon DEF Same
<1> HIDE DEF g
<1> QED
  BY <1>1, <1>2, <1>3, SMTT(60) DEF Linked, Same

\* A step that leaves the requests and their descriptors alone.
LEMMA OwnedKept ==
    ASSUME Owned, Active' = Active, UNCHANGED <<free, desc, ops, info, idx>>,
           \A p \in Active : write'[p] = write[p]
    PROVE  Owned'
<1>1. ASSUME NEW p \in Active PROVE Linked(p)'
  <2>1. p \in Proc /\ Linked(p)
    BY Zenon DEF Active, Owned
  <2>2. \A i \in 0 .. 2 : Same(idx[p][i])
    BY DEF Same
  <2> QED
    BY <2>1, <2>2, LinkedKept
<1>2. \A p, q \in Active, i, j \in 0 .. 2 : idx'[p][i] = idx'[q][j] => p = q
  BY DEF Owned
<1>3. \A i \in Desc : free'[i] \/ \E p \in Active, j \in 0 .. 2 : i = idx'[p][j]
  BY DEF Owned
<1> QED
  BY <1>1, <1>2, <1>3, Zenon DEF Owned

\* A step that touches neither the rings nor the requests.
LEMMA Quiet ==
    ASSUME VInv, Active' = Active,
           UNCHANGED <<free, desc, ops, info, rings, used_idx, idx, onDisk, seen, busy, block>>,
           pc' \in [Proc -> {"idle", "alloc", "alloc_sleep", "sleep", "woken"}],
           write' \in [Proc -> BOOLEAN], data' \in [Proc -> Val],
           \A p \in Active : write'[p] = write[p] /\ data'[p] = data[p]
    PROVE  VInv'
<1>1. VirtioType /\ Owned /\ Placed
  BY DEF VInv
<1> USE <1>1
<1>2. VirtioType'
  BY Zenon DEF VirtioType, rings
<1>3. Owned'
  BY OwnedKept, Zenon
<1>4. Offered' = Offered /\ Returned' = Returned
  BY DEF Offered, Returned, rings
<1>5. Placed'
  BY <1>4, ZenonT(60) DEF Placed, rings
<1> QED
  BY <1>2, <1>3, <1>5, Zenon DEF VInv

\* Calling virtio_disk_rw(), waiting for descriptors, sleeping on and kill().
LEMMA QuietSteps ==
    ASSUME VInv, NEW p \in Proc,
           \/ AllocFail(p) \/ SleepAgain(p) \/ Kill(p)
           \/ \E w \in BOOLEAN, v \in Val : Call(p, w, v)
    PROVE  VInv'
<1> USE DEF VInv, VirtioType
<1>1. CASE AllocFail(p)
  <2>1. Active' = Active /\ pc' \in [Proc -> {"idle", "alloc", "alloc_sleep", "sleep", "woken"}]
    BY <1>1, Zenon DEF AllocFail, WakeAlloc, Active
  <2> QED
    BY <1>1, <2>1, Quiet, Zenon DEF AllocFail, device
<1>2. CASE SleepAgain(p)
  <2>1. Active' = Active /\ pc' \in [Proc -> {"idle", "alloc", "alloc_sleep", "sleep", "woken"}]
    BY <1>2, Zenon DEF SleepAgain, Goto, Active
  <2> QED
    BY <1>2, <2>1, Quiet, Zenon DEF SleepAgain, device
<1>3. CASE Kill(p)
  <2>1. Active' = Active /\ pc' \in [Proc -> {"idle", "alloc", "alloc_sleep", "sleep", "woken"}]
    BY <1>3, ZenonT(60) DEF Kill, Goto, Active
  <2> QED
    BY <1>3, <2>1, Quiet, Zenon DEF Kill, device
<1>4. ASSUME NEW w \in BOOLEAN, NEW v \in Val, Call(p, w, v) PROVE VInv'
  <2>1. /\ Active' = Active /\ p \notin Active
        /\ pc' \in [Proc -> {"idle", "alloc", "alloc_sleep", "sleep", "woken"}]
    BY <1>4, Zenon DEF Call, Goto, Active
  <2>2. /\ write' \in [Proc -> BOOLEAN] /\ data' \in [Proc -> Val]
        /\ \A q \in Active : write'[q] = write[q] /\ data'[q] = data[q]
    BY <1>4, <2>1, SMTT(60) DEF Call, Active
  <2> QED
    BY <1>4, <2>1, <2>2, Quiet, Zenon DEF Call, device
<1> QED
  BY <1>1, <1>2, <1>3, <1>4, Zenon

\* The device raises its interrupt, the handler begins or ends.
LEMMA IdleSteps ==
    ASSUME VInv, DevInterrupt \/ IntrStart \/ IntrEnd \/ UNCHANGED vars
    PROVE  VInv'
<1>1. /\ pc' = pc /\ write' = write /\ data' = data
      /\ UNCHANGED <<free, desc, ops, info, rings, used_idx, idx, onDisk, seen, busy, block>>
  BY DEF DevInterrupt, IntrStart, IntrEnd, vars, device
<1>2. Active' = Active
  BY <1>1 DEF Active
<1> QED
  BY <1>1, <1>2, Quiet, Zenon DEF VInv, VirtioType

\* disk; their first descriptors are not free.
LEMMA AtDevice ==
    ASSUME VInv, NEW h \in Offered \cup busy \cup Returned
    PROVE  \E p \in Active : onDisk[p] /\ idx[p][0] = h /\ h \in Desc /\ ~free[h] /\ Linked(p)
<1>1. PICK p \in Active : onDisk[p] /\ idx[p][0] = h
  BY Zenon DEF VInv, Placed
<1>2. Linked(p) /\ p \in Proc /\ 0 \in 0 .. 2
  BY SMTT(60) DEF VInv, Owned, Active
<1>3. h \in Desc /\ ~free[h]
  BY <1>1, <1>2, SMTT(60) DEF VInv, VirtioType, Linked
<1> QED
  BY <1>1, <1>2, <1>3, Zenon

\* the device: they were nobody's, and the avail ring has room.
LEMMA SubmitStep ==
    ASSUME RingFacts, TakesThree, VInv, NEW p \in Proc, Submit(p)
    PROVE  VInv'
<1> DEFINE f == First3
<1>1. VirtioType /\ Owned /\ Placed
  BY DEF VInv
<1>2. /\ f \in [0 .. 2 -> Desc]
      /\ f[0] # f[1] /\ f[0] # f[2] /\ f[1] # f[2]
      /\ free[f[0]] /\ free[f[1]] /\ free[f[2]]
  BY Zenon DEF TakesThree, Submit
<1>3. /\ pc[p] = "alloc" /\ pc' = [pc EXCEPT ![p] = "sleep"]
      /\ free' = [i \in Desc |-> free[i] /\ i \notin {f[0], f[1], f[2]}]
      /\ ops' = [ops EXCEPT ![f[0]] = [write |-> write[p], sector |-> p]]
      /\ desc' = [desc EXCEPT ![f[0]] = [addr |-> f[0], next |-> f[1]],
                              ![f[1]] = [addr |-> p, next |-> f[2]],
                              ![f[2]] = [addr |-> f[0], next |-> 0]]
      /\ info' = [info EXCEPT ![f[0]] = [b |-> p, status |-> "0xff"]]
      /\ onDisk' = [onDisk EXCEPT ![p] = TRUE]
      /\ avail' = [avail EXCEPT ![aidx % NUM] = f[0]]
      /\ aidx' = Plus1(aidx)
      /\ idx' = [idx EXCEPT ![p] = f]
      /\ UNCHANGED <<used, uidx, used_idx, write, data, seen, busy, block>>
  BY Zenon DEF Submit, Goto, Chain, AvailSlot, device
<1> HIDE DEF f
<1>4. f[0] \in Desc /\ f[1] \in Desc /\ f[2] \in Desc /\ 0 \in Desc
  BY <1>2, Indices, Zenon DEF RingFacts
<1>5. Active' = Active \cup {p} /\ p \notin Active
  BY <1>1, <1>3, SMTT(60) DEF Active, VirtioType
<1>6. ASSUME NEW q \in Active
      PROVE  /\ q # p /\ q \in Proc
             /\ idx'[q] = idx[q] /\ onDisk'[q] = onDisk[q]
             /\ \A i \in 0 .. 2 : idx[q][i] \in Desc /\ ~free[idx[q][i]] /\ idx[q][i] \notin {f[0], f[1], f[2]}
  <2>1. q # p /\ q \in Proc /\ Linked(q)
    BY <1>1, <1>5, Zenon DEF Active, Owned
  <2>2. idx'[q] = idx[q] /\ onDisk'[q] = onDisk[q]
    BY <1>1, <1>3, <2>1, Zenon DEF VirtioType
  <2>3. \A i \in 0 .. 2 : idx[q][i] \in Desc /\ ~free[idx[q][i]]
    BY <1>1, <2>1, SMTT(60) DEF VirtioType, Linked
  <2> QED
    BY <1>2, <2>1, <2>2, <2>3, Zenon
<1>7. idx'[p] = f /\ onDisk'[p]
  BY <1>1, <1>3, Zenon DEF VirtioType
<1>8. \A d \in Desc : d \notin {f[0], f[1], f[2]} =>
          desc'[d] = desc[d] /\ info'[d] = info[d] /\ ops'[d] = ops[d] /\ free'[d] = free[d]
  BY <1>1, <1>3, Zenon DEF VirtioType
<1>9. /\ desc'[f[0]] = [addr |-> f[0], next |-> f[1]]
      /\ desc'[f[1]] = [addr |-> p, next |-> f[2]]
      /\ desc'[f[2]] = [addr |-> f[0], next |-> 0]
      /\ info'[f[0]] = [b |-> p, status |-> "0xff"]
      /\ ops'[f[0]] = [write |-> write[p], sector |-> p]
      /\ ~free'[f[0]] /\ ~free'[f[1]] /\ ~free'[f[2]]
  BY <1>1, <1>2, <1>3, <1>4, Zenon DEF VirtioType
<1>10. Owned'
  <2>1. ASSUME NEW q \in Active PROVE Linked(q)'
    <3>1. Linked(q)
      BY <1>1, Zenon DEF Owned
    <3>2. \A i \in 0 .. 2 : Same(idx[q][i])
      BY <1>6, <1>8, Zenon DEF Same
    <3> QED
      BY <1>3, <1>6, <3>1, <3>2, LinkedKept, Zenon
  <2>2. Linked(p)'
    <3>1. /\ desc'[f[0]].next = f[1] /\ desc'[f[1]].next = f[2]
          /\ desc'[f[1]].addr = p /\ desc'[f[2]].addr = f[0]
          /\ info'[f[0]].b = p
      BY <1>9, SMTT(60)
    <3>2. ops'[f[0]] = [write |-> write'[p], sector |-> p]
      BY <1>3, <1>9, Zenon
    <3>3. \A i \in 0 .. 2 : ~free'[f[i]]
      BY <1>9, Indices, Zenon
    <3> QED
      BY <1>2, <1>7, <3>1, <3>2, <3>3, Zenon DEF Linked
  <2>3. ASSUME NEW q \in Active', NEW r \in Active', NEW i \in 0 .. 2, NEW j \in 0 .. 2,
               idx'[q][i] = idx'[r][j]
        PROVE  q = r
    <3>1. f[i] \in {f[0], f[1], f[2]} /\ f[j] \in {f[0], f[1], f[2]}
      BY Indices, Zenon
    <3>2. CASE q \in Active /\ r \in Active
      BY <1>1, <1>6, <2>3, <3>2, SMTT(60) DEF Owned
    <3>3. CASE q \in Active /\ r = p
      BY <1>6, <1>7, <2>3, <3>1, <3>3, SMTT(60)
    <3>4. CASE q = p /\ r \in Active
      BY <1>6, <1>7, <2>3, <3>1, <3>4, SMTT(60)
    <3> QED
      BY <1>5, <3>2, <3>3, <3>4
  <2>4. ASSUME NEW d \in Desc, ~free'[d]
        PROVE  \E q \in Active', j \in 0 .. 2 : d = idx'[q][j]
    <3>1. CASE d \in {f[0], f[1], f[2]}
      BY <1>5, <1>7, <3>1, Indices, Zenon
    <3>2. CASE d \notin {f[0], f[1], f[2]}
      <4>1. PICK q \in Active, j \in 0 .. 2 : d = idx[q][j]
        BY <1>1, <1>8, <2>4, <3>2, SMTT(60) DEF Owned
      <4> QED
        BY <1>5, <1>6, <4>1, Zenon
    <3> QED
      BY <3>1, <3>2, Zenon
  <2> QED
    BY <1>5, <2>1, <2>2, <2>3, <2>4 DEF Owned
<1>11. ASSUME NEW h \in Offered \cup busy \cup Returned
       PROVE  h \in Desc /\ h \notin {f[0], f[1], f[2]}
  <2>1. h \in Desc /\ ~free[h]
    BY AtDevice, Zenon
  <2> QED
    BY <1>2, <2>1, Zenon
<1>12. /\ avail' \in [Desc -> Desc]
       /\ Distinct(avail', seen', Ahead(aidx', seen'))
       /\ Offered' = Offered \cup {f[0]}
  <2>1. /\ avail \in [Desc -> Desc] /\ aidx \in Index /\ seen \in Index /\ f[0] \in Desc
        /\ f[1] \in Desc /\ f[0] # f[1]
        /\ Distinct(avail, seen, Ahead(aidx, seen))
        /\ f[0] \notin Entries(avail, seen, Ahead(aidx, seen))
        /\ f[1] \notin Entries(avail, seen, Ahead(aidx, seen))
        /\ avail' = Set(avail, aidx, f[0])
    BY <1>1, <1>2, <1>3, <1>4, <1>11, Zenon DEF VirtioType, Placed, Offered, Set
  <2>2. /\ avail' \in [Desc -> Desc]
        /\ Distinct(avail', seen, Ahead(Plus1(aidx), seen))
        /\ Entries(avail', seen, Ahead(Plus1(aidx), seen))
              = Entries(avail, seen, Ahead(aidx, seen)) \cup {f[0]}
    BY <2>1, PutIs
  <2> QED
    BY <1>3, <2>2, Zenon DEF Offered
<1>13. Returned' = Returned /\ Distinct(used', used_idx', Ahead(uidx', used_idx'))
  BY <1>1, <1>3, Zenon DEF Returned, Placed
<1>14. VirtioType'
  <2>1. [write |-> write[p], sector |-> p] \in [write : BOOLEAN, sector : Proc \cup {NIL}]
    BY <1>1 DEF VirtioType
  <2>2. ops' \in [Desc -> [write : BOOLEAN, sector : Proc \cup {NIL}]]
    BY <1>1, <1>3, <1>4, <2>1, Zenon DEF VirtioType
  <2>3. info' \in [Desc -> [b : Proc \cup {NIL}, status : {"0", "0xff"}]]
    BY <1>1, <1>3, <1>4, Zenon DEF VirtioType
  <2>4. desc' \in [Desc -> [addr : Proc \cup Desc \cup {NIL}, next : Desc]]
    BY <1>1, <1>3, <1>4, Zenon DEF VirtioType
  <2>5. /\ free' \in [Desc -> BOOLEAN] /\ onDisk' \in [Proc -> BOOLEAN]
        /\ idx' \in [Proc -> [0 .. 2 -> Desc]] /\ aidx' \in Index
        /\ pc' \in [Proc -> {"idle", "alloc", "alloc_sleep", "sleep", "woken"}]
    BY <1>1, <1>2, <1>3, Zenon DEF VirtioType, RingFacts
  <2> QED
    BY <1>1, <1>3, <1>12, <2>2, <2>3, <2>4, <2>5, Zenon DEF VirtioType
<1>15. Placed'
  <2>1. \A h \in Offered' \cup busy' \cup Returned' :
            \E q \in Active' : onDisk'[q] /\ idx'[q][0] = h
    <3>1. ASSUME NEW h \in Offered \cup busy \cup Returned
          PROVE  \E q \in Active' : onDisk'[q] /\ idx'[q][0] = h
      <4>1. PICK q \in Active : onDisk[q] /\ idx[q][0] = h
        BY <1>1, Zenon DEF Placed
      <4> QED
        BY <1>5, <1>6, <4>1, Zenon
    <3> QED
      BY <1>3, <1>5, <1>7, <1>12, <1>13, <3>1, ZenonT(60)
  <2>2. \A h \in Returned' : info'[h].status = "0"
    BY <1>1, <1>8, <1>11, <1>13, SMTT(60) DEF Placed
  <2>3. \A q \in Active' : ~onDisk'[q] \/ idx'[q][0] \in Returned' => data'[q] = block'[q]
    <3>1. ASSUME NEW q \in Active, ~onDisk'[q] \/ idx'[q][0] \in Returned
          PROVE  data[q] = block[q]
      BY <1>1, <1>6, <3>1, Zenon DEF Placed
    <3>2. idx'[p][0] \notin Returned
      BY <1>7, <1>11, ZenonT(60)
    <3> QED
      BY <1>3, <1>5, <1>7, <1>13, <3>1, <3>2, SMTT(60)
  <2>4. Offered' \cap busy' = {} /\ Offered' \cap Returned' = {} /\ busy' \cap Returned' = {}
    BY <1>1, <1>3, <1>11, <1>12, <1>13, SMTT(60) DEF Placed
  <2> QED
    BY <1>12, <1>13, <2>1, <2>2, <2>3, <2>4, Zenon DEF Placed
<1> QED
  BY <1>10, <1>14, <1>15 DEF VInv

\* virtio_disk_rw() gives back the descriptors of its own request only.
LEMMA FinishStep ==
    ASSUME RingFacts, VInv, NEW p \in Proc, Finish(p)
    PROVE  VInv'
<1> DEFINE g == idx[p]
           C == {g[0], g[1], g[2]}
<1>1. VirtioType /\ Owned /\ Placed
  BY Zenon DEF VInv
<1> USE <1>1
<1>2. p \in Active /\ ~onDisk[p] /\ Linked(p)
  BY Zenon DEF Finish, Active, Owned
<1>3. g \in [0 .. 2 -> Desc] /\ g[0] \in Desc /\ FreeChain(g[0]) = C
  BY <1>2, SMTT(60) DEF FreeChain, Linked, VirtioType
<1>4. /\ pc' = [WakeAlloc(pc) EXCEPT ![p] = "idle"]
      /\ info' = [info EXCEPT ![g[0]].b = NIL]
      /\ ops' = [ops EXCEPT ![g[0]] = NoOp]
      /\ free' = [i \in Desc |-> free[i] \/ i \in C]
      /\ desc' = [i \in Desc |-> IF i \in C THEN NoDesc ELSE desc[i]]
      /\ idx' = [idx EXCEPT ![p] = [i \in 0 .. 2 |-> 0]]
      /\ write' = [write EXCEPT ![p] = FALSE]
      /\ UNCHANGED <<rings, used_idx, onDisk, data, seen, busy, block>>
  BY <1>3 DEF Finish, device
<1>5. Active' = Active \ {p}
  BY <1>4, Zenon DEF Active, WakeAlloc, VirtioType
<1>6. ASSUME NEW q \in Active'
      PROVE  /\ q \in Active /\ q \in Proc /\ q # p
             /\ idx'[q] = idx[q] /\ write'[q] = write[q]
             /\ \A i \in 0 .. 2 : idx[q][i] \in Desc /\ idx[q][i] \notin C
  <2>1. q \in Active /\ q \in Proc /\ q # p
    BY <1>5, Zenon DEF Active
  <2>2. \A i \in 0 .. 2 : idx[q][i] \in Desc /\ idx[q][i] \notin C
    BY <1>2, <2>1, Indices, SMTT(60) DEF Owned, VirtioType
  <2> QED
    BY <1>4, <2>1, <2>2, Zenon DEF VirtioType
<1>7. \A d \in Desc : d \notin C => Same(d)
  BY <1>3, <1>4 DEF VirtioType, Same
<1>8. VirtioType'
  <2>1. 0 \in Desc
    BY Zenon DEF RingFacts
  <2>2. /\ ops' \in [Desc -> [write : BOOLEAN, sector : Proc \cup {NIL}]]
        /\ desc' \in [Desc -> [addr : Proc \cup Desc \cup {NIL}, next : Desc]]
    BY <1>4, <2>1 DEF VirtioType, NoOp, NoDesc
  <2>3. info' \in [Desc -> [b : Proc \cup {NIL}, status : {"0", "0xff"}]]
    <3> DEFINE R == [b : Proc \cup {NIL}, status : {"0", "0xff"}]
               h == g[0]
    <3>1. info \in [Desc -> R] /\ h \in Desc /\ info' = [info EXCEPT ![h].b = NIL]
      BY <1>3, <1>4 DEF VirtioType
    <3>2. \A r \in R : [r EXCEPT !.b = NIL] \in R
      BY Zenon
    <3> HIDE DEF R, h
    <3> QED
      BY <3>1, <3>2 DEF R
  <2>4. /\ free' \in [Desc -> BOOLEAN] /\ write' \in [Proc -> BOOLEAN]
        /\ idx' \in [Proc -> [0 .. 2 -> Desc]]
        /\ pc' \in [Proc -> {"idle", "alloc", "alloc_sleep", "sleep", "woken"}]
    BY <1>4, <2>1, Zenon DEF VirtioType, WakeAlloc
  <2> QED
    BY <1>4, <2>2, <2>3, <2>4, Zenon DEF VirtioType, rings
<1>9. Owned'
  <2>1. ASSUME NEW q \in Active' PROVE Linked(q)'
    BY <1>6, <1>7, LinkedKept, Zenon DEF Owned
  <2>2. ASSUME NEW q \in Active', NEW r \in Active', NEW i \in 0 .. 2, NEW j \in 0 .. 2,
               idx'[q][i] = idx'[r][j]
        PROVE  q = r
    BY <1>6, <2>2, SMTT(60) DEF Owned
  <2>3. ASSUME NEW d \in Desc, ~free'[d]
        PROVE  \E q \in Active', j \in 0 .. 2 : d = idx'[q][j]
    <3>1. ~free[d] /\ d \notin C
      BY <1>4, <2>3, Zenon
    <3>2. PICK q \in Active, j \in 0 .. 2 : d = idx[q][j]
      BY <3>1, Zenon DEF Owned
    <3>3. q # p
      BY <3>1, <3>2, Indices, Zenon
    <3> QED
      BY <1>5, <1>6, <3>2, <3>3, Zenon
  <2> QED
    BY <2>1, <2>2, <2>3 DEF Owned
<1>10. /\ Offered' = Offered /\ Returned' = Returned
       /\ Distinct(avail', seen', Ahead(aidx', seen'))
       /\ Distinct(used', used_idx', Ahead(uidx', used_idx'))
  BY <1>4 DEF Offered, Returned, Placed, rings
<1>11. Placed'
  <2>1. \A h \in Offered' \cup busy' \cup Returned' :
            \E q \in Active' : onDisk'[q] /\ idx'[q][0] = h
    <3>1. ASSUME NEW h \in Offered \cup busy \cup Returned
          PROVE  \E q \in Active' : onDisk'[q] /\ idx'[q][0] = h
      <4>1. PICK q \in Active : onDisk[q] /\ idx[q][0] = h
        BY Zenon DEF Placed
      <4> QED
        BY <1>2, <1>4, <1>5, <1>6, <4>1, Zenon
    <3> QED
      BY <1>4, <1>10, <3>1
  <2>2. \A h \in Desc : info'[h].status = info[h].status
    BY <1>4 DEF VirtioType
  <2>3. \A h \in Returned' : info'[h].status = "0"
    BY <1>10, <2>2, AtDevice, ZenonT(60) DEF Placed
  <2>4. ASSUME NEW q \in Active', ~onDisk'[q] \/ idx'[q][0] \in Returned'
        PROVE  data'[q] = block'[q]
    <3>0. q \in Active /\ idx'[q] = idx[q] /\ onDisk' = onDisk
      BY <1>4, <1>6, Zenon
    <3>1. q \in Active /\ (~onDisk[q] \/ idx[q][0] \in Returned)
      BY <1>10, <2>4, <3>0, Zenon
    <3>2. data[q] = block[q]
      BY <3>1, Zenon DEF Placed
    <3> QED
      BY <1>4, <3>2
  <2> QED
    BY <1>4, <1>10, <2>1, <2>3, <2>4, Zenon DEF Placed
<1> QED
  BY <1>8, <1>9, <1>11, Zenon DEF VInv

\* The device takes a request from the avail ring.
LEMMA TakeStep ==
    ASSUME RingFacts, VInv, DevTake
    PROVE  VInv'
<1> DEFINE h == avail[seen % NUM]
<1>1. VirtioType /\ Owned /\ Placed
  BY Zenon DEF VInv
<1>2. /\ seen # aidx
      /\ busy' = busy \cup {h}
      /\ seen' = Plus1(seen)
      /\ avail' = Set(avail, seen, 0)
      /\ UNCHANGED <<free, desc, ops, info, aidx, used, uidx, used_idx, pc, write, idx, onDisk,
                     data, block>>
  BY DEF DevTake, Set
<1> USE <1>2
<1>3. /\ avail \in [Desc -> Desc] /\ aidx \in Index /\ seen \in Index
      /\ Distinct(avail, seen, Ahead(aidx, seen))
  BY <1>1, Zenon DEF VirtioType, Placed
<1>4. /\ Set(avail, seen, 0) \in [Desc -> Desc]
      /\ h \in Entries(avail, seen, Ahead(aidx, seen))
      /\ Distinct(Set(avail, seen, 0), Plus1(seen), Ahead(aidx, Plus1(seen)))
      /\ Entries(Set(avail, seen, 0), Plus1(seen), Ahead(aidx, Plus1(seen)))
            = Entries(avail, seen, Ahead(aidx, seen)) \ {h}
  BY <1>3, Zenon DEF RingFacts, TakeKeeps
<1> HIDE DEF h
<1>5. /\ avail' \in [Desc -> Desc] /\ seen' \in Index
      /\ Distinct(avail', seen', Ahead(aidx', seen'))
      /\ h \in Offered /\ Offered' = Offered \ {h}
  BY <1>3, <1>4, Zenon DEF Offered, RingFacts
<1>6. h \in Desc
  BY <1>5, AtDevice
<1>7. Returned' = Returned /\ Active' = Active
  BY Zenon DEF Returned, Active
<1>8. VirtioType'
  BY <1>1, <1>5, <1>6, Zenon DEF VirtioType
<1>9. Owned'
  BY <1>1, <1>7, OwnedKept, Zenon
<1>10. Placed'
  BY <1>1, <1>5, <1>7, SMTT(60) DEF Placed
<1> QED
  BY <1>8, <1>9, <1>10 DEF VInv

\* used ring.
LEMMA DoneStep ==
    ASSUME RingFacts, VInv, NEW h \in Desc, DevDone(h)
    PROVE  VInv'
<1>1. VirtioType /\ Owned /\ Placed
  BY Zenon DEF VInv
<1>2. h \in busy
  BY Zenon DEF DevDone
<1>3. PICK p \in Active : onDisk[p] /\ idx[p][0] = h /\ Linked(p)
  BY <1>2, AtDevice, Zenon
<1>4. /\ p \in Proc /\ desc[desc[h].next].addr = p
      /\ desc[desc[desc[h].next].next].addr = h
      /\ ops[h].write = write[p] /\ ops[h].sector = p /\ info[h].b = p
  BY <1>3, SMTT(60) DEF Linked, Active
<1>5. /\ IF write[p] THEN block' = [block EXCEPT ![p] = data[p]] /\ UNCHANGED data
                     ELSE data' = [data EXCEPT ![p] = block[p]] /\ UNCHANGED block
      /\ info' = [info EXCEPT ![h].status = "0"]
      /\ used' = Set(used, uidx, h)
      /\ uidx' = Plus1(uidx)
      /\ busy' = busy \ {h}
      /\ UNCHANGED <<free, desc, ops, avail, aidx, used_idx, pc, write, idx, onDisk, seen>>
  BY <1>4, Zenon DEF DevDone, Set
<1>6. /\ data' \in [Proc -> Val] /\ block' \in [Proc -> Val] /\ data'[p] = block'[p]
      /\ \A q \in Proc : q # p => data'[q] = data[q] /\ block'[q] = block[q]
  <2>1. data \in [Proc -> Val] /\ block \in [Proc -> Val] /\ p \in Proc
    BY <1>1, <1>4, Zenon DEF VirtioType
  <2>2. CASE write[p]
    <3>1. block' = [block EXCEPT ![p] = data[p]] /\ data' = data
      BY <1>5, <2>2, Zenon
    <3> QED
      BY <2>1, <3>1
  <2>3. CASE ~write[p]
    <3>1. data' = [data EXCEPT ![p] = block[p]] /\ block' = block
      BY <1>5, <2>3, Zenon
    <3> QED
      BY <2>1, <3>1, Zenon
  <2> QED
    BY <2>2, <2>3, Zenon
<1>7. /\ info' \in [Desc -> [b : Proc \cup {NIL}, status : {"0", "0xff"}]]
      /\ info'[h].status = "0"
      /\ \A d \in Desc : info'[d].b = info[d].b
      /\ \A d \in Desc : d # h => info'[d] = info[d]
  <2> DEFINE R == [b : Proc \cup {NIL}, status : {"0", "0xff"}]
  <2>1. info \in [Desc -> R]
    BY <1>1, Zenon DEF VirtioType
  <2>2. \A r \in R : LET s == [r EXCEPT !.status = "0"] IN
                     s \in R /\ s.b = r.b /\ s.status = "0"
    BY Zenon
  <2> HIDE DEF R
  <2>3. info' \in [Desc -> R] /\ \A d \in Desc : d # h => info'[d] = info[d]
    BY <1>5, <2>1, <2>2
  <2>4. info'[h] = [info[h] EXCEPT !.status = "0"]
    BY <1>5, <2>1
  <2>5. info'[h].b = info[h].b /\ info'[h].status = "0"
    BY <2>1, <2>2, <2>4, Zenon
  <2> QED
    BY <2>3, <2>5, Zenon DEF R
<1>8. h \notin Returned
  BY <1>1, <1>2 DEF Placed
<1> DEFINE k == idx[p][1]
<1>9. k \in Desc /\ k # h /\ k \notin Returned
  <2>1. k \in Desc /\ k # h
    BY <1>1, <1>3, <1>4, Indices, Zenon DEF VirtioType, Linked
  <2>2. ASSUME k \in Returned PROVE FALSE
    <3>1. PICK q \in Active : idx[q][0] = k
      BY <2>2, AtDevice, Zenon
    <3>2. q = p
      BY <1>1, <3>1, Indices DEF Owned
    <3> QED
      BY <1>3, <2>1, <3>1, <3>2, Zenon
  <2> QED
    BY <2>1, <2>2, Zenon
<1> HIDE DEF k
<1>10. /\ used' \in [Desc -> Desc] /\ uidx' \in Index
       /\ Distinct(used', used_idx', Ahead(uidx', used_idx'))
       /\ Returned' = Returned \cup {h}
  <2>1. /\ used \in [Desc -> Desc] /\ uidx \in Index /\ used_idx \in Index
        /\ Distinct(used, used_idx, Ahead(uidx, used_idx))
        /\ h \notin Entries(used, used_idx, Ahead(uidx, used_idx))
        /\ k \notin Entries(used, used_idx, Ahead(uidx, used_idx))
    BY <1>1, <1>8, <1>9, Zenon DEF VirtioType, Placed, Returned
  <2>2. /\ Set(used, uidx, h) \in [Desc -> Desc]
        /\ Distinct(Set(used, uidx, h), used_idx, Ahead(Plus1(uidx), used_idx))
        /\ Entries(Set(used, uidx, h), used_idx, Ahead(Plus1(uidx), used_idx))
              = Entries(used, used_idx, Ahead(uidx, used_idx)) \cup {h}
    BY <1>9, <2>1, PutIs
  <2> QED
    BY <1>5, <2>1, <2>2, Zenon DEF Returned, RingFacts
<1>11. Offered' = Offered /\ Active' = Active
  BY <1>5 DEF Offered, Active
<1>12. VirtioType'
  BY <1>1, <1>5, <1>6, <1>7, <1>10, Zenon DEF VirtioType
<1>13. Owned'
  <2>1. ASSUME NEW q \in Active PROVE Linked(q)'
    <3>1. q \in Proc /\ Linked(q)
      BY <1>1, Zenon DEF Active, Owned
    <3>2. \A i \in 0 .. 2 : idx[q][i] \in Desc
      BY <1>1, <3>1, SMTT(60) DEF VirtioType
    <3>3. \A i \in 0 .. 2 : Same(idx[q][i])
      BY <1>5, <1>7, <3>2, Zenon DEF Same
    <3> QED
      BY <1>5, <3>1, <3>3, LinkedKept, Zenon
  <2> QED
    BY <1>1, <1>5, <1>11, <2>1 DEF Owned
<1>14. Placed'
  <2>1. \A d \in Returned' : info'[d].status = "0"
    <3>1. \A d \in Returned : d \in Desc
      BY AtDevice, Zenon
    <3> QED
      BY <1>1, <1>7, <1>8, <1>10, <3>1, Zenon DEF Placed
  <2>2. ASSUME NEW q \in Active, ~onDisk[q] \/ idx[q][0] \in Returned \cup {h}
        PROVE  data'[q] = block'[q]
    <3>1. CASE q = p
      BY <1>6, <3>1, Zenon
    <3>2. CASE q # p
      <4>1. q \in Proc /\ idx[q][0] # h
        BY <1>1, <1>3, <3>2, Indices, SMTT(60) DEF Owned, Active
      <4>2. data[q] = block[q]
        BY <1>1, <2>2, <4>1, Zenon DEF Placed
      <4> QED
        BY <1>6, <3>2, <4>1, <4>2, Zenon
    <3> QED
      BY <3>1, <3>2, Zenon
  <2>3. \A d \in Offered' \cup busy' \cup Returned' :
            \E q \in Active' : onDisk'[q] /\ idx'[q][0] = d
    BY <1>1, <1>2, <1>5, <1>10, <1>11 DEF Placed
  <2>4. Offered' \cap busy' = {} /\ Offered' \cap Returned' = {} /\ busy' \cap Returned' = {}
    BY <1>1, <1>2, <1>5, <1>10, <1>11 DEF Placed
  <2>5. \A q \in Active' : ~onDisk'[q] \/ idx'[q][0] \in Returned' => data'[q] = block'[q]
    BY <1>5, <1>10, <1>11, <2>2
  <2>6. Distinct(avail', seen', Ahead(aidx', seen'))
    BY <1>1, <1>5, Zenon DEF Placed
  <2> QED
    BY <1>10, <2>1, <2>3, <2>4, <2>5, <2>6, Zenon DEF Placed
<1> QED
  BY <1>12, <1>13, <1>14, Zenon DEF VInv

\* virtio_disk_intr() goes over one used entry: its buffer is done.
LEMMA EntryStep ==
    ASSUME RingFacts, VInv, IntrEntry
    PROVE  VInv'
<1> DEFINE h == used[used_idx % NUM]
           p == info[h].b
<1>1. VirtioType /\ Owned /\ Placed
  BY DEF VInv
<1> USE <1>1
<1>2. /\ used_idx # uidx
      /\ onDisk' = [onDisk EXCEPT ![p] = FALSE]
      /\ pc' = [pc EXCEPT ![p] = IF @ = "sleep" THEN "woken" ELSE @]
      /\ used_idx' = Plus1(used_idx)
      /\ used' = Set(used, used_idx, 0)
      /\ UNCHANGED <<free, desc, ops, info, avail, aidx, uidx, write, idx, data, seen, busy,
                     block>>
  BY Zenon DEF IntrEntry, Set, device
<1> USE <1>2
<1>3. /\ used \in [Desc -> Desc] /\ uidx \in Index /\ used_idx \in Index
      /\ Distinct(used, used_idx, Ahead(uidx, used_idx))
  BY Zenon DEF VirtioType, Placed
<1>4. /\ Set(used, used_idx, 0) \in [Desc -> Desc]
      /\ h \in Entries(used, used_idx, Ahead(uidx, used_idx))
      /\ Distinct(Set(used, used_idx, 0), Plus1(used_idx), Ahead(uidx, Plus1(used_idx)))
      /\ Entries(Set(used, used_idx, 0), Plus1(used_idx), Ahead(uidx, Plus1(used_idx)))
            = Entries(used, used_idx, Ahead(uidx, used_idx)) \ {h}
  BY <1>3, Zenon DEF RingFacts, TakeKeeps
<1> HIDE DEF h
<1>5. /\ used' \in [Desc -> Desc] /\ used_idx' \in Index
      /\ Distinct(used', used_idx', Ahead(uidx', used_idx'))
      /\ h \in Returned /\ Returned' = Returned \ {h}
  BY <1>3, <1>4, Zenon DEF Returned, RingFacts
<1>6. p \in Active /\ p \in Proc /\ onDisk[p] /\ idx[p][0] = h
  <2>1. PICK q \in Active : onDisk[q] /\ idx[q][0] = h /\ Linked(q)
    BY <1>5, AtDevice, Zenon
  <2> QED
    BY <2>1, Zenon DEF Linked, Active
<1> HIDE DEF p
<1>7. Active' = Active
  BY <1>6, Zenon DEF Active, VirtioType
<1>8. Offered' = Offered /\ Distinct(avail', seen', Ahead(aidx', seen'))
  BY Zenon DEF Offered, Placed
<1>9. VirtioType'
  BY <1>5, Zenon DEF VirtioType
<1>10. Owned'
  BY <1>7, OwnedKept
<1>11. Placed'
  <2>1. ASSUME NEW d \in Offered \cup busy \cup (Returned \ {h})
        PROVE  \E q \in Active : onDisk'[q] /\ idx[q][0] = d
    <3>1. PICK q \in Active : onDisk[q] /\ idx[q][0] = d
      BY Zenon DEF Placed
    <3>2. d # h
      BY <1>5, Zenon DEF Placed
    <3>3. q # p /\ q \in Proc
      BY <1>6, <3>1, <3>2, Zenon DEF Active
    <3> QED
      BY <3>1, <3>3, Zenon DEF VirtioType
  <2>2. ASSUME NEW q \in Active, ~onDisk'[q] \/ idx[q][0] \in Returned \ {h}
        PROVE  data[q] = block[q]
    <3>1. CASE q = p
      BY <1>5, <1>6, <3>1, Zenon DEF Placed
    <3>2. CASE q # p
      BY <2>2, <3>2, Zenon DEF Placed, VirtioType, Active
    <3> QED
      BY <3>1, <3>2
  <2>3. \A d \in Offered' \cup busy' \cup Returned' :
            \E q \in Active' : onDisk'[q] /\ idx'[q][0] = d
    BY <1>5, <1>7, <1>8, <2>1, Zenon
  <2>4. \A q \in Active' : ~onDisk'[q] \/ idx'[q][0] \in Returned' => data'[q] = block'[q]
    BY <1>5, <1>7, <2>2, Zenon
  <2> QED
    BY <1>5, <1>8, <2>3, <2>4, Zenon DEF Placed
<1> QED
  BY <1>9, <1>10, <1>11, Zenon DEF VInv

\* virtio_disk_init() leaves every descriptor free and the rings empty.
LEMMA InitInv ==
    ASSUME RingFacts, Init
    PROVE  VInv
<1>1. 0 \in Desc /\ 0 \in Index /\ Ahead(0, 0) = 0
  BY DEF RingFacts
<1>3. VirtioType
  BY <1>1, Zenon DEF Init, VirtioType, NoDesc, NoOp
<1>4. Active = {}
  BY Zenon DEF Init, Active
<1>5. Offered = {} /\ Returned = {} /\ Distinct(avail, seen, 0) /\ Distinct(used, used_idx, 0)
  BY <1>1, SMTT(60) DEF Init, Offered, Returned, Entries, Distinct
<1>6. Owned /\ Placed
  BY <1>1, <1>4, <1>5, Zenon DEF Init, Owned, Placed
<1> QED
  BY <1>3, <1>6, Zenon DEF VInv

\* Every step of the driver, of its handler and of the device keeps the invariant.
LEMMA NextInv ==
    ASSUME RingFacts, TakesThree, VInv, [Next]_vars
    PROVE  VInv'
<1>1. ASSUME NEW p \in Proc, Rw(p) PROVE VInv'
  BY <1>1, QuietSteps, SubmitStep, FinishStep, Zenon DEF Rw
<1>2. ASSUME NEW p \in Proc, Kill(p) \/ \E w \in BOOLEAN, v \in Val : Call(p, w, v)
      PROVE  VInv'
  BY <1>2, QuietSteps, Zenon
<1>3. ASSUME Device PROVE VInv'
  BY <1>3, IdleSteps, TakeStep, DoneStep, Zenon DEF Device
<1>4. ASSUME Interrupt PROVE VInv'
  BY <1>4, IdleSteps, EntryStep, Zenon DEF Interrupt
<1> QED
  BY <1>1, <1>2, <1>3, <1>4, IdleSteps, Zenon DEF Next

\* Nobody sleeps in vain after a step, and no used entry is left without an
\* interrupt.
LEMMA MissedStep ==
    ASSUME CountsDesc, VInv, NothingMissed, [Next]_vars
    PROVE  NothingMissed'
<1>0. /\ VirtioType /\ CompletionsSeen
      /\ FreeDescs \in SUBSET Desc /\ Cardinality(FreeDescs) \in Nat
      /\ \A p \in Proc : pc[p] = "alloc_sleep" => Cardinality(FreeDescs) < 3
      /\ \A p \in Proc : pc[p] = "sleep" => onDisk[p]
  <2>1. FreeDescs \subseteq Desc
    BY Zenon DEF FreeDescs
  <2> QED
    BY <2>1, Zenon DEF VInv, NothingMissed, SleepersWait, CountsDesc
<1>1. ASSUME NEW p \in Proc, Submit(p) PROVE NothingMissed'
  <2>1. FreeDescs' \subseteq FreeDescs
    BY <1>1, Zenon DEF Submit, FreeDescs
  <2>2. Cardinality(FreeDescs') <= Cardinality(FreeDescs) /\ Cardinality(FreeDescs') \in Nat
    BY <1>0, <2>1, Zenon DEF CountsDesc
  <2>3. /\ pc' = [pc EXCEPT ![p] = "sleep"] /\ onDisk' = [onDisk EXCEPT ![p] = TRUE]
        /\ UNCHANGED <<used_idx, uidx, pend, irq, intr>>
    BY <1>1, Zenon DEF Submit, Goto, device
  <2>4. \A q \in Proc : /\ pc'[q] = "alloc_sleep" => pc[q] = "alloc_sleep"
                        /\ pc'[q] = "sleep" => onDisk'[q]
    BY <1>0, <2>3, Zenon DEF VirtioType
  <2> QED
    BY <1>0, <2>2, <2>3, <2>4 DEF NothingMissed, SleepersWait, CompletionsSeen
<1>2. ASSUME NEW p \in Proc, Finish(p) PROVE NothingMissed'
  <2>1. \A q \in Proc : /\ pc'[q] # "alloc_sleep"
                        /\ pc'[q] = "sleep" => pc[q] = "sleep"
    BY <1>0, <1>2, Zenon DEF Finish, WakeAlloc, VirtioType
  <2>2. UNCHANGED <<onDisk, used_idx, uidx, pend, irq, intr>>
    BY <1>2 DEF Finish, rings, device
  <2> QED
    BY <1>0, <2>1, <2>2, Zenon DEF NothingMissed, SleepersWait, CompletionsSeen
<1>3. ASSUME NEW p \in Proc, AllocFail(p) PROVE NothingMissed'
  <2>1. Cardinality(FreeDescs) < 3 /\ FreeDescs' = FreeDescs
    BY <1>3 DEF AllocFail, FreeDescs
  <2>2. \A q \in Proc : pc'[q] = "sleep" => pc[q] = "sleep"
    BY <1>0, <1>3, Zenon DEF AllocFail, WakeAlloc, VirtioType
  <2>3. UNCHANGED <<onDisk, used_idx, uidx, pend, irq, intr>>
    BY <1>3 DEF AllocFail, rings, device
  <2> QED
    BY <1>0, <2>1, <2>2, <2>3, Zenon DEF NothingMissed, SleepersWait, CompletionsSeen
<1>4. ASSUME FreeDescs' = FreeDescs, CompletionsSeen',
             \A q \in Proc : /\ pc'[q] = "alloc_sleep" => pc[q] = "alloc_sleep"
                             /\ pc'[q] = "sleep" => onDisk'[q]
      PROVE  NothingMissed'
  BY <1>0, <1>4, Zenon DEF NothingMissed, SleepersWait
<1>5. ASSUME NEW p \in Proc,
             SleepAgain(p) \/ Kill(p) \/ \E w \in BOOLEAN, v \in Val : Call(p, w, v)
      PROVE  NothingMissed'
  <2>1. UNCHANGED <<free, onDisk, used_idx, uidx, pend, irq, intr>>
    BY <1>5, Zenon DEF SleepAgain, Kill, Call, rings, device
  <2>2. \A q \in Proc : /\ pc'[q] = "alloc_sleep" => pc[q] = "alloc_sleep"
                        /\ pc'[q] = "sleep" => onDisk[q]
    BY <1>0, <1>5, ZenonT(60) DEF SleepAgain, Kill, Call, Goto, VirtioType
  <2> QED
    BY <1>0, <1>4, <2>1, <2>2, Zenon DEF FreeDescs, CompletionsSeen
<1>6. ASSUME IntrEntry PROVE NothingMissed'
  <2> DEFINE b == info[used[used_idx % NUM]].b
  <2>1. /\ free' = free /\ intr' /\ onDisk' = [onDisk EXCEPT ![b] = FALSE]
        /\ pc' = [pc EXCEPT ![b] = IF @ = "sleep" THEN "woken" ELSE @]
    BY <1>6, Zenon DEF IntrEntry
  <2> HIDE DEF b
  <2>2. \A q \in Proc : /\ pc'[q] = "alloc_sleep" => pc[q] = "alloc_sleep"
                        /\ pc'[q] = "sleep" => onDisk'[q]
    BY <1>0, <2>1, Zenon DEF VirtioType
  <2> QED
    BY <1>4, <2>1, <2>2 DEF FreeDescs, CompletionsSeen
<1>7. ASSUME Device \/ IntrStart \/ IntrEnd \/ UNCHANGED vars PROVE NothingMissed'
  <2>1. UNCHANGED <<free, onDisk, pc>> /\ CompletionsSeen'
    BY <1>0, <1>7, Zenon DEF Device, DevTake, DevInterrupt, DevDone, IntrStart, IntrEnd, vars, rings,
                      device, CompletionsSeen
  <2> QED
    BY <1>0, <1>4, <2>1, Zenon DEF FreeDescs
<1> QED
  BY <1>1, <1>2, <1>3, <1>5, <1>6, <1>7, Zenon DEF Next, Rw, Interrupt

\* The descriptors of a request are not free, and nobody else's.
LEMMA OwnSets ==
    ASSUME VInv
    PROVE  /\ \A p \in Active : /\ Own(p) = {idx[p][0], idx[p][1], idx[p][2]}
                                /\ Linked(p)
           /\ \A p, r \in Active : p # r => Own(p) \cap Own(r) = {}
           /\ {i \in Desc : ~free[i]} = UNION {Own(p) : p \in Active}
<1>1. VirtioType /\ Owned
  BY DEF VInv
<1>2. ASSUME NEW p \in Active
      PROVE  /\ Linked(p) /\ Own(p) = {idx[p][0], idx[p][1], idx[p][2]}
             /\ \A i \in 0 .. 2 : idx[p][i] \in Desc /\ ~free[idx[p][i]]
  <2>1. Linked(p) /\ p \in Proc
    BY <1>1, Zenon DEF Owned, Active
  <2>2. Own(p) = {idx[p][0], idx[p][1], idx[p][2]}
    BY Indices, Zenon DEF Own
  <2>3. \A i \in 0 .. 2 : idx[p][i] \in Desc
    BY <1>1, <2>1 DEF VirtioType
  <2>4. \A i \in 0 .. 2 : ~free[idx[p][i]]
    BY <2>1, Zenon DEF Linked
  <2> QED
    BY <2>1, <2>2, <2>3, <2>4, Zenon
<1>3. ASSUME NEW p \in Active, NEW r \in Active, p # r PROVE Own(p) \cap Own(r) = {}
  BY <1>1, <1>3, SMTT(60) DEF Owned, Own
<1>4. {i \in Desc : ~free[i]} = UNION {Own(p) : p \in Active}
  <2>1. ASSUME NEW i \in Desc, ~free[i] PROVE \E p \in Active : i \in Own(p)
    BY <1>1, <2>1 DEF Owned, Own
  <2>2. ASSUME NEW p \in Active, NEW i \in Own(p) PROVE i \in Desc /\ ~free[i]
    BY <1>2 DEF Own
  <2> QED
    BY <2>1, <2>2, Zenon
<1> QED
  BY <1>2, <1>3, <1>4, Zenon

\* The sets of the specification, by ring.
LEMMA Places == Waiting = busy \cup Offered /\ Completed = Returned
  BY Zenon DEF Waiting, Completed, Offered, Returned, Entries, At, Ahead

-----------------------------------------------------------------------------
(* The rings *)

LOCAL INSTANCE Wrap

\* The sizes are such that slots go on where the indices wrap.
LEMMA Sizes ==
    /\ NUM \in Nat \ {0} /\ IDX \in Nat \ {0} /\ IDX % NUM = 0
    /\ NUM >= 3 /\ NUM <= IDX
  BY VirtioAssumption

\* The slot of the writer's index is as far behind the reader's as it is ahead.
LEMMA RingEnd == \A x, y \in Index : (y + Ahead(x, y)) % NUM = x % NUM
  BY Sizes, SlotEnd, Zenon DEF Index, Ahead

\* A step of the reader's index shifts the slots by one.
LEMMA RingNext == \A y \in Index, i \in Nat : (Plus1(y) + i) % NUM = (y + (i + 1)) % NUM
  BY Sizes, SlotNext, ZenonT(60) DEF Index, Plus1

\* A step of the writer's index.
LEMMA RingMore ==
    \A x, y \in Index : Ahead(x, y) < IDX - 1 => Ahead(Plus1(x), y) = Ahead(x, y) + 1
  BY Sizes, AheadMore, Zenon DEF Index, Ahead, Plus1

\* A step of the reader's index.
LEMMA RingLess == \A x, y \in Index : x # y => Ahead(x, Plus1(y)) = Ahead(x, y) - 1
  BY Sizes, AheadLess, Zenon DEF Index, Ahead, Plus1

\* How far an index is ahead of another.
LEMMA RingRange ==
    \A x, y \in Index : Ahead(x, y) \in 0 .. IDX - 1 /\ (Ahead(x, y) = 0 <=> x = y)
  BY Sizes, AheadRange DEF Index, Ahead

\* Every index has a slot.
LEMMA RingSlot == \A y \in Index, i \in Nat : (y + i) % NUM \in Desc
<1> TAKE y \in Index, i \in Nat
<1>1. y + i \in Int
  BY DEF Index
<1> QED
  BY <1>1, Sizes, DivMod, Zenon DEF Desc

\* Entries less than a round apart are in different slots.
LEMMA RingApart ==
    \A y \in Index, i, j \in Desc : (y + i) % NUM = (y + j) % NUM => i = j
<1> TAKE y \in Index, i \in Desc, j \in Desc
<1>1. y \in Int
  BY DEF Index
<1> QED
  BY <1>1, Sizes, SlotsDiffer, Zenon DEF Desc

\* The index after an index is one.
LEMMA NextIndex == \A x \in Index : Plus1(x) \in Index
<1> TAKE x \in Index
<1>1. x + 1 \in Int
  BY DEF Index
<1> QED
  BY <1>1, Sizes, DivMod, Zenon DEF Index, Plus1

\* A new entry at the writer's index goes behind the others.
LEMMA RingPut ==
    ASSUME NEW r \in [Desc -> Desc], NEW x \in Index, NEW y \in Index, NEW h \in Desc,
           Distinct(r, y, Ahead(x, y)), Ahead(x, y) <= NUM - 2,
           h \notin Entries(r, y, Ahead(x, y))
    PROVE  /\ Set(r, x, h) \in [Desc -> Desc]
           /\ Distinct(Set(r, x, h), y, Ahead(Plus1(x), y))
           /\ Entries(Set(r, x, h), y, Ahead(Plus1(x), y)) = Entries(r, y, Ahead(x, y)) \cup {h}
<1> DEFINE s == Set(r, x, h)
<1>0. s = [r EXCEPT ![x % NUM] = h]
  BY Zenon DEF Set
<1> HIDE DEF s
<1> DEFINE n == Ahead(x, y)
<1>1. n \in Nat /\ n <= NUM - 2 /\ n < IDX - 1
  BY Sizes, RingRange
<1>2. Ahead(Plus1(x), y) = n + 1
  BY <1>1, RingMore, Zenon
<1>3. x % NUM = (y + n) % NUM
  BY RingEnd, Zenon
<1>4. (y + n) % NUM \in Desc
  BY <1>1, RingSlot, Zenon
<1> HIDE DEF n
<1>5. s \in [Desc -> Desc] /\ At(s, y, n) = h
  BY <1>0, <1>3, <1>4, Zenon DEF At
<1>6. ASSUME NEW i \in 0 .. n - 1 PROVE At(s, y, i) = At(r, y, i)
  <2>1. i \in Nat /\ i \in Desc /\ n \in Desc /\ i # n
    BY <1>1, Sizes DEF Desc
  <2>2. (y + i) % NUM # (y + n) % NUM
    BY <2>1, RingApart, Zenon
  <2>3. (y + i) % NUM \in Desc
    BY <2>1, RingSlot, Zenon
  <2> QED
    BY <1>0, <1>3, <2>2, <2>3, Zenon DEF At
<1>7. Entries(s, y, n + 1) = Entries(r, y, n) \cup {h}
  <2>1. \A i : i \in 0 .. (n + 1) - 1 <=> i \in 0 .. n - 1 \/ i = n
    BY <1>1
  <2>2. Entries(s, y, n + 1) \subseteq Entries(r, y, n) \cup {h}
    <3>1. \A i \in 0 .. n - 1 : At(s, y, i) \in Entries(r, y, n)
      BY <1>6, Zenon DEF Entries
    <3>2. \A i \in 0 .. (n + 1) - 1 : At(s, y, i) \in Entries(r, y, n) \cup {h}
      BY <1>5, <2>1, <3>1, Zenon
    <3> QED
      BY <3>2, Zenon DEF Entries
  <2>3. \A i \in 0 .. n - 1 : At(r, y, i) \in Entries(s, y, n + 1)
    BY <1>6, <2>1, Zenon DEF Entries
  <2>4. h \in Entries(s, y, n + 1)
    BY <1>5, <2>1, Zenon DEF Entries
  <2>5. Entries(r, y, n) \subseteq Entries(s, y, n + 1)
    BY <2>3, Zenon DEF Entries
  <2> QED
    BY <2>2, <2>4, <2>5, Zenon
<1>8. Distinct(s, y, n + 1)
  <2> SUFFICES ASSUME NEW i \in 0 .. (n + 1) - 1, NEW j \in 0 .. (n + 1) - 1,
                      At(s, y, i) = At(s, y, j)
               PROVE  i = j
    BY Zenon DEF Distinct
  <2>1. \A k \in 0 .. (n + 1) - 1 : k = n \/ k \in 0 .. n - 1
    BY <1>1
  <2>2. \A k \in 0 .. n - 1 : At(r, y, k) # h
    BY Zenon DEF n, Entries
  <2>3. \A k, l \in 0 .. n - 1 : At(r, y, k) = At(r, y, l) => k = l
    BY Zenon DEF n, Distinct
  <2> QED
    BY <1>5, <1>6, <2>1, <2>2, <2>3, Zenon
<1> QED
  BY <1>2, <1>5, <1>7, <1>8, Zenon DEF n, s

\* The entry at the reader's index is taken, and reset.
LEMMA RingTake ==
    ASSUME NEW r \in [Desc -> Desc], NEW x \in Index, NEW y \in Index, x # y,
           Distinct(r, y, Ahead(x, y)), Ahead(x, y) <= NUM
    PROVE  /\ Set(r, y, 0) \in [Desc -> Desc]
           /\ r[y % NUM] \in Entries(r, y, Ahead(x, y))
           /\ Distinct(Set(r, y, 0), Plus1(y), Ahead(x, Plus1(y)))
           /\ Entries(Set(r, y, 0), Plus1(y), Ahead(x, Plus1(y)))
                 = Entries(r, y, Ahead(x, y)) \ {r[y % NUM]}
<1> DEFINE s == Set(r, y, 0)
<1>0. s = [r EXCEPT ![y % NUM] = 0]
  BY Zenon DEF Set
<1> HIDE DEF s
<1> DEFINE n == Ahead(x, y)
           z == Plus1(y)
<1>1. n \in Nat /\ n >= 1
  BY RingRange, Sizes
<1>2. n <= NUM
  BY Zenon
<1>3. Ahead(x, z) = n - 1
  BY RingLess, Zenon
<1>4. y + 0 = y
  BY DEF Index
<1>5. y % NUM \in Desc /\ At(r, y, 0) = r[y % NUM]
  BY <1>4, RingSlot, Zenon DEF At
<1> HIDE DEF n, z
<1>6. s \in [Desc -> Desc]
  <2>1. 0 \in Desc
    BY Sizes DEF Desc
  <2> QED
    BY <1>0, <2>1, Zenon
<1>7. ASSUME NEW i \in 0 .. (n - 1) - 1 PROVE At(s, z, i) = At(r, y, i + 1)
  <2>1. i \in Nat /\ i + 1 \in Nat /\ i + 1 \in Desc /\ 0 \in Desc /\ i + 1 # 0
    BY <1>1, <1>2, Sizes DEF Desc
  <2>2. (z + i) % NUM = (y + (i + 1)) % NUM
    BY <2>1, RingNext, Zenon DEF z
  <2>3. (y + (i + 1)) % NUM \in Desc
    BY <2>1, RingSlot, Zenon
  <2>4. (y + (i + 1)) % NUM # y % NUM
    BY <1>4, <2>1, RingApart, Zenon
  <2> QED
    BY <1>0, <2>2, <2>3, <2>4, Zenon DEF At
<1>8. \A i, j \in 0 .. n - 1 : At(r, y, i) = At(r, y, j) => i = j
  BY Zenon DEF n, Distinct
<1>9. 0 \in 0 .. n - 1 /\ \A i \in 0 .. (n - 1) - 1 : i + 1 \in 0 .. n - 1 /\ i + 1 # 0
  BY <1>1
<1>10. Entries(s, z, n - 1) = Entries(r, y, n) \ {At(r, y, 0)}
  <2>1. ASSUME NEW i \in 0 .. (n - 1) - 1
        PROVE  At(s, z, i) \in Entries(r, y, n) /\ At(s, z, i) # At(r, y, 0)
    BY <1>7, <1>8, <1>9 DEF Entries
  <2>2. ASSUME NEW i \in 0 .. n - 1, At(r, y, i) # At(r, y, 0)
        PROVE  At(r, y, i) \in Entries(s, z, n - 1)
    <3>1. i - 1 \in 0 .. (n - 1) - 1 /\ (i - 1) + 1 = i
      BY <1>1, <2>2
    <3>2. At(s, z, i - 1) = At(r, y, i)
      BY <1>7, <3>1, Zenon
    <3> QED
      BY <3>1, <3>2, Zenon DEF Entries
  <2> QED
    BY <2>1, <2>2, Zenon DEF Entries
<1>11. Distinct(s, z, n - 1)
  <2> SUFFICES ASSUME NEW i \in 0 .. (n - 1) - 1, NEW j \in 0 .. (n - 1) - 1,
                      At(s, z, i) = At(s, z, j)
               PROVE  i = j
    BY Zenon DEF Distinct
  <2>1. i + 1 = j + 1
    BY <1>7, <1>8, <1>9, Zenon
  <2> QED
    BY <1>1, <2>1
<1>12. r[y % NUM] \in Entries(r, y, n)
  BY <1>5, <1>9 DEF Entries
<1> QED
  BY <1>3, <1>5, <1>6, <1>10, <1>11, <1>12, Zenon DEF n, z, s

\* There are NUM descriptors.
LEMMA DescsFinite == ASSUME Finite PROVE IsFiniteSet(Desc) /\ Cardinality(Desc) = NUM
  BY Sizes, Zenon DEF Desc, Finite, RangeCount

\* Entries that differ are as many as there are.
LEMMA Counted ==
    ASSUME Finite, NEW r \in [Desc -> Desc], NEW y \in Index, NEW n \in Nat, Distinct(r, y, n)
    PROVE  /\ Entries(r, y, n) \subseteq Desc
           /\ IsFiniteSet(Entries(r, y, n))
           /\ Cardinality(Entries(r, y, n)) = n
           /\ n <= NUM
<1> DEFINE S == 0 .. n - 1
           T == Entries(r, y, n)
           f == [i \in S |-> At(r, y, i)]
<1>1. f \in [S -> T] /\ \A t \in T : \E i \in S : f[i] = t
  BY Zenon DEF Entries
<1>2. \A i, j \in S : f[i] = f[j] => i = j
  BY DEF Distinct
<1>3. IsFiniteSet(S) /\ Cardinality(S) = n
  BY Zenon DEF Finite, RangeCount
<1>4. T \subseteq Desc
  <2>1. \A i \in S : At(r, y, i) \in Desc
    BY RingSlot DEF At
  <2> QED
    BY <2>1, Zenon DEF Entries
<1> HIDE DEF S, T, f
<1>5. IsFiniteSet(T) /\ Cardinality(T) = n
  BY <1>1, <1>2, <1>3, Zenon DEF Finite, ImageCount
<1>6. Cardinality(T) <= NUM
  BY <1>4, DescsFinite, Zenon DEF Finite, SubsetCount
<1> QED
  BY <1>4, <1>5, <1>6, Zenon DEF T

\* alloc_desc() finds a free descriptor when there is one.
LEMMA FirstIn == ASSUME Finite, NEW S \in SUBSET Desc, S # {} PROVE First(S) \in S
<1>1. S \in SUBSET Nat
  BY DEF Desc
<1>2. \E i \in S : \A j \in S : i <= j
  BY <1>1, Zenon DEF Finite, LeastOne
<1> QED
  BY <1>2, Zenon DEF First

\* alloc3_desc() takes three free descriptors.
LEMMA Three == ASSUME Finite PROVE TakesThree
<1> SUFFICES ASSUME Cardinality(FreeDescs) >= 3
             PROVE  /\ First3 \in [0 .. 2 -> Desc]
                    /\ First3[0] # First3[1] /\ First3[0] # First3[2] /\ First3[1] # First3[2]
                    /\ free[First3[0]] /\ free[First3[1]] /\ free[First3[2]]
  BY Zenon DEF TakesThree
<1> DEFINE S1 == FreeDescs \ {First(FreeDescs)}
           S2 == S1 \ {First(S1)}
<1>1. FreeDescs \in SUBSET Desc /\ IsFiniteSet(FreeDescs) /\ Cardinality(FreeDescs) \in Nat
  <2>1. FreeDescs \in SUBSET Desc
    BY Zenon DEF FreeDescs
  <2> QED
    BY <2>1, DescsFinite, Zenon DEF Finite, SubsetCount
<1>2. FreeDescs # {}
  BY DEF Finite, EmptyCount
<1>3. First(FreeDescs) \in FreeDescs
  BY <1>1, <1>2, FirstIn, Zenon
<1>4. IsFiniteSet(S1) /\ Cardinality(S1) = Cardinality(FreeDescs) - 1
  BY <1>1, <1>3, Zenon DEF Finite, RemoveCount
<1>5. S1 # {}
  BY <1>1, <1>4 DEF Finite, EmptyCount
<1>6. First(S1) \in S1
  BY <1>1, <1>5, FirstIn
<1>7. Cardinality(S2) = Cardinality(S1) - 1
  BY <1>4, <1>6, Zenon DEF Finite, RemoveCount
<1>8. S2 # {}
  <2>1. Cardinality(S2) # 0
    BY <1>1, <1>4, <1>7
  <2> QED
    BY <2>1, Zenon DEF Finite, EmptyCount
<1>9. First(S2) \in S2
  BY <1>1, <1>8, FirstIn, Zenon
<1> DEFINE a == First(FreeDescs)
           b == First(S1)
           c == First(S2)
<1>10. /\ a \in FreeDescs /\ b \in FreeDescs /\ c \in FreeDescs
       /\ a # b /\ a # c /\ b # c
  BY <1>3, <1>6, <1>9
<1>11. First3 = [i \in 0 .. 2 |-> CASE i = 0 -> a [] i = 1 -> b [] i = 2 -> c]
  BY DEF First3
<1> HIDE DEF a, b, c, S1, S2
<1>12. First3[0] = a /\ First3[1] = b /\ First3[2] = c
  BY <1>11
<1>13. First3 \in [0 .. 2 -> Desc]
  <2>1. \A i \in 0 .. 2 : i = 0 \/ i = 1 \/ i = 2
    OBVIOUS
  <2>2. \A i \in 0 .. 2 : First3[i] \in Desc
    BY <1>10, <1>12, <2>1 DEF FreeDescs
  <2> QED
    BY <1>11, <2>2
<1> QED
  BY <1>10, <1>12, <1>13, Zenon DEF FreeDescs

\* Subsets of the descriptors are finite, and smaller when they are subsets of
\* one another.
LEMMA Counts == ASSUME Finite PROVE CountsDesc
<1> SUFFICES ASSUME NEW S \in SUBSET Desc
             PROVE  /\ IsFiniteSet(S) /\ Cardinality(S) \in Nat
                    /\ \A T \in SUBSET S : Cardinality(T) <= Cardinality(S)
  BY Zenon DEF CountsDesc
<1>1. IsFiniteSet(S)
  BY DescsFinite, Zenon DEF Finite, SubsetCount
<1> QED
  BY <1>1, Zenon DEF Finite, SubsetCount

\* A ring with two descriptors missing has room.
LEMMA Room ==
    ASSUME Finite, NEW r \in [Desc -> Desc], NEW y \in Index, NEW n \in Nat, Distinct(r, y, n),
           NEW h \in Desc, NEW k \in Desc, h # k,
           h \notin Entries(r, y, n), k \notin Entries(r, y, n)
    PROVE  n <= NUM - 2
<1>1. Cardinality(Entries(r, y, n)) = n /\ Entries(r, y, n) \subseteq Desc
  BY Counted, Zenon
<1>2. IsFiniteSet(Desc \ {h}) /\ Cardinality(Desc \ {h}) = NUM - 1
  BY DescsFinite, Zenon DEF Finite, RemoveCount
<1>3. k \in Desc \ {h}
  BY Zenon
<1>4. /\ IsFiniteSet((Desc \ {h}) \ {k})
      /\ Cardinality((Desc \ {h}) \ {k}) = (NUM - 1) - 1
  BY <1>2, <1>3, Zenon DEF Finite, RemoveCount
<1>5. Entries(r, y, n) \subseteq (Desc \ {h}) \ {k}
  BY <1>1, Zenon
<1>6. n <= (NUM - 1) - 1
  BY <1>1, <1>4, <1>5 DEF Finite, SubsetCount
<1> QED
  BY <1>6, Sizes

\* The rings are as the steps take them to be.
LEMMA Rings == ASSUME Finite PROVE RingFacts
<1>1. 0 \in Desc /\ 0 \in Index
  BY Sizes DEF Desc, Index
<1>2. Ahead(0, 0) = 0
  BY <1>1, RingRange, Zenon
<1>3. ASSUME NEW r \in [Desc -> Desc], NEW x \in Index, NEW y \in Index,
             Distinct(r, y, Ahead(x, y))
      PROVE  Ahead(x, y) \in Nat /\ Ahead(x, y) <= NUM
  <2>1. Ahead(x, y) \in Nat
    BY RingRange, Sizes
  <2> QED
    BY <1>3, <2>1, Counted, Zenon
<1>4. ASSUME NEW r \in [Desc -> Desc], NEW x \in Index, NEW y \in Index,
             NEW h \in Desc, NEW k \in Desc, h # k, Distinct(r, y, Ahead(x, y)),
             h \notin Entries(r, y, Ahead(x, y)), k \notin Entries(r, y, Ahead(x, y))
      PROVE  /\ Set(r, x, h) \in [Desc -> Desc]
             /\ Distinct(Set(r, x, h), y, Ahead(Plus1(x), y))
             /\ Entries(Set(r, x, h), y, Ahead(Plus1(x), y)) = Entries(r, y, Ahead(x, y)) \cup {h}
  <2>1. Ahead(x, y) <= NUM - 2
    BY <1>3, <1>4, Room, Zenon
  <2> QED
    BY <1>4, <2>1, RingPut
<1>5. PutKeeps
  BY <1>4 DEF PutKeeps
<1>6. TakeKeeps
  BY <1>3, RingTake, Zenon DEF TakeKeeps
<1> QED
  BY <1>1, <1>2, <1>5, <1>6, NextIndex, Zenon DEF RingFacts

-----------------------------------------------------------------------------
\* What is not free belongs to one request, which has three descriptors.
LEMMA DescsOwned == ASSUME Finite, VInv PROVE DescOwned
<1>1. ASSUME NEW p \in Active PROVE Cardinality(Own(p)) = 3
  <2> DEFINE a == idx[p][0]
             b == idx[p][1]
             c == idx[p][2]
  <2>1. a # b /\ a # c /\ b # c /\ Own(p) = {a, b, c}
    BY OwnSets, Zenon DEF Linked
  <2> HIDE DEF a, b, c
  <2>2. IsFiniteSet({}) /\ Cardinality({}) = 0
    BY Zenon DEF Finite, EmptyCount
  <2>3. IsFiniteSet({a}) /\ Cardinality({a}) = 1
    <3>1. {} \cup {a} = {a} /\ a \notin {}
      OBVIOUS
    <3>2. IsFiniteSet({} \cup {a}) /\ Cardinality({} \cup {a}) = Cardinality({}) + 1
      BY <2>2, <3>1, Zenon DEF Finite, AddCount
    <3> QED
      BY <2>2, <3>1, <3>2
  <2>4. IsFiniteSet({a} \cup {b}) /\ Cardinality({a} \cup {b}) = 1 + 1
    BY <2>1, <2>3, Zenon DEF Finite, AddCount
  <2>5. Cardinality(({a} \cup {b}) \cup {c}) = (1 + 1) + 1
    BY <2>1, <2>4 DEF Finite, AddCount
  <2>6. ({a} \cup {b}) \cup {c} = {a, b, c}
    OBVIOUS
  <2> QED
    BY <2>1, <2>5, <2>6
<1> QED
  BY <1>1, OwnSets, SMT DEF DescOwned

\* The requests at the device are intact.
LEMMA RequestsAre == ASSUME Finite, VInv PROVE RequestsIntact
<1>1. VirtioType /\ Owned /\ Placed
  BY Zenon DEF VInv
<1>2. /\ Ahead(aidx, seen) \in Nat /\ Ahead(uidx, used_idx) \in Nat
      /\ Ahead(aidx, seen) = (aidx - seen) % IDX
      /\ Ahead(uidx, used_idx) = (uidx - used_idx) % IDX
  <2>1. aidx \in Index /\ seen \in Index /\ uidx \in Index /\ used_idx \in Index
    BY <1>1, Zenon DEF VirtioType
  <2> QED
    BY <2>1, RingRange, Sizes DEF Ahead
<1>3. IsFiniteSet(Offered) /\ Cardinality(Offered) = Ahead(aidx, seen)
  <2>1. avail \in [Desc -> Desc] /\ seen \in Index /\ Distinct(avail, seen, Ahead(aidx, seen))
    BY <1>1, Zenon DEF VirtioType, Placed
  <2> QED
    BY <1>2, <2>1, Counted DEF Offered
<1>4. Cardinality(Returned) = Ahead(uidx, used_idx)
  <2>1. /\ used \in [Desc -> Desc] /\ used_idx \in Index
        /\ Distinct(used, used_idx, Ahead(uidx, used_idx))
    BY <1>1, Zenon DEF VirtioType, Placed
  <2> QED
    BY <1>2, <2>1, Counted DEF Returned
<1>5. IsFiniteSet(busy) /\ Cardinality(busy) \in Nat
  BY <1>1, DescsFinite, Zenon DEF VirtioType, Finite, SubsetCount
<1>6. Cardinality(busy \cup Offered) = Cardinality(busy) + Ahead(aidx, seen)
  <2>1. busy \cap Offered = {}
    BY <1>1, Zenon DEF Placed
  <2>2. Cardinality(busy \cup Offered) = Cardinality(busy) + Cardinality(Offered)
    BY <1>3, <1>5, <2>1, Zenon DEF Finite, UnionCount
  <2> QED
    BY <1>3, <2>2, Zenon
<1>7. Cardinality(Waiting) + Cardinality(Completed) =
          Cardinality(busy) + ((aidx - seen) % IDX) + ((uidx - used_idx) % IDX)
  BY <1>2, <1>4, <1>5, <1>6, Places
<1>8. ASSUME NEW h \in Waiting \cup Completed
      PROVE  \E p \in Proc :
                 /\ p \in Active /\ onDisk[p] /\ idx[p][0] = h /\ info[h].b = p
                 /\ ops[h] = [write |-> write[p], sector |-> p]
                 /\ desc[desc[h].next].addr = p
                 /\ desc[desc[desc[h].next].next].addr = h
  <2>1. PICK p \in Active : onDisk[p] /\ idx[p][0] = h /\ Linked(p)
    BY Places, AtDevice
  <2> QED
    BY <2>1, Zenon DEF Linked, Active
<1>9. Waiting \cap Completed = {} /\ \A h \in Completed : info[h].status = "0"
  BY <1>1, Places, Zenon DEF Placed
<1>10. \A p \in Active : ~onDisk[p] => data[p] = block[p]
  BY <1>1, Zenon DEF Placed
<1> QED
  BY <1>7, <1>8, <1>9, <1>10, Zenon DEF RequestsIntact

-----------------------------------------------------------------------------
(* From the library *)

F == INSTANCE FiniteSetTheorems

\* The library counts as the modules do.
LEMMA SameCount ==
    /\ \A S : F!IsFiniteSet(S) <=> IsFiniteSet(S)
    /\ \A S : F!Cardinality(S) = Cardinality(S)
<1>1. ASSUME NEW S PROVE F!IsFiniteSet(S) <=> IsFiniteSet(S)
  BY Zenon DEF IsFiniteSet, F!IsFiniteSet
<1>2. ASSUME NEW S PROVE F!Cardinality(S) = Cardinality(S)
  BY Zenon DEF Cardinality, F!Cardinality
<1> QED
  BY <1>1, <1>2, Zenon

\* What the proofs above use of finite sets.
LEMMA FiniteHolds == Finite
<1>1. EmptyCount
  BY F!FS_EmptySet, SameCount, Zenon DEF EmptyCount
<1>2. SubsetCount
  BY F!FS_EmptySet, F!FS_CardinalityType, F!FS_Subset, SameCount, Zenon DEF SubsetCount
<1>3. AddCount
  BY F!FS_AddElement, SameCount, Zenon DEF AddCount
<1>4. RemoveCount
  BY F!FS_RemoveElement, SameCount, Zenon DEF RemoveCount
<1>5. UnionCount
  <2> SUFFICES ASSUME NEW S, NEW T, IsFiniteSet(S), IsFiniteSet(T), S \cap T = {}
               PROVE  /\ IsFiniteSet(S \cup T)
                      /\ Cardinality(S \cup T) = Cardinality(S) + Cardinality(T)
    BY Zenon DEF UnionCount
  <2>1. /\ IsFiniteSet(S \cup T)
        /\ Cardinality(S \cup T) = Cardinality(S) + Cardinality(T) - Cardinality(S \cap T)
    BY F!FS_Union, SameCount, ZenonT(60)
  <2>2. Cardinality(S) \in Nat /\ Cardinality(T) \in Nat /\ Cardinality(S \cap T) = 0
    BY <1>1, <1>2, Zenon DEF EmptyCount, SubsetCount
  <2> QED
    BY <2>1, <2>2
<1>6. RangeCount
  BY F!FS_Interval, SameCount DEF RangeCount
<1>7. ImageCount
  <2> SUFFICES ASSUME NEW S, NEW T, NEW f \in [S -> T], IsFiniteSet(S),
                      \A x, y \in S : f[x] = f[y] => x = y,
                      \A t \in T : \E x \in S : f[x] = t
               PROVE  IsFiniteSet(T) /\ Cardinality(T) = Cardinality(S)
    BY ZenonT(60) DEF ImageCount
  <2>1. f \in F!Bijection(S, T)
    BY Zenon DEF F!Bijection, F!Injection, F!Surjection, F!IsInjective
  <2> QED
    BY <2>1, F!FS_Bijection, SameCount, Zenon DEF F!ExistsBijection
<1>8. LeastOne
  <2> SUFFICES ASSUME NEW S \in SUBSET Nat, S # {} PROVE \E i \in S : \A j \in S : i <= j
    BY Zenon DEF LeastOne
  <2>1. PICK i \in S : \A j \in S : ~(<<j, i>> \in F!OpToRel(<, Nat))
    BY F!NatLessThanWellFounded, F!WFMin, Zenon
  <2>2. \A j \in S : ~(j < i)
    BY <2>1, Zenon DEF F!OpToRel
  <2>3. \A j \in S : i <= j
    BY <2>2
  <2> QED
    BY <2>3, Zenon
<1> QED
  BY <1>1, <1>2, <1>3, <1>4, <1>5, <1>6, <1>7, <1>8, ZenonT(60) DEF Finite

\* The invariant holds in every state.
LEMMA Inductive == Spec => []VInv
<1>1. Init => VInv
  BY InitInv, Rings, FiniteHolds
<1>2. VInv /\ [Next]_vars => VInv'
  BY NextInv, Rings, Three, FiniteHolds
<1> QED
  BY <1>1, <1>2, PTL DEF Spec

\* request done only when its data has been moved.
THEOREM QueueIsSound == Spec => []QueueSound
<1>1. VInv => QueueSound
  BY DescsOwned, RequestsAre, FiniteHolds DEF QueueSound
<1> QED
  BY <1>1, Inductive, PTL

\* left without an interrupt that will look at it.
THEOREM AllSeen == Spec => []NothingMissed
<1>1. Init => NothingMissed
  BY Zenon DEF Init, NothingMissed, SleepersWait, CompletionsSeen
<1>2. VInv /\ NothingMissed /\ [Next]_vars => NothingMissed'
  BY MissedStep, Counts, FiniteHolds
<1> QED
  BY <1>1, <1>2, Inductive, PTL DEF Spec


=============================================================================
