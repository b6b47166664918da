----------------------------- MODULE BcacheInv -----------------------------
(***************************************************************************)
(* Proofs about Bcache: for any number of processes, buffers, blocks and   *)
(* pins, the reference counts are exact, the list keeps every buffer, and  *)
(* the cache is a store of blocks that loses no change.                    *)
(***************************************************************************)
EXTENDS Bcache, Counting, TLAPS

Using == {"acquiresleep", "sleep", "read", "held", "brelse"}
Locking == {"read", "held"}

CacheType ==
    /\ blockno \in [Buf -> Block \cup {NoBlock}]
    /\ valid \in [Buf -> BOOLEAN]
    /\ data \in [Buf -> Val]
    /\ disk \in [Block -> Val]
    /\ refcnt \in [Buf -> Int]
    /\ lock \in [Buf -> Proc \cup {NIL}]
    /\ next \in [Node -> Node] /\ prev \in [Node -> Node]
    /\ pinned \in SUBSET Buf
    /\ pc \in [Proc -> Using \cup {"idle", "panic"}]
    /\ cur \in [Proc -> Buf \cup {NIL}]
    /\ dirty \in SUBSET Proc

\* No block is in two buffers.
OneCopy == \A b, c \in Buf : blockno[b] = blockno[c] /\ blockno[b] # NoBlock => b = c

\* Between bget() and brelse() a process has a buffer of its own block, locked
\* once acquiresleep() has returned.
Owned ==
    /\ \A p \in Proc : pc[p] \in Using <=> cur[p] # NIL
    /\ \A p \in Proc : pc[p] \in Using => blockno[cur[p]] \in Block
    /\ \A p \in Proc, b \in Buf : lock[b] = p <=> cur[p] = b /\ pc[p] \in Locking

\* A buffer that is in use by bread()'s caller has been read, one that is
\* changed is the caller's.
Filled ==
    /\ \A p \in Proc : pc[p] = "held" => valid[cur[p]]
    /\ \A p \in Proc : pc[p] = "read" => ~valid[cur[p]]
    /\ \A p \in dirty : pc[p] = "held"
    /\ \A b \in pinned : valid[b]
    /\ \A b \in Buf : valid[b] => blockno[b] \in Block

\* A buffer that nobody is changing and that the log has not pinned holds what
\* the disk holds, so that recycling it loses nothing.
Clean ==
    \A b \in Buf :
        valid[b] /\ b \notin pinned /\ lock[b] \notin dirty => data[b] = disk[blockno[b]]

\* A walk by prev that comes to every node once and ends where it began.
IsRing(s) ==
    /\ IsWalk(s)
    /\ \A i, j \in Node : s[i] = s[j] => i = j
    /\ \A n \in Node : \E i \in Node : s[i] = n
    /\ prev[s[NBUF]] = head
    /\ next[head] = s[NBUF]
    /\ \A i \in Buf : next[s[i]] = s[i - 1]

ListInv == \E s \in [Node -> Node] : IsRing(s)

Refs(b) == {p \in Proc : cur[p] = b}

BInv == CacheType /\ OneCopy /\ Owned /\ Filled /\ Clean /\ RefCounts /\ ListInv

\* What the steps take for granted about finite sets (FiniteHolds, below).
Finite == EmptyCount /\ SubsetCount /\ AddCount /\ RemoveCount /\ LeastOne

-----------------------------------------------------------------------------
(* The list *)

\* The list's nodes are the buffers and the head, which is 0.
LEMMA Nodes ==
    /\ NBUF \in Nat /\ NBUF >= 1
    /\ \A i : i \in Node <=> i \in Nat /\ i <= NBUF
    /\ \A i : i \in Buf <=> i \in Nat /\ 1 <= i /\ i <= NBUF
  BY BcacheAssumption DEF Node, Buf

\* Going by prev from bcache.head there is only one way.
LEMMA OneWalk ==
    ASSUME Finite, NEW s \in [Node -> Node], NEW t \in [Node -> Node], IsWalk(s), IsWalk(t)
    PROVE  s = t
<1> DEFINE Differ == {i \in Node : s[i] # t[i]}
<1>1. SUFFICES ASSUME Differ # {} PROVE FALSE
  OBVIOUS
<1>2. Differ \subseteq Nat
  BY Nodes
<1>3. PICK i \in Differ : \A j \in Differ : i <= j
  BY <1>1, <1>2, Zenon DEF Finite, LeastOne
<1>4. i \in Buf
  BY Nodes DEF IsWalk
<1>5. i - 1 \in Node /\ i - 1 \notin Differ
  BY <1>3, <1>4, Nodes
<1>6. QED
  BY <1>4, <1>5 DEF IsWalk

\* bget() comes to every buffer, and to nothing else.
LEMMA WalkIsRing ==
    ASSUME Finite, CacheType, ListInv
    PROVE  /\ FromEnd \in [Node -> Node]
           /\ IsRing(FromEnd)
<1>1. PICK s \in [Node -> Node] : IsRing(s)
  BY Zenon DEF ListInv
<1>2. FromEnd \in [Node -> Node] /\ IsWalk(FromEnd)
  BY <1>1 DEF FromEnd, IsRing
<1>3. FromEnd = s
  BY <1>1, <1>2, OneWalk, Zenon DEF IsRing
<1>4. QED
  BY <1>1, <1>2, <1>3

\* bget() does not take bcache.head for a buffer.
LEMMA WalkInBuf ==
    ASSUME Finite, CacheType, ListInv, NEW i \in Buf
    PROVE  FromEnd[i] \in Buf
<1>1. FromEnd \in [Node -> Node] /\ IsRing(FromEnd)
  BY WalkIsRing
<1>2. FromEnd[i] # FromEnd[0] /\ FromEnd[0] = 0 /\ FromEnd[i] \in Node
  BY <1>1, Nodes DEF IsRing, IsWalk, head
<1>3. QED
  BY <1>2, Nodes

\* brelse() moves the buffer at place k of the walk to its end; the others
\* close up.
LEMMA Moved ==
    ASSUME CacheType, ListInv, NEW b \in Buf, MoveToFront(b)
    PROVE  ListInv' /\ next' \in [Node -> Node] /\ prev' \in [Node -> Node]
<1> USE Nodes DEF head
<1>1. PICK s \in [Node -> Node] : IsRing(s)
  BY DEF ListInv
<1>2. PICK k \in Buf : s[k] = b
  BY <1>1 DEF IsRing, IsWalk
<1> DEFINE pos(i) == IF i < k THEN i ELSE IF i < NBUF THEN i + 1 ELSE k
           t == [i \in Node |-> s[pos(i)]]
           up == IF k = NBUF THEN 0 ELSE k + 1
           top == IF k = NBUF THEN NBUF - 1 ELSE NBUF
<1>3. /\ \A i, j \in Node : s[i] = s[j] <=> i = j
      /\ \A i \in Node : s[i] \in Node
      /\ s[0] = 0
      /\ \A i \in Node : prev[s[i]] = IF i = NBUF THEN 0 ELSE s[i + 1]
      /\ \A i \in Node : next[s[i]] = IF i = 0 THEN s[NBUF] ELSE s[i - 1]
  <2>1. \A i \in Node : i < NBUF => prev[s[i]] = s[i + 1]
    <3>1. TAKE i \in Node
    <3>2. HAVE i < NBUF
    <3>3. i + 1 \in Buf /\ (i + 1) - 1 = i
      BY <3>2
    <3>4. QED
      BY <1>1, <3>3 DEF IsRing, IsWalk
  <2>2. \A i \in Node : i # 0 => next[s[i]] = s[i - 1]
    BY <1>1 DEF IsRing
  <2>3. s[0] = 0 /\ prev[s[NBUF]] = 0 /\ next[0] = s[NBUF]
    BY <1>1 DEF IsRing, IsWalk
  <2>4. QED
    BY <1>1, <2>1, <2>2, <2>3 DEF IsRing
<1>4. /\ k \in Node /\ k # 0 /\ k - 1 \in Node /\ up \in Node /\ top \in Node
      /\ \A i \in Node : pos(i) \in Node
      /\ \A i, j \in Node : pos(i) = pos(j) => i = j
  OBVIOUS
<1> DEFINE l == Unlink(b)
<1>5. /\ l.n \in [Node -> Node] /\ l.p \in [Node -> Node]
      /\ l.n = [next EXCEPT ![s[up]] = s[k - 1]]
      /\ l.p = [prev EXCEPT ![s[k - 1]] = s[up]]
  <2>1. prev[b] = s[up] /\ next[b] = s[k - 1]
    BY <1>2, <1>3, <1>4
  <2>2. QED
    BY <1>3, <1>4, <2>1, Zenon DEF Unlink, CacheType
<1>6. /\ next' = [l.n EXCEPT ![b] = l.n[head], ![head] = b]
      /\ prev' = [l.p EXCEPT ![b] = head, ![l.n[head]] = b]
  BY DEF MoveToFront
<1>7. l.n[0] = s[top]
  <2>1. CASE k = NBUF
    BY <2>1, <1>3, <1>4, <1>5 DEF CacheType
  <2>2. CASE k # NBUF
    <3>1. s[up] # 0
      BY <2>2, <1>3, <1>4
    <3>2. l.n[0] = next[0]
      BY <3>1, <1>3, <1>4, <1>5, SMTT(60) DEF CacheType
    <3>3. QED
      BY <2>2, <3>2, <1>3, <1>4
  <2>3. QED
    BY <2>1, <2>2
<1>8. next' \in [Node -> Node] /\ prev' \in [Node -> Node]
  <2>1. b \in Node /\ 0 \in Node /\ l.n[0] \in Node
    BY <1>3, <1>4, <1>7
  <2> HIDE DEF l
  <2>2. QED
    BY <2>1, <1>5, <1>6, Zenon
<1>9. \A j \in Node : next'[s[j]] = IF j = 0 THEN s[k] ELSE IF j = k THEN s[top]
                                    ELSE IF j = up THEN s[k - 1] ELSE s[j - 1]
  <2>1. TAKE j \in Node
  <2>2. next'[s[j]] = IF s[j] = 0 THEN b ELSE IF s[j] = b THEN s[top] ELSE l.n[s[j]]
    BY <1>3, <1>5, <1>6, <1>7, Zenon
  <2>3. l.n[s[j]] = IF s[j] = s[up] THEN s[k - 1] ELSE next[s[j]]
    BY <1>3, <1>5 DEF CacheType
  <2>4. s[j] = 0 <=> j = 0
    BY <1>3
  <2>5. QED
    BY <2>2, <2>3, <2>4, <1>2, <1>3, <1>4
<1>10. \A j \in Node : prev'[s[j]] = IF j = top THEN s[k] ELSE IF j = k THEN 0
                                     ELSE IF j = k - 1 THEN s[up]
                                     ELSE IF j = NBUF THEN 0 ELSE s[j + 1]
  <2>1. TAKE j \in Node
  <2>2. prev'[s[j]] = IF s[j] = s[top] THEN b ELSE IF s[j] = b THEN 0 ELSE l.p[s[j]]
    BY <1>3, <1>4, <1>5, <1>6, <1>7, Zenon
  <2>3. l.p[s[j]] = IF s[j] = s[k - 1] THEN s[up] ELSE prev[s[j]]
    BY <1>3, <1>5, SMTT(60) DEF CacheType
  <2>4. QED
    BY <2>2, <2>3, <1>2, <1>3, <1>4, SMTT(60)
<1>11. /\ t \in [Node -> Node]
       /\ \A i, j \in Node : t[i] = t[j] => i = j
       /\ t[0] = 0 /\ t[NBUF] = s[k]
  BY <1>3, <1>4
<1>12. \A n \in Node : \E i \in Node : t[i] = n
  <2>1. TAKE n \in Node
  <2>2. PICK j \in Node : s[j] = n
    BY <1>1 DEF IsRing
  <2> DEFINE i == IF j < k THEN j ELSE IF j = k THEN NBUF ELSE j - 1
  <2>3. i \in Node /\ pos(i) = j
    OBVIOUS
  <2>4. QED
    BY <2>2, <2>3
<1>13. \A i \in Buf : t[i] = prev'[t[i - 1]]
  <2>1. TAKE i \in Buf
  <2>2. i \in Node /\ i - 1 \in Node /\ t[i] = s[pos(i)] /\ t[i - 1] = s[pos(i - 1)]
    OBVIOUS
  <2>3. prev'[t[i - 1]] = prev'[s[pos(i - 1)]] /\ pos(i - 1) \in Node
    BY <2>2, <1>4, Zenon
  <2> HIDE DEF t
  <2>4. CASE i < k
    BY <2>2, <2>3, <2>4, <1>10
  <2>5. CASE i >= k /\ i < NBUF
    BY <2>2, <2>3, <2>5, <1>10, SMTT(60)
  <2>6. CASE i = NBUF
    BY <2>2, <2>3, <2>6, <1>10
  <2>7. QED
    BY <2>4, <2>5, <2>6
<1>14. prev'[t[NBUF]] = 0 /\ next'[0] = t[NBUF]
  BY <1>3, <1>4, <1>9, <1>10, <1>11, SMTT(60)
<1>15. \A i \in Buf : next'[t[i]] = t[i - 1]
  <2>1. TAKE i \in Buf
  <2>2. i \in Node /\ i - 1 \in Node /\ t[i] = s[pos(i)] /\ t[i - 1] = s[pos(i - 1)]
    OBVIOUS
  <2>3. next'[t[i]] = next'[s[pos(i)]] /\ pos(i) \in Node
    BY <2>2, <1>4, Zenon
  <2> HIDE DEF t
  <2>4. CASE i < k
    BY <2>2, <2>3, <2>4, <1>9
  <2>5. CASE i >= k /\ i < NBUF
    BY <2>2, <2>3, <2>5, <1>9
  <2>6. CASE i = NBUF
    BY <2>2, <2>3, <2>6, <1>9
  <2>7. QED
    BY <2>4, <2>5, <2>6
<1>16. IsRing(t)'
  BY <1>11, <1>12, <1>13, <1>14, <1>15, Zenon DEF IsRing, IsWalk
<1>17. QED
  BY <1>8, <1>11, <1>16, Zenon DEF ListInv

-----------------------------------------------------------------------------
(* The references *)

\* There are finitely many references.
LEMMA RefsFinite ==
    ASSUME Finite, NEW b
    PROVE  IsFiniteSet(Refs(b)) /\ Cardinality(Refs(b)) \in Nat
<1>1. Refs(b) \in SUBSET Proc
  BY Zenon DEF Refs
<1>2. QED
  BY <1>1, BcacheAssumption, Zenon DEF Finite, SubsetCount

\* bget() gives a process a reference, and no other buffer one ...
LEMMA RefTaken ==
    ASSUME Finite, CacheType, NEW p \in Proc, cur[p] = NIL, NEW b \in Buf,
           cur' = [cur EXCEPT ![p] = b], NEW c \in Buf
    PROVE  Cardinality(Refs(c)') = IF c = b THEN Cardinality(Refs(c)) + 1
                                            ELSE Cardinality(Refs(c))
<1>1. NIL \notin Buf
  BY BcacheAssumption DEF Buf
<1>2. CASE c = b
  <2>1. Refs(c)' = Refs(c) \cup {p} /\ p \notin Refs(c)
    BY <1>1, <1>2 DEF Refs, CacheType
  <2>2. QED
    BY <1>2, <2>1, RefsFinite, Zenon DEF Finite, AddCount
<1>3. CASE c # b
  <2>1. Refs(c)' = Refs(c)
    BY <1>1, <1>3, Zenon DEF Refs, CacheType
  <2>2. QED
    BY <1>3, <2>1, Zenon
<1>4. QED
  BY <1>2, <1>3

\* ... and brelse() takes one away.
LEMMA RefDropped ==
    ASSUME Finite, CacheType, NEW p \in Proc, cur[p] \in Buf,
           cur' = [cur EXCEPT ![p] = NIL], NEW c \in Buf
    PROVE  Cardinality(Refs(c)') = IF c = cur[p] THEN Cardinality(Refs(c)) - 1
                                                 ELSE Cardinality(Refs(c))
<1>1. NIL \notin Buf
  BY BcacheAssumption, Zenon DEF Buf
<1>2. CASE c = cur[p]
  <2>1. Refs(c)' = Refs(c) \ {p} /\ p \in Refs(c)
    BY <1>1, <1>2, Zenon DEF Refs, CacheType
  <2>2. QED
    BY <1>2, <2>1, RefsFinite, Zenon DEF Finite, RemoveCount
<1>3. CASE c # cur[p]
  <2>1. Refs(c)' = Refs(c)
    BY <1>1, <1>3, Zenon DEF Refs, CacheType
  <2>2. QED
    BY <1>3, <2>1
<1>4. QED
  BY <1>2, <1>3, Zenon

\* A buffer that bget() finds unused is nobody's: not in use, not waited for,
\* not locked and not in the log.
LEMMA UnusedIsFree ==
    ASSUME Finite, BInv, NEW b \in Buf, refcnt[b] = 0
    PROVE  /\ \A p \in Proc : cur[p] # b
           /\ b \notin pinned
           /\ lock[b] = NIL
<1>1. Cardinality(Refs(b)) + (IF b \in pinned THEN 1 ELSE 0) = 0
  BY Zenon DEF BInv, RefCounts, Refs
<1>2. Cardinality(Refs(b)) = 0 /\ b \notin pinned
  BY <1>1, RefsFinite
<1>3. Refs(b) = {}
  BY <1>2, RefsFinite, Zenon DEF Finite, SubsetCount
<1>4. \A p \in Proc : cur[p] # b
  BY <1>3, Zenon DEF Refs
<1>5. QED
  BY <1>2, <1>4 DEF BInv, CacheType, Owned

\* What bget() recycles is an unused buffer.
LEMMA Recycled ==
    ASSUME Finite, BInv, NEW i \in Unused
    PROVE  FromEnd[i] \in Buf /\ refcnt[FromEnd[i]] = 0
  BY WalkInBuf, Zenon DEF BInv, Unused

\* A step that leaves the links alone leaves the list in order.
LEMMA ListKept ==
    ASSUME ListInv, UNCHANGED list
    PROVE  ListInv'
  BY DEF ListInv, IsRing, IsWalk, list

\* The reference counts, by the sets of references.
LEMMA CountsAre ==
    RefCounts <=> \A b \in Buf : refcnt[b] = Cardinality(Refs(b))
                                             + (IF b \in pinned THEN 1 ELSE 0)
  BY Zenon DEF RefCounts, Refs

\* The references of a buffer, counted.
LEMMA CountIs ==
    ASSUME Finite, RefCounts, NEW b \in Buf
    PROVE  /\ Cardinality(Refs(b)) \in Nat
           /\ refcnt[b] = Cardinality(Refs(b)) + (IF b \in pinned THEN 1 ELSE 0)
  BY RefsFinite, CountsAre, Zenon

\* A step that leaves the references alone keeps the counts exact.
LEMMA CountsKept ==
    ASSUME RefCounts, UNCHANGED <<refcnt, cur, pinned>>
    PROVE  RefCounts'
  BY DEF RefCounts

-----------------------------------------------------------------------------
(* The invariant *)

\* binit() puts every buffer, unused, into the list.
LEMMA InitInv == ASSUME Finite, Init PROVE BInv
<1> USE BcacheAssumption
<1>1. CacheType
  <2>1. next \in [Node -> Node] /\ prev \in [Node -> Node]
    BY Nodes DEF Init, head
  <2>2. QED
    BY <2>1 DEF Init, CacheType, Using
<1>2. OneCopy /\ Filled /\ Clean
  BY DEF Init, OneCopy, Filled, Clean
<1>3. Owned
  BY DEF Init, Owned, Using, Locking, Buf
<1>4. RefCounts
  <2>1. \A b \in Buf : Refs(b) = {}
    BY Zenon DEF Init, Refs, Buf
  <2>2. \A b \in Buf : refcnt[b] = 0 /\ b \notin pinned
    BY Zenon DEF Init
  <2>3. Cardinality({}) = 0
    BY Zenon DEF Finite, EmptyCount
  <2>4. \A b \in Buf : refcnt[b] = Cardinality(Refs(b)) + (IF b \in pinned THEN 1 ELSE 0)
    BY <2>1, <2>2, <2>3
  <2>5. QED
    BY <2>4, CountsAre, Zenon
<1>5. ListInv
  <2> DEFINE s == [i \in Node |-> i]
  <2>1. s \in [Node -> Node] /\ \A i \in Buf : i - 1 \in Node /\ i \in Node
    BY Nodes
  <2>2. IsWalk(s)
    <3>1. \A i \in Buf : s[i] = i /\ s[i - 1] = i - 1 /\ prev[i - 1] = i
      BY <2>1, Nodes DEF Init
    <3>2. QED
      BY <3>1, Nodes DEF IsWalk, head
  <2>3. \A n \in Node : s[n] = n
    BY Zenon
  <2>4. prev[NBUF] = 0 /\ next[0] = NBUF /\ \A i \in Buf : next[i] = i - 1
    BY Nodes DEF Init, head
  <2> HIDE DEF s
  <2>5. IsRing(s)
    BY <2>1, <2>2, <2>3, <2>4, Nodes DEF IsRing, head
  <2>6. QED
    BY <2>1, <2>5, Zenon DEF ListInv
<1>6. QED
  BY <1>1, <1>2, <1>3, <1>4, <1>5, Zenon DEF BInv

\* What a process that uses a buffer has.
LEMMA UserHas ==
    ASSUME BInv, NEW p \in Proc, pc[p] \in Using
    PROVE  /\ cur[p] \in Buf /\ blockno[cur[p]] \in Block
           /\ pc[p] \in Locking => lock[cur[p]] = p
  BY BcacheAssumption DEF BInv, CacheType, Owned, Buf

\* bget() of a block that is cached.
LEMMA HitStep ==
    ASSUME Finite, BInv, NEW p \in Proc, NEW k \in Block, BgetHit(p, k)
    PROVE  BInv'
<1> USE DEF BInv
<1>1. PICK b \in Buf : /\ blockno[b] = k
                       /\ refcnt' = [refcnt EXCEPT ![b] = @ + 1]
                       /\ cur' = [cur EXCEPT ![p] = b]
  BY Zenon DEF BgetHit, Cached
<1>2. /\ pc[p] = "idle" /\ pc' = [pc EXCEPT ![p] = "acquiresleep"] /\ cur[p] = NIL
      /\ UNCHANGED <<blockno, valid, data, list, lock, pinned, disk, dirty>>
  BY Zenon DEF BgetHit, Goto, Owned, Using
<1> USE <1>2
<1>3. CacheType'
  BY <1>1 DEF CacheType, Using, list
<1>4. OneCopy'
  BY Zenon DEF OneCopy
<1>5. Owned'
  BY <1>1, BcacheAssumption DEF Owned, CacheType, Using, Locking, Buf
<1>6. Filled'
  BY <1>1, SMTT(60) DEF Filled, CacheType
<1>7. Clean'
  BY Zenon DEF Clean
<1>8. RefCounts'
  <2>1. \A c \in Buf : refcnt'[c] = IF c = b THEN refcnt[c] + 1 ELSE refcnt[c]
    BY <1>1, Zenon DEF CacheType
  <2>2. \A c \in Buf : refcnt'[c] = Cardinality(Refs(c)') + (IF c \in pinned THEN 1 ELSE 0)
    <3>1. TAKE c \in Buf
    <3>2. Cardinality(Refs(c)') = IF c = b THEN Cardinality(Refs(c)) + 1
                                           ELSE Cardinality(Refs(c))
      BY <1>1, RefTaken, Zenon
    <3>3. QED
      BY <2>1, <3>2, CountIs
  <2>3. QED
    BY <2>2, Zenon DEF RefCounts, Refs
<1>9. ListInv'
  BY ListKept, Zenon
<1>10. QED
  BY <1>3, <1>4, <1>5, <1>6, <1>7, <1>8, <1>9, Zenon

\* bget() of a block that is not cached: the buffer it recycles was nobody's,
\* and what it held is on the disk.
LEMMA MissStep ==
    ASSUME Finite, BInv, NEW p \in Proc, NEW k \in Block, BgetMiss(p, k)
    PROVE  BInv'
<1> USE DEF BInv
<1>1. PICK b \in Buf : /\ refcnt[b] = 0
                       /\ Recycle(b, k)
                       /\ cur' = [cur EXCEPT ![p] = b]
  BY Recycled, Zenon DEF BgetMiss
<1>2. /\ pc[p] = "idle" /\ pc' = [pc EXCEPT ![p] = "acquiresleep"] /\ cur[p] = NIL
      /\ UNCHANGED <<data, list, lock, pinned, disk, dirty>>
      /\ \A c \in Buf : blockno[c] # k
  BY Zenon DEF BgetMiss, Goto, Owned, Using, Cached
<1> USE <1>2
<1>3. /\ blockno' = [blockno EXCEPT ![b] = k]
      /\ valid' = [valid EXCEPT ![b] = FALSE]
      /\ refcnt' = [refcnt EXCEPT ![b] = 1]
  BY <1>1, Zenon DEF Recycle
<1>4. /\ \A q \in Proc : cur[q] # b
      /\ b \notin pinned
      /\ lock[b] = NIL
  BY <1>1, UnusedIsFree, Zenon
<1>5. CacheType'
  BY <1>1, <1>3, SMTT(60) DEF CacheType, Using, list
<1>6. OneCopy'
  BY <1>3, Zenon DEF OneCopy, CacheType
<1>7. Owned'
  BY <1>1, <1>3, <1>4, BcacheAssumption, SMTT(60) DEF Owned, CacheType, Using, Locking, Buf
<1>8. Filled'
  <2>1. ASSUME NEW q \in Proc, pc'[q] \in Locking
        PROVE  cur'[q] = cur[q] /\ cur[q] # b /\ cur[q] \in Buf /\ pc'[q] = pc[q]
    <3>1. q # p /\ pc'[q] = pc[q] /\ cur'[q] = cur[q]
      BY <2>1, <1>1, Zenon DEF CacheType, Locking
    <3>2. cur[q] \in Buf
      BY <2>1, <3>1, UserHas, Zenon DEF Using, Locking
    <3>3. QED
      BY <1>4, <3>1, <3>2, Zenon
  <2>2. QED
    BY <2>1, <1>1, <1>3, <1>4, SMTT(60) DEF Filled, CacheType, Locking
<1>9. Clean'
  <2>1. ~valid'[b] /\ \A c \in Buf : c # b => valid'[c] = valid[c] /\ blockno'[c] = blockno[c]
    BY <1>3, Zenon DEF CacheType
  <2>2. QED
    BY <2>1 DEF Clean
<1>10. RefCounts'
  <2>1. \A c \in Buf : refcnt'[c] = IF c = b THEN 1 ELSE refcnt[c]
    BY <1>3, Zenon DEF CacheType
  <2>2. \A c \in Buf : refcnt[c] = Cardinality(Refs(c)) + (IF c \in pinned THEN 1 ELSE 0)
    BY CountIs, Zenon
  <2>3. \A c \in Buf : refcnt'[c] = Cardinality(Refs(c)') + (IF c \in pinned THEN 1 ELSE 0)
    <3>1. TAKE c \in Buf
    <3>2. Cardinality(Refs(c)') = IF c = b THEN Cardinality(Refs(c)) + 1
                                           ELSE Cardinality(Refs(c))
      BY <1>1, RefTaken, Zenon
    <3>3. QED
      BY <2>1, <2>2, <3>2, <1>1, <1>4, RefsFinite, SMTT(60)
  <2>4. QED
    BY <2>3, Zenon DEF RefCounts, Refs
<1>11. ListInv'
  BY ListKept, Zenon
<1>12. QED
  BY <1>5, <1>6, <1>7, <1>8, <1>9, <1>10, <1>11, Zenon

\* acquiresleep(): the lock is taken, or the process sleeps.
LEMMA AcquireStep ==
    ASSUME BInv, NEW p \in Proc, AcquireSleep(p)
    PROVE  BInv'
<1> USE DEF BInv
<1> DEFINE b == cur[p]
<1>1. /\ pc[p] = "acquiresleep" /\ b \in Buf
      /\ UNCHANGED <<bufs, pinned, disk, cur, dirty>>
  BY UserHas DEF AcquireSleep, Using
<1>2. UNCHANGED <<blockno, valid, data, refcnt, list>>
  BY <1>1, Zenon DEF bufs
<1>3. OneCopy' /\ RefCounts' /\ ListInv'
  <2>1. OneCopy'
    BY <1>2, Zenon DEF OneCopy
  <2>2. RefCounts' /\ ListInv'
    BY <1>1, <1>2, CountsKept, ListKept, Zenon
  <2>3. QED
    BY <2>1, <2>2, Zenon
<1>4. CASE lock[b] # NIL
  <2>1. pc' = [pc EXCEPT ![p] = "sleep"] /\ UNCHANGED lock
    BY <1>4, Zenon DEF AcquireSleep, Goto
  <2>2. CacheType' /\ Clean'
    BY <1>1, <1>2, <2>1, Zenon DEF CacheType, Clean, Using, list
  <2>3. Owned'
    BY <1>1, <1>2, <2>1 DEF CacheType, Owned, Using, Locking
  <2>4. Filled'
    BY <1>1, <1>2, <2>1 DEF CacheType, Filled
  <2>5. QED
    BY <1>3, <2>2, <2>3, <2>4, Zenon
<1>5. CASE lock[b] = NIL
  <2>1. /\ lock' = [lock EXCEPT ![b] = p]
        /\ pc' = [pc EXCEPT ![p] = IF valid[b] THEN "held" ELSE "read"]
    BY <1>5, Zenon DEF AcquireSleep, Goto
  <2>2. CacheType'
    BY <1>1, <1>2, <2>1, Zenon DEF CacheType, Using, list
  <2>3. Owned'
    BY <1>1, <1>2, <1>5, <2>1, BcacheAssumption, SMTT(60) DEF CacheType, Owned, Using, Locking
  <2>4. Filled'
    <3>1. \A q \in Proc : pc'[q] = IF q = p THEN IF valid[b] THEN "held" ELSE "read" ELSE pc[q]
      BY <2>1, Zenon DEF CacheType
    <3>2. dirty \subseteq Proc
      BY Zenon DEF CacheType
    <3> HIDE DEF b
    <3>3. QED
      BY <1>1, <1>2, <3>1, <3>2, Zenon DEF Filled, b
  <2>5. Clean'
    <3>1. p \notin dirty /\ NIL \notin dirty
      BY <1>1, BcacheAssumption, Zenon DEF Filled, CacheType
    <3>2. \A c \in Buf : c # b => lock'[c] = lock[c]
      BY <2>1, Zenon DEF CacheType
    <3>3. \A c \in Buf : lock'[c] \notin dirty => lock[c] \notin dirty
      BY <1>5, <3>1, <3>2, ZenonT(60)
    <3>4. QED
      BY <1>1, <1>2, <3>3, Zenon DEF Clean
  <2>6. QED
    BY <1>3, <2>2, <2>3, <2>4, <2>5, Zenon
<1>6. QED
  BY <1>4, <1>5, Zenon

\* bread() fills the buffer from the disk.
LEMMA ReadStep ==
    ASSUME BInv, NEW p \in Proc, DiskRead(p)
    PROVE  BInv'
<1> USE DEF BInv
<1> DEFINE b == cur[p]
<1>1. /\ pc[p] = "read" /\ b \in Buf /\ blockno[b] \in Block /\ lock[b] = p
      /\ pc' = [pc EXCEPT ![p] = "held"]
      /\ data' = [data EXCEPT ![b] = disk[blockno[b]]]
      /\ valid' = [valid EXCEPT ![b] = TRUE]
      /\ UNCHANGED <<blockno, refcnt, list, lock, pinned, disk, cur, dirty>>
  BY UserHas, Zenon DEF DiskRead, Goto, Using, Locking
<1> USE <1>1
<1>2. OneCopy' /\ RefCounts' /\ ListInv'
  BY CountsKept, ListKept, Zenon DEF OneCopy
<1>3. CacheType'
  BY Zenon DEF CacheType, Using, list
<1>4. Owned'
  BY SMTT(60) DEF CacheType, Owned, Using, Locking
<1>5. Filled'
  <2>1. \A q \in Proc : pc[q] \in Locking /\ cur[q] = b => q = p
    BY Zenon DEF Owned
  <2>2. QED
    BY <2>1, SMTT(60) DEF CacheType, Filled, Locking
<1>6. Clean'
  BY DEF CacheType, Clean
<1>7. QED
  BY <1>2, <1>3, <1>4, <1>5, <1>6

\* What the holder of a buffer does to it: writing into it, bwrite(), bpin()
\* and bunpin().
LEMMA UseStep ==
    ASSUME Finite, BInv, NEW p \in Proc, Use(p)
    PROVE  BInv'
<1> USE DEF BInv
<1> DEFINE b == cur[p]
<1>1. /\ pc[p] = "held" /\ b \in Buf /\ blockno[b] \in Block /\ lock[b] = p /\ valid[b]
      /\ UNCHANGED <<blockno, valid, list, lock, pc, cur>>
  <2>1. /\ pc[p] = "held"
        /\ UNCHANGED <<blockno, valid, list, lock, pc, cur>>
    BY Zenon DEF Use, Change, Bwrite, Bpin, Bunpin, bufs, list
  <2>2. QED
    BY <2>1, UserHas, Zenon DEF Using, Locking, Filled
<1>2. OneCopy' /\ ListInv' /\ Owned'
  <2>1. OneCopy' /\ Owned'
    BY <1>1 DEF OneCopy, Owned
  <2>2. ListInv'
    BY <1>1, ListKept, Zenon
  <2>3. QED
    BY <2>1, <2>2, Zenon
<1>3. \A c \in Buf : c # b => blockno[c] # blockno[b]
  BY <1>1, BcacheAssumption, Zenon DEF OneCopy
<1>4. ASSUME NEW v \in Val, Change(p, v) PROVE BInv'
  <2>1. /\ data' = [data EXCEPT ![b] = v]
        /\ dirty' = dirty \cup {p}
        /\ UNCHANGED <<refcnt, pinned, disk>>
    BY <1>1, <1>4, Zenon DEF Change
  <2>2. CacheType'
    BY <1>1, <2>1, Zenon DEF CacheType, list
  <2>3. Filled'
    BY <1>1, <2>1, Zenon DEF Filled
  <2>4. Clean'
    BY <1>1, <2>1, Zenon DEF CacheType, Clean
  <2>5. RefCounts'
    BY <1>1, <2>1, CountsKept, Zenon
  <2>6. QED
    BY <1>2, <2>2, <2>3, <2>4, <2>5, Zenon
<1>5. ASSUME Bwrite(p) PROVE BInv'
  <2>1. /\ disk' = [disk EXCEPT ![blockno[b]] = data[b]]
        /\ dirty' = dirty \ {p}
        /\ UNCHANGED <<refcnt, data, pinned>>
    BY <1>1, <1>5, Zenon DEF Bwrite, bufs
  <2>2. CacheType' /\ Filled'
    <3>1. CacheType'
      BY <1>1, <2>1 DEF CacheType, list
    <3>2. Filled'
      BY <1>1, <2>1, Zenon DEF Filled
    <3>3. QED
      BY <3>1, <3>2, Zenon
  <2>3. Clean'
    <3>1. ASSUME NEW c \in Buf, c # b, valid[c], c \notin pinned, lock[c] \notin dirty'
          PROVE  data'[c] = disk'[blockno[c]]
      <4>1. lock[c] # p
        BY <1>1, <3>1, Zenon DEF Owned
      <4>2. lock[c] \notin dirty
        BY <1>1, <4>1, <3>1, <2>1
      <4>3. blockno[c] \in Block /\ blockno[c] # blockno[b]
        BY <1>1, <3>1, <1>3, Zenon DEF Filled
      <4>4. QED
        BY <1>1, <3>1, <4>2, <4>3, <2>1, Zenon DEF Clean, CacheType
    <3>2. data'[b] = disk'[blockno[b]]
      BY <1>1, <2>1, Zenon DEF CacheType
    <3>3. QED
      BY <1>1, <2>1, <3>1, <3>2, Zenon DEF Clean
  <2>4. RefCounts'
    BY <1>1, <2>1, CountsKept, Zenon
  <2>5. QED
    BY <1>2, <2>2, <2>3, <2>4, Zenon
<1>6. ASSUME Bpin(p) PROVE BInv'
  <2>1. /\ dirty' = dirty \ {p} /\ pinned' = pinned \cup {b}
        /\ UNCHANGED <<data, disk>>
        /\ refcnt' \in [Buf -> Int]
        /\ \A c \in Buf : refcnt'[c] = IF c = b /\ b \notin pinned
                                       THEN refcnt[c] + 1 ELSE refcnt[c]
    BY <1>1, <1>6, SMTT(60) DEF Bpin, CacheType
  <2>2. CacheType' /\ Filled'
    BY <1>1, <2>1, SMTT(60) DEF CacheType, Filled, list
  <2>3. Clean'
    <3>1. \A c \in Buf : c \notin pinned' /\ lock[c] \notin dirty' => lock[c] \notin dirty
      BY <1>1, <2>1, Zenon DEF Owned
    <3>2. QED
      BY <1>1, <2>1, <3>1, Zenon DEF Clean
  <2>4. RefCounts'
    <3>1. \A c \in Buf : Refs(c)' = Refs(c)
      BY <1>1 DEF Refs
    <3>2. \A c \in Buf : /\ Cardinality(Refs(c)) \in Nat
                         /\ refcnt[c] = Cardinality(Refs(c)) + (IF c \in pinned THEN 1 ELSE 0)
      BY CountIs, Zenon
    <3>3. \A c \in Buf : refcnt'[c] = Cardinality(Refs(c)')
                                      + (IF c \in pinned' THEN 1 ELSE 0)
      BY <1>1, <2>1, <3>1, <3>2
    <3>4. QED
      BY <1>1, <3>3, Zenon DEF RefCounts, Refs
  <2>5. QED
    BY <1>2, <2>2, <2>3, <2>4, Zenon
<1>7. ASSUME Bunpin(p) PROVE BInv'
  <2>1. /\ pinned' = pinned \ {b} /\ b \in pinned
        /\ disk[blockno[b]] = data[b]
        /\ UNCHANGED <<data, disk, dirty>>
        /\ refcnt' \in [Buf -> Int]
        /\ \A c \in Buf : refcnt'[c] = IF c = b THEN refcnt[c] - 1 ELSE refcnt[c]
    BY <1>1, <1>7, SMTT(60) DEF Bunpin, CacheType
  <2>2. CacheType' /\ Filled'
    <3>1. CacheType'
      BY <1>1, <2>1 DEF CacheType, list
    <3>2. Filled'
      BY <1>1, <2>1, ZenonT(60) DEF Filled
    <3>3. QED
      BY <3>1, <3>2, Zenon
  <2>3. Clean'
    <3>1. \A c \in Buf : c \notin pinned' => c \notin pinned \/ c = b
      BY <1>1, <2>1, Zenon
    <3>2. QED
      BY <1>1, <2>1, <3>1 DEF Clean
  <2>4. RefCounts'
    <3>1. \A c \in Buf : Refs(c)' = Refs(c)
      BY <1>1 DEF Refs
    <3>2. \A c \in Buf : /\ Cardinality(Refs(c)) \in Nat
                         /\ refcnt[c] = Cardinality(Refs(c)) + (IF c \in pinned THEN 1 ELSE 0)
      BY CountIs, Zenon
    <3>3. \A c \in Buf : refcnt'[c] = Cardinality(Refs(c)')
                                      + (IF c \in pinned' THEN 1 ELSE 0)
      BY <1>1, <2>1, <3>1, <3>2
    <3>4. QED
      BY <1>1, <3>3, Zenon DEF RefCounts, Refs
  <2>5. QED
    BY <1>2, <2>2, <2>3, <2>4, Zenon
<1>8. QED
  BY <1>4, <1>5, <1>6, <1>7, Zenon DEF Use

\* brelse(): the lock goes back first, and whoever sleeps on it tries again.
LEMMA ReleaseStep ==
    ASSUME BInv, NEW p \in Proc, ReleaseSleep(p)
    PROVE  BInv'
<1> USE DEF BInv
<1> DEFINE b == cur[p]
<1>1. /\ pc[p] = "held" /\ b \in Buf /\ lock[b] = p /\ p \notin dirty
      /\ lock' = [lock EXCEPT ![b] = NIL]
      /\ pc' = Waken([pc EXCEPT ![p] = "brelse"], b)
      /\ UNCHANGED <<blockno, valid, data, refcnt, list, pinned, disk, cur, dirty>>
  BY UserHas, Zenon DEF ReleaseSleep, Using, Locking, bufs
<1>2. OneCopy' /\ RefCounts' /\ ListInv'
  BY <1>1, CountsKept, ListKept, Zenon DEF OneCopy
<1>3. /\ pc' \in [Proc -> Using \cup {"idle", "panic"}]
      /\ \A q \in Proc : /\ pc'[q] \in Using <=> pc[q] \in Using
                         /\ pc'[q] \in Locking <=> pc[q] \in Locking /\ q # p
                         /\ pc'[q] \in Locking => pc'[q] = pc[q]
  BY <1>1, Zenon DEF Waken, CacheType, Using, Locking
<1>4. CacheType'
  BY <1>1, <1>3, Zenon DEF CacheType, list
<1>5. Owned'
  <2>1. ASSUME NEW q \in Proc, NEW c \in Buf
        PROVE  lock'[c] = q <=> cur[q] = c /\ pc'[q] \in Locking
    <3>1. lock[c] = q <=> cur[q] = c /\ pc[q] \in Locking
      BY Zenon DEF Owned
    <3>2. CASE c = b
      <4>1. lock'[c] = NIL /\ NIL # q
        BY <1>1, <3>2, BcacheAssumption, Zenon DEF CacheType
      <4>2. QED
        BY <1>1, <1>3, <3>1, <3>2, <4>1, Zenon
    <3>3. CASE c # b
      BY <1>1, <1>3, <3>1, <3>3, Zenon DEF CacheType
    <3>4. QED
      BY <3>2, <3>3
  <2>2. \A q \in Proc : pc'[q] \in Using <=> cur[q] # NIL
    BY <1>3, Zenon DEF Owned
  <2>3. \A q \in Proc : pc'[q] \in Using => blockno[cur[q]] \in Block
    BY <1>3, Zenon DEF Owned
  <2>4. UNCHANGED <<cur, blockno>>
    BY <1>1, Zenon
  <2>5. QED
    BY <2>1, <2>2, <2>3, <2>4, Zenon DEF Owned
<1>6. Filled'
  <2>1. \A q \in Proc : /\ pc'[q] = "held" => pc[q] = "held"
                        /\ pc'[q] = "read" => pc[q] = "read"
    BY <1>3, Zenon DEF Locking
  <2>2. \A q \in dirty : q \in Proc /\ q # p /\ pc[q] \in Locking /\ pc[q] = "held"
    BY <1>1 DEF CacheType, Filled, Locking
  <2>3. \A q \in dirty : pc'[q] = "held"
    BY <1>3, <2>2, ZenonT(60)
  <2>4. QED
    BY <1>1, <2>1, <2>3, Zenon DEF Filled
<1>7. Clean'
  <2>1. \A c \in Buf : lock[c] \in dirty => lock'[c] = lock[c]
    BY <1>1, Zenon DEF CacheType
  <2>2. UNCHANGED <<blockno, valid, data, pinned, disk, dirty>>
    BY <1>1, Zenon
  <2>3. QED
    BY <2>1, <2>2, Zenon DEF Clean
<1>8. QED
  BY <1>2, <1>4, <1>5, <1>6, <1>7, Zenon

\* ... then the reference, and a buffer without any goes to the front.
LEMMA DropStep ==
    ASSUME Finite, BInv, NEW p \in Proc, DropRef(p)
    PROVE  BInv'
<1> USE DEF BInv
<1> DEFINE b == cur[p]
<1>1. /\ pc[p] = "brelse" /\ b \in Buf
      /\ refcnt' = [refcnt EXCEPT ![b] = @ - 1]
      /\ cur' = [cur EXCEPT ![p] = NIL]
      /\ pc' = [pc EXCEPT ![p] = "idle"]
      /\ UNCHANGED <<blockno, valid, data, lock, pinned, disk, dirty>>
  BY UserHas, Zenon DEF DropRef, Goto, Using
<1> USE <1>1
<1>2. ListInv' /\ next' \in [Node -> Node] /\ prev' \in [Node -> Node]
  <2>1. CASE refcnt[b] = 1
    <3>1. MoveToFront(b)
      BY <2>1, Zenon DEF DropRef
    <3>2. QED
      BY <3>1, Moved
  <2>2. CASE refcnt[b] # 1
    BY <2>2, ListKept, Zenon DEF DropRef, CacheType, list
  <2>3. QED
    BY <2>1, <2>2, Zenon
<1>3. CacheType'
  BY <1>2, SMTT(60) DEF CacheType
<1>4. OneCopy' /\ Clean'
  BY Zenon DEF OneCopy, Clean
<1>5. Owned'
  BY BcacheAssumption, SMTT(60) DEF Owned, CacheType, Using, Locking, Buf
<1>6. Filled'
  BY SMTT(60) DEF Filled, CacheType
<1>7. RefCounts'
  <2>1. \A c \in Buf : refcnt'[c] = IF c = b THEN refcnt[c] - 1 ELSE refcnt[c]
    BY Zenon DEF CacheType
  <2>2. \A c \in Buf : refcnt'[c] = Cardinality(Refs(c)') + (IF c \in pinned THEN 1 ELSE 0)
    <3>1. TAKE c \in Buf
    <3>2. Cardinality(Refs(c)') = IF c = b THEN Cardinality(Refs(c)) - 1
                                           ELSE Cardinality(Refs(c))
      BY RefDropped, Zenon
    <3>3. QED
      BY <2>1, <3>2, CountIs
  <2>3. QED
    BY <2>2, Zenon DEF RefCounts, Refs
<1>8. QED
  BY <1>2, <1>3, <1>4, <1>5, <1>6, <1>7, Zenon

\* bget() panics when every buffer is in use; nothing else changes.
LEMMA PanicStep ==
    ASSUME BInv, NEW p \in Proc, NEW k \in Block, BgetPanic(p, k)
    PROVE  BInv'
<1> USE DEF BInv
<1>1. /\ pc[p] = "idle" /\ pc' = [pc EXCEPT ![p] = "panic"]
      /\ UNCHANGED <<blockno, valid, data, refcnt, list, lock, pinned, disk, cur, dirty>>
  BY Zenon DEF BgetPanic, Goto, bufs
<1> USE <1>1
<1>2. OneCopy' /\ Clean' /\ RefCounts' /\ ListInv'
  BY CountsKept, ListKept, Zenon DEF OneCopy, Clean
<1>3. CacheType'
  BY Zenon DEF CacheType, list
<1>4. Owned' /\ Filled'
  BY SMTT(60) DEF CacheType, Owned, Filled, Using, Locking
<1>5. QED
  BY <1>2, <1>3, <1>4, Zenon

\* A step that changes nothing.
LEMMA StutterInv == ASSUME BInv, UNCHANGED vars PROVE BInv'
<1> USE DEF BInv, vars, bufs
<1>1. RefCounts' /\ ListInv'
  BY CountsKept, ListKept, Zenon
<1>2. CacheType'
  BY ZenonT(60) DEF CacheType, list
<1>3. OneCopy' /\ Owned' /\ Filled' /\ Clean'
  BY SMTT(60) DEF OneCopy, Owned, Filled, Clean
<1>4. QED
  BY <1>1, <1>2, <1>3, Zenon

\* Every step of bread(), of a buffer's user and of brelse() keeps the invariant.
LEMMA NextInv == ASSUME Finite PROVE BInv /\ [Next]_vars => BInv'
<1>1. SUFFICES ASSUME BInv, [Next]_vars PROVE BInv'
  BY Zenon
<1>2. CASE UNCHANGED vars
  BY <1>1, <1>2, StutterInv, Zenon
<1>3. CASE Next
  <2>1. PICK p \in Proc : Bread(p) \/ Use(p) \/ Brelse(p)
    BY <1>3, Zenon DEF Next
  <2>2. CASE Bread(p)
    BY <1>1, <2>2, HitStep, MissStep, PanicStep, AcquireStep, ReadStep DEF Bread
  <2>3. CASE Use(p)
    BY <1>1, <2>3, UseStep, Zenon
  <2>4. CASE Brelse(p)
    BY <1>1, <2>4, ReleaseStep, DropStep, Zenon DEF Brelse
  <2>5. QED
    BY <2>1, <2>2, <2>3, <2>4, Zenon
<1>4. QED
  BY <1>1, <1>2, <1>3, Zenon

\* Going along the list in either direction, bget() comes to every buffer.
LEMMA ListIs == ASSUME Finite, BInv PROVE ListComplete
<1>1. FromEnd \in [Node -> Node] /\ IsRing(FromEnd)
  BY WalkIsRing DEF BInv
<1> DEFINE s == FromEnd
<1> HIDE DEF s
<1>2. \A i \in Buf : s[i] \in Buf
  BY WalkInBuf, Zenon DEF BInv, s
<1>3. \A n \in Buf : \E i \in Buf : s[i] = n
  BY <1>1, Nodes DEF IsRing, IsWalk, head, s
<1>4. {FromEnd[i] : i \in Buf} = Buf
  BY <1>2, <1>3, Zenon DEF s
<1>5. /\ \A i \in Node : i < NBUF => prev[s[i]] = s[i + 1]
      /\ \A i \in Node : next[s[i]] = IF i = 0 THEN s[NBUF] ELSE s[i - 1]
  <2>1. ASSUME NEW i \in Node, i < NBUF PROVE prev[s[i]] = s[i + 1]
    <3>1. i + 1 \in Buf /\ (i + 1) - 1 = i
      BY <2>1, Nodes
    <3>2. QED
      BY <1>1, <3>1 DEF IsRing, IsWalk, s
  <2>2. QED
    BY <1>1, <2>1, Nodes DEF IsRing, IsWalk, head, s
<1>6. ASSUME NEW n \in Node PROVE prev[next[n]] = n /\ next[prev[n]] = n
  <2>1. PICK i \in Node : s[i] = n
    BY <1>1, Zenon DEF IsRing, s
  <2>2. prev[s[NBUF]] = 0 /\ s[0] = 0
    BY <1>1, Zenon DEF IsRing, IsWalk, head, s
  <2>3. CASE i = 0
    BY <2>1, <2>2, <2>3, <1>5, Nodes
  <2>4. CASE i = NBUF
    BY <2>1, <2>2, <2>4, <1>5, Nodes
  <2>5. CASE i # 0 /\ i # NBUF
    BY <2>1, <2>2, <2>5, <1>5, Nodes
  <2>6. QED
    BY <2>3, <2>4, <2>5, Zenon
<1>7. QED
  BY <1>4, <1>6, Zenon DEF ListComplete

-----------------------------------------------------------------------------
(* The cache implements BlockStore *)

MemOf(k) == IF \E b \in Cached(k) : valid[b]
            THEN data[CHOOSE b \in Cached(k) : TRUE] ELSE disk[k]
OwnerOf(k) == IF Cached(k) = {} THEN NIL ELSE lock[CHOOSE b \in Cached(k) : TRUE]

Mem == [k \in Block |-> MemOf(k)]
Owner == [k \in Block |-> OwnerOf(k)]

\* A block that is cached is in one buffer, which says what the block holds and
\* who has it; another one is nobody's, and on the disk.
Shown ==
    /\ \A b \in Buf : blockno[b] \in Block =>
           /\ Mem[blockno[b]] = IF valid[b] THEN data[b] ELSE disk[blockno[b]]
           /\ Owner[blockno[b]] = lock[b]
    /\ \A k \in Block : (\A b \in Buf : blockno[b] # k) => Mem[k] = disk[k] /\ Owner[k] = NIL

\* With one copy of each block, the mapping shows what the buffers hold ...
LEMMA StoreShown == OneCopy => Shown
<1>1. SUFFICES ASSUME OneCopy PROVE Shown
  BY Zenon
<1>2. ASSUME NEW b \in Buf, blockno[b] \in Block
      PROVE  /\ Mem[blockno[b]] = IF valid[b] THEN data[b] ELSE disk[blockno[b]]
             /\ Owner[blockno[b]] = lock[b]
  <2>1. Cached(blockno[b]) = {b}
    BY <1>1, <1>2, BcacheAssumption, Zenon DEF Cached, OneCopy
  <2>2. QED
    BY <1>2, <2>1, SMTT(60) DEF Mem, Owner, MemOf, OwnerOf
<1>3. ASSUME NEW k \in Block, \A b \in Buf : blockno[b] # k
      PROVE  Mem[k] = disk[k] /\ Owner[k] = NIL
  <2>1. Cached(k) = {}
    BY <1>3 DEF Cached
  <2>2. QED
    BY <2>1, Zenon DEF Mem, Owner, MemOf, OwnerOf
<1>4. QED
  BY <1>2, <1>3, Zenon DEF Shown

\* ... before a step and after it.
LEMMA StoreShownNext ==
    ASSUME OneCopy'
    PROVE  /\ \A b \in Buf : blockno'[b] \in Block =>
               /\ Mem'[blockno'[b]] = IF valid'[b] THEN data'[b] ELSE disk'[blockno'[b]]
               /\ Owner'[blockno'[b]] = lock'[b]
           /\ \A k \in Block : (\A b \in Buf : blockno'[b] # k)
                               => Mem'[k] = disk'[k] /\ Owner'[k] = NIL
<1>1. Shown'
  BY StoreShown, PTL
<1>2. QED
  BY <1>1, Zenon DEF Shown

\* A step that uses only the buffer b leaves the blocks of the others alone.
LEMMA OtherBlocks ==
    ASSUME OneCopy, OneCopy', NEW b \in Buf, blockno' = blockno,
           \A c \in Buf : c # b => valid'[c] = valid[c] /\ data'[c] = data[c]
                                   /\ lock'[c] = lock[c],
           \A k \in Block : k # blockno[b] => disk'[k] = disk[k],
           NEW k \in Block, k # blockno[b]
    PROVE  Mem'[k] = Mem[k] /\ Owner'[k] = Owner[k]
<1>1. CASE \E c \in Buf : blockno[c] = k
  <2>1. PICK c \in Buf : blockno[c] = k
    BY <1>1
  <2>2. /\ Mem[k] = IF valid[c] THEN data[c] ELSE disk[k]
        /\ Owner[k] = lock[c]
    BY <2>1, StoreShown, Zenon DEF Shown
  <2>3. /\ Mem'[k] = IF valid'[c] THEN data'[c] ELSE disk'[k]
        /\ Owner'[k] = lock'[c]
    BY <2>1, StoreShownNext, Zenon
  <2>4. QED
    BY <2>1, <2>2, <2>3
<1>2. CASE \A c \in Buf : blockno[c] # k
  <2>1. Mem[k] = disk[k] /\ Owner[k] = NIL
    BY <1>2, StoreShown, Zenon DEF Shown
  <2>2. Mem'[k] = disk'[k] /\ Owner'[k] = NIL
    BY <1>2, StoreShownNext, Zenon
  <2>3. QED
    BY <2>1, <2>2, Zenon
<1>3. QED
  BY <1>1, <1>2, Zenon

\* The store is the same if it is at every block.
LEMMA SameStore ==
    ASSUME \A k \in Block : Mem'[k] = Mem[k] /\ Owner'[k] = Owner[k]
    PROVE  Mem' = Mem /\ Owner' = Owner
  BY Zenon DEF Mem, Owner

\* A block that changes hands.
LEMMA OwnerSet ==
    ASSUME NEW k \in Block, \A m \in Block : m # k => Owner'[m] = Owner[m]
    PROVE  Owner' = [Owner EXCEPT ![k] = Owner'[k]]
<1>1. Owner = [m \in Block |-> Owner[m]]
  BY Zenon DEF Owner
<1>2. Owner' = [m \in Block |-> Owner'[m]]
  BY Zenon DEF Owner
<1>3. QED
  BY <1>1, <1>2, Zenon

\* Recycling a buffer neither loses nor shows anything.
LEMMA MissStore ==
    ASSUME Finite, BInv, OneCopy', NEW p \in Proc, NEW k \in Block, BgetMiss(p, k)
    PROVE  Mem' = Mem /\ Owner' = Owner
<1> USE DEF BInv
<1>1. PICK b \in Buf : refcnt[b] = 0 /\ Recycle(b, k)
  BY Recycled, Zenon DEF BgetMiss
<1>2. /\ blockno' = [blockno EXCEPT ![b] = k]
      /\ valid' = [valid EXCEPT ![b] = FALSE]
      /\ UNCHANGED <<data, lock, disk>>
      /\ \A c \in Buf : blockno[c] # k
  BY <1>1, Zenon DEF Recycle, BgetMiss, Cached
<1>3. lock[b] = NIL /\ b \notin pinned /\ NIL \notin dirty
  BY <1>1, UnusedIsFree, BcacheAssumption, Zenon DEF CacheType
<1>4. ASSUME NEW m \in Block PROVE Mem'[m] = Mem[m] /\ Owner'[m] = Owner[m]
  <2>1. CASE m = k
    <3>1. Mem[m] = disk[m] /\ Owner[m] = NIL
      BY <2>1, <1>2, StoreShown, Zenon DEF Shown
    <3>2. blockno'[b] = k /\ ~valid'[b] /\ lock'[b] = NIL
      BY <1>2, <1>3 DEF CacheType
    <3>3. Mem'[m] = disk'[m] /\ Owner'[m] = NIL
      BY <2>1, <3>2, StoreShownNext, Zenon
    <3>4. QED
      BY <3>1, <3>3, <1>2, Zenon
  <2>2. CASE m # k /\ m = blockno[b]
    <3>1. Mem[m] = disk[m] /\ Owner[m] = NIL
      BY <2>2, <1>3, StoreShown, Zenon DEF Clean, Shown
    <3>2. \A c \in Buf : blockno'[c] # m
      BY <2>2, <1>2, BcacheAssumption, Zenon DEF OneCopy, CacheType
    <3>3. QED
      BY <3>1, <3>2, <1>2, StoreShownNext, Zenon
  <2>3. CASE m # k /\ m # blockno[b] /\ \E c \in Buf : blockno[c] = m
    <3>1. PICK c \in Buf : blockno[c] = m /\ c # b
      BY <2>3
    <3>2. blockno'[c] = m /\ valid'[c] = valid[c] /\ data'[c] = data[c] /\ lock'[c] = lock[c]
      BY <3>1, <1>2, Zenon DEF CacheType
    <3>3. /\ Mem[m] = IF valid[c] THEN data[c] ELSE disk[m]
          /\ Owner[m] = lock[c]
      BY <3>1, StoreShown, Zenon DEF Shown
    <3>4. /\ Mem'[m] = IF valid'[c] THEN data'[c] ELSE disk'[m]
          /\ Owner'[m] = lock'[c]
      BY <3>2, StoreShownNext, Zenon
    <3>5. QED
      BY <3>2, <3>3, <3>4, <1>2, Zenon
  <2>4. CASE m # k /\ m # blockno[b] /\ \A c \in Buf : blockno[c] # m
    <3>1. \A c \in Buf : blockno'[c] # m
      BY <2>4, <1>2, Zenon DEF CacheType
    <3>2. QED
      <4>1. Mem[m] = disk[m] /\ Owner[m] = NIL
        BY <2>4, StoreShown, Zenon DEF Shown
      <4>2. Mem'[m] = disk'[m] /\ Owner'[m] = NIL
        BY <3>1, StoreShownNext, Zenon
      <4>3. QED
        BY <1>2, <4>1, <4>2, Zenon
  <2>5. QED
    BY <2>1, <2>2, <2>3, <2>4, Zenon
<1>5. QED
  BY <1>4, SameStore, Zenon

\* acquiresleep(), the read from the disk and releasesleep().
LEMMA LockStore ==
    ASSUME BInv, OneCopy', NEW p \in Proc, AcquireSleep(p) \/ DiskRead(p) \/ ReleaseSleep(p)
    PROVE  /\ Mem' = Mem
           /\ \/ Owner' = Owner
              \/ \E k \in Block : Owner[k] = NIL /\ Owner' = [Owner EXCEPT ![k] = p]
              \/ \E k \in Block : Owner[k] = p /\ Owner' = [Owner EXCEPT ![k] = NIL]
<1> USE DEF BInv
<1> DEFINE b == cur[p]
           k == blockno[b]
<1>1. pc[p] \in Using /\ b \in Buf /\ k \in Block /\ blockno' = blockno /\ disk' = disk
  BY UserHas, Zenon DEF AcquireSleep, DiskRead, ReleaseSleep, Using, bufs
<1>2. \A c \in Buf : c # b => valid'[c] = valid[c] /\ data'[c] = data[c] /\ lock'[c] = lock[c]
  BY Zenon DEF AcquireSleep, DiskRead, ReleaseSleep, bufs, CacheType
<1>3. \A m \in Block : m # k => Mem'[m] = Mem[m] /\ Owner'[m] = Owner[m]
  BY <1>1, <1>2, OtherBlocks, Zenon
<1>4. /\ Mem[k] = IF valid[b] THEN data[b] ELSE disk[k]
      /\ Mem'[k] = IF valid'[b] THEN data'[b] ELSE disk[k]
      /\ Owner[k] = lock[b] /\ Owner'[k] = lock'[b]
  BY <1>1, StoreShown, StoreShownNext, Zenon DEF Shown
<1>5. Mem'[k] = Mem[k]
  <2>1. CASE DiskRead(p)
    <3>1. ~valid[b] /\ data'[b] = disk[k]
      BY <1>1, <2>1, Zenon DEF DiskRead, Filled, CacheType
    <3>2. QED
      BY <3>1, <1>4, Zenon
  <2>2. CASE AcquireSleep(p) \/ ReleaseSleep(p)
    <3>1. valid' = valid /\ data' = data
      BY <2>2, Zenon DEF AcquireSleep, ReleaseSleep, bufs
    <3>2. valid'[b] = valid[b] /\ data'[b] = data[b]
      BY <3>1, Zenon
    <3> HIDE DEF b, k, BInv
    <3>3. QED
      BY <3>2, <1>4, Zenon
  <2>3. QED
    BY <2>1, <2>2, Zenon
<1>6. Mem' = Mem
  <2>1. \A m \in Block : Mem'[m] = Mem[m]
    BY <1>3, <1>5, Zenon
  <2>2. QED
    BY <2>1, Zenon DEF Mem
<1>7. \A o : lock'[b] = o => Owner' = [Owner EXCEPT ![k] = o]
  BY <1>1, <1>3, <1>4, OwnerSet, Zenon
<1>8. \/ lock'[b] = lock[b]
      \/ lock[b] = NIL /\ lock'[b] = p
      \/ lock[b] = p /\ lock'[b] = NIL
  <2>1. CASE AcquireSleep(p)
    BY <1>1, <2>1, Zenon DEF AcquireSleep, CacheType
  <2>2. CASE DiskRead(p)
    BY <2>2, Zenon DEF DiskRead
  <2>3. CASE ReleaseSleep(p)
    BY <1>1, <2>3, UserHas, Zenon DEF ReleaseSleep, CacheType, Locking
  <2>4. QED
    BY <2>1, <2>2, <2>3, Zenon
<1>9. CASE lock'[b] = lock[b]
  <2>1. \A m \in Block : Mem'[m] = Mem[m] /\ Owner'[m] = Owner[m]
    BY <1>3, <1>4, <1>5, <1>9, Zenon
  <2>2. QED
    BY <2>1, SameStore
<1>10. QED
  BY <1>1, <1>4, <1>6, <1>7, <1>8, <1>9, Zenon

\* Writing into a buffer is a change of its block; bwrite() changes nothing that
\* a process can see.
LEMMA ChangeStore ==
    ASSUME BInv, OneCopy', NEW p \in Proc, NEW v \in Val, Change(p, v)
    PROVE  /\ Owner' = Owner
           /\ \E k \in Block : Owner[k] = p /\ Mem' = [Mem EXCEPT ![k] = v]
<1> USE DEF BInv
<1> DEFINE b == cur[p]
           k == blockno[b]
<1>1. /\ b \in Buf /\ k \in Block /\ lock[b] = p /\ valid[b]
      /\ data' = [data EXCEPT ![b] = v]
      /\ UNCHANGED <<blockno, valid, lock, disk>>
  BY UserHas, Zenon DEF Change, Using, Locking, Filled
<1>2. \A m \in Block : m # k => Mem'[m] = Mem[m] /\ Owner'[m] = Owner[m]
  BY <1>1, OtherBlocks, Zenon DEF CacheType
<1>3. Mem'[k] = v /\ Owner[k] = p /\ Owner'[k] = p
  <2>1. valid'[b] /\ data'[b] = v /\ lock'[b] = p /\ blockno'[b] = k
    BY <1>1, Zenon DEF CacheType
  <2>2. Owner[k] = p
    BY <1>1, StoreShown, Zenon DEF Shown
  <2>3. Mem'[k] = v /\ Owner'[k] = p
    BY <1>1, <2>1, StoreShownNext, Zenon
  <2>4. QED
    BY <2>2, <2>3, Zenon
<1>4. Owner' = Owner
  <2>1. \A m \in Block : Owner'[m] = Owner[m]
    BY <1>2, <1>3, Zenon
  <2>2. QED
    BY <2>1, Zenon DEF Owner
<1>5. Mem' = [Mem EXCEPT ![k] = v]
  <2>1. \A m \in Block : Mem'[m] = IF m = k THEN v ELSE Mem[m]
    BY <1>2, <1>3, Zenon
  <2> HIDE DEF k
  <2>2. QED
    BY <2>1, Zenon DEF Mem
<1>6. QED
  BY <1>1, <1>3, <1>4, <1>5, Zenon

\* bwrite() writes through: the disk gets what the buffer holds already.
LEMMA WriteStore ==
    ASSUME BInv, OneCopy', NEW p \in Proc, Bwrite(p)
    PROVE  Mem' = Mem /\ Owner' = Owner
<1> USE DEF BInv
<1> DEFINE b == cur[p]
           k == blockno[b]
<1>1. /\ b \in Buf /\ k \in Block /\ valid[b]
      /\ disk' = [disk EXCEPT ![k] = data[b]]
      /\ UNCHANGED <<blockno, valid, data, lock>>
  BY UserHas, Zenon DEF Bwrite, Using, Filled, bufs
<1>2. \A m \in Block : m # k => Mem'[m] = Mem[m] /\ Owner'[m] = Owner[m]
  <2>1. \A m \in Block : m # k => disk'[m] = disk[m]
    BY <1>1, Zenon DEF CacheType
  <2>2. \A c \in Buf : valid'[c] = valid[c] /\ data'[c] = data[c] /\ lock'[c] = lock[c]
    BY <1>1, Zenon
  <2>3. QED
    BY <1>1, <2>1, <2>2, OtherBlocks, Zenon
<1>3. Mem'[k] = Mem[k] /\ Owner'[k] = Owner[k]
  <2>1. Mem[k] = data[b] /\ Owner[k] = lock[b]
    BY <1>1, StoreShown, Zenon DEF Shown
  <2>2. blockno'[b] = k /\ valid'[b] /\ data'[b] = data[b] /\ lock'[b] = lock[b]
    BY <1>1, Zenon
  <2>3. Mem'[k] = data'[b] /\ Owner'[k] = lock'[b]
    BY <1>1, <2>2, StoreShownNext, ZenonT(60)
  <2>4. QED
    BY <2>1, <2>2, <2>3, Zenon
<1>4. QED
  BY <1>2, <1>3, SameStore, Zenon

\* A step on reference counts, the list or pins does not show.
LEMMA QuietStore ==
    ASSUME UNCHANGED <<blockno, valid, data, disk, lock>>
    PROVE  Mem' = Mem /\ Owner' = Owner
  BY SMTT(60) DEF Mem, Owner, MemOf, OwnerOf, Cached

\* An empty cache shows the disk.
LEMMA StoreInit == Init => Store!Init
<1>1. SUFFICES ASSUME Init PROVE Store!Init
  OBVIOUS
<1>2. \A k \in Block : Cached(k) = {}
  BY <1>1, BcacheAssumption, Zenon DEF Init, Cached
<1>3. disk \in [Block -> Val]
  BY <1>1, Zenon DEF Init
<1>4. QED
  BY <1>2, <1>3 DEF Store!Init

\* Every step of the cache is a step of the store, or none.
LEMMA StoreStep ==
    ASSUME Finite PROVE BInv /\ OneCopy' /\ [Next]_vars => [Store!Next]_<<Mem, Owner>>
<1>1. SUFFICES ASSUME BInv, OneCopy', [Next]_vars PROVE [Store!Next]_<<Mem, Owner>>
  BY Zenon
<1>2. CASE UNCHANGED vars
  BY <1>2, QuietStore, Zenon DEF vars, bufs
<1>3. CASE Next
  <2>1. PICK p \in Proc : Bread(p) \/ Use(p) \/ Brelse(p)
    BY <1>3 DEF Next
  <2>2. ASSUME NEW k \in Block, BgetMiss(p, k) PROVE Mem' = Mem /\ Owner' = Owner
    BY <1>1, <2>2, MissStore, Zenon
  <2>3. ASSUME \/ \E k \in Block : BgetHit(p, k) \/ BgetPanic(p, k)
               \/ Bpin(p) \/ Bunpin(p) \/ DropRef(p)
        PROVE  Mem' = Mem /\ Owner' = Owner
    <3>1. UNCHANGED <<blockno, valid, data, disk, lock>>
      BY <2>3, Zenon DEF BgetHit, BgetPanic, Bpin, Bunpin, DropRef, bufs
    <3>2. QED
      BY <3>1, QuietStore, Zenon
  <2>4. CASE AcquireSleep(p) \/ DiskRead(p) \/ ReleaseSleep(p)
    <3>1. /\ Mem' = Mem
          /\ \/ Owner' = Owner
             \/ \E k \in Block : Owner[k] = NIL /\ Owner' = [Owner EXCEPT ![k] = p]
             \/ \E k \in Block : Owner[k] = p /\ Owner' = [Owner EXCEPT ![k] = NIL]
      BY <1>1, <2>4, LockStore, Zenon
    <3>2. QED
      BY <3>1, Zenon DEF Store!Next, Store!Take, Store!Give, Mem, Owner, MemOf, OwnerOf
  <2>5. ASSUME NEW v \in Val, Change(p, v) PROVE Store!Next
    <3>1. /\ Owner' = Owner
          /\ \E k \in Block : Owner[k] = p /\ Mem' = [Mem EXCEPT ![k] = v]
      BY <1>1, <2>5, ChangeStore, Zenon
    <3>2. QED
      BY <3>1, Zenon DEF Store!Next, Store!Change, Mem, Owner, MemOf, OwnerOf
  <2>6. CASE Bwrite(p)
    BY <1>1, <2>6, WriteStore
  <2>7. QED
    BY <2>1, <2>2, <2>3, <2>4, <2>5, <2>6, Zenon DEF Bread, Use, Brelse
<1>4. QED
  BY <1>1, <1>2, <1>3, Zenon

-----------------------------------------------------------------------------
(* From the library *)

F == INSTANCE FiniteSetTheorems

\* The library counts as the modules do.
LEMMA SameCount ==
    /\ \A S : F!IsFiniteSet(S) <=> IsFiniteSet(S)
    /\ \A S : F!Cardinality(S) = Cardinality(S)
<1>1. ASSUME NEW S PROVE F!IsFiniteSet(S) <=> IsFiniteSet(S)
  BY Zenon DEF IsFiniteSet, F!IsFiniteSet
<1>2. ASSUME NEW S PROVE F!Cardinality(S) = Cardinality(S)
  BY Zenon DEF Cardinality, F!Cardinality
<1> QED
  BY <1>1, <1>2, Zenon

\* What the proofs above use of finite sets.
LEMMA FiniteHolds == Finite
<1>1. EmptyCount
  BY F!FS_EmptySet, SameCount, Zenon DEF EmptyCount
<1>2. SubsetCount
  BY F!FS_EmptySet, F!FS_CardinalityType, F!FS_Subset, SameCount, Zenon DEF SubsetCount
<1>3. AddCount
  BY F!FS_AddElement, SameCount, Zenon DEF AddCount
<1>4. RemoveCount
  BY F!FS_RemoveElement, SameCount, Zenon DEF RemoveCount
<1>5. LeastOne
  <2> SUFFICES ASSUME NEW S \in SUBSET Nat, S # {} PROVE \E i \in S : \A j \in S : i <= j
    BY Zenon DEF LeastOne
  <2>1. PICK i \in S : \A j \in S : ~(<<j, i>> \in F!OpToRel(<, Nat))
    BY F!NatLessThanWellFounded, F!WFMin, Zenon
  <2>2. \A j \in S : ~(j < i)
    BY <2>1, Zenon DEF F!OpToRel
  <2>3. \A j \in S : i <= j
    BY <2>2
  <2> QED
    BY <2>3, Zenon
<1> QED
  BY <1>1, <1>2, <1>3, <1>4, <1>5, Zenon DEF Finite

\* The invariant holds in every state.
LEMMA InvHolds == Spec => []BInv
<1>1. Init => BInv
  BY InitInv, FiniteHolds, Zenon
<1>2. BInv /\ [Next]_vars => BInv'
  BY NextInv, FiniteHolds, Zenon
<1> QED
  BY <1>1, <1>2, PTL DEF Spec

\* bread() and brelse(), in whatever order the processes call them, keep the
\* reference counts of the buffers exact and every buffer in the list that
\* bget() goes through.
THEOREM CacheIsSound == Spec => []CacheSound
<1>1. BInv => CacheSound
  BY ListIs, FiniteHolds, Zenon DEF BInv, CacheSound
<1>2. QED
  BY <1>1, InvHolds, PTL

\* Whatever the processes read, change, pin, write back and recycle, a process
\* that has a block locked sees its last change, and nobody else has it.
THEOREM CacheIsStore == Spec => StoreSpec
<1>1. BInv => OneCopy
  BY DEF BInv
<1>2. BInv /\ OneCopy' /\ [Next]_vars => [Store!Next]_<<Mem, Owner>>
  BY StoreStep, FiniteHolds, Zenon
<1>3. QED
  BY <1>1, <1>2, StoreInit, InvHolds, PTL DEF Spec, StoreSpec, Store!Spec, Mem, Owner,
     MemOf, OwnerOf
=============================================================================
