-------------------------------- MODULE Wrap --------------------------------
(***************************************************************************)
(* Arithmetic of indices that wrap around, and of the rings they index:    *)
(* nread and nwrite of kernel/pipe.c, the idx fields of the queues of      *)
(* kernel/virtio_disk.c.                                                   *)
(***************************************************************************)
EXTENDS Integers, TLAPS

\* Division with remainder.
LEMMA DivMod ==
    ASSUME NEW n \in Nat \ {0}, NEW a \in Int
    PROVE  /\ a \div n \in Int /\ a % n \in 0 .. n - 1
           /\ a = n * (a \div n) + (a % n)
  OBVIOUS

\* A positive multiple of n is at least n.
LEMMA Below == ASSUME NEW n \in Nat \ {0}, NEW k \in Int, k >= 1 PROVE n * k >= n
<1>1. n * (k - 1) >= 0
  OBVIOUS
<1>2. n * k = n * (k - 1) + n
  OBVIOUS
<1> QED
  BY <1>1, <1>2

\* Quotient and remainder are unique.
LEMMA Unique ==
    ASSUME NEW n \in Nat \ {0}, NEW q1 \in Int, NEW q2 \in Int,
           NEW r1 \in 0 .. n - 1, NEW r2 \in 0 .. n - 1,
           n * q1 + r1 = n * q2 + r2
    PROVE  q1 = q2 /\ r1 = r2
<1>1. CASE q1 < q2
  <2>1. n * (q2 - q1) >= n
    BY <1>1, Below
  <2>2. n * (q2 - q1) = n * q2 - n * q1
    OBVIOUS
  <2>3. n * q1 \in Int /\ n * q2 \in Int
    OBVIOUS
  <2> QED
    BY <2>1, <2>2, <2>3
<1>2. CASE q1 > q2
  <2>1. n * (q1 - q2) >= n
    BY <1>2, Below
  <2>2. n * (q1 - q2) = n * q1 - n * q2
    OBVIOUS
  <2>3. n * q1 \in Int /\ n * q2 \in Int
    OBVIOUS
  <2> QED
    BY <2>1, <2>2, <2>3
<1>3. CASE q1 = q2
  BY <1>3
<1> QED
  BY <1>1, <1>2, <1>3

\* What the remainder is of a sum in that form.
LEMMA Remainder ==
    ASSUME NEW n \in Nat \ {0}, NEW q \in Int, NEW r \in 0 .. n - 1
    PROVE  (n * q + r) % n = r
<1>1. n * q + r \in Int
  OBVIOUS
<1> QED
  BY <1>1, DivMod, Unique

-----------------------------------------------------------------------------
(* Indices below w: x is ahead of y by (x - y) % w *)

\* How far x is ahead of y.
LEMMA AheadRange ==
    ASSUME NEW w \in Nat \ {0}, NEW x \in 0 .. w - 1, NEW y \in 0 .. w - 1
    PROVE  /\ (x - y) % w \in 0 .. w - 1
           /\ (x - y) % w = IF x >= y THEN x - y ELSE x - y + w
           /\ (x - y) % w = 0 <=> x = y
<1>1. CASE x >= y
  <2>1. x - y = w * 0 + (x - y) /\ x - y \in 0 .. w - 1
    BY <1>1
  <2> QED
    BY <1>1, <2>1, Remainder
<1>2. CASE x < y
  <2>1. x - y = w * (-1) + (x - y + w) /\ x - y + w \in 0 .. w - 1
    BY <1>2
  <2> QED
    BY <1>2, <2>1, Remainder
<1> QED
  BY <1>1, <1>2

\* The next index.
LEMMA Succ ==
    ASSUME NEW w \in Nat \ {0}, NEW x \in 0 .. w - 1
    PROVE  /\ (x + 1) % w \in 0 .. w - 1
           /\ (x + 1) % w = IF x = w - 1 THEN 0 ELSE x + 1
<1>1. CASE x = w - 1
  <2>1. x + 1 = w * 1 + 0 /\ 0 \in 0 .. w - 1
    BY <1>1
  <2> QED
    BY <1>1, <2>1, Remainder
<1>2. CASE x # w - 1
  <2>1. x + 1 = w * 0 + (x + 1) /\ x + 1 \in 0 .. w - 1
    BY <1>2
  <2> QED
    BY <1>2, <2>1, Remainder
<1> QED
  BY <1>1, <1>2

\* One step of x takes it one further ahead of y.
LEMMA AheadMore ==
    ASSUME NEW w \in Nat \ {0}, NEW x \in 0 .. w - 1, NEW y \in 0 .. w - 1,
           (x - y) % w < w - 1
    PROVE  (((x + 1) % w) - y) % w = ((x - y) % w) + 1
<1> DEFINE z == (x + 1) % w
<1>1. z \in 0 .. w - 1 /\ z = IF x = w - 1 THEN 0 ELSE x + 1
  BY Succ, Zenon
<1> HIDE DEF z
<1>2. (x - y) % w = IF x >= y THEN x - y ELSE x - y + w
  BY AheadRange
<1>3. (z - y) % w = IF z >= y THEN z - y ELSE z - y + w
  BY <1>1, AheadRange, SMTT(60)
<1>4. (z - y) % w = ((x - y) % w) + 1
  BY <1>1, <1>2, <1>3
<1> QED
  BY <1>4 DEF z

\* One step of y takes it one closer to x.
LEMMA AheadLess ==
    ASSUME NEW w \in Nat \ {0}, NEW x \in 0 .. w - 1, NEW y \in 0 .. w - 1, x # y
    PROVE  (x - ((y + 1) % w)) % w = ((x - y) % w) - 1
<1> DEFINE z == (y + 1) % w
<1>1. z \in 0 .. w - 1 /\ z = IF y = w - 1 THEN 0 ELSE y + 1
  BY Succ, Zenon
<1> HIDE DEF z
<1>2. (x - y) % w = IF x >= y THEN x - y ELSE x - y + w
  BY AheadRange
<1>3. (x - z) % w = IF x >= z THEN x - z ELSE x - z + w
  BY <1>1, AheadRange
<1>4. (x - z) % w = ((x - y) % w) - 1
  BY <1>1, <1>2, <1>3
<1> QED
  BY <1>4 DEF z

\* Multiples of n do not count.
LEMMA SameMod ==
    ASSUME NEW n \in Nat \ {0}, NEW a \in Int, NEW q \in Int
    PROVE  (a + n * q) % n = a % n
<1> DEFINE d == a \div n
           r == a % n
<1>1. a = n * d + r /\ d \in Int /\ r \in 0 .. n - 1
  BY DivMod
<1> HIDE DEF d, r
<1>2. n * (d + q) = n * d + n * q /\ n * d \in Int /\ n * q \in Int /\ d + q \in Int
  BY <1>1
<1>3. a + n * q = n * (d + q) + r
  BY <1>1, <1>2
<1>4. (n * (d + q) + r) % n = r
  BY <1>1, <1>2, Remainder
<1> QED
  BY <1>3, <1>4, Zenon DEF r

\* x is d ahead of y exactly if it is where d steps lead from y.
LEMMA AheadBy ==
    ASSUME NEW w \in Nat \ {0}, NEW x \in 0 .. w - 1, NEW y \in 0 .. w - 1,
           NEW d \in 0 .. w - 1
    PROVE  x = (y + d) % w <=> (x - y) % w = d
<1>1. (x - y) % w = IF x >= y THEN x - y ELSE x - y + w
  BY AheadRange
<1>2. (y + d) % w = IF y + d < w THEN y + d ELSE y + d - w
  <2>1. CASE y + d < w
    <3>1. y + d = w * 0 + (y + d) /\ y + d \in 0 .. w - 1
      BY <2>1
    <3> QED
      BY <2>1, <3>1, Remainder
  <2>2. CASE y + d >= w
    <3>1. y + d = w * 1 + (y + d - w) /\ y + d - w \in 0 .. w - 1
      BY <2>2
    <3> QED
      BY <2>2, <3>1, Remainder
  <2> QED
    BY <2>1, <2>2
<1> QED
  BY <1>1, <1>2

\* A range that n divides is a number of rounds of the ring.
LEMMA Multiple ==
    ASSUME NEW n \in Nat \ {0}, NEW w \in Nat \ {0}, w % n = 0
    PROVE  \E m \in Nat \ {0} : w = n * m
<1> DEFINE m == w \div n
<1>1. m \in Int /\ w = n * m + 0
  BY DivMod
<1> HIDE DEF m
<1>2. m > 0
  <2>1. CASE m <= 0
    <3>1. n * (-m) >= 0 /\ n * m = -(n * (-m))
      BY <1>1, <2>1
    <3> QED
      BY <1>1, <3>1
  <2> QED
    BY <1>1, <2>1
<1> QED
  BY <1>1, <1>2

-----------------------------------------------------------------------------
(* The slots of a ring of n entries, where the indices wrap at a multiple of n *)

\* x is in the slot that its lead leads to from y.
LEMMA SlotEnd ==
    ASSUME NEW n \in Nat \ {0}, NEW w \in Nat \ {0}, w % n = 0,
           NEW x \in 0 .. w - 1, NEW y \in 0 .. w - 1
    PROVE  (y + ((x - y) % w)) % n = x % n
<1>1. PICK m \in Nat \ {0} : w = n * m
  BY Multiple
<1>2. (x - y) % w = IF x >= y THEN x - y ELSE x - y + w
  BY AheadRange
<1>3. CASE x >= y
  BY <1>2, <1>3
<1>4. CASE x < y
  <2>1. y + ((x - y) % w) = x + w
    BY <1>2, <1>4
  <2>2. x \in Int /\ m \in Int
    BY <1>1
  <2>3. (x + n * m) % n = x % n
    BY <2>2, SameMod, Zenon
  <2> QED
    BY <1>1, <2>1, <2>3, Zenon
<1> QED
  BY <1>3, <1>4

\* The slots ahead of y, counted from the next index.
LEMMA SlotNext ==
    ASSUME NEW n \in Nat \ {0}, NEW w \in Nat \ {0}, w % n = 0,
           NEW y \in 0 .. w - 1, NEW i \in Nat
    PROVE  (((y + 1) % w) + i) % n = (y + (i + 1)) % n
<1>1. PICK m \in Nat \ {0} : w = n * m
  BY Multiple
<1>2. (y + 1) % w = IF y = w - 1 THEN 0 ELSE y + 1
  BY Succ, ZenonT(60)
<1>3. CASE y # w - 1
  <2>1. ((y + 1) % w) + i = y + (i + 1)
    BY <1>2, <1>3
  <2> QED
    BY <2>1, Zenon
<1>4. CASE y = w - 1
  <2>1. y + (i + 1) = i + w /\ ((y + 1) % w) + i = i
    BY <1>2, <1>4
  <2>2. i \in Int /\ m \in Int
    BY <1>1
  <2>3. (i + n * m) % n = i % n
    BY <2>2, SameMod, Zenon
  <2> QED
    BY <1>1, <2>1, <2>3, Zenon
<1> QED
  BY <1>3, <1>4, Zenon

\* An index may wrap before its slot is taken.
LEMMA SlotWrapped ==
    ASSUME NEW n \in Nat \ {0}, NEW w \in Nat \ {0}, w % n = 0, NEW a \in Int
    PROVE  (a % w) % n = a % n
<1> DEFINE d == a \div w
           r == a % w
<1>1. PICK m \in Nat \ {0} : w = n * m
  BY Multiple
<1>2. a = w * d + r /\ d \in Int /\ r \in 0 .. w - 1
  BY DivMod, Zenon
<1> HIDE DEF d, r
<1>3. r \in Int /\ m * d \in Int /\ w * d = n * (m * d) /\ n * (m * d) \in Int
  BY <1>1, <1>2
<1>4. a = r + n * (m * d)
  BY <1>2, <1>3
<1>5. (r + n * (m * d)) % n = r % n
  BY <1>2, <1>3, SameMod, Zenon
<1> QED
  BY <1>4, <1>5 DEF r

\* n entries in a row are in different slots.
LEMMA SlotsDiffer ==
    ASSUME NEW n \in Nat \ {0}, NEW y \in Int,
           NEW i \in 0 .. n - 1, NEW j \in 0 .. n - 1, (y + i) % n = (y + j) % n
    PROVE  i = j
<1> DEFINE a == y + i
           b == y + j
           q == a \div n
           p == b \div n
           r == a % n
<1>1. a \in Int /\ b \in Int /\ a - b = i - j /\ b % n = r
  OBVIOUS
<1> HIDE DEF a, b
<1>2. a = n * q + r /\ q \in Int /\ r \in 0 .. n - 1
  BY <1>1, DivMod, Zenon
<1>3. b = n * p + (b % n) /\ p \in Int
  BY <1>1, DivMod, Zenon
<1> HIDE DEF q, p, r
<1>4. /\ n * q \in Int /\ n * p \in Int
      /\ n * (q - p) = n * q - n * p /\ n * (p - q) = n * p - n * q
      /\ n * 0 = 0
  BY <1>2, <1>3
<1>5. CASE i >= j
  <2>1. n * (q - p) + 0 = n * 0 + (i - j)
    BY <1>1, <1>2, <1>3, <1>4
  <2>2. i - j \in 0 .. n - 1 /\ 0 \in 0 .. n - 1 /\ q - p \in Int
    BY <1>2, <1>3, <1>5
  <2> QED
    BY <2>1, <2>2, Unique
<1>6. CASE i < j
  <2>1. n * (p - q) + 0 = n * 0 + (j - i)
    BY <1>1, <1>2, <1>3, <1>4
  <2>2. j - i \in 0 .. n - 1 /\ 0 \in 0 .. n - 1 /\ p - q \in Int
    BY <1>2, <1>3, <1>6
  <2> QED
    BY <2>1, <2>2, Unique
<1> QED
  BY <1>5, <1>6
=============================================================================
