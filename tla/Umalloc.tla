------------------------------ MODULE Umalloc -------------------------------
(***************************************************************************)
(* The allocator of user/umalloc.c.  An address is a number of Headers; a  *)
(* block is a header and what follows it.  The free blocks are a circular  *)
(* list through base, which has size 0 and lies below the heap.            *)
(*                                                                         *)
(* A process has one thread, so that a call is one step.  The owner of a   *)
(* block overwrites all of it but the header, and what is left of a header *)
(* that is no longer one is junk.                                          *)
(***************************************************************************)
EXTENDS Integers, FiniteSets

CONSTANTS Requests,     \* arguments of malloc()
          HeaderSize,   \* sizeof(Header)
          NALLOC,       \* the least number of units morecore() asks for
          HeapEnd       \* bound: where sbrk() always fails

NULL == 0
base == 1
HeapStart == 3

VARIABLES mem,      \* [ptr, size] of the header at each address
          freep,
          brk,      \* end of the process's memory
          arena,    \* the units that morecore() got
          live      \* the blocks that malloc() has returned: [at, size]

vars == <<mem, freep, brk, arena, live>>

Junk == [ptr |-> -1, size |-> -1]

Init ==
    /\ mem = [a \in base .. HeapEnd - 1 |-> Junk]
    /\ freep = NULL
    /\ brk = HeapStart
    /\ arena = {} /\ live = {}

Units(from, size) == from .. from + size - 1

-----------------------------------------------------------------------------
\* free(): the block after which bp goes: between p and its successor, or at
\* either end of the list.
RECURSIVE Place(_, _, _)
Place(m, p, bp) ==
    IF \/ bp > p /\ bp < m[p].ptr
       \/ p >= m[p].ptr /\ (bp > p \/ bp < m[p].ptr)
    THEN p ELSE Place(m, m[p].ptr, bp)

\* Block x, followed by block y in the list, takes y in if they touch.
Join(m, x, y, next) ==
    IF x + m[x].size = y
    THEN [m EXCEPT ![x] = [ptr |-> m[y].ptr, size |-> m[x].size + m[y].size], ![y] = Junk]
    ELSE [m EXCEPT ![x].ptr = next]

\* Mutant of Link: bp is not joined to the block below it.
LinkAbove(m, p, bp) ==
    LET up == Join(m, bp, m[p].ptr, m[p].ptr) IN [up EXCEPT ![p].ptr = bp]

Link(m, p, bp) ==
    LET up == Join(m, bp, m[p].ptr, m[p].ptr) IN Join(up, p, bp, bp)

\* The heap [mem, freep, brk, arena] after free(bp).
FreeBlock(h, bp) ==
    LET p == Place(h.mem, h.freep, bp) IN
    [h EXCEPT !.mem = Link(h.mem, p, bp), !.freep = p]

\* morecore(): a larger block than was asked for.
CoreUnits(n) == IF n < NALLOC THEN NALLOC ELSE n

MoreCore(h, n) ==
    LET nu == CoreUnits(n)
        hp == h.brk IN
    FreeBlock([h EXCEPT !.mem[hp] = [ptr |-> -1, size |-> nu],
                        !.brk = hp + nu,
                        !.arena = @ \cup Units(hp, nu)], hp)

\* malloc()'s search from prevp on: the predecessor of the first block with n
\* units, or NULL when the search is back at freep.
RECURSIVE Fit(_, _, _)
Fit(h, prevp, n) ==
    LET p == h.mem[prevp].ptr IN
    IF h.mem[p].size >= n THEN prevp
    ELSE IF p = h.freep THEN NULL ELSE Fit(h, p, n)

\* The block after prevp, or its upper end, is taken.
Taken(m, prevp, n) == LET p == m[prevp].ptr IN p + m[p].size - n

Take(h, prevp, n) ==
    LET m  == h.mem
        p  == m[prevp].ptr
        at == Taken(m, prevp, n) IN
    [h EXCEPT !.mem = IF at = p THEN [m EXCEPT ![prevp].ptr = m[p].ptr, ![p].ptr = -1]
                      ELSE [m EXCEPT ![p].size = @ - n, ![at] = [ptr |-> -1, size |-> n]],
              !.freep = prevp]

NUnits(nbytes) == (nbytes + HeaderSize - 1) \div HeaderSize + 1

-----------------------------------------------------------------------------
\* The first call makes the list.
Heap ==
    [mem |-> IF freep = NULL THEN [mem EXCEPT ![base] = [ptr |-> base, size |-> 0]] ELSE mem,
     freep |-> IF freep = NULL THEN base ELSE freep, brk |-> brk, arena |-> arena]

Become(h) == mem' = h.mem /\ freep' = h.freep /\ brk' = h.brk /\ arena' = h.arena

\* The caller gets the block and fills it.
Return(h, prevp, n) ==
    LET at == Taken(h.mem, prevp, n)
        g  == Take(h, prevp, n) IN
    /\ Become([g EXCEPT !.mem = [a \in DOMAIN g.mem |->
                                    IF a \in Units(at + 1, n - 1) THEN Junk ELSE g.mem[a]]])
    /\ live' = live \cup {[at |-> at, size |-> n]}

\* malloc(): the list has a block, or sbrk() brings one, or sbrk() fails.
Malloc(nbytes) ==
    LET n == NUnits(nbytes)
        found == Fit(Heap, Heap.freep, n) IN
    IF found # NULL THEN Return(Heap, found, n)
    ELSE \/ /\ brk + CoreUnits(n) <= HeapEnd
            /\ LET h == MoreCore(Heap, n) IN Return(h, Fit(h, h.freep, n), n)
         \/ Become(Heap) /\ UNCHANGED live

Free(b) ==
    /\ Become(FreeBlock(Heap, b.at))
    /\ live' = live \ {b}

\* The program calls sbrk() itself: the heap gets a hole.
Sbrk ==
    /\ brk < HeapEnd
    /\ brk' = brk + 1
    /\ UNCHANGED <<mem, freep, arena, live>>

Next == \/ \E nbytes \in Requests : Malloc(nbytes)
        \/ \E b \in live : Free(b)
        \/ Sbrk

Spec == Init /\ [][Next]_vars

-----------------------------------------------------------------------------
\* The blocks on the list, other than base.
RECURSIVE From(_, _)
From(a, seen) == IF a = base \/ a \in seen THEN seen ELSE From(mem[a].ptr, seen \cup {a})

FreeBlocks == IF freep = NULL THEN {} ELSE From(mem[base].ptr, {})

\* malloc() never hands out memory twice and free() loses none: each unit that
\* sbrk() gave malloc() is in one free block or in one of the caller's, whose
\* header still says how large it is.  The list is in order, closed and joined:
\* no two free blocks touch.
HeapSound ==
    /\ \A b \in live : mem[b.at].size = b.size
    /\ LET unused == {[at |-> a, size |-> mem[a].size] : a \in FreeBlocks}
           Covers(b) == Units(b.at, b.size) IN
       /\ UNION {Covers(b) : b \in unused \cup live} = arena
       /\ \A b, c \in unused \cup live : b # c => Covers(b) \cap Covers(c) = {}
       /\ \A b, c \in unused : b.at + b.size # c.at
    /\ freep # NULL =>
          /\ freep \in FreeBlocks \cup {base}
          /\ \A a \in FreeBlocks \cup {base} :
                \/ mem[a].ptr = base
                \/ mem[a].ptr > a /\ \A c \in FreeBlocks : ~(a < c /\ c < mem[a].ptr)
=============================================================================
