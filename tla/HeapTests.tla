----------------------------- MODULE HeapTests -----------------------------
(***************************************************************************)
(* memory-c, the tests of mmap() and of malloc() and its relatives: main() *)
(* of src/memory-c/main.c runs eight tests one after the other on one heap.*)
(*                                                                         *)
(* The tests are data, the operations of module HeapScripts; the actions   *)
(* below are what a step of one does with its pointers and asserts.  The   *)
(* allocator is outside the repository: it has one heap of a fixed capacity*)
(* and takes the first or the smallest hole, with or without a header      *)
(* before each block, and it has at most one fault.                        *)
(***************************************************************************)
EXTENDS HeapScripts

CONSTANTS
  Capacities  \* the sizes of heap considered, in bytes

ASSUME CapacitiesAssumption == Capacities \subseteq Nat \ {0}

(***************************************************************************)
(* One wrong behaviour each of the allocator.                              *)
(***************************************************************************)
Faults == {
  "no_coalesce",       \* two free neighbours stay two
  "free_leaks",        \* free() gives nothing back
  "small_unreserved",  \* what a block of less than a page takes stays free
  "unreserved",        \* so does what any block takes
  "shrink_cuts",       \* free() also unmaps the last block if it is small
  "never_null",        \* malloc() returns a pointer past the end when full
  "align_ignored",     \* aligned_alloc() aligns as malloc() does
  "realloc_no_copy",   \* the new block is not filled from the old one
  "realloc_leaks",     \* the old block is not freed
  "realloc_null",      \* a null pointer is refused
  "usable_stale",      \* malloc_usable_size() keeps the size before realloc()
  "usable_rounded",    \* ... returns what was set aside, as POSIX systems may
  "mmap_read_only", "munmap_fails"}

Headers == {0, 16}
Arrays == {"ptr", "blocks", "anchors", "gaps"}

VARIABLES
  world,       \* [fault, capacity, header, fit], which does not change
  free,        \* the free parts of the heap, as intervals [lo, hi]
  held,        \* array -> the blocks the test holds in it
  num_large,   \* the local of test_heap_max_capacity()
  test, step,  \* the operation to be done next
  turn,        \* how often it was done
  status       \* "running", "ok", "aborted" or "crashed"

heap == <<free, held, num_large>>
where == <<test, step, turn, status>>
vars == <<world, heap, where>>

Op == Suite[test][step]
Is(ops) == status = "running" /\ Op.op \in ops
Mine == held[Op.array]
Live == UNION {ToSet(held[a]) : a \in Arrays}

Init ==
  /\ world \in [fault : Faults \cup {"none"}, capacity : Capacities, header : Headers,
                fit : {"first", "best"}]
  /\ free = {[lo |-> 0, hi |-> world.capacity]}
  /\ held = [a \in Arrays |-> <<>>] /\ num_large = 0
  /\ test = 1 /\ step = 1 /\ turn = 0 /\ status = "running"
-----------------------------------------------------------------------------
(***************************************************************************)
(* The allocator.                                                          *)
(***************************************************************************)
Fault(f) == world.fault = f
RoundUp(n, m) == ((n + m - 1) \div m) * m

\* Where a block at the start of hole h lies and ends.
At(h, align) == RoundUp(h.lo + world.header, align)
End(h, n, align) == At(h, align) + RoundUp(n, 8)
Fitting(n, align) == {h \in free : End(h, n, align) <= h.hi}
\* The first one, or the smallest.
FirstOf(H) == CHOOSE h \in H : \A g \in H : h.lo <= g.lo
Best(H) == IF world.fit = "first" THEN FirstOf(H)
           ELSE FirstOf({h \in H : \A g \in H : h.hi - h.lo <= g.hi - g.lo})

\* The block of n bytes that starts hole h.  first is its first byte, and
\* sound says that nobody else was given any of it.
BlockIn(h, n, align) ==
  [lo |-> h.lo, at |-> At(h, align), hi |-> End(h, n, align), size |-> n,
   usable |-> n, first |-> 0, sound |-> TRUE]

Reserved(n) == ~(Fault("unreserved") \/ (Fault("small_unreserved") /\ n < PAGE))
FreeAfterAlloc(h, b) ==
  IF ~Reserved(b.size) THEN free
  ELSE (free \ {h}) \cup IF b.hi < h.hi THEN {[lo |-> b.hi, hi |-> h.hi]} ELSE {}

\* Adjacent and overlapping intervals become one.
Merged(F, i) ==
  LET near == {g \in F : g.lo <= i.hi /\ i.lo <= g.hi} \cup {i}
  IN (F \ near) \cup {[lo |-> Min({g.lo : g \in near}), hi |-> Max({g.hi : g \in near})]}
FreeAfterFree(F, b) ==
  LET i == [lo |-> b.lo, hi |-> b.hi]
  IN CASE Fault("free_leaks") -> F
       [] Fault("no_coalesce") -> F \cup {i}
       [] OTHER -> Merged(F, i)

Overlap(b, c) == b.lo < c.hi /\ c.lo < b.hi
Each(Change(_), h) == [a \in Arrays |-> [k \in DOMAIN h[a] |-> Change(h[a][k])]]

\* The test writes n bytes from the start of block b: the first becomes first,
\* the others 0.  Every block that starts at one of them, be it b or one that
\* overlaps it, has it as its first byte.
Write(b, n, first, h) ==
  Each(LAMBDA c : IF c.at < b.at \/ c.at >= b.at + n THEN c
                  ELSE [c EXCEPT !.first = IF c.at = b.at THEN first ELSE 0], h)
\* Handing out block b spoils those it overlaps.
Spoil(b, h) == Each(LAMBDA c : IF Overlap(b, c) THEN [c EXCEPT !.sound = FALSE] ELSE c, h)
\* Unmapping the tail of the heap spoils the last block of less than a page.
Cut(h) ==
  LET last == Max({c.hi : c \in UNION {ToSet(h[a]) : a \in Arrays}})
  IN Each(LAMBDA c : IF c.hi = last /\ c.size < PAGE THEN [c EXCEPT !.sound = FALSE]
                     ELSE c, h)

\* An allocator with headers finds a header of its own before the block, or
\* ends the process; one without does not look.
FreeRefuses(b) == ~b.sound /\ world.header > 0
-----------------------------------------------------------------------------
Goto(t, s) == test' = t /\ step' = s /\ turn' = 0
GoOn ==
  CASE step < Len(Suite[test]) -> Goto(test, step + 1) /\ UNCHANGED status
    [] step = Len(Suite[test]) /\ test < Len(Suite) -> Goto(test + 1, 1) /\ UNCHANGED status
    [] OTHER -> status' = "ok" /\ UNCHANGED <<test, step, turn>>
Again == turn' = turn + 1 /\ UNCHANGED <<test, step, status>>
Stay(s) == status' = s /\ UNCHANGED <<test, step, turn>>

\* assert(ok), the last thing the operation does.
AssertThat(ok) == IF ok THEN GoOn ELSE Stay("aborted")

BytesWritten(n) == CASE Op.write = "whole" -> n [] Op.write = "first" -> 1 [] OTHER -> 0

\* The pointer goes to the end of the array; the block is written as the
\* operation says, its first byte with its number in the array.
Hold(b) ==
  held' = Write(b, BytesWritten(b.size), Len(Mine),
                [Spoil(b, held) EXCEPT ![Op.array] = Append(@, b)])

Allocation == {"malloc", "fill", "realloc_null", "reclaim"}
Align == IF Fault("align_ignored") THEN 8 ELSE Op.align
Size ==
  CASE Op.op # "reclaim" -> Op.size
    [] Op.op = "reclaim" /\ num_large >= 2 -> 2 * MB
    [] OTHER -> MB
Room == IF Op.op = "realloc_null" /\ Fault("realloc_null") THEN {} ELSE Fitting(Size, Align)
\* The loops over the gaps go to anchor_count.
Limit == IF Op.array = "gaps" THEN Len(held["anchors"]) ELSE Op.n

\* p = malloc(size), or aligned_alloc(), finds room.
Allocate ==
  /\ Is(Allocation) /\ turn < Limit /\ Room # {}
  /\ \E h \in {Best(Room)} : \E b \in {BlockIn(h, Size, Align)} :
       free' = FreeAfterAlloc(h, b) /\ Hold(b)
  /\ IF Op.op = "fill" \/ turn + 1 < Limit THEN Again ELSE GoOn
  /\ UNCHANGED <<world, num_large>>

\* It does not: assert(p != NULL) fails, or break leaves the loop; a pointer
\* that is not null is written through.
AllocateFull ==
  /\ Is(Allocation) /\ turn < Limit /\ Room = {}
  /\ CASE Fault("never_null") -> Stay("crashed")
       [] ~Fault("never_null") /\ Op.op = "fill" -> GoOn
       [] OTHER -> Stay("aborted")
  /\ UNCHANGED <<world, heap>>

FillDone == Is({"fill"}) /\ turn = Limit /\ GoOn /\ UNCHANGED <<world, heap>>

\* free() of the first pointer that is left in the array; free_even keeps
\* every second one, as an anchor.
FreeOne ==
  /\ Is({"free", "free_even"}) /\ Mine # <<>>
  /\ LET b == Head(Mine)
         left == [held EXCEPT ![Op.array] = Tail(@)]
     IN \/ /\ Op.op = "free_even" /\ turn % 2 = 1
           /\ held' = [left EXCEPT !["anchors"] = Append(@, b)]
           /\ Again
           /\ UNCHANGED free
        \/ /\ Op.op = "free" \/ turn % 2 = 0
           /\ IF FreeRefuses(b) THEN Stay("aborted") /\ UNCHANGED <<free, held>>
              ELSE /\ free' = FreeAfterFree(free, b)
                   /\ held' = IF Fault("shrink_cuts") /\ Live # {b} THEN Cut(left) ELSE left
                   /\ Again
  /\ UNCHANGED <<world, num_large>>

FreeDone ==
  Is({"free", "free_even"}) /\ Mine = <<>> /\ GoOn /\ UNCHANGED <<world, heap>>

MemsetPtr ==
  /\ Is({"memset"})
  /\ held' = Write(Mine[1], BytesWritten(Mine[1].size), 0, held)
  /\ GoOn
  /\ UNCHANGED <<world, free, num_large>>

\* realloc() moves the block.  What it must keep is compared if the test does.
ReallocPtr ==
  /\ Is({"realloc"})
  /\ LET old == Mine[1]
         holes == Fitting(Op.size, 8)
         h == Best(holes)
         b == [BlockIn(h, Op.size, 8) EXCEPT
                 !.first = IF Fault("realloc_no_copy") THEN @ - 1 ELSE old.first,
                 !.usable = IF Fault("usable_stale") THEN old.usable ELSE @]
         spoilt == [old EXCEPT !.sound = @ /\ ~Overlap(old, b)]
         rest == FreeAfterAlloc(h, b)
     IN \/ holes = {} /\ Stay("aborted") /\ UNCHANGED heap
        \/ holes # {} /\ FreeRefuses(spoilt) /\ Stay("aborted") /\ UNCHANGED heap
        \/ /\ holes # {} /\ ~FreeRefuses(spoilt)
           /\ free' = IF Fault("realloc_leaks") THEN rest ELSE FreeAfterFree(rest, old)
           /\ held' = [held EXCEPT !["ptr"] = <<b>>]
           /\ AssertThat(Op.compare => b.first = old.first)
           /\ UNCHANGED num_large
  /\ UNCHANGED world
-----------------------------------------------------------------------------
\* The first byte of each block, or all bytes of one, are what was written.
Holds ==
  CASE Op.op = "check" -> \A k \in DOMAIN Mine : Mine[k].first = k - 1
    [] Op.op = "check_align" -> Mine[1].at % Op.align = 0
    [] Op.op = "usable" ->
         Op.size = IF Fault("usable_rounded") THEN RoundUp(Mine[1].usable, 8)
                   ELSE Mine[1].usable
    [] Op.op = "some_gaps" -> held["anchors"] # <<>> => held["gaps"] # <<>>
    [] Op.op = "munmap" -> ~Fault("munmap_fails")
    [] OTHER -> TRUE

\* The operations that only assert something.
AssertOnly ==
  /\ Is({"check", "check_align", "usable", "usable_null", "some_gaps", "munmap"})
  /\ AssertThat(Holds)
  /\ UNCHANGED <<world, heap>>

CountLarge ==
  /\ Is({"some_blocks"})
  /\ num_large' = Len(held["blocks"])
  /\ AssertThat(num_large' >= 1)
  /\ UNCHANGED <<world, free, held>>

\* A page is mapped and written to.
MmapPage ==
  /\ Is({"mmap"})
  /\ IF Fault("mmap_read_only") THEN Stay("crashed") ELSE GoOn
  /\ UNCHANGED <<world, heap>>

Operation ==
  \/ Allocate \/ AllocateFull \/ FillDone \/ FreeOne \/ FreeDone \/ MemsetPtr
  \/ ReallocPtr \/ AssertOnly \/ CountLarge \/ MmapPage

Stop == status # "running" /\ UNCHANGED vars

Next == Operation \/ Stop

Spec == Init /\ [][Next]_vars
-----------------------------------------------------------------------------
\* What the suite asks of the heap: four blocks of a megabyte with an anchor
\* after each (heap_shrink.c:154).
Needed ==
  NUM_LARGE_BLOCKS * (MB + world.header)
    + IF Fault("small_unreserved") THEN 0
      ELSE NUM_LARGE_BLOCKS * (ANCHOR_SIZE + world.header)

\* The faults that no test sees ...
Unseen ==
  \* ... because nobody reads an anchor again (heap_stress.c:114, heap_shrink.c:163),
  \* and aligned blocks are taken from an empty heap (aligned_alloc_free.c:58) ...
  (IF world.header = 0 THEN {"small_unreserved", "shrink_cuts", "align_ignored"} ELSE {})
  \* ... because the loops that fill the heap stop at 32 MB (heap_stress.c:50,
  \* :56): with more it is never full, and with much more (twice is enough,
  \* less is, depending on headers and fit) each size has memory of its own ...
    \cup (IF world.capacity >= MAX_FILL_BLOCKS * (MB + world.header) THEN {"never_null"} ELSE {})
    \cup (IF world.capacity >= 2 * MAX_FILL_BLOCKS * MB THEN {"no_coalesce"} ELSE {})
  \* ... and because little is leaked.
    \cup (IF world.capacity >= Needed + 64 + world.header THEN {"realloc_leaks"} ELSE {})

\* A passing run rules out every other fault, and a failing one means that the
\* allocator has such a fault or too little memory for the suite.
PassTells ==
  status # "running" =>
    (status = "ok" <=>
       world.fault \in {"none"} \cup Unseen /\ world.capacity >= Needed)

\* Each test gives back what it took: on a conforming allocator the next one
\* begins with one free interval, the whole heap, however the one before it
\* cut the heap up (heap_stress.c:126, heap_shrink.c:173), and so does what
\* comes after the last.
DrainedBetween ==
  /\ world.fault = "none"
  /\ status = "ok" \/ (status = "running" /\ step = 1 /\ turn = 0)
  => /\ free = {[lo |-> 0, hi |-> world.capacity]}
     /\ \A a \in Arrays : held[a] = <<>>
=============================================================================
