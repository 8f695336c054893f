---------------------------- MODULE HeapScripts ----------------------------
(***************************************************************************)
(* The tests of memory-c as sequences of operations, in the order of       *)
(* src/memory-c/main.c.  An operation names the local variable it works on *)
(* (an array, or a pointer as an array of one), the sizes in bytes, the    *)
(* byte it writes and what the test asserts.  A loop of one call is one    *)
(* operation that takes one step per turn.                                 *)
(***************************************************************************)
EXTENDS Integers, SequencesExt

KB == 1024
MB == 1024 * KB
PAGE == 4 * KB

ANCHOR_SIZE == 64
MAX_FILL_BLOCKS == 32
MAX_MEDIUM_BLOCKS == 128
MEDIUM_BLOCK_SIZE == 256 * KB
NUM_LARGE_BLOCKS == 4
RECLAIM_ROUNDS == 32
ALLOCS_PER_ROUND == 8

\* The operation at place i of a loop whose body is as long in every turn.
Repeat(script, n) ==
  [i \in 1..n * Len(script) |-> script[((i - 1) % Len(script)) + 1]]
ForEach(seq, Script(_)) ==
  LET len == Len(Script(seq[1]))
  IN  [i \in 1..len * Len(seq) |-> Script(seq[((i - 1) \div len) + 1])[((i - 1) % len) + 1]]

-----------------------------------------------------------------------------
\* n calls of malloc() that must succeed; of a block that is written "whole"
\* all bytes are set, and then the first to the number of the block.
Malloc(a, n, s, w) ==
  [op |-> "malloc", array |-> a, n |-> n, size |-> s, align |-> 8, write |-> w]
Aligned(al, s, w) == [Malloc("ptr", 1, s, w) EXCEPT !.align = al]
\* The same until one fails, or so many.
Fill(a, n, s, w) == [Malloc(a, n, s, w) EXCEPT !.op = "fill"]
Free(a) == [op |-> "free", array |-> a]
Memset(w) == [op |-> "memset", array |-> "ptr", write |-> w]
Check(a) == [op |-> "check", array |-> a]
CheckAlign(al) == [op |-> "check_align", array |-> "ptr", align |-> al]
Usable(s) == [op |-> "usable", array |-> "ptr", size |-> s]
\* realloc(), and whether the bytes that must be kept are compared.
Realloc(s, c) == [op |-> "realloc", array |-> "ptr", size |-> s, compare |-> c]
Do(o) == [op |-> o, array |-> "ptr"]
\* realloc(NULL, size), and the block of phase 2, whose size depends.
ReallocNull(s) == [Malloc("ptr", 1, s, "whole") EXCEPT !.op = "realloc_null"]
Reclaim == [Malloc("ptr", 1, 0, "whole") EXCEPT !.op = "reclaim"]

Bare(s) == Malloc("ptr", 1, s, "nothing")
Get(s) == Malloc("ptr", 1, s, "whole")
Touch(s) == Malloc("ptr", 1, s, "first")

test_mmap_munmap == <<Do("mmap"), Do("munmap")>>

test_malloc_free ==
  ForEach(<<1, 8, 32, 128, 511, 512, 1024, 4096>>,
          LAMBDA s : <<Get(s), Check("ptr"), Free("ptr")>>)
    \o Repeat(<<Touch(64), Free("ptr")>>, 100)

test_aligned_alloc_free ==
  ForEach(<< <<4, 4>>, <<8, 16>>, <<16, 32>>, <<32, 64>>, <<64, 128>>,
             <<128, 256>>, <<256, 512>>, <<512, 512>>, <<1024, 2048>> >>,
          LAMBDA c : <<Aligned(c[1], c[2], "nothing"), CheckAlign(c[1]),
                       Memset("whole"), Check("ptr"), Free("ptr")>>)
    \o Repeat(<<Aligned(64, 64, "nothing"), CheckAlign(64), Memset("first"),
                Free("ptr")>>, 64)

test_malloc_usable_size ==
  <<Do("usable_null")>>
    \o ForEach(<<1, 8, 32, 64, 127, 128, 255, 256, 511, 512, 1024>>,
               LAMBDA s : <<Bare(s), Usable(s), Memset("whole"), Check("ptr"),
                            Free("ptr")>>)
    \o <<Bare(64), Usable(64), Realloc(200, FALSE), Usable(200), Memset("whole"),
         Free("ptr"), Aligned(128, 256, "nothing"), CheckAlign(128), Usable(256),
         Free("ptr")>>
    \o Repeat(<<Bare(96), Usable(96), Memset("first"), Free("ptr")>>, 100)

-----------------------------------------------------------------------------
(***************************************************************************)
(* heap_stress.c.  Its generator works on 32 bits, as the set of those set.*)
(***************************************************************************)
Xor(x, y) == (x \ y) \cup (y \ x)
ShiftLeft(x, k) == {i + k : i \in x} \cap 0..31
ShiftRight(x, k) == {i - k : i \in x} \cap 0..31

xorshift32(state) ==
  LET a == Xor(state, ShiftLeft(state, 13))
      b == Xor(a, ShiftRight(a, 17))
  IN Xor(b, ShiftLeft(b, 5))

\* 0xDEADBEEF, and the state after n calls.
XORSHIFT_SEED == {i \in 0..31 : IF i < 16 THEN (48879 \div 2^i) % 2 = 1
                                ELSE (57005 \div 2^(i - 16)) % 2 = 1}
rng[n \in Nat] == IF n = 0 THEN XORSHIFT_SEED ELSE xorshift32(rng[n - 1])

\* BLOCK_SIZES[rng % NUM_BLOCK_SIZES] of the nth call.
BLOCK_SIZES == <<512 * KB, 256 * KB, 128 * KB, 64 * KB>>
Bit(x, i) == IF i \in x THEN 1 ELSE 0
BlockSize(n) == LET x == rng[n] IN BLOCK_SIZES[1 + Bit(x, 0) + 2 * Bit(x, 1)]

\* A block, and an anchor after every second one; round and slot from 0.
Block(round, slot) ==
  Malloc("blocks", 1, BlockSize(round * ALLOCS_PER_ROUND + slot + 1), "first")
AllocationRound(round) ==
  ForEach([k \in 1..ALLOCS_PER_ROUND \div 2 |-> 2 * (k - 1)],
          LAMBDA slot : <<Block(round, slot), Block(round, slot + 1),
                          Malloc("anchors", 1, ANCHOR_SIZE, "first")>>)
    \o <<Free("blocks")>>
AllRounds == ForEach([k \in 1..RECLAIM_ROUNDS |-> k - 1], AllocationRound)

\* Mutant: the anchors are left.
test_heap_reclaimKept == AllRounds
test_heap_reclaim == AllRounds \o <<Free("anchors")>>

\* The four phases.
FillPhase == <<Fill("blocks", MAX_FILL_BLOCKS, MB, "whole"), Do("some_blocks"),
               Check("blocks")>>
DrainPhase == <<Free("blocks"), Reclaim, Free("ptr")>>
FragmentationPhase ==
  <<Fill("blocks", MAX_MEDIUM_BLOCKS, MEDIUM_BLOCK_SIZE, "whole"),
    [Free("blocks") EXCEPT !.op = "free_even"],
    Fill("gaps", MAX_MEDIUM_BLOCKS, MEDIUM_BLOCK_SIZE, "first"), Do("some_gaps"),
    Check("gaps"), Free("gaps"), Free("anchors")>>
ReusePhase == Repeat(<<Touch(512 * KB), Check("ptr"), Free("ptr")>>, 8)
test_heap_max_capacity == FillPhase \o DrainPhase \o FragmentationPhase \o ReusePhase

-----------------------------------------------------------------------------
\* heap_shrink.c
LargeBlocks == <<Malloc("blocks", NUM_LARGE_BLOCKS, MB, "whole"), Check("blocks")>>

scenario_bulk_free == Repeat(LargeBlocks \o <<Free("blocks")>>, 2)

scenario_shrink_to_minimum ==
  <<Get(2 * MB), Free("ptr"), Malloc("blocks", 4, 64 * KB, "whole"),
    Check("blocks"), Free("blocks")>>

WithAnchors == Repeat(<<Malloc("blocks", 1, MB, "whole"),
                        Malloc("anchors", 1, ANCHOR_SIZE, "whole")>>, NUM_LARGE_BLOCKS)
\* Mutant: the first blocks are freed with the second ones.
scenario_anchors_prevent_full_shrinkLate ==
  WithAnchors \o <<Free("anchors")>> \o LargeBlocks \o <<Free("blocks")>>
scenario_anchors_prevent_full_shrink ==
  WithAnchors \o <<Free("blocks"), Free("anchors")>> \o LargeBlocks \o <<Free("blocks")>>

scenario_shrink_grow_cycles ==
  Repeat(<<Get(MB), Check("ptr"), Free("ptr")>>, 16)

scenario_small_heap_minimum ==
  Repeat(<<Malloc("blocks", 8, 128, "whole"), Free("blocks")>>, 2)

test_heap_shrink ==
  scenario_bulk_free \o scenario_shrink_to_minimum
    \o scenario_anchors_prevent_full_shrink \o scenario_shrink_grow_cycles
    \o scenario_small_heap_minimum

-----------------------------------------------------------------------------
\* realloc.c
test_realloc ==
  <<Get(64), Realloc(256, TRUE), Free("ptr"), Get(512), Realloc(64, TRUE),
    Free("ptr"), ReallocNull(128), Check("ptr"), Free("ptr")>>
    \o ForEach(<<1, 7, 8, 9, 15, 16, 17, 31, 32, 33>>,
               LAMBDA s : <<Get(s), Realloc(2 * s, TRUE), Free("ptr")>>)
    \o <<Get(32)>>
    \o Repeat(<<Realloc(64, TRUE), Memset("whole"), Realloc(32, TRUE),
                Memset("whole")>>, 32)
    \o <<Free("ptr")>>

Suite == <<test_mmap_munmap, test_malloc_free, test_aligned_alloc_free,
           test_malloc_usable_size, test_heap_reclaim, test_heap_max_capacity,
           test_heap_shrink, test_realloc>>
=============================================================================
