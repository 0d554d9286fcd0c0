------------------------------- MODULE Arena -------------------------------
(***************************************************************************)
(* An arena (src/src/base/arena.h): one mapping that is handed out from    *)
(* the front, block after block, and taken back as a whole.  The analyzer  *)
(* allocates with the alignment of arena_alloc only; the module has every  *)
(* alignment arena_alloc_aligned takes, those above a page included.       *)
(*                                                                         *)
(* Addresses and sizes are u64 numbers; the contents of blocks are left    *)
(* out.                                                                    *)
(***************************************************************************)
EXTENDS Integers, Sequences

CONSTANTS
    U64,         \* the number of values of a u64: 2^64 in the code
    PageSize,    \* get_page_size()
    Starts,      \* addresses mmap may map an arena at
    Alignments,  \* alignments asked for, powers of two
    Sizes,       \* sizes asked for
    MaxBlocks    \* bound on the blocks handed out between two clears

ASSUME PageAssumption == PageSize \in Nat \ {0}
ASSUME U64Assumption == U64 \in Nat /\ U64 > PageSize /\ U64 % PageSize = 0
ASSUME StartsAssumption ==
    \A s \in Starts : s \in Nat /\ s > 0 /\ s % PageSize = 0
\* Of two powers of two the smaller divides the larger, and a page is one too.
ASSUME AlignmentsAssumption ==
    \A a \in Alignments :
        /\ a \in 1..(U64 - 1)
        /\ IF a <= PageSize THEN PageSize % a = 0 ELSE a % PageSize = 0
        /\ \A b \in Alignments : a <= b => b % a = 0
ASSUME BoundsAssumption == Sizes \subseteq 0..(U64 - 1) /\ MaxBlocks \in Nat

VARIABLES
    mode,      \* "none" before arena_make, "live", "deleted", "stopped"
    ndebug,    \* Release build: assert() is compiled out
    start, capacity, position,   \* arena_t
    blocks     \* history: what was handed out since the last clear, in order

vars == <<mode, ndebug, start, capacity, position, blocks>>

-----------------------------------------------------------------------------
(* Here and below, an operator named after another with a suffix is a      *)
(* mistaken form of it, which the properties tell from the definition.     *)

AlignSizeDown(size, alignment) == size - (size % alignment)

\* (size + (alignment - 1)) & ~(alignment - 1), in u64: the sum may wrap.
AlignSize(size, alignment) ==
    LET sum == (size + (alignment - 1)) % U64 IN sum - (sum % alignment)

Init ==
    /\ mode = "none"
    /\ ndebug \in BOOLEAN
    /\ start = 0 /\ capacity = 0 /\ position = 0
    /\ blocks = << >>

\* arena_make: mmap maps into the lower half of the addresses, which is the half
\* of a process.  A size of 0, or one that wraps to 0, and a mapping that mmap
\* refuses fail an assertion; a Release build makes an arena at MAP_FAILED, and
\* the first write to it traps.
ArenaMake ==
    /\ mode = "none"
    /\ \E size \in Sizes :
          \/ /\ AlignSize(size, PageSize) > 0
             /\ mode' = "live"
             /\ start' \in Starts
             /\ capacity' = AlignSize(size, PageSize)
             /\ 2 * (start' + capacity') <= U64
          \/ mode' = "stopped" /\ UNCHANGED <<start, capacity>>
    /\ UNCHANGED <<ndebug, position, blocks>>

\* The block that is handed out; by mistake, its size is rounded down.
BlockSizeDown(request, alignment, pointer) ==
    [pointer |-> pointer, size |-> AlignSizeDown(request, alignment),
     request |-> request, alignment |-> alignment]

Block(request, alignment, pointer) ==
    [pointer |-> pointer, size |-> AlignSize(request, alignment),
     request |-> request, alignment |-> alignment]

\* The pointer is aligned up from the position, and the position moves on by the
\* size alone.  Where there is no room NULL is returned and nothing changes.
AllocAt(request, alignment, offset) ==
    /\ mode = "live" /\ Len(blocks) < MaxBlocks
    /\ capacity - position >= AlignSize(request, alignment)
    /\ position' = position + AlignSize(request, alignment)
    /\ blocks' = Append(blocks, Block(request, alignment, (start + offset) % U64))
    /\ UNCHANGED <<mode, ndebug, start, capacity>>

AllocBehind ==
    \E request \in Sizes, alignment \in Alignments :
        AllocAt(request, alignment, AlignSize(position + 1, alignment))

AllocAlignedDown ==
    \E request \in Sizes, alignment \in Alignments :
        AllocAt(request, alignment, AlignSizeDown(position, alignment))

ArenaAllocAligned ==
    \E request \in Sizes, alignment \in Alignments :
        AllocAt(request, alignment, AlignSize(position, alignment))

\* arena_clear, and arena_release, which gives the pages back to the system too.
ArenaClear ==
    /\ mode = "live"
    /\ position' = 0 /\ blocks' = << >>
    /\ UNCHANGED <<mode, ndebug, start, capacity>>

\* arena_delete clears the arena_t too.
ArenaDelete ==
    /\ mode = "live" /\ mode' = "deleted"
    /\ start' = 0 /\ capacity' = 0 /\ position' = 0 /\ blocks' = << >>
    /\ UNCHANGED ndebug

\* A deleted arena is not valid: any use fails an assertion.  In a Release build
\* it has no room: allocations return NULL and nothing changes.
UseDeleted ==
    /\ mode = "deleted" /\ ~ndebug
    /\ mode' = "stopped"
    /\ UNCHANGED <<ndebug, start, capacity, position, blocks>>

Next ==
    \/ ArenaMake
    \/ ArenaAllocAligned
    \/ ArenaClear
    \/ ArenaDelete
    \/ UseDeleted

Spec == Init /\ [][Next]_vars

-----------------------------------------------------------------------------
(* What must hold of the blocks.                                           *)

Blocks == [pointer : Nat, size : Nat, request : Sizes, alignment : Alignments]

\* arena_valid holds of an arena from arena_make to arena_delete.
TypeOK ==
    /\ mode \in {"none", "live", "deleted", "stopped"}
    /\ ndebug \in BOOLEAN
    /\ start \in Nat
    /\ capacity \in 0..(U64 - 1) /\ position \in 0..capacity
    /\ mode = "live" => start \in Starts /\ capacity > 0
    /\ blocks \in Seq(Blocks)

End(b) == b.pointer + b.size

\* The blocks that have bytes: of an empty one nothing is read or written.
Filled == {n \in 1..Len(blocks) : blocks[n].size > 0}

\* What a position may have to be padded by that the mapping has no page for.
PagesOver(alignment) == IF alignment > PageSize THEN alignment - PageSize ELSE 0

\* The room is checked against the position and the block starts behind it, at the
\* next multiple of its alignment (arena.h:74-79).  A block lies inside the
\* mapping all the same if its alignment is at most a page; one of a stricter
\* alignment may end behind the mapping, by less than the alignment.
BlocksInArena ==
    \A n \in Filled :
        /\ start <= blocks[n].pointer
        /\ End(blocks[n]) <= start + capacity + PagesOver(blocks[n].alignment)

\* A block has the alignment it was asked for.  Only its offset is aligned
\* (arena.h:78): an alignment above a page is that of the pointer too just if the
\* arena happens to start at a multiple of it.
PointersAligned ==
    \A n \in Filled :
        \/ blocks[n].pointer % blocks[n].alignment = 0
        \/ blocks[n].alignment > PageSize /\ start % blocks[n].alignment # 0

\* A later block starts behind an earlier one, unless the earlier one asked for
\* a stricter alignment: its padding is not counted, and a later block may start
\* inside it.  Blocks of arena_alloc, which all have one alignment, never overlap.
OverlapsOnlyStricter ==
    \A m, n \in Filled :
        m < n /\ blocks[m].alignment <= blocks[n].alignment =>
            End(blocks[m]) <= blocks[n].pointer

\* A block has the bytes that were asked for, unless the size is so near to 2^64
\* that aligning it wraps to 0.
BlockHoldsRequest ==
    \A n \in 1..Len(blocks) :
        \/ blocks[n].size >= blocks[n].request
        \/ blocks[n].size = 0 /\ blocks[n].request > U64 - blocks[n].alignment
=============================================================================
