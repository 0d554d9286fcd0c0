------------------------------ MODULE MCArena ------------------------------
(***************************************************************************)
(* A small instance of Arena for TLC: pages of 16 bytes, and a u64 of 256  *)
(* values, so that sizes near the last wrap.                               *)
(***************************************************************************)
EXTENDS Arena

MCU64 == 256
MCBits == 8
MCPageSize == 16

\* The first page, which no alignment above a page divides, and the fourth, which
\* all of them divide.
MCStarts == {16, 64}

\* The default alignment of a block, a page, and two that are stricter than a page.
MCAlignments == {8, 16, 32, 64}

\* Empty, below, at and above a multiple of each alignment, an arena of 4 pages,
\* and sizes that wrap for the strictest alignment only and for every one.
MCSizes == {0, 1, 17, 40, 64, 200, 255}

MCMaxBlocks == 4

Tricks == INSTANCE BitTricks WITH Bits <- MCBits

Powers == {2^n : n \in 0..(MCBits - 1)}

\* What the assertion of align_size passes are the powers of two, 0 is none
\* (core.h:95, 99), and of these the mask is the arithmetic of Arena, where the
\* sum wraps too (core.h:100).
ASSUME TricksAreArithmetic ==
    /\ \A x \in 0..(MCU64 - 1) : Tricks!IsPowerOfTwo(x) <=> x \in Powers
    /\ \A size \in 0..(MCU64 - 1), alignment \in Powers :
          AlignSize(size, alignment) = Tricks!AlignSize(size, alignment)
=============================================================================
