------------------------------ MODULE BitTricks ------------------------------
(***************************************************************************)
(* is_power_of_two and align_size (src/src/base/core.h:94-101) as the bit  *)
(* operations they are.  Arena, PrepareData and Memory use arithmetic in   *)
(* their place; MCArena compares the two on every u64 of its width.        *)
(***************************************************************************)
EXTENDS Integers, Bitwise

CONSTANT Bits    \* of a u64: 64 in the code

Complement(x) == 2^Bits - 1 - x

Minus1(x) == (x + 2^Bits - 1) % 2^Bits

IsPowerOfTwo(x) == x # 0 /\ (x & Minus1(x)) = 0

AlignSize(size, alignment) ==
    ((size + Minus1(alignment)) % 2^Bits) & Complement(Minus1(alignment))
=============================================================================
