---------------------------- MODULE ArenaProofs ----------------------------
(***************************************************************************)
(* Proofs about Arena, for any page size, mapping, alignments and requests. *)
(***************************************************************************)
EXTENDS Arena, TLAPS

-----------------------------------------------------------------------------
(* Multiples of an alignment.                                              *)

LEMMA Division ==
    ASSUME NEW x, x \in Nat, NEW a, a \in Nat, a > 0
    PROVE  /\ x \div a \in Nat /\ x % a \in 0..(a - 1)
           /\ x = a * (x \div a) + (x % a)
  OBVIOUS

Multiple(x, a) == \E q \in Int : x = a * q

LEMMA MultipleMod ==
    ASSUME NEW x, x \in Nat, NEW a, a \in Nat, a > 0
    PROVE  Multiple(x, a) <=> x % a = 0
<1>1. ASSUME x % a = 0 PROVE Multiple(x, a)
  <2>1. x \div a \in Int /\ x = a * (x \div a)
    BY <1>1, Division
  <2> QED  BY <2>1, Zenon DEF Multiple
<1>2. ASSUME Multiple(x, a) PROVE x % a = 0
  <2>1. PICK q \in Int : x = a * q
    BY <1>2 DEF Multiple
  <2> DEFINE d == x \div a   r == x % a
  <2>2. d \in Nat /\ r \in 0..(a - 1) /\ x = a * d + r
    BY Division
  <2> HIDE DEF d, r
  <2>3. r = a * (q - d)
    BY <2>1, <2>2
  <2>4. q - d < 1
    BY <2>2, <2>3, <2>1
  <2>5. q - d > -1
    BY <2>2, <2>3, <2>1
  <2>6. q - d = 0
    BY <2>1, <2>2, <2>4, <2>5
  <2> QED  BY <2>3, <2>6 DEF r
<1> QED  BY <1>1, <1>2

LEMMA MultipleSum ==
    ASSUME NEW x, x \in Int, NEW y, y \in Int, NEW a, a \in Nat,
           Multiple(x, a), Multiple(y, a)
    PROVE  Multiple(x + y, a) /\ Multiple(x - y, a)
<1>1. PICK q \in Int : x = a * q  BY DEF Multiple
<1>2. PICK r \in Int : y = a * r  BY DEF Multiple
<1>3. x + y = a * (q + r) /\ x - y = a * (q - r)  BY <1>1, <1>2
<1>4. q + r \in Int /\ q - r \in Int  BY <1>1, <1>2
<1> QED  BY <1>3, <1>4, Zenon DEF Multiple

LEMMA MultipleTrans ==
    ASSUME NEW x, x \in Int, NEW a, a \in Nat, NEW b, b \in Nat,
           Multiple(x, b), Multiple(b, a)
    PROVE  Multiple(x, a)
<1>1. PICK q \in Int : x = b * q  BY DEF Multiple
<1>2. PICK r \in Int : b = a * r  BY DEF Multiple
<1>3. x = a * (r * q)  BY <1>1, <1>2
<1>4. r * q \in Int  BY <1>1, <1>2
<1> QED  BY <1>3, <1>4 DEF Multiple

\* Two multiples are equal or at least one alignment apart.
LEMMA MultipleGap ==
    ASSUME NEW x, x \in Int, NEW y, y \in Int, NEW a, a \in Nat, a > 0,
           Multiple(x, a), Multiple(y, a), x < y + a
    PROVE  x <= y
<1>1. PICK q \in Int : x = a * q  BY DEF Multiple
<1>2. PICK r \in Int : y = a * r  BY DEF Multiple
<1>3. a * q < a * (r + 1)  BY <1>1, <1>2
<1>4. q < r + 1
  <2> SUFFICES ASSUME q >= r + 1 PROVE FALSE
    BY <1>1, <1>2
  <2>1. a * q >= a * (r + 1)  BY <1>1, <1>2
  <2> QED  BY <1>3, <2>1, <1>1, <1>2
<1>5. q <= r  BY <1>1, <1>2, <1>4
<1> QED  BY <1>1, <1>2, <1>5

-----------------------------------------------------------------------------
(* align_size rounds up to the next multiple.                              *)

\* What the assumptions say of an alignment: up to a page it divides the page,
\* and above it is whole pages.
LEMMA AlignmentFacts ==
    ASSUME NEW a, a \in Alignments
    PROVE  /\ a \in Nat /\ a > 0 /\ a < U64
           /\ a <= PageSize => Multiple(PageSize, a)
           /\ a > PageSize => Multiple(a, PageSize)
<1>1. /\ a \in Nat /\ a > 0 /\ a < U64 /\ PageSize \in Nat /\ PageSize > 0
      /\ IF a <= PageSize THEN PageSize % a = 0 ELSE a % PageSize = 0
  BY AlignmentsAssumption, PageAssumption, U64Assumption
<1>2. ASSUME a <= PageSize PROVE Multiple(PageSize, a)
  BY <1>1, <1>2, MultipleMod
<1>3. ASSUME a > PageSize PROVE Multiple(a, PageSize)
  BY <1>1, <1>3, MultipleMod
<1> QED  BY <1>1, <1>2, <1>3

LEMMA AlignSizeMultiple ==
    ASSUME NEW x, x \in Nat, NEW a, a \in Nat, a > 0
    PROVE  /\ AlignSize(x, a) \in Nat /\ AlignSize(x, a) < U64
           /\ Multiple(AlignSize(x, a), a)
<1> DEFINE s == (x + (a - 1)) % U64
<1>1. s \in 0..(U64 - 1)
  BY U64Assumption, PageAssumption
<1> HIDE DEF s
<1>2. s \in Nat /\ s \div a \in Nat /\ s % a \in 0..(a - 1) /\ s = a * (s \div a) + (s % a)
  BY <1>1, Division, U64Assumption
<1>3. AlignSize(x, a) = s - (s % a)
  BY DEF AlignSize, s
<1>4. s - (s % a) = a * (s \div a)
  BY <1>2
<1>5. Multiple(AlignSize(x, a), a)
  <2>1. AlignSize(x, a) = a * (s \div a) /\ s \div a \in Int
    BY <1>2, <1>3, <1>4
  <2> QED  BY <2>1, Zenon DEF Multiple
<1>6. a * (s \div a) >= 0
  BY <1>2
<1> QED  BY <1>1, <1>2, <1>3, <1>4, <1>5, <1>6, U64Assumption

LEMMA AlignSizeUp ==
    ASSUME NEW x, x \in Nat, NEW a, a \in Nat, a > 0, x + a <= U64
    PROVE  x <= AlignSize(x, a) /\ AlignSize(x, a) < x + a
<1> DEFINE s == x + (a - 1)
<1>1. s \in Nat /\ s < U64 /\ U64 \in Nat
  BY U64Assumption
<1>2. s % U64 = s
  BY <1>1
<1>3. AlignSize(x, a) = s - (s % a)
  BY <1>2 DEF AlignSize
<1>4. s % a \in 0..(a - 1)
  BY <1>1, Division
<1> QED  BY <1>3, <1>4

LEMMA AlignSizeWraps ==
    ASSUME NEW x, x \in 0..(U64 - 1), NEW a, a \in Nat, a > 0, a < U64,
           x + a > U64
    PROVE  AlignSize(x, a) = 0
<1> DEFINE s == x + (a - 1) - U64
<1>1. U64 \in Nat
  BY U64Assumption
<1>2. s \in Nat /\ s < a /\ s < U64 /\ x + (a - 1) = s + U64
  BY <1>1
<1> HIDE DEF s
<1>3. (s + U64) % U64 = s
  BY <1>1, <1>2
<1>4. s % a = s
  BY <1>2
<1> QED  BY <1>2, <1>3, <1>4 DEF AlignSize

\* What the rest needs: the result is the least multiple from x on.
LEMMA AlignSizeLeast ==
    ASSUME NEW x, x \in Nat, NEW y, y \in Nat, NEW a, a \in Nat, a > 0,
           x + a <= U64, x <= y, Multiple(y, a)
    PROVE  AlignSize(x, a) <= y
<1>1. AlignSize(x, a) \in Nat /\ Multiple(AlignSize(x, a), a)
  BY AlignSizeMultiple
<1>3. AlignSize(x, a) < x + a
  BY AlignSizeUp
<1>2. AlignSize(x, a) < y + a
  BY <1>1, <1>3
<1> QED  BY <1>1, <1>2, MultipleGap

LEMMA AlignSizeMonotone ==
    ASSUME NEW x, x \in Nat, NEW y, y \in Nat, NEW a, a \in Nat, a > 0,
           y + a <= U64, x <= y
    PROVE  AlignSize(x, a) <= AlignSize(y, a)
<1>1. AlignSize(y, a) \in Nat /\ Multiple(AlignSize(y, a), a)
  BY AlignSizeMultiple
<1>2. y <= AlignSize(y, a)
  BY AlignSizeUp
<1>4. x <= AlignSize(y, a)
  BY <1>1, <1>2
<1>3. x + a <= U64
  BY U64Assumption
<1> QED  BY <1>1, <1>3, <1>4, AlignSizeLeast

\* A block that starts at the aligned position ends where the next block of its
\* alignment may start.
LEMMA AlignSizeSum ==
    ASSUME NEW x, x \in Nat, NEW n, n \in Nat, NEW a, a \in Nat, a > 0,
           x + n + a <= U64, Multiple(n, a)
    PROVE  AlignSize(x, a) + n <= AlignSize(x + n, a)
<1>1. AlignSize(x, a) \in Nat /\ Multiple(AlignSize(x, a), a)
  BY AlignSizeMultiple
<1>0. x + n \in Nat /\ x + a <= U64 /\ (x + n) + a <= U64
  BY U64Assumption
<1>2. AlignSize(x + n, a) \in Nat /\ Multiple(AlignSize(x + n, a), a)
  BY <1>0, AlignSizeMultiple
<1>3. AlignSize(x, a) < x + a
  BY <1>0, AlignSizeUp
<1>4. x + n <= AlignSize(x + n, a)
  BY <1>0, AlignSizeUp
<1>5. AlignSize(x, a) + n < AlignSize(x + n, a) + a
  BY <1>1, <1>2, <1>3, <1>4
<1>6. Multiple(AlignSize(x, a) + n, a)
  BY <1>1, MultipleSum
<1>7. AlignSize(x, a) + n \in Int /\ AlignSize(x + n, a) \in Int
  BY <1>1, <1>2
<1> QED  BY <1>2, <1>5, <1>6, <1>7, MultipleGap

\* A stricter alignment starts no earlier.
LEMMA AlignSizeStricter ==
    ASSUME NEW x, x \in Nat, NEW a, a \in Alignments, NEW b, b \in Alignments,
           a <= b, x + b <= U64
    PROVE  AlignSize(x, a) <= AlignSize(x, b)
<1>1. a \in Nat /\ a > 0 /\ b \in Nat /\ b > 0
  BY AlignmentFacts
<1>2. b % a = 0
  BY AlignmentsAssumption
<1>3. Multiple(b, a)
  BY <1>1, <1>2, MultipleMod
<1>4. AlignSize(x, b) \in Nat /\ Multiple(AlignSize(x, b), b)
  BY <1>1, AlignSizeMultiple
<1>5. Multiple(AlignSize(x, b), a)
  BY <1>1, <1>3, <1>4, MultipleTrans
<1>6. x <= AlignSize(x, b)
  BY <1>1, AlignSizeUp
<1>7. x + a <= U64
  BY <1>1, U64Assumption
<1> QED  BY <1>1, <1>4, <1>5, <1>6, <1>7, AlignSizeLeast

-----------------------------------------------------------------------------
(* The inductive invariant.                                                *)

\* The mapping is whole pages, in the lower half of the addresses.
WholePages ==
    mode = "live" =>
        /\ Multiple(start, PageSize) /\ Multiple(capacity, PageSize)
        /\ 2 * (start + capacity) <= U64

\* A block that has bytes has an alignment the capacity leaves room for, so that
\* no alignment of a position wraps; its offset is aligned, and it ends before
\* the next block of its alignment, or of a stricter one, can start.
Placed(b) ==
    /\ b.alignment <= capacity
    /\ start <= b.pointer
    /\ Multiple(b.pointer - start, b.alignment)
    /\ End(b) <= start + AlignSize(position, b.alignment)

BlocksPlaced == mode = "live" => \A n \in Filled : Placed(blocks[n])

NotLive == mode # "live" => blocks = << >> /\ position = 0 /\ capacity = 0

ArenaInv ==
    /\ TypeOK
    /\ WholePages
    /\ BlocksPlaced /\ NotLive
    /\ OverlapsOnlyStricter
    /\ BlockHoldsRequest

LEMMA InitArenaInv == Init => ArenaInv
<1> SUFFICES ASSUME Init PROVE ArenaInv
  OBVIOUS
<1> USE DEF Init
<1>1. ndebug \in BOOLEAN
  BY Zenon
<1>2. TypeOK
  <2>1. 0 \in 0..(U64 - 1)  BY U64Assumption, PageAssumption
  <2> QED  BY <1>1, <2>1 DEF TypeOK
<1> QED  BY <1>2 DEF ArenaInv, WholePages, BlocksPlaced, NotLive,
                      OverlapsOnlyStricter, BlockHoldsRequest, Filled

-----------------------------------------------------------------------------
(* Every step preserves it.                                                *)

\* arena_make maps whole pages in the lower half.
LEMMA MakeStep == ArenaInv /\ ArenaMake => ArenaInv'
<1> SUFFICES ASSUME ArenaInv, ArenaMake PROVE ArenaInv'
  OBVIOUS
<1> USE DEF ArenaInv
<1>0. blocks = << >> /\ blocks' = << >> /\ mode' \in {"live", "stopped"}
  BY DEF ArenaMake, NotLive
<1>1. BlocksPlaced' /\ OverlapsOnlyStricter' /\ BlockHoldsRequest'
  BY <1>0 DEF BlocksPlaced, OverlapsOnlyStricter, BlockHoldsRequest, Filled
<1>2. ASSUME mode' = "live"
      PROVE  /\ start' \in Starts /\ capacity' \in 0..(U64 - 1) /\ capacity' > 0
             /\ Multiple(start', PageSize) /\ Multiple(capacity', PageSize)
             /\ 2 * (start' + capacity') <= U64
  <2>1. PICK size \in Sizes :
            /\ AlignSize(size, PageSize) > 0
            /\ start' \in Starts /\ capacity' = AlignSize(size, PageSize)
            /\ 2 * (start' + capacity') <= U64
    BY <1>2 DEF ArenaMake
  <2>2. size \in Nat /\ PageSize \in Nat /\ PageSize > 0 /\ U64 \in Nat
    BY <2>1, BoundsAssumption, PageAssumption, U64Assumption
  <2>3. capacity' \in Nat /\ capacity' < U64 /\ Multiple(capacity', PageSize)
    BY <2>1, <2>2, AlignSizeMultiple
  <2>6. start' \in Nat /\ start' % PageSize = 0
    BY <2>1, StartsAssumption
  <2>7. Multiple(start', PageSize)
    BY <2>2, <2>6, MultipleMod
  <2> QED  BY <2>1, <2>2, <2>3, <2>7
<1>3. WholePages'
  BY <1>2 DEF WholePages
<1>4. capacity' \in 0..(U64 - 1) /\ start' \in Nat /\ position' = 0
      /\ (mode' = "stopped" => capacity' = 0)
  BY <1>0, <1>2, StartsAssumption DEF ArenaMake, TypeOK, NotLive
<1>5. ndebug' \in BOOLEAN
  BY Zenon DEF TypeOK, ArenaMake
<1>6. TypeOK'
  <2>1. 0 \in 0..capacity'
    BY <1>4, U64Assumption
  <2> QED  BY <1>0, <1>2, <1>4, <1>5, <2>1 DEF TypeOK
<1> QED  BY <1>0, <1>1, <1>3, <1>4, <1>6 DEF NotLive

\* The block an allocation adds: where it is, and behind which blocks.
LEMMA NewBlock ==
    ASSUME ArenaInv, mode = "live",
           NEW request, request \in Sizes, NEW a, a \in Alignments,
           NEW n, n = AlignSize(request, a), capacity - position >= n,
           NEW first, first = (start + AlignSize(position, a)) % U64
    PROVE  /\ n \in Nat /\ position + n \in 0..capacity
           /\ first \in Nat
           /\ n >= request \/ (n = 0 /\ request > U64 - a)
           /\ n > 0 => /\ a <= capacity
                       /\ first = start + AlignSize(position, a)
                       /\ start <= first /\ Multiple(first - start, a)
                       /\ first + n <= start + AlignSize(position + n, a)
<1>1. /\ start \in Nat /\ capacity \in Nat /\ position \in Nat /\ position <= capacity
      /\ 2 * (start + capacity) <= U64
  BY U64Assumption DEF ArenaInv, TypeOK, WholePages
<1>2. a \in Nat /\ a > 0 /\ a < U64 /\ U64 \in Nat /\ U64 > 0
  BY AlignmentFacts, U64Assumption, PageAssumption
<1>3. request \in Nat /\ request \in 0..(U64 - 1)
  BY BoundsAssumption, <1>2
<1>4. n \in Nat /\ Multiple(n, a)
  BY <1>2, <1>3, AlignSizeMultiple
<1>5. position + n \in 0..capacity
  BY <1>1, <1>4
<1>6. AlignSize(position, a) \in Nat /\ Multiple(AlignSize(position, a), a)
  BY <1>1, <1>2, AlignSizeMultiple
<1>7. first \in Nat
  BY <1>1, <1>2, <1>6
<1>8. n >= request \/ (n = 0 /\ request > U64 - a)
  <2>1. CASE request + a <= U64
    BY <1>2, <1>3, <2>1, AlignSizeUp
  <2>2. CASE request + a > U64
    <3>1. AlignSize(request, a) = 0
      BY <1>2, <1>3, <2>2, AlignSizeWraps
    <3> QED  BY <1>2, <1>3, <2>2, <3>1
  <2> QED  BY <1>2, <1>3, <2>1, <2>2
<1>9. ASSUME n > 0
      PROVE  /\ a <= capacity
             /\ first = start + AlignSize(position, a)
             /\ start <= first /\ Multiple(first - start, a)
             /\ first + n <= start + AlignSize(position + n, a)
  <2>1. a <= n
    <3>1. Multiple(a, a)
      BY <1>2 DEF Multiple
    <3>2. a \in Int /\ n \in Int /\ a < n + a
      BY <1>2, <1>4, <1>9
    <3> QED  BY <1>2, <1>4, <3>1, <3>2, MultipleGap
  <2>2. a <= capacity /\ position + n + a <= U64
    BY <1>1, <1>2, <1>4, <1>5, <2>1
  <2>3. AlignSize(position, a) + n <= AlignSize(position + n, a)
    BY <1>1, <1>2, <1>4, <2>2, AlignSizeSum
  <2>4. position + n \in Nat /\ (position + n) + a <= U64
    BY <1>1, <1>2, <1>4, <2>2
  <2>5. /\ AlignSize(position + n, a) \in Nat
        /\ AlignSize(position + n, a) < position + n + a
    BY <1>2, <2>4, AlignSizeMultiple, AlignSizeUp
  <2>6. start + AlignSize(position, a) \in 0..(U64 - 1)
    BY <1>1, <1>2, <1>4, <1>5, <1>6, <1>9, <2>2, <2>3, <2>5
  <2>7. first = start + AlignSize(position, a)
    BY <1>2, <2>6
  <2>8. first - start = AlignSize(position, a)
    BY <1>1, <1>6, <2>7
  <2> QED  BY <1>1, <1>4, <1>6, <2>2, <2>3, <2>5, <2>7, <2>8
<1> QED  BY <1>4, <1>5, <1>7, <1>8, <1>9

\* What was placed before the position moves on stays placed.
LEMMA PlacedStays ==
    ASSUME ArenaInv, mode = "live", NEW m \in Filled,
           NEW p, p \in Nat, position <= p, p <= capacity
    PROVE  /\ blocks[m] \in Blocks
           /\ blocks[m].alignment <= capacity
           /\ End(blocks[m]) <= start + AlignSize(p, blocks[m].alignment)
<1> DEFINE b == blocks[m]
<1>1. b \in Blocks
  BY DEF ArenaInv, TypeOK, Filled
<1>2. /\ b.alignment \in Alignments /\ b.pointer \in Nat /\ b.size \in Nat
      /\ End(b) \in Nat
  BY <1>1 DEF Blocks, End
<1>3. /\ start \in Nat /\ capacity \in Nat /\ position \in Nat /\ U64 \in Nat
      /\ 2 * (start + capacity) <= U64
  BY U64Assumption DEF ArenaInv, TypeOK, WholePages
<1>4. b.alignment <= capacity /\ End(b) <= start + AlignSize(position, b.alignment)
  BY DEF ArenaInv, BlocksPlaced, Placed
<1> HIDE DEF b
<1>5. b.alignment \in Nat /\ b.alignment > 0
  BY <1>2, AlignmentFacts
<1>6. p + b.alignment <= U64
  BY <1>3, <1>4, <1>5
<1>7. AlignSize(position, b.alignment) <= AlignSize(p, b.alignment)
  BY <1>3, <1>5, <1>6, AlignSizeMonotone
<1>8. AlignSize(position, b.alignment) \in Nat /\ AlignSize(p, b.alignment) \in Nat
  BY <1>3, <1>5, AlignSizeMultiple
<1>9. End(b) <= start + AlignSize(p, b.alignment)
  BY <1>2, <1>3, <1>4, <1>7, <1>8
<1> QED  BY <1>1, <1>4, <1>9 DEF b

\* A new block starts behind those whose alignment is not stricter.
LEMMA NewBlockBehind ==
    ASSUME ArenaInv, mode = "live", NEW m \in Filled,
           NEW a, a \in Alignments, blocks[m].alignment <= a, a <= capacity
    PROVE  End(blocks[m]) <= start + AlignSize(position, a)
<1> DEFINE b == blocks[m]
<1>1. /\ start \in Nat /\ capacity \in Nat /\ position \in Nat /\ position <= capacity
      /\ U64 \in Nat /\ 2 * (start + capacity) <= U64
  BY U64Assumption DEF ArenaInv, TypeOK, WholePages
<1>2. b \in Blocks /\ End(b) <= start + AlignSize(position, b.alignment)
  BY <1>1, PlacedStays
<1>3. b.alignment \in Alignments /\ End(b) \in Nat /\ b.alignment <= a
  BY <1>2 DEF Blocks, End
<1> HIDE DEF b
<1>4. a \in Nat /\ a > 0 /\ b.alignment \in Nat /\ b.alignment > 0
  BY <1>3, AlignmentFacts
<1>5. AlignSize(position, b.alignment) <= AlignSize(position, a)
  <2>1. position + a <= U64
    BY <1>1, <1>4
  <2> QED  BY <1>1, <1>3, <2>1, AlignSizeStricter
<1>6. AlignSize(position, b.alignment) \in Nat /\ AlignSize(position, a) \in Nat
  BY <1>1, <1>4, AlignSizeMultiple
<1>7. End(b) <= start + AlignSize(position, a)
  BY <1>1, <1>2, <1>3, <1>5, <1>6
<1> QED  BY <1>7 DEF b

LEMMA AllocStep == ArenaInv /\ ArenaAllocAligned => ArenaInv'
<1> SUFFICES ASSUME ArenaInv, ArenaAllocAligned PROVE ArenaInv'
  OBVIOUS
<1>1. PICK request \in Sizes, a \in Alignments :
          AllocAt(request, a, AlignSize(position, a))
  BY DEF ArenaAllocAligned
<1> DEFINE n == AlignSize(request, a)
           first == (start + AlignSize(position, a)) % U64
           b == Block(request, a, first)
<1>2. /\ mode = "live" /\ mode' = "live" /\ capacity - position >= n
      /\ position' = position + n /\ blocks' = Append(blocks, b)
      /\ ndebug' = ndebug /\ start' = start /\ capacity' = capacity
  BY <1>1 DEF AllocAt
<1>3. /\ n \in Nat /\ position + n \in 0..capacity
      /\ first \in Nat
      /\ n >= request \/ (n = 0 /\ request > U64 - a)
      /\ n > 0 => /\ a <= capacity
                  /\ first = start + AlignSize(position, a)
                  /\ start <= first /\ Multiple(first - start, a)
                  /\ first + n <= start + AlignSize(position + n, a)
  BY <1>2, NewBlock
<1>4. b = [pointer |-> first, size |-> n, request |-> request, alignment |-> a]
  BY DEF Block
<1> HIDE DEF n, first, b
<1>5. b \in Blocks /\ End(b) = first + n /\ b.pointer = first /\ b.size = n
      /\ b.request = request /\ b.alignment = a
  BY <1>3, <1>4 DEF Blocks, End
<1>6. blocks \in Seq(Blocks) /\ position \in Nat /\ capacity \in Nat
  BY U64Assumption DEF ArenaInv, TypeOK
<1>7. /\ blocks' \in Seq(Blocks) /\ Len(blocks') = Len(blocks) + 1
      /\ blocks'[Len(blocks) + 1] = b /\ Len(blocks) \in Nat
      /\ \A m \in 1..Len(blocks) : blocks'[m] = blocks[m]
  BY <1>2, <1>5, <1>6
<1>13. /\ Filled' \subseteq 1..Len(blocks')
       /\ \A m \in Filled' : m \in Filled \/ (m = Len(blocks) + 1 /\ n > 0)
       /\ \A m \in Filled : m \in 1..Len(blocks)
  BY <1>5, <1>7 DEF Filled
<1>8. TypeOK'
  <2>1. ndebug' \in BOOLEAN
    BY <1>2, Zenon DEF ArenaInv, TypeOK
  <2>2. position' \in 0..capacity'
    BY <1>2, <1>3
  <2> QED  BY <1>2, <1>7, <2>1, <2>2 DEF ArenaInv, TypeOK
<1>9. WholePages' /\ NotLive'
  BY <1>2 DEF ArenaInv, WholePages, NotLive
<1>10. BlocksPlaced'
  <2>1. ASSUME NEW m \in Filled PROVE Placed(blocks[m])'
    <3>1. End(blocks[m]) <= start + AlignSize(position + n, blocks[m].alignment)
      BY <1>2, <1>3, <1>6, PlacedStays
    <3>2. Placed(blocks[m])
      BY <1>2 DEF ArenaInv, BlocksPlaced
    <3>3. blocks'[m] = blocks[m]
      BY <1>7, <1>13
    <3> QED  BY <1>2, <3>1, <3>2, <3>3 DEF Placed, End, AlignSize
  <2>2. ASSUME NEW m \in Filled', m = Len(blocks) + 1, n > 0 PROVE Placed(blocks[m])'
    BY <1>2, <1>3, <1>5, <1>7, <2>2 DEF Placed, End, AlignSize
  <2> QED  BY <1>13, <2>1, <2>2 DEF BlocksPlaced
<1>11. OverlapsOnlyStricter'
  <2> SUFFICES ASSUME NEW k \in Filled', NEW m \in Filled', k < m,
                      blocks'[k].alignment <= blocks'[m].alignment
               PROVE  End(blocks'[k]) <= blocks'[m].pointer
    BY DEF OverlapsOnlyStricter, End
  <2>0. k \in 1..Len(blocks') /\ m \in 1..Len(blocks')
    BY <1>13
  <2>1. k \in Filled /\ k \in 1..Len(blocks) /\ blocks'[k] = blocks[k]
    BY <1>7, <1>13, <2>0
  <2>2. CASE m \in Filled
    <3>1. blocks'[m] = blocks[m]
      BY <1>7, <1>13, <2>2
    <3> QED  BY <2>1, <2>2, <3>1 DEF ArenaInv, OverlapsOnlyStricter
  <2>3. CASE m = Len(blocks) + 1 /\ n > 0
    <3>1. blocks[k].alignment <= a
      BY <1>5, <1>7, <2>1, <2>3
    <3>2. End(blocks[k]) <= first
      BY <1>2, <1>3, <2>1, <2>3, <3>1, NewBlockBehind
    <3> QED  BY <1>5, <1>7, <2>1, <2>3, <3>2
  <2> QED  BY <1>13, <2>2, <2>3
<1>12. BlockHoldsRequest'
  <2> SUFFICES ASSUME NEW m \in 1..Len(blocks')
               PROVE  \/ blocks'[m].size >= blocks'[m].request
                      \/ blocks'[m].size = 0
                         /\ blocks'[m].request > U64 - blocks'[m].alignment
    BY DEF BlockHoldsRequest
  <2>1. CASE m \in 1..Len(blocks)
    BY <1>7, <2>1 DEF ArenaInv, BlockHoldsRequest
  <2>2. CASE m = Len(blocks) + 1
    BY <1>3, <1>5, <1>7, <2>2
  <2> QED  BY <1>7, <2>1, <2>2
<1> QED  BY <1>8, <1>9, <1>10, <1>11, <1>12 DEF ArenaInv

\* The other steps leave no blocks behind, or none there were.
LEMMA OtherSteps ==
    ArenaInv /\ (ArenaClear \/ ArenaDelete \/ UseDeleted \/ UNCHANGED vars) => ArenaInv'
<1> SUFFICES ASSUME ArenaInv,
                    ArenaClear \/ ArenaDelete \/ UseDeleted \/ UNCHANGED vars
             PROVE  ArenaInv'
  OBVIOUS
<1>0. ndebug' \in BOOLEAN
  BY Zenon DEF ArenaInv, TypeOK, ArenaClear, ArenaDelete, UseDeleted, vars
<1>a. capacity \in Nat /\ U64 \in Nat /\ U64 > 0 /\ 0 \in 0..capacity /\ 0 \in 0..(U64 - 1)
  BY U64Assumption, PageAssumption DEF ArenaInv, TypeOK
<1> USE DEF ArenaInv, TypeOK, WholePages, BlocksPlaced, NotLive, OverlapsOnlyStricter,
            BlockHoldsRequest, Filled
<1>1. CASE ArenaClear
  BY <1>0, <1>a, <1>1 DEF ArenaClear
<1>2. CASE ArenaDelete
  BY <1>0, <1>a, <1>2 DEF ArenaDelete
<1>3. CASE UseDeleted
  BY <1>0, <1>a, <1>3 DEF UseDeleted
<1>4. CASE UNCHANGED vars
  BY <1>0, <1>a, <1>4 DEF vars, Placed, End, AlignSize
<1> QED  BY <1>1, <1>2, <1>3, <1>4

-----------------------------------------------------------------------------
(* The theorems.                                                           *)

LEMMA ArenaInvariant == Spec => []ArenaInv
<1>1. ArenaInv /\ [Next]_vars => ArenaInv'
  BY MakeStep, AllocStep, OtherSteps DEF Next
<1> QED  BY <1>1, InitArenaInv, PTL DEF Spec

\* The position stays inside the capacity, and a live arena has a mapping: what
\* arena_valid asks for.
THEOREM TypeCorrect == Spec => []TypeOK
<1>1. ArenaInv => TypeOK  BY DEF ArenaInv
<1> QED  BY <1>1, ArenaInvariant, PTL

\* A position in the mapping, aligned, is in it or at its end, but for the pages by
\* which an alignment is stricter than a page.
LEMMA AlignedInArena ==
    ASSUME ArenaInv, mode = "live", NEW a, a \in Alignments, a <= capacity
    PROVE  /\ AlignSize(position, a) \in Nat
           /\ AlignSize(position, a) <= capacity + PagesOver(a)
<1>1. /\ start \in Nat /\ capacity \in Nat /\ position \in Nat /\ U64 \in Nat
      /\ position <= capacity /\ 2 * (start + capacity) <= U64
      /\ Multiple(capacity, PageSize) /\ PageSize \in Nat /\ PageSize > 0
  BY U64Assumption, PageAssumption DEF ArenaInv, TypeOK, WholePages
<1>2. a \in Nat /\ a > 0
  BY AlignmentFacts
<1>3. position + a <= U64
  BY <1>1, <1>2
<1>4. /\ AlignSize(position, a) \in Nat /\ Multiple(AlignSize(position, a), a)
      /\ AlignSize(position, a) < position + a
  BY <1>1, <1>2, <1>3, AlignSizeMultiple, AlignSizeUp
<1>5. CASE a <= PageSize
  <2>1. capacity \in Int /\ Multiple(PageSize, a)
    BY <1>1, <1>5, AlignmentFacts
  <2>2. Multiple(capacity, a)
    BY <1>1, <1>2, <2>1, MultipleTrans
  <2>3. AlignSize(position, a) <= capacity
    BY <1>1, <1>2, <1>3, <2>2, AlignSizeLeast
  <2> QED  BY <1>1, <1>2, <1>4, <1>5, <2>3 DEF PagesOver
<1>6. CASE a > PageSize
  <2> DEFINE aligned == AlignSize(position, a)
             top == capacity + (a - PageSize)
  <2>1. Multiple(a, PageSize)
    BY <1>6, AlignmentFacts
  <2>2. aligned \in Int /\ Multiple(aligned, a)
    BY <1>4
  <2> HIDE DEF aligned
  <2>3. Multiple(aligned, PageSize)
    BY <1>1, <1>2, <2>1, <2>2, MultipleTrans
  <2>4. /\ Multiple(PageSize, PageSize)
        /\ capacity \in Int /\ a \in Int /\ PageSize \in Int /\ capacity + a \in Int
    BY <1>1, <1>2 DEF Multiple
  <2>5. Multiple(capacity + a, PageSize)
    BY <1>1, <2>1, <2>4, MultipleSum
  <2>6. Multiple((capacity + a) - PageSize, PageSize)
    BY <1>1, <2>4, <2>5, MultipleSum
  <2>7. (capacity + a) - PageSize = top /\ top \in Int
    BY <1>1, <1>2
  <2>8. aligned < top + PageSize
    BY <1>1, <1>2, <1>4 DEF aligned
  <2>9. Multiple(top, PageSize)
    BY <2>6, <2>7
  <2> HIDE DEF top
  <2>10. aligned <= top
    BY <1>1, <2>2, <2>3, <2>7, <2>8, <2>9, MultipleGap
  <2> QED  BY <1>4, <1>6, <2>10 DEF aligned, top, PagesOver
<1> QED  BY <1>1, <1>2, <1>5, <1>6

\* Blocks lie inside the mapping, padding in front of them included, but for the
\* pages by which an alignment is stricter than a page.
THEOREM BlocksStayInside == Spec => []BlocksInArena
<1>1. ASSUME ArenaInv PROVE BlocksInArena
  <2>1. CASE mode = "live"
    <3> SUFFICES ASSUME NEW m \in Filled
                 PROVE  /\ start <= blocks[m].pointer
                        /\ End(blocks[m])
                               <= start + capacity + PagesOver(blocks[m].alignment)
      BY DEF BlocksInArena
    <3>1. Placed(blocks[m])
      BY <1>1, <2>1 DEF ArenaInv, BlocksPlaced
    <3>2. blocks[m] \in Blocks /\ start \in Nat /\ capacity \in Nat
      BY <1>1, U64Assumption DEF ArenaInv, TypeOK, Filled
    <3> DEFINE a == blocks[m].alignment
    <3>3. a \in Alignments /\ a <= capacity /\ End(blocks[m]) \in Nat
      BY <3>1, <3>2 DEF Blocks, End, Placed
    <3>4. End(blocks[m]) <= start + AlignSize(position, a)
      BY <3>1 DEF Placed
    <3> HIDE DEF a
    <3>5. /\ AlignSize(position, a) \in Nat
          /\ AlignSize(position, a) <= capacity + PagesOver(a)
      BY <1>1, <2>1, <3>3, AlignedInArena
    <3>6. PagesOver(a) \in Int
      BY <3>3, AlignmentFacts, PageAssumption DEF PagesOver
    <3>7. End(blocks[m]) <= start + capacity + PagesOver(a)
      BY <3>2, <3>3, <3>4, <3>5, <3>6
    <3> QED  BY <3>1, <3>7 DEF Placed, a
  <2>2. CASE mode # "live"
    BY <1>1, <2>2 DEF ArenaInv, NotLive, BlocksInArena, Filled
  <2> QED  BY <2>1, <2>2
<1> QED  BY <1>1, ArenaInvariant, PTL

\* Blocks are aligned as asked for, above a page if the arena is.
THEOREM PointersAreAligned == Spec => []PointersAligned
<1>1. ASSUME ArenaInv PROVE PointersAligned
  <2> SUFFICES ASSUME NEW m \in Filled,
                      ~(/\ blocks[m].alignment > PageSize
                        /\ start % blocks[m].alignment # 0)
               PROVE  blocks[m].pointer % blocks[m].alignment = 0
    BY DEF PointersAligned
  <2>1. mode = "live" /\ blocks[m] \in Blocks
    BY <1>1 DEF ArenaInv, NotLive, TypeOK, Filled
  <2> DEFINE a == blocks[m].alignment   p == blocks[m].pointer
  <2>2. Multiple(p - start, a) /\ start <= p
    BY <1>1, <2>1 DEF ArenaInv, BlocksPlaced, Placed
  <2>3. /\ a \in Alignments /\ p \in Nat /\ start \in Nat
        /\ Multiple(start, PageSize) /\ PageSize \in Nat
    BY <1>1, <2>1, PageAssumption DEF Blocks, ArenaInv, WholePages, TypeOK
  <2>4. a <= PageSize \/ start % a = 0
    BY <2>3, AlignmentFacts
  <2> HIDE DEF a, p
  <2>5. a \in Nat /\ a > 0
    BY <2>3, AlignmentFacts
  <2>6. Multiple(start, a)
    <3>1. CASE a <= PageSize
      <4>1. Multiple(PageSize, a)
        BY <2>3, <3>1, AlignmentFacts
      <4>2. start \in Int
        BY <2>3
      <4> QED  BY <2>3, <2>5, <4>1, <4>2, MultipleTrans
    <3>2. CASE start % a = 0
      BY <2>3, <2>5, <3>2, MultipleMod
    <3> QED  BY <2>4, <3>1, <3>2
  <2>7. Multiple((p - start) + start, a)
    <3>1. p - start \in Int /\ start \in Int
      BY <2>3
    <3> QED  BY <2>2, <2>5, <2>6, <3>1, MultipleSum
  <2>8. (p - start) + start = p
    BY <2>3
  <2>9. p % a = 0
    BY <2>3, <2>5, <2>7, <2>8, MultipleMod
  <2> QED  BY <2>9 DEF a, p
<1> QED  BY <1>1, ArenaInvariant, PTL

\* Blocks of one alignment never overlap, whatever is allocated between them.
THEOREM BlocksKeepApart == Spec => []OverlapsOnlyStricter
<1>1. ArenaInv => OverlapsOnlyStricter  BY DEF ArenaInv
<1> QED  BY <1>1, ArenaInvariant, PTL

\* A block is as large as was asked for, or the size wrapped to 0.
THEOREM BlocksAreLargeEnough == Spec => []BlockHoldsRequest
<1>1. ArenaInv => BlockHoldsRequest  BY DEF ArenaInv
<1> QED  BY <1>1, ArenaInvariant, PTL
=============================================================================
