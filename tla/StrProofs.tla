----------------------------- MODULE StrProofs -----------------------------
(***************************************************************************)
(* Proofs about Str, for every arena, every number of strings and every    *)
(* text.                                                                   *)
(***************************************************************************)
EXTENDS Str, SequenceTheorems, WellFoundedInduction, TLAPS

(***************************************************************************)
(* The inductive invariant: beside what is checked, the blocks lie below   *)
(* the position of the arena, and the texts handed in are characters.      *)
(***************************************************************************)
BlocksBelow ==
    \A n \in 1..Len(blocks) : blocks[n].start + blocks[n].size <= position

StrInv == TypeOK /\ ViewsInBlock /\ BlocksBelow

\* Parts of it that a step keeps together.
ArenaOK == position \in 0..Capacity /\ blocks \in Seq(Block) /\ BlocksBelow

StrsOK == strs \in Seq(Str) /\ ViewsInBlock

BlocksKept ==
    /\ Len(blocks) <= Len(blocks')
    /\ \A n \in 1..Len(blocks) : blocks'[n] = blocks[n]

-----------------------------------------------------------------------------
(* Arithmetic and memory.                                                  *)

LEMMA AlignedFacts ==
    ASSUME NEW size \in Nat
    PROVE  Aligned(size) \in Nat /\ Aligned(size) >= size
<1> DEFINE x == size + Alignment - 1
           q == x \div Alignment
<1>1. x \in Nat /\ Alignment \in Nat /\ Alignment > 0
  BY ArenaAssumption
<1>2. q \in Nat /\ x % Alignment \in 0..(Alignment - 1)
      /\ x = Alignment * q + (x % Alignment)
  <2> HIDE DEF x
  <2> QED  BY <1>1
<1>3. q * Alignment = x - (x % Alignment)
  BY <1>1, <1>2
<1>4. Aligned(size) = q * Alignment
  BY DEF Aligned
<1>5. q * Alignment \in Nat
  <2> HIDE DEF q
  <2> QED  BY <1>1, <1>2
<1> HIDE DEF q
<1>6. q * Alignment >= size
  BY <1>1, <1>2, <1>3
<1> QED  BY <1>4, <1>5, <1>6

\* The bytes that memmove changes, and what they become.
LEMMA MovedFacts ==
    ASSUME NEW bytes \in [Addresses -> Bytes], NEW to \in Int, NEW from \in Int,
           NEW length \in Nat,
           length > 0 => from >= 0 /\ from + length <= Capacity
    PROVE  /\ Moved(bytes, to, from, length) \in [Addresses -> Bytes]
           /\ \A a \in Addresses :
                Moved(bytes, to, from, length)[a] =
                    IF a \in to..(to + length - 1) THEN bytes[from + (a - to)]
                                                   ELSE bytes[a]
BY ArenaAssumption DEF Moved, Addresses

LEMMA WrittenFacts ==
    ASSUME NEW bytes \in [Addresses -> Bytes], NEW to \in Int,
           NEW cstr \in Seq(Chars)
    PROVE  /\ Written(bytes, to, cstr) \in [Addresses -> Bytes]
           /\ \A a \in Addresses :
                a \notin to..(to + Len(cstr) - 1) =>
                    Written(bytes, to, cstr)[a] = bytes[a]
<1>1. ASSUME NEW a \in Addresses, a \in to..(to + Len(cstr) - 1)
      PROVE  cstr[a - to + 1] \in Bytes
  BY <1>1, ArenaAssumption DEF Addresses, Bytes
<1> QED  BY <1>1 DEF Written

-----------------------------------------------------------------------------
(* What the invariant says of one view, in the terms of the leaves.        *)

LEMMA ViewFacts ==
    ASSUME StrInv, NEW n \in Views
    PROVE  /\ strs[n] \in Str
           /\ strs[n].length <= strs[n].capacity
           /\ strs[n].capacity > 0 =>
                 /\ strs[n].block \in 1..Len(blocks)
                 /\ blocks[strs[n].block].start <= strs[n].start
                 /\ strs[n].start + strs[n].capacity <=
                       blocks[strs[n].block].start + blocks[strs[n].block].size
                 /\ strs[n].start >= 0
                 /\ strs[n].start + strs[n].capacity <= position
<1>1. strs[n] \in Str /\ ViewIn(strs[n], blocks)
  BY DEF StrInv, TypeOK, ViewsInBlock, Views
<1>2. /\ strs[n].start \in -1..Capacity /\ strs[n].length \in 0..Capacity
      /\ strs[n].capacity \in 0..Capacity
  BY <1>1 DEF Str
<1>3. CASE strs[n].capacity > 0
  <2> DEFINE b == blocks[strs[n].block]
  <2>1. /\ strs[n].block \in 1..Len(blocks)
        /\ b.start <= strs[n].start
        /\ strs[n].start + strs[n].capacity <= b.start + b.size
    BY <1>1, <1>2, <1>3 DEF ViewIn
  <2>2. b \in Block
    BY <2>1 DEF StrInv, TypeOK
  <2>3. b.start \in 0..Capacity /\ b.size \in 0..Capacity
    BY <2>2 DEF Block
  <2>4. b.start + b.size <= position
    BY <2>1 DEF StrInv, BlocksBelow
  <2>5. position \in 0..Capacity
    BY DEF StrInv, TypeOK
  <2> HIDE DEF b
  <2>6. strs[n].start >= 0 /\ strs[n].start + strs[n].capacity <= position
    BY <1>2, <2>1, <2>3, <2>4, <2>5, ArenaAssumption
  <2> QED  BY <1>1, <2>1, <2>6 DEF ViewIn, b
<1> QED  BY <1>1, <1>2, <1>3, ArenaAssumption DEF ViewIn

\* A view that a text is moved from.
LEMMA SourceFacts ==
    ASSUME StrInv, NEW n \in Views
    PROVE  /\ strs[n].start \in Int /\ strs[n].length \in Nat
           /\ strs[n].length > 0 =>
                 /\ strs[n].start >= 0
                 /\ strs[n].start + strs[n].length <= Capacity
           /\ position \in Nat /\ position <= Capacity
<1>1. /\ strs[n].start \in -1..Capacity /\ strs[n].length \in 0..Capacity
      /\ strs[n].capacity \in 0..Capacity
  BY ViewFacts DEF Str
<1>2. /\ strs[n].length <= strs[n].capacity
      /\ strs[n].capacity > 0 => /\ strs[n].start >= 0
                                 /\ strs[n].start + strs[n].capacity <= position
  BY ViewFacts
<1>3. position \in 0..Capacity
  BY DEF StrInv, TypeOK
<1> QED  BY <1>1, <1>2, <1>3, ArenaAssumption

-----------------------------------------------------------------------------
(* The parts, by what a step does to them.                                 *)

LEMMA PartsInv ==
    ASSUME mode \in {"live", "stopped"}, ndebug \in BOOLEAN,
           memory \in [Addresses -> Bytes], ArenaOK, StrsOK
    PROVE  StrInv
BY DEF ArenaOK, StrsOK, StrInv, TypeOK

LEMMA ArenaSame ==
    ASSUME StrInv, UNCHANGED arena
    PROVE  ArenaOK' /\ BlocksKept
BY DEF arena, StrInv, TypeOK, ArenaOK, BlocksBelow, BlocksKept

LEMMA BlockTaken ==
    ASSUME StrInv, NEW size \in Nat, TakeBlock(size)
    PROVE  /\ ArenaOK' /\ BlocksKept
           /\ Len(blocks) + 1 \in 1..Len(blocks')
           /\ blocks'[Len(blocks) + 1] = [start |-> position, size |-> size]
           /\ position \in Nat /\ position + size <= Capacity
<1> DEFINE b == [start |-> position, size |-> size]
<1>1. /\ position \in 0..Capacity /\ blocks \in Seq(Block)
      /\ Capacity \in Nat /\ BlocksBelow
  BY ArenaAssumption DEF StrInv, TypeOK
<1>2. /\ position' = position + Aligned(size) /\ blocks' = Append(blocks, b)
      /\ Capacity - position >= Aligned(size)
  BY DEF TakeBlock, Room
<1>3. Aligned(size) \in Nat /\ Aligned(size) >= size
  BY AlignedFacts
<1>4. position + size <= position' /\ position' \in 0..Capacity
      /\ position <= position'
  BY <1>1, <1>2, <1>3
<1>5. b \in Block
  BY <1>1, <1>4 DEF Block
<1>6. /\ blocks' \in Seq(Block) /\ Len(blocks') = Len(blocks) + 1
      /\ Len(blocks) \in Nat
      /\ \A n \in 1..Len(blocks) : blocks'[n] = blocks[n]
      /\ blocks'[Len(blocks) + 1] = b
  <2> HIDE DEF b
  <2> QED  BY <1>1, <1>2, <1>5
<1>7. ASSUME NEW n \in 1..Len(blocks')
      PROVE  blocks'[n].start + blocks'[n].size <= position'
  <2>1. CASE n \in 1..Len(blocks)
    <3>1. blocks'[n] = blocks[n] /\ blocks[n] \in Block
      BY <1>1, <1>6, <2>1
    <3>2. blocks[n].start \in Nat /\ blocks[n].size \in Nat
      BY <1>1, <3>1 DEF Block
    <3>3. blocks[n].start + blocks[n].size <= position
      BY <1>1, <2>1 DEF BlocksBelow
    <3> QED  BY <1>1, <1>4, <3>1, <3>2, <3>3
  <2>2. CASE n = Len(blocks) + 1
    BY <1>4, <1>6, <2>2
  <2> QED  BY <1>6, <2>1, <2>2
<1>8. BlocksBelow'
  BY <1>7 DEF BlocksBelow
<1> QED  BY <1>1, <1>4, <1>6, <1>8 DEF ArenaOK, BlocksKept

\* A view stays in its block when blocks are handed out.
LEMMA ViewKept ==
    ASSUME StrInv, BlocksKept, ArenaOK', NEW s, ViewIn(s, blocks)
    PROVE  ViewIn(s, blocks')
<1>1. Len(blocks) \in Nat /\ Len(blocks') \in Nat
  BY DEF StrInv, TypeOK, ArenaOK
<1> QED  BY <1>1 DEF ViewIn, BlocksKept

LEMMA StrsSame ==
    ASSUME StrInv, BlocksKept, ArenaOK', strs' = strs
    PROVE  StrsOK'
<1>1. ASSUME NEW n \in Views PROVE ViewIn(strs[n], blocks')
  BY ViewKept DEF StrInv, ViewsInBlock
<1> QED  BY <1>1 DEF StrsOK, StrInv, TypeOK, ViewsInBlock, Views

LEMMA StrMade ==
    ASSUME StrInv, BlocksKept, ArenaOK',
           NEW s \in Str, Makes(s), ViewIn(s, blocks')
    PROVE  StrsOK'
<1>1. /\ strs \in Seq(Str) /\ strs' = Append(strs, s)
  BY DEF StrInv, TypeOK, Makes
<1>2. /\ strs' \in Seq(Str) /\ Len(strs) \in Nat /\ Len(strs') = Len(strs) + 1
      /\ \A n \in 1..Len(strs) : strs'[n] = strs[n]
      /\ strs'[Len(strs) + 1] = s
  BY <1>1
<1>3. ASSUME NEW n \in 1..Len(strs') PROVE ViewIn(strs'[n], blocks')
  <2>1. CASE n \in 1..Len(strs)
    <3>1. ViewIn(strs[n], blocks)
      BY <2>1 DEF StrInv, ViewsInBlock, Views
    <3> QED  BY <1>2, <2>1, <3>1, ViewKept
  <2>2. CASE n = Len(strs) + 1
    BY <1>2, <2>2
  <2> QED  BY <1>2, <2>1, <2>2
<1> QED  BY <1>2, <1>3 DEF StrsOK, ViewsInBlock, Views

LEMMA NewBlockMade ==
    ASSUME StrInv, NEW length \in Nat, NEW capacity \in Nat, length <= capacity,
           TakeBlock(capacity), Makes(NewBlock(length, capacity))
    PROVE  ArenaOK' /\ StrsOK'
<1> DEFINE s == NewBlock(length, capacity)
<1>1. /\ ArenaOK' /\ BlocksKept
      /\ Len(blocks) + 1 \in 1..Len(blocks')
      /\ blocks'[Len(blocks) + 1] = [start |-> position, size |-> capacity]
      /\ position \in Nat /\ position + capacity <= Capacity
  BY BlockTaken
<1>2. Len(blocks) \in Nat /\ Capacity \in Nat
  BY ArenaAssumption DEF StrInv, TypeOK
<1>3. s \in Str
  BY <1>1, <1>2 DEF NewBlock, Str
<1>4. ViewIn(s, blocks')
  BY <1>1, <1>2 DEF NewBlock, ViewIn
<1> HIDE DEF s
<1>5. StrsOK'
  BY <1>1, <1>3, <1>4, StrMade DEF s
<1> QED  BY <1>1, <1>5

\* What is written to a new block stays in it.
LEMMA NewBlockWritten ==
    ASSUME StrInv, NEW size \in Nat, TakeBlock(size),
           \A a \in Addresses : a \notin position..(position + size - 1) =>
               memory'[a] = memory[a]
    PROVE  WritesOneBlock
<1>1. /\ Len(blocks) + 1 \in 1..Len(blocks')
      /\ blocks'[Len(blocks) + 1] = [start |-> position, size |-> size]
  BY BlockTaken
<1> QED  BY <1>1 DEF WritesOneBlock, BytesOf

\* What is written within the capacity of a view stays in its block.
LEMMA ViewWritten ==
    ASSUME StrInv, UNCHANGED arena, NEW d \in Views, strs[d].capacity > 0,
           \A a \in Addresses :
               a \notin strs[d].start..(strs[d].start + strs[d].capacity - 1) =>
                   memory'[a] = memory[a]
    PROVE  WritesOneBlock
<1> DEFINE n == strs[d].block
<1>1. /\ n \in 1..Len(blocks)
      /\ blocks[n].start <= strs[d].start
      /\ strs[d].start + strs[d].capacity <= blocks[n].start + blocks[n].size
      /\ strs[d] \in Str
  BY ViewFacts
<1>2. blocks[n] \in Block
  BY <1>1 DEF StrInv, TypeOK
<1>3. /\ strs[d].start \in Int /\ strs[d].capacity \in Int
      /\ blocks[n].start \in Int /\ blocks[n].size \in Int
  BY <1>1, <1>2, ArenaAssumption DEF Block, Str
<1> HIDE DEF n
<1>4. \A a \in Addresses \ BytesOf(blocks[n]) : memory'[a] = memory[a]
  <2> SUFFICES ASSUME NEW a \in Addresses, a \notin BytesOf(blocks[n])
               PROVE  memory'[a] = memory[a]
    OBVIOUS
  <2>1. a \notin strs[d].start..(strs[d].start + strs[d].capacity - 1)
    <3> SUFFICES ASSUME a \in strs[d].start..(strs[d].start + strs[d].capacity - 1)
                 PROVE  FALSE
      OBVIOUS
    <3>1. a \in Int /\ a >= strs[d].start
          /\ a < strs[d].start + strs[d].capacity
      BY <1>3
    <3>2. a >= blocks[n].start /\ a < blocks[n].start + blocks[n].size
      <4> DEFINE first == blocks[n].start
                 size == blocks[n].size
                 start == strs[d].start
                 capacity == strs[d].capacity
      <4>1. /\ first \in Int /\ size \in Int /\ start \in Int /\ capacity \in Int
            /\ first <= start /\ start + capacity <= first + size
            /\ a \in Int /\ a >= start /\ a < start + capacity
        BY <1>1, <1>3, <3>1
      <4> HIDE DEF first, size, start, capacity
      <4>2. a >= first /\ a < first + size
        BY <4>1
      <4> QED  BY <4>2 DEF first, size
    <3>3. a \in BytesOf(blocks[n])
      BY <1>3, <3>1, <3>2 DEF BytesOf
    <3> QED  BY <3>3
  <2> QED  BY <2>1
<1> QED  BY <1>1, <1>4 DEF WritesOneBlock, arena

-----------------------------------------------------------------------------
(* One lemma per action.                                                   *)

LEMMA InitInv == Init => StrInv
<1> SUFFICES ASSUME Init PROVE StrInv
  OBVIOUS
<1>1. /\ memory \in [Addresses -> Bytes]
      /\ position \in 0..Capacity
      /\ blocks = << >> /\ strs = << >>
  BY InputsAssumption, ArenaAssumption DEF Init
<1> QED  BY <1>1 DEF Init, StrInv, TypeOK, ViewsInBlock, Views, BlocksBelow

LEMMA StopInv ==
    ASSUME StrInv, Stop
    PROVE  StrInv' /\ WritesOneBlock
<1>1. ArenaOK' /\ StrsOK'
  BY ArenaSame, StrsSame DEF Stop
<1>2. /\ mode' \in {"live", "stopped"} /\ ndebug' \in BOOLEAN
      /\ memory' \in [Addresses -> Bytes] /\ memory' = memory
  BY DEF Stop, StrInv, TypeOK
<1>3. StrInv'
  BY <1>1, <1>2 DEF ArenaOK, StrsOK, StrInv, TypeOK
<1> QED  BY <1>2, <1>3 DEF WritesOneBlock

\* The step leaves the mode and the build alone.
LEMMA StepParts ==
    ASSUME StrInv, UNCHANGED <<mode, ndebug>>,
           memory' \in [Addresses -> Bytes], ArenaOK', StrsOK'
    PROVE  StrInv'
BY DEF ArenaOK, StrsOK, StrInv, TypeOK

LEMMA StrFromSizeInv ==
    ASSUME StrInv, NEW length \in Nat, StrFromSize(length)
    PROVE  StrInv' /\ WritesOneBlock
<1>1. /\ UNCHANGED <<mode, ndebug, memory>>
      /\ memory' \in [Addresses -> Bytes]
  BY DEF StrFromSize, StrInv, TypeOK
<1>2. CASE TakeBlock(length) /\ Makes(NewBlock(0, length))
  <2>1. ArenaOK' /\ StrsOK'
    BY <1>2, NewBlockMade
  <2> QED  BY <1>1, <2>1, StepParts DEF WritesOneBlock
<1>3. CASE Makes(Invalid) /\ UNCHANGED arena
  <2>1. Invalid \in Str /\ ViewIn(Invalid, blocks')
    BY ArenaAssumption DEF Invalid, Str, ViewIn
  <2>2. ArenaOK' /\ BlocksKept
    BY <1>3, ArenaSame
  <2>3. StrsOK'
    BY <1>3, <2>1, <2>2, StrMade
  <2> QED  BY <1>1, <2>2, <2>3, StepParts DEF WritesOneBlock
<1> QED  BY <1>2, <1>3 DEF StrFromSize

LEMMA StrFromCstrInv ==
    ASSUME StrInv, NEW cstr \in Seq(Chars), StrFromCstr(cstr)
    PROVE  StrInv' /\ WritesOneBlock
<1>1. CASE Stop
  BY <1>1, StopInv
<1>2. CASE /\ TakeBlock(Len(cstr)) /\ Makes(NewBlock(Len(cstr), Len(cstr)))
           /\ memory' = Written(memory, position, cstr)
           /\ UNCHANGED <<mode, ndebug>>
  <2>1. Len(cstr) \in Nat /\ Len(cstr) <= Len(cstr)
    OBVIOUS
  <2>2. ArenaOK' /\ StrsOK'
    BY <1>2, <2>1, NewBlockMade
  <2>3. position \in Int /\ memory \in [Addresses -> Bytes]
    BY DEF StrInv, TypeOK
  <2>4. /\ memory' \in [Addresses -> Bytes]
        /\ \A a \in Addresses : a \notin position..(position + Len(cstr) - 1) =>
               memory'[a] = memory[a]
    BY <1>2, <2>3, WrittenFacts
  <2>5. WritesOneBlock
    BY <1>2, <2>1, <2>4, NewBlockWritten
  <2> QED  BY <1>2, <2>2, <2>4, <2>5, StepParts
<1> QED  BY <1>1, <1>2 DEF StrFromCstr

LEMMA StrToCstrInv ==
    ASSUME StrInv, NEW n \in Views, StrToCstr(n)
    PROVE  StrInv' /\ WritesOneBlock
<1> DEFINE s == strs[n]
           moved == Moved(memory, position, s.start, s.length)
<1>1. CASE Stop
  BY <1>1, StopInv
<1>2. CASE /\ TakeBlock(s.length + 1)
           /\ memory' = [moved EXCEPT ![position + s.length] = Nul]
           /\ UNCHANGED <<mode, ndebug, strs>>
  <2>1. /\ s.start \in Int /\ s.length \in Nat
        /\ s.length > 0 => s.start >= 0 /\ s.start + s.length <= Capacity
        /\ position \in Int
    BY SourceFacts, ArenaAssumption
  <2>2. s.length + 1 \in Nat
    BY <2>1
  <2>3. memory \in [Addresses -> Bytes]
    BY DEF StrInv, TypeOK
  <2>4. /\ moved \in [Addresses -> Bytes]
        /\ \A a \in Addresses :
             moved[a] = IF a \in position..(position + s.length - 1)
                          THEN memory[s.start + (a - position)] ELSE memory[a]
    BY <2>1, <2>3, MovedFacts
  <2> HIDE DEF moved, s
  <2>5. memory' \in [Addresses -> Bytes]
    BY <1>2, <2>4 DEF Bytes
  <2>6. \A a \in Addresses : a \notin position..(position + (s.length + 1) - 1) =>
            memory'[a] = memory[a]
    BY <1>2, <2>1, <2>4, ArenaAssumption DEF Addresses
  <2>7. WritesOneBlock
    BY <1>2, <2>2, <2>6, NewBlockWritten
  <2>8. ArenaOK' /\ BlocksKept
    BY <1>2, <2>2, BlockTaken
  <2>9. StrsOK'
    BY <1>2, <2>8, StrsSame
  <2> QED  BY <1>2, <2>5, <2>7, <2>8, <2>9, StepParts
<1> QED  BY <1>1, <1>2 DEF StrToCstr, ToCstrIn

\* Where bytes are moved into the view d, within its capacity.
LEMMA MoveInView ==
    ASSUME StrInv, UNCHANGED arena, NEW d \in Views, NEW s \in Views,
           NEW offset \in Nat, offset + strs[s].length <= strs[d].capacity,
           memory' = Moved(memory, strs[d].start + offset,
                           strs[s].start, strs[s].length)
    PROVE  memory' \in [Addresses -> Bytes] /\ WritesOneBlock
<1> DEFINE to == strs[d].start + offset
           from == strs[s].start
           length == strs[s].length
<1>1. /\ strs[d].start \in Int /\ strs[d].capacity \in Nat
      /\ from \in Int /\ length \in Nat /\ to \in Int
      /\ length > 0 => from >= 0 /\ from + length <= Capacity
      /\ memory \in [Addresses -> Bytes]
  <2>1. strs[d] \in Str
    BY ViewFacts
  <2>2. strs[d].start \in Int /\ strs[d].capacity \in Nat
    BY <2>1, ArenaAssumption DEF Str
  <2>3. /\ from \in Int /\ length \in Nat
        /\ length > 0 => from >= 0 /\ from + length <= Capacity
    BY SourceFacts
  <2>4. memory \in [Addresses -> Bytes]
    BY DEF StrInv, TypeOK
  <2> HIDE DEF from, length
  <2> QED  BY <2>2, <2>3, <2>4, ArenaAssumption
<1>2. /\ memory' \in [Addresses -> Bytes]
      /\ \A a \in Addresses :
           memory'[a] = IF a \in to..(to + length - 1)
                          THEN memory[from + (a - to)] ELSE memory[a]
  BY <1>1, MovedFacts
<1>3. CASE strs[d].capacity > 0
  <2>1. ASSUME NEW a \in Addresses,
               a \notin strs[d].start..(strs[d].start + strs[d].capacity - 1)
        PROVE  memory'[a] = memory[a]
    <3>1. a \in Int
      BY DEF Addresses
    <3>2. a \notin to..(to + length - 1)
      BY <1>1, <2>1, <3>1
    <3> QED  BY <1>2, <3>2
  <2>2. WritesOneBlock
    BY <1>3, <2>1, ViewWritten
  <2> QED  BY <1>2, <2>2
<1>4. CASE strs[d].capacity = 0
  <2>1. length = 0
    BY <1>1, <1>4
  <2>2. \A a \in Addresses : memory'[a] = memory[a]
    BY <1>1, <1>2, <2>1
  <2>3. memory' = memory
    BY <1>1, <1>2, <2>2
  <2> QED  BY <1>2, <2>3 DEF WritesOneBlock
<1> QED  BY <1>1, <1>3, <1>4

LEMMA StrCopyInv ==
    ASSUME StrInv, NEW d \in Views, NEW s \in Views, StrCopy(d, s)
    PROVE  StrInv' /\ WritesOneBlock
<1>1. /\ strs[d].capacity >= strs[s].length
      /\ UNCHANGED <<mode, ndebug, arena>>
      /\ strs' = [strs EXCEPT ![d].length = strs[s].length]
      /\ memory' = Moved(memory, strs[d].start, strs[s].start, strs[s].length)
  BY DEF StrCopy
<1>2. /\ strs[d] \in Str /\ strs[s] \in Str /\ strs \in Seq(Str)
      /\ strs[d].start \in Int /\ strs[s].length \in 0..Capacity
      /\ strs[d].capacity \in Int
  BY ViewFacts, ArenaAssumption DEF Str, StrInv, TypeOK
<1>3. memory' \in [Addresses -> Bytes] /\ WritesOneBlock
  <2>1. strs[d].start + 0 = strs[d].start /\ 0 + strs[s].length = strs[s].length
    BY <1>2
  <2> QED  BY <1>1, <1>2, <2>1, MoveInView
<1>4. ArenaOK' /\ BlocksKept
  BY <1>1, ArenaSame
<1>5. StrsOK'
  <2> DEFINE t == [strs[d] EXCEPT !.length = strs[s].length]
  <2>1. t \in Str
    BY <1>2 DEF Str
  <2>2. ViewIn(strs[d], blocks)
    BY DEF StrInv, ViewsInBlock
  <2>3. ViewIn(t, blocks')
    <3>1. /\ t.length = strs[s].length /\ t.start = strs[d].start
          /\ t.capacity = strs[d].capacity /\ t.block = strs[d].block
      BY <1>2 DEF Str
    <3>2. blocks' = blocks
      BY <1>1 DEF arena
    <3> QED  BY <1>1, <1>2, <2>2, <3>1, <3>2 DEF ViewIn
  <2> HIDE DEF t
  <2>4. strs' = [strs EXCEPT ![d] = t]
    BY <1>1 DEF t
  <2>5. /\ strs' \in Seq(Str) /\ Len(strs') = Len(strs)
        /\ \A n \in Views : strs'[n] = IF n = d THEN t ELSE strs[n]
    BY <1>2, <2>1, <2>4 DEF Views
  <2>6. ASSUME NEW n \in Views PROVE ViewIn(strs[n], blocks')
    BY <1>1 DEF arena, StrInv, ViewsInBlock
  <2> QED  BY <2>3, <2>5, <2>6 DEF StrsOK, ViewsInBlock, Views
<1> QED  BY <1>1, <1>3, <1>4, <1>5, StepParts

LEMMA StrSliceInv ==
    ASSUME StrInv, NEW n \in Views, NEW from \in Nat, NEW to \in Nat,
           StrSlice(n, from, to)
    PROVE  StrInv' /\ WritesOneBlock
<1> DEFINE s == strs[n]
           t == [s EXCEPT !.start = @ + from,
                          !.length = to - from, !.capacity = s.capacity - from]
<1>1. /\ to >= from /\ from <= s.capacity /\ to <= s.capacity
      /\ Makes(t) /\ UNCHANGED <<mode, ndebug, memory, arena>>
  BY DEF StrSlice, SliceWith
<1>2. s \in Str /\ ViewIn(s, blocks)
  BY ViewFacts DEF StrInv, ViewsInBlock
<1>3. /\ t.start = s.start + from /\ t.length = to - from
      /\ t.capacity = s.capacity - from /\ t.block = s.block
      /\ s.start \in -1..Capacity /\ s.capacity \in 0..Capacity /\ s.block \in Nat
  BY <1>2 DEF Str
<1>4. t \in Str
  <2>1. s.start + from \in -1..Capacity
    <3>1. CASE s.capacity = 0
      BY <1>1, <1>3, <3>1
    <3>2. CASE s.capacity > 0
      <4>1. s.start + s.capacity <= position /\ position \in 0..Capacity
        BY <3>2, ViewFacts DEF StrInv, TypeOK
      <4> QED  BY <1>1, <1>3, <4>1, ArenaAssumption
    <3> QED  BY <1>3, <3>1, <3>2
  <2>2. to - from \in 0..Capacity /\ s.capacity - from \in 0..Capacity
    <3> HIDE DEF t, s
    <3> QED  BY <1>1, <1>3, ArenaAssumption
  <2> QED  BY <1>2, <2>1, <2>2 DEF Str
<1>5. ViewIn(t, blocks')
  <2>1. blocks' = blocks
    BY <1>1 DEF arena
  <2>2. t.length <= t.capacity
    BY <1>1, <1>3
  <2>3. CASE s.block = 0 /\ s.capacity = 0
    BY <1>1, <1>3, <2>2, <2>3 DEF ViewIn
  <2>4. CASE ~(s.block = 0 /\ s.capacity = 0)
    <3> DEFINE b == blocks[s.block]
    <3>1. /\ s.block \in 1..Len(blocks)
          /\ b.start <= s.start /\ s.start + s.capacity <= b.start + b.size
      BY <1>2, <2>4 DEF ViewIn
    <3>2. b \in Block
      BY <3>1 DEF StrInv, TypeOK
    <3>3. b.start \in Nat /\ b.size \in Nat
      BY <3>2 DEF Block
    <3> HIDE DEF b
    <3>4. b.start <= t.start /\ t.start + t.capacity <= b.start + b.size
      <4> HIDE DEF t
      <4> QED  BY <1>3, <3>1, <3>3
    <3> HIDE DEF t
    <3> QED  BY <1>3, <2>1, <2>2, <3>1, <3>4 DEF ViewIn, b
  <2> QED  BY <2>3, <2>4
<1> HIDE DEF t
<1>6. ArenaOK' /\ BlocksKept
  BY <1>1, ArenaSame
<1>7. StrsOK'
  BY <1>1, <1>4, <1>5, <1>6, StrMade
<1>8. memory' \in [Addresses -> Bytes]
  BY <1>1 DEF StrInv, TypeOK
<1> QED  BY <1>1, <1>6, <1>7, <1>8, StepParts DEF WritesOneBlock

\* The loops of str_trim stop at the first place that satisfies a condition.
LEMMA LeastNat ==
    ASSUME NEW T, T \subseteq Nat, T # {}
    PROVE  \E x \in T : \A y \in T : x <= y
<1> DEFINE R == OpToRel(<, Nat)
<1>1. IsWellFoundedOn(R, Nat)
  BY NatLessThanWellFounded
<1>2. \A x, y \in Nat : x < y => <<x, y>> \in R
  BY DEF OpToRel
<1> HIDE DEF R
<1>3. PICK x \in T : \A y \in T : ~(<<y, x>> \in R)
  BY <1>1, WFMin
<1>4. ASSUME NEW y \in T PROVE x <= y
  <2>1. x \in Nat /\ y \in Nat
    OBVIOUS
  <2>2. ~(y < x)
    BY <1>2, <1>3, <2>1, Zenon
  <2> QED  BY <2>1, <2>2
<1> QED  BY <1>4

LEMMA TrimPlaces ==
    ASSUME NEW s, s.length \in Nat
    PROVE  LET start == LeadingEnd(s)
               end == TrailingStart(s, start) IN
           /\ start \in 0..s.length /\ end \in start..s.length
           /\ \A k \in 0..(start - 1) : IsTrimChar(s, k)
           /\ start = s.length \/ ~IsTrimChar(s, start)
           /\ \A k \in end..(s.length - 1) : IsTrimChar(s, k)
           /\ end = start \/ ~IsTrimChar(s, end - 1)
<1> DEFINE length == s.length
           start == LeadingEnd(s)
           end == TrailingStart(s, start)
           Leads(n) == /\ \A k \in 0..(n - 1) : IsTrimChar(s, k)
                       /\ n = length \/ ~IsTrimChar(s, n)
           Trails(n) == /\ \A k \in n..(length - 1) : IsTrimChar(s, k)
                        /\ n = start \/ ~IsTrimChar(s, n - 1)
<1>1. start \in 0..length /\ Leads(start)
  <2> DEFINE T == {n \in 0..length : n = length \/ ~IsTrimChar(s, n)}
  <2>1. length \in T /\ T \subseteq Nat
    OBVIOUS
  <2>2. PICK n \in T : \A m \in T : n <= m
    <3> HIDE DEF T
    <3> QED  BY <2>1, LeastNat
  <2>3. n \in 0..length /\ Leads(n)
    BY <2>2
  <2>4. start = CHOOSE m \in 0..length : Leads(m)
    BY DEF LeadingEnd
  <2> HIDE DEF T, start, Leads, length
  <2> QED  BY <2>3, <2>4
<1> HIDE DEF start
<1>2. end \in start..length /\ Trails(end)
  <2> DEFINE T == {n \in start..length :
                      \A k \in n..(length - 1) : IsTrimChar(s, k)}
  <2>1. length \in T /\ T \subseteq Nat
    BY <1>1
  <2>2. PICK n \in T : \A m \in T : n <= m
    <3> HIDE DEF T
    <3> QED  BY <2>1, LeastNat
  <2>3. n = start \/ ~IsTrimChar(s, n - 1)
    <3> SUFFICES ASSUME n # start, IsTrimChar(s, n - 1) PROVE FALSE
      OBVIOUS
    <3>1. n - 1 \in start..length /\ n \in Int
      BY <1>1, <2>2
    <3>2. \A k \in (n - 1)..(length - 1) : IsTrimChar(s, k)
      BY <2>2, <3>1
    <3>3. n - 1 \in T
      BY <3>1, <3>2
    <3> QED  BY <2>2, <3>1, <3>3
  <2>4. n \in start..length /\ Trails(n)
    BY <2>2, <2>3
  <2>5. end = CHOOSE m \in start..length : Trails(m)
    BY DEF TrailingStart
  <2> HIDE DEF T, end, Trails, length
  <2> QED  BY <2>4, <2>5
<1> QED  BY <1>1, <1>2 DEF start

LEMMA StrTrimInv ==
    ASSUME StrInv, NEW n \in Views, StrTrim(n)
    PROVE  StrInv' /\ WritesOneBlock
<1> DEFINE s == strs[n]
           start == LeadingEnd(s)
           end == TrailingStart(s, start)
           t == Trimmed(s, start, end)
<1>1. Makes(t) /\ UNCHANGED <<mode, ndebug, memory, arena>>
  BY DEF StrTrim
<1>2. s \in Str /\ ViewIn(s, blocks)
  BY ViewFacts DEF StrInv, ViewsInBlock
<1>3. /\ t.start = s.start + start /\ t.length = end - start
      /\ t.capacity = s.length - start /\ t.block = s.block
      /\ s.start \in -1..Capacity /\ s.capacity \in 0..Capacity
      /\ s.length \in 0..Capacity /\ s.block \in Nat
  BY <1>2 DEF Str, Trimmed
<1>4. /\ start \in 0..s.length /\ end \in start..s.length
      /\ s.length <= s.capacity
  <2>1. s.length \in Nat
    BY <1>3, ArenaAssumption
  <2> QED  BY <2>1, TrimPlaces, ViewFacts
<1>5. t \in Str
  <2>1. s.start + start \in -1..Capacity
    <3>1. CASE s.capacity = 0
      <4> HIDE DEF start, end, s
      <4> QED  BY <1>3, <1>4, <3>1
    <3>2. CASE s.capacity > 0
      <4>1. s.start + s.capacity <= position /\ position \in 0..Capacity
        BY <3>2, ViewFacts DEF StrInv, TypeOK
      <4> HIDE DEF start, end, s
      <4> QED  BY <1>3, <1>4, <4>1, ArenaAssumption
    <3> QED  BY <1>3, <3>1, <3>2
  <2>2. end - start \in 0..Capacity /\ s.length - start \in 0..Capacity
    <3> HIDE DEF start, end, s
    <3> QED  BY <1>3, <1>4, ArenaAssumption
  <2> HIDE DEF start, end
  <2> QED  BY <1>2, <2>1, <2>2 DEF Str, Trimmed
<1>6. ViewIn(t, blocks')
  <2> HIDE DEF t, start, end
  <2>1. blocks' = blocks
    BY <1>1 DEF arena
  <2>2. t.length <= t.capacity
    <3> HIDE DEF s
    <3> QED  BY <1>3, <1>4, ArenaAssumption
  <2>3. CASE s.block = 0 /\ s.capacity = 0
    <3>1. t.block = 0 /\ t.capacity = 0
      <4> HIDE DEF s
      <4> QED  BY <1>3, <1>4, <2>3, ArenaAssumption
    <3> QED  BY <2>2, <3>1 DEF ViewIn
  <2>4. CASE ~(s.block = 0 /\ s.capacity = 0)
    <3> DEFINE b == blocks[s.block]
    <3>1. /\ s.block \in 1..Len(blocks)
          /\ b.start <= s.start /\ s.start + s.capacity <= b.start + b.size
      BY <1>2, <2>4 DEF ViewIn
    <3>2. b \in Block
      BY <3>1 DEF StrInv, TypeOK
    <3>3. b.start \in Int /\ b.size \in Int
      BY <3>2 DEF Block
    <3> HIDE DEF b
    <3>4. b.start <= t.start /\ t.start + t.capacity <= b.start + b.size
      <4>1. /\ s.start \in Int /\ s.capacity \in Int /\ s.length \in Int
            /\ start \in Int /\ 0 <= start /\ s.length <= s.capacity
            /\ t.start = s.start + start /\ t.capacity = s.length - start
        BY <1>3, <1>4, ArenaAssumption
      <4> HIDE DEF s
      <4>2. b.start <= t.start
        BY <3>1, <3>3, <4>1
      <4>3. t.start + t.capacity <= s.start + s.capacity
        BY <4>1
      <4> QED  BY <3>1, <3>3, <4>1, <4>2, <4>3
    <3> QED  BY <1>3, <2>1, <2>2, <3>1, <3>4 DEF ViewIn, b
  <2> QED  BY <2>3, <2>4
<1> HIDE DEF t
<1>7. ArenaOK' /\ BlocksKept
  BY <1>1, ArenaSame
<1>8. StrsOK'
  BY <1>1, <1>5, <1>6, <1>7, StrMade
<1>9. memory' \in [Addresses -> Bytes]
  BY <1>1 DEF StrInv, TypeOK
<1> QED  BY <1>1, <1>7, <1>8, <1>9, StepParts DEF WritesOneBlock

LEMMA StrAppendInv ==
    ASSUME StrInv, NEW d \in Views, NEW s \in Views, StrAppend(d, s)
    PROVE  StrInv' /\ WritesOneBlock
<1>1. /\ strs[d].capacity - strs[d].length >= strs[s].length
      /\ UNCHANGED <<mode, ndebug, arena, strs>>
      /\ memory' = Moved(memory, strs[d].start + strs[d].length,
                         strs[s].start, strs[s].length)
  BY DEF StrAppend, AppendIf, Behind
<1>2. /\ strs[d].length \in Nat /\ strs[s].length \in Nat
      /\ strs[d].capacity \in Int
  BY ViewFacts, SourceFacts, ArenaAssumption DEF Str
<1>3. strs[d].length + strs[s].length <= strs[d].capacity
  BY <1>1, <1>2
<1>4. memory' \in [Addresses -> Bytes] /\ WritesOneBlock
  BY <1>1, <1>2, <1>3, MoveInView
<1>5. ArenaOK' /\ BlocksKept
  BY <1>1, ArenaSame
<1>6. StrsOK'
  BY <1>1, <1>5, StrsSame
<1> QED  BY <1>1, <1>4, <1>5, <1>6, StepParts

LEMMA StrAppendCstrInv ==
    ASSUME StrInv, NEW d \in Views, NEW cstr \in Seq(Chars), StrAppendCstr(d, cstr)
    PROVE  StrInv' /\ WritesOneBlock
<1> DEFINE to == strs[d].start + strs[d].length
<1>1. /\ strs[d].capacity - strs[d].length >= Len(cstr)
      /\ UNCHANGED <<mode, ndebug, arena, strs>>
      /\ memory' = Written(memory, to, cstr)
  BY DEF StrAppendCstr, Behind
<1>2. /\ strs[d].start \in Int /\ strs[d].length \in Nat
      /\ strs[d].capacity \in Int /\ Len(cstr) \in Nat
      /\ to \in Int /\ memory \in [Addresses -> Bytes]
  BY ViewFacts, SourceFacts, ArenaAssumption DEF Str, StrInv, TypeOK
<1>3. /\ memory' \in [Addresses -> Bytes]
      /\ \A a \in Addresses : a \notin to..(to + Len(cstr) - 1) =>
             memory'[a] = memory[a]
  BY <1>1, <1>2, WrittenFacts
<1>4. WritesOneBlock
  <2>1. CASE strs[d].capacity > 0
    <3>1. ASSUME NEW a \in Addresses,
                 a \notin strs[d].start..(strs[d].start + strs[d].capacity - 1)
          PROVE  memory'[a] = memory[a]
      <4>1. a \in Int
        BY DEF Addresses
      <4>2. to >= strs[d].start
            /\ to + Len(cstr) <= strs[d].start + strs[d].capacity
        BY <1>1, <1>2
      <4>3. a \notin to..(to + Len(cstr) - 1)
        BY <1>2, <3>1, <4>1, <4>2
      <4> QED  BY <1>3, <4>3
    <3> QED  BY <1>1, <2>1, <3>1, ViewWritten
  <2>2. CASE ~(strs[d].capacity > 0)
    <3>1. Len(cstr) = 0
      BY <1>1, <1>2, <2>2
    <3>2. \A a \in Addresses : memory'[a] = memory[a]
      BY <1>2, <1>3, <3>1
    <3>3. memory' = memory
      BY <1>2, <1>3, <3>2
    <3> QED  BY <3>3 DEF WritesOneBlock
  <2> QED  BY <2>1, <2>2
<1>5. ArenaOK' /\ BlocksKept
  BY <1>1, ArenaSame
<1>6. StrsOK'
  BY <1>1, <1>5, StrsSame
<1> QED  BY <1>1, <1>3, <1>4, <1>5, <1>6, StepParts

\* Both texts are moved to the new block, one behind the other.
LEMMA StrFromAppendInv ==
    ASSUME StrInv, NEW d \in Views, NEW s \in Views, StrFromAppend(d, s)
    PROVE  StrInv' /\ WritesOneBlock
<1> DEFINE first == strs[d].length
           second == strs[s].length
           moved == Moved(memory, position, strs[d].start, first)
<1>1. CASE Stop
  BY <1>1, StopInv
<1>2. CASE /\ TakeBlock(first + second) /\ Makes(NewBlock(0, first + second))
           /\ memory' = Moved(moved, position + first, strs[s].start, second)
           /\ UNCHANGED <<mode, ndebug>>
  <2>1. /\ first \in Nat /\ second \in Nat
        /\ strs[d].start \in Int /\ strs[s].start \in Int
        /\ first > 0 => strs[d].start >= 0 /\ strs[d].start + first <= Capacity
        /\ second > 0 => strs[s].start >= 0 /\ strs[s].start + second <= Capacity
        /\ position \in Int /\ memory \in [Addresses -> Bytes]
    <3>1. memory \in [Addresses -> Bytes]
      BY DEF StrInv, TypeOK
    <3> QED  BY <3>1, SourceFacts
  <2>2. first + second \in Nat /\ 0 \in Nat /\ 0 <= first + second
    BY <2>1
  <2>3. ArenaOK' /\ StrsOK'
    BY <1>2, <2>2, NewBlockMade
  <2>4. /\ moved \in [Addresses -> Bytes]
        /\ \A a \in Addresses :
             moved[a] = IF a \in position..(position + first - 1)
                          THEN memory[strs[d].start + (a - position)]
                          ELSE memory[a]
    BY <2>1, MovedFacts
  <2> HIDE DEF moved
  <2>5. position + first \in Int
    BY <2>1
  <2>6. /\ memory' \in [Addresses -> Bytes]
        /\ \A a \in Addresses :
             memory'[a] = IF a \in (position + first)..(position + first + second - 1)
                            THEN moved[strs[s].start + (a - (position + first))]
                            ELSE moved[a]
    BY <1>2, <2>1, <2>4, <2>5, MovedFacts
  <2>7. ASSUME NEW a \in Addresses,
               a \notin position..(position + (first + second) - 1)
        PROVE  memory'[a] = memory[a]
    <3> HIDE DEF first, second
    <3>1. a \in Int
      BY DEF Addresses
    <3>2. /\ a \notin position..(position + first - 1)
          /\ a \notin (position + first)..(position + first + second - 1)
      BY <2>1, <2>7, <3>1
    <3> QED  BY <2>4, <2>6, <3>2
  <2>8. WritesOneBlock
    BY <1>2, <2>2, <2>7, NewBlockWritten
  <2> QED  BY <1>2, <2>3, <2>6, <2>8, StepParts
<1> QED  BY <1>1, <1>2 DEF StrFromAppend

LEMMA StrFromAppendCstrInv ==
    ASSUME StrInv, NEW d \in Views, NEW cstr \in Seq(Chars),
           StrFromAppendCstr(d, cstr)
    PROVE  StrInv' /\ WritesOneBlock
<1> DEFINE first == strs[d].length
           second == Len(cstr)
           moved == Moved(memory, position, strs[d].start, first)
<1>1. CASE Stop
  BY <1>1, StopInv
<1>2. CASE /\ TakeBlock(first + second) /\ Makes(NewBlock(0, first + second))
           /\ memory' = Written(moved, position + first, cstr)
           /\ UNCHANGED <<mode, ndebug>>
  <2>1. /\ first \in Nat /\ second \in Nat
        /\ strs[d].start \in Int
        /\ first > 0 => strs[d].start >= 0 /\ strs[d].start + first <= Capacity
        /\ position \in Int /\ memory \in [Addresses -> Bytes]
    <3>1. memory \in [Addresses -> Bytes]
      BY DEF StrInv, TypeOK
    <3> QED  BY <3>1, SourceFacts
  <2>2. first + second \in Nat /\ 0 \in Nat /\ 0 <= first + second
    BY <2>1
  <2>3. ArenaOK' /\ StrsOK'
    BY <1>2, <2>2, NewBlockMade
  <2>4. /\ moved \in [Addresses -> Bytes]
        /\ \A a \in Addresses :
             moved[a] = IF a \in position..(position + first - 1)
                          THEN memory[strs[d].start + (a - position)]
                          ELSE memory[a]
    BY <2>1, MovedFacts
  <2> HIDE DEF moved
  <2>5. position + first \in Int
    BY <2>1
  <2>6. /\ memory' \in [Addresses -> Bytes]
        /\ \A a \in Addresses :
             a \notin (position + first)..(position + first + second - 1) =>
                 memory'[a] = moved[a]
    BY <1>2, <2>4, <2>5, WrittenFacts
  <2>7. ASSUME NEW a \in Addresses,
               a \notin position..(position + (first + second) - 1)
        PROVE  memory'[a] = memory[a]
    <3> HIDE DEF first, second
    <3>1. a \in Int
      BY DEF Addresses
    <3>2. /\ a \notin position..(position + first - 1)
          /\ a \notin (position + first)..(position + first + second - 1)
      BY <2>1, <2>7, <3>1
    <3> QED  BY <2>4, <2>6, <3>2
  <2>8. WritesOneBlock
    BY <1>2, <2>2, <2>7, NewBlockWritten
  <2> QED  BY <1>2, <2>3, <2>6, <2>8, StepParts
<1> QED  BY <1>1, <1>2 DEF StrFromAppendCstr

LEMMA StepInv == StrInv /\ [Next]_vars => StrInv' /\ WritesOneBlock
<1> SUFFICES ASSUME StrInv, [Next]_vars PROVE StrInv' /\ WritesOneBlock
  OBVIOUS
<1>1. CASE UseInvalid
  BY <1>1, StopInv DEF UseInvalid
<1>2. ASSUME NEW length \in Lengths, StrFromSize(length)
      PROVE  StrInv' /\ WritesOneBlock
  BY <1>2, StrFromSizeInv, InputsAssumption
<1>3. ASSUME NEW cstr \in CStrings, StrFromCstr(cstr)
      PROVE  StrInv' /\ WritesOneBlock
  BY <1>3, StrFromCstrInv, InputsAssumption
<1>4. ASSUME NEW n \in Views, StrToCstr(n) \/ StrTrim(n)
      PROVE  StrInv' /\ WritesOneBlock
  BY <1>4, StrToCstrInv, StrTrimInv
<1>5. ASSUME NEW n \in Views, NEW from \in Cuts, NEW to \in Cuts,
             StrSlice(n, from, to)
      PROVE  StrInv' /\ WritesOneBlock
  BY <1>5, StrSliceInv, InputsAssumption
<1>6. ASSUME NEW d \in Views, NEW s \in Views,
             StrCopy(d, s) \/ StrAppend(d, s) \/ StrFromAppend(d, s)
      PROVE  StrInv' /\ WritesOneBlock
  BY <1>6, StrCopyInv, StrAppendInv, StrFromAppendInv
<1>7. ASSUME NEW d \in Views, NEW cstr \in CStrings,
             StrAppendCstr(d, cstr) \/ StrFromAppendCstr(d, cstr)
      PROVE  StrInv' /\ WritesOneBlock
  BY <1>7, StrAppendCstrInv, StrFromAppendCstrInv, InputsAssumption
<1>8. CASE UNCHANGED vars
  <2>1. ArenaOK' /\ StrsOK'
    BY <1>8, ArenaSame, StrsSame DEF vars
  <2>2. memory' \in [Addresses -> Bytes] /\ memory' = memory
        /\ UNCHANGED <<mode, ndebug>>
    BY <1>8 DEF vars, StrInv, TypeOK
  <2> QED  BY <2>1, <2>2, StepParts DEF WritesOneBlock
<1> QED  BY <1>1, <1>2, <1>3, <1>4, <1>5, <1>6, <1>7, <1>8 DEF Next

LEMMA SpecInv == Spec => []StrInv
<1> QED  BY InitInv, StepInv, PTL DEF Spec

\* What str_append leaves behind, byte by byte.
LEMMA AppendedText ==
    ASSUME StrInv, NEW d \in Views, NEW s \in Views, StrAppend(d, s)
    PROVE  Text(memory', strs[d].start, strs[d].length + strs[s].length) =
               TextOf(strs[d]) \o TextOf(strs[s])
<1> DEFINE first == strs[d].length
           second == strs[s].length
           start == strs[d].start
           from == strs[s].start
           text == Text(memory', start, first + second)
           one == TextOf(strs[d])
           two == TextOf(strs[s])
<1>1. /\ first \in Nat /\ second \in Nat /\ start \in Int /\ from \in Int
      /\ first > 0 => start >= 0 /\ start + first <= Capacity
      /\ second > 0 => from >= 0 /\ from + second <= Capacity
      /\ memory \in [Addresses -> Bytes]
  BY SourceFacts, ArenaAssumption DEF StrInv, TypeOK
<1>2. second > 0 => start >= 0 /\ start + first + second <= Capacity
  <2>1. strs[d].capacity - first >= second /\ strs[d].capacity \in Int
    BY ViewFacts, ArenaAssumption DEF StrAppend, AppendIf, Str
  <2>2. strs[d].capacity > 0 => start >= 0 /\ start + strs[d].capacity <= position
    BY ViewFacts
  <2>3. position \in Int /\ position <= Capacity
    BY SourceFacts
  <2> HIDE DEF first, second, start
  <2> QED  BY <1>1, <2>1, <2>2, <2>3, ArenaAssumption
<1>3. \A a \in Addresses :
        memory'[a] = IF a \in (start + first)..(start + first + second - 1)
                       THEN memory[from + (a - (start + first))] ELSE memory[a]
  <2>1. memory' = Moved(memory, start + first, from, second)
    BY DEF StrAppend, AppendIf, Behind
  <2>2. start + first \in Int
    BY <1>1
  <2> QED  BY <1>1, <2>1, <2>2, MovedFacts
<1>4. /\ one = [n \in 1..first |-> memory[start + n - 1]]
      /\ two = [n \in 1..second |-> memory[from + n - 1]]
      /\ text = [n \in 1..(first + second) |-> memory'[start + n - 1]]
  BY DEF TextOf, Text
<1> HIDE DEF first, second, start, from, text, one, two
<1>5. one \in Seq(Bytes) /\ Len(one) = first
  <2>1. \A n \in 1..first : memory[start + n - 1] \in Bytes
    BY <1>1, ArenaAssumption DEF Addresses
  <2> QED  BY <1>1, <1>4, <2>1
<1>6. two \in Seq(Bytes) /\ Len(two) = second
  <2>1. \A n \in 1..second : memory[from + n - 1] \in Bytes
    BY <1>1, ArenaAssumption DEF Addresses
  <2> QED  BY <1>1, <1>4, <2>1
<1>7. /\ one \o two \in Seq(Bytes) /\ Len(one \o two) = first + second
      /\ \A n \in 1..(first + second) :
           (one \o two)[n] = IF n <= first THEN one[n] ELSE two[n - first]
  BY <1>5, <1>6, ConcatProperties
<1>8. ASSUME NEW n \in 1..(first + second)
      PROVE  memory'[start + n - 1] = (one \o two)[n]
  <2>1. n \in Int /\ start + n - 1 \in Addresses
    BY <1>1, <1>2, ArenaAssumption DEF Addresses
  <2>2. CASE n <= first
    <3>1. start + n - 1 \notin (start + first)..(start + first + second - 1)
      BY <1>1, <2>1, <2>2
    <3>2. memory'[start + n - 1] = memory[start + n - 1]
      BY <1>3, <2>1, <3>1
    <3>3. one[n] = memory[start + n - 1]
      BY <1>1, <1>4, <2>1, <2>2
    <3> QED  BY <1>7, <2>2, <3>2, <3>3
  <2>3. CASE ~(n <= first)
    <3>1. start + n - 1 \in (start + first)..(start + first + second - 1)
      BY <1>1, <2>1, <2>3
    <3>2. from + ((start + n - 1) - (start + first)) = from + (n - first) - 1
      BY <1>1, <2>1
    <3>3. memory'[start + n - 1] = memory[from + (n - first) - 1]
      BY <1>3, <2>1, <3>1, <3>2
    <3>4. two[n - first] = memory[from + (n - first) - 1]
      BY <1>1, <1>4, <2>1, <2>3
    <3> QED  BY <1>7, <2>3, <3>3, <3>4
  <2> QED  BY <2>2, <2>3
<1>9. text = one \o two
  <2> DEFINE joined == one \o two
  <2>1. /\ joined \in Seq(Bytes) /\ Len(joined) = first + second
        /\ first + second \in Nat
    BY <1>1, <1>7
  <2>2. \A n \in 1..(first + second) : memory'[start + n - 1] = joined[n]
    BY <1>8
  <2> HIDE DEF joined
  <2>3. /\ text \in Seq(Bytes) /\ Len(text) = first + second
        /\ \A n \in 1..(first + second) : text[n] = joined[n]
    BY <1>4, <2>1, <2>2
  <2>4. text = joined
    BY <2>1, <2>3, SeqEqual
  <2> QED  BY <2>4 DEF joined
<1> QED  BY <1>9 DEF first, second, start, text, one, two

\* Two places show the same text when they show the same bytes.
LEMMA SameText ==
    ASSUME NEW bytes, NEW others, NEW from \in Int, NEW to \in Int,
           NEW length \in Nat,
           \A k \in 0..(length - 1) : bytes[from + k] = others[to + k]
    PROVE  Text(bytes, from, length) = Text(others, to, length)
<1>1. ASSUME NEW n \in 1..length
      PROVE  bytes[from + n - 1] = others[to + n - 1]
  <2>1. /\ n - 1 \in 0..(length - 1) /\ n \in Int
        /\ from + n - 1 = from + (n - 1) /\ to + n - 1 = to + (n - 1)
    OBVIOUS
  <2> QED  BY <2>1
<1> QED  BY <1>1 DEF Text

\* What str_copy leaves in the destination, and in a source apart from it.
LEMMA CopiedText ==
    ASSUME StrInv, NEW d \in Views, NEW s \in Views, StrCopy(d, s)
    PROVE  /\ Text(memory', strs[d].start, strs'[d].length) = TextOf(strs[s])
           /\ \/ StrEq(strs[d], strs[s])'
              \/ ~Apart(strs'[d], strs[s])
<1> DEFINE to == strs[d].start
           from == strs[s].start
           length == strs[s].length
<1>1. /\ strs[d].capacity >= length
      /\ strs' = [strs EXCEPT ![d].length = length]
      /\ memory' = Moved(memory, to, from, length)
  BY DEF StrCopy
<1>2. /\ strs[d] \in Str /\ strs \in Seq(Str)
      /\ memory \in [Addresses -> Bytes]
  BY ViewFacts DEF StrInv, TypeOK
<1>3. /\ strs'[d].start = to /\ strs'[d].length = length
      /\ s # d => strs'[s] = strs[s]
  BY <1>1, <1>2 DEF Str, Views
<1>4. /\ to \in Int /\ from \in Int /\ length \in Nat
      /\ length > 0 => from >= 0 /\ from + length <= Capacity
      /\ length > 0 => to >= 0 /\ to + length <= Capacity
  <2>1. /\ strs[d].start \in Int /\ strs[d].capacity \in Nat
        /\ strs[d].capacity > 0 =>
              strs[d].start >= 0 /\ strs[d].start + strs[d].capacity <= position
    BY <1>2, ViewFacts, ArenaAssumption DEF Str
  <2>2. /\ strs[s].start \in Int /\ strs[s].length \in Nat
        /\ strs[s].length > 0 => /\ strs[s].start >= 0
                                 /\ strs[s].start + strs[s].length <= Capacity
        /\ position \in Nat /\ position <= Capacity
    BY SourceFacts
  <2> QED  BY <1>1, <2>1, <2>2, ArenaAssumption
<1>5. \A a \in Addresses :
        memory'[a] = IF a \in to..(to + length - 1)
                       THEN memory[from + (a - to)] ELSE memory[a]
  <2> HIDE DEF to, from, length
  <2> QED  BY <1>1, <1>2, <1>4, MovedFacts
<1>6. Text(memory', to, length) = TextOf(strs[s])
  <2> HIDE DEF to, from, length
  <2>1. ASSUME NEW k \in 0..(length - 1)
        PROVE  memory'[to + k] = memory[from + k]
    <3>1. to + k \in Addresses /\ to + k \in to..(to + length - 1)
      BY <1>4, ArenaAssumption DEF Addresses
    <3>2. from + ((to + k) - to) = from + k
      BY <1>4
    <3> QED  BY <1>5, <3>1, <3>2
  <2>2. Text(memory', to, length) = Text(memory, from, length)
    BY <1>4, <2>1, SameText
  <2> QED  BY <2>2 DEF TextOf, from, length
<1>7. ASSUME s # d, Apart(strs'[d], strs[s])
      PROVE  Text(memory', from, length) = TextOf(strs[s])
  <2>1. to + length <= from \/ from + length <= to
    BY <1>3, <1>7 DEF Apart, Behind
  <2> HIDE DEF to, from, length
  <2>2. ASSUME NEW k \in 0..(length - 1)
        PROVE  memory'[from + k] = memory[from + k]
    <3>1. from + k \in Addresses /\ from + k \notin to..(to + length - 1)
      BY <1>4, <2>1, ArenaAssumption DEF Addresses
    <3> QED  BY <1>5, <3>1
  <2>3. Text(memory', from, length) = Text(memory, from, length)
    BY <1>4, <2>2, SameText
  <2> QED  BY <2>3 DEF TextOf, from, length
<1>8. CASE s = d
  BY <1>3, <1>6, <1>8 DEF StrEq
<1>9. CASE s # d
  <2>1. ASSUME Apart(strs'[d], strs[s]) PROVE StrEq(strs[d], strs[s])'
    BY <1>3, <1>6, <1>7, <1>9, <2>1 DEF StrEq, TextOf
  <2> QED  BY <1>3, <1>6, <2>1
<1> QED  BY <1>8, <1>9

\* What str_trim keeps and what it leaves out.
LEMMA TrimmedView ==
    ASSUME StrInv, NEW n \in Views, StrTrim(n)
    PROVE  LET s == strs[n]
               t == strs'[Len(strs')] IN
           /\ t.length > 0 => \A k \in {1, t.length} : TextOf(t)[k] \notin TrimChars
           /\ \A k \in 0..(s.length - 1) :
                 s.start + k \notin t.start..(Behind(t) - 1) => IsTrimChar(s, k)
           /\ t.start + t.capacity = Behind(s)
<1> DEFINE s == strs[n]
           start == LeadingEnd(s)
           end == TrailingStart(s, start)
           t == Trimmed(s, start, end)
<1>1. strs'[Len(strs')] = t
  <2>1. strs \in Seq(Str) /\ strs' = Append(strs, t)
    BY DEF StrInv, TypeOK, StrTrim, Makes
  <2> HIDE DEF t
  <2> QED  BY <2>1
<1>2. s \in Str
  BY ViewFacts
<1>3. /\ t.start = s.start + start /\ t.length = end - start
      /\ t.capacity = s.length - start
      /\ s.start \in Int /\ s.length \in Nat
  BY <1>2, ArenaAssumption DEF Str, Trimmed
<1>4. /\ start \in 0..s.length /\ end \in start..s.length
      /\ \A k \in 0..(start - 1) : IsTrimChar(s, k)
      /\ start = s.length \/ ~IsTrimChar(s, start)
      /\ \A k \in end..(s.length - 1) : IsTrimChar(s, k)
      /\ end = start \/ ~IsTrimChar(s, end - 1)
  BY <1>3, TrimPlaces
<1> HIDE DEF s, start, end, t
<1>5. ASSUME t.length > 0, NEW k \in {1, t.length}
      PROVE  TextOf(t)[k] \notin TrimChars
  <2>1. start # end /\ start # s.length /\ k \in 1..t.length /\ t.length \in Nat
    BY <1>3, <1>4, <1>5
  <2>2. TextOf(t)[k] = memory[t.start + k - 1]
    BY <2>1 DEF TextOf, Text
  <2>3. CASE k = 1
    <3>1. t.start + k - 1 = s.start + start
      BY <1>3, <1>4, <2>3
    <3> QED  BY <1>4, <2>1, <2>2, <3>1 DEF IsTrimChar
  <2>4. CASE k = t.length
    <3>1. t.start + k - 1 = s.start + (end - 1)
      BY <1>3, <1>4, <2>4
    <3> QED  BY <1>4, <2>1, <2>2, <3>1 DEF IsTrimChar
  <2> QED  BY <1>5, <2>3, <2>4
<1>6. ASSUME NEW k \in 0..(s.length - 1),
             s.start + k \notin t.start..(Behind(t) - 1)
      PROVE  IsTrimChar(s, k)
  <2>1. k \in 0..(start - 1) \/ k \in end..(s.length - 1)
    BY <1>3, <1>4, <1>6 DEF Behind
  <2> QED  BY <1>4, <2>1
<1>7. t.start + t.capacity = Behind(s)
  BY <1>3, <1>4 DEF Behind
<1> QED  BY <1>1, <1>5, <1>6, <1>7 DEF s

\* What strlen and str_eq_cstr make of the bytes that str_to_cstr leaves.
LEMMA ReadText ==
    ASSUME StrInv, NEW n \in Views, StrToCstr(n), mode' = "live"
    PROVE  LET text == TextOf(strs[n]) IN
           \E strlen \in 0..Len(text) :
              LET cstr == Text(memory', position, strlen) IN
              /\ memory'[position + strlen] = Nul
              /\ \A k \in 1..strlen : cstr[k] = text[k] /\ cstr[k] # Nul
              /\ StrEqCstr(strs[n], cstr) <=> \A k \in 1..Len(text) : text[k] # Nul
<1> DEFINE from == strs[n].start
           length == strs[n].length
           text == TextOf(strs[n])
           moved == Moved(memory, position, from, length)
<1>1. /\ TakeBlock(length + 1)
      /\ memory' = [moved EXCEPT ![position + length] = Nul]
  BY DEF StrToCstr, ToCstrIn, Stop
<1>2. /\ from \in Int /\ length \in Nat
      /\ length > 0 => from >= 0 /\ from + length <= Capacity
      /\ position \in Int /\ memory \in [Addresses -> Bytes]
  BY SourceFacts, ArenaAssumption DEF StrInv, TypeOK
<1>3. position \in Nat /\ position + length < Capacity
  <2>1. length + 1 \in Nat
    BY <1>2
  <2>2. position \in Nat /\ position + (length + 1) <= Capacity
    BY <1>1, <2>1, BlockTaken
  <2> HIDE DEF length
  <2> QED  BY <1>2, <2>2, ArenaAssumption
<1>4. /\ moved \in [Addresses -> Bytes]
      /\ \A a \in Addresses :
           moved[a] = IF a \in position..(position + length - 1)
                        THEN memory[from + (a - position)] ELSE memory[a]
  BY <1>2, MovedFacts
<1>5. text = [k \in 1..length |-> memory[from + k - 1]] /\ Len(text) = length
  <2>1. text = [k \in 1..length |-> memory[from + k - 1]]
    BY DEF TextOf, Text
  <2> HIDE DEF text, length, from
  <2> QED  BY <1>2, <2>1
<1> HIDE DEF from, length, text, moved
<1>6. /\ memory'[position + length] = Nul
      /\ \A k \in 1..length : memory'[position + k - 1] = text[k]
  <2>1. position + length \in Addresses
    BY <1>2, <1>3, ArenaAssumption DEF Addresses
  <2>2. ASSUME NEW k \in 1..length
        PROVE  memory'[position + k - 1] = text[k]
    <3>1. /\ position + k - 1 \in Addresses
          /\ position + k - 1 \in position..(position + length - 1)
          /\ position + k - 1 # position + length
          /\ from + ((position + k - 1) - position) = from + k - 1
      BY <1>2, <1>3, ArenaAssumption DEF Addresses
    <3> QED  BY <1>1, <1>4, <1>5, <3>1
  <2> QED  BY <1>1, <1>4, <2>1, <2>2
<1> DEFINE T == {k \in 0..length : memory'[position + k] = Nul}
<1>7. T \subseteq Nat /\ length \in T
  BY <1>2, <1>6
<1>8. PICK strlen \in T : \A k \in T : strlen <= k
  <2> HIDE DEF T
  <2> QED  BY <1>7, LeastNat
<1> DEFINE cstr == Text(memory', position, strlen)
<1>9. strlen \in 0..length /\ memory'[position + strlen] = Nul
  BY <1>8
<1>10. cstr = [k \in 1..strlen |-> memory'[position + k - 1]] /\ Len(cstr) = strlen
  <2>1. cstr = [k \in 1..strlen |-> memory'[position + k - 1]]
    BY DEF Text
  <2> HIDE DEF cstr
  <2> QED  BY <1>9, <2>1
<1>11. ASSUME NEW k \in 1..strlen
       PROVE  cstr[k] = text[k] /\ cstr[k] # Nul
  <2>1. k \in 1..length /\ k - 1 \in 0..length /\ ~(strlen <= k - 1)
        /\ position + (k - 1) = position + k - 1
    BY <1>2, <1>9
  <2>2. memory'[position + k - 1] # Nul
    BY <1>8, <2>1
  <2> HIDE DEF cstr, T
  <2> QED  BY <1>6, <1>10, <2>1, <2>2
<1> HIDE DEF T, cstr
<1>12. ASSUME StrEqCstr(strs[n], cstr), NEW k \in 1..length
       PROVE  text[k] # Nul
  <2>1. length = strlen /\ text = cstr
    BY <1>10, <1>12 DEF StrEqCstr, text, length
  <2> QED  BY <1>11, <2>1
<1>13. ASSUME \A k \in 1..length : text[k] # Nul
       PROVE  StrEqCstr(strs[n], cstr)
  <2>1. strlen = length
    <3> SUFFICES ASSUME strlen # length PROVE FALSE
      OBVIOUS
    <3>1. /\ strlen + 1 \in 1..length
          /\ position + (strlen + 1) - 1 = position + strlen
      BY <1>2, <1>9
    <3> QED  BY <1>6, <1>9, <1>13, <3>1
  <2>2. text = cstr
    BY <1>5, <1>6, <1>10, <2>1
  <2> QED  BY <1>10, <2>1, <2>2 DEF StrEqCstr, text, length
<1> QED  BY <1>5, <1>9, <1>11, <1>12, <1>13 DEF text, cstr

-----------------------------------------------------------------------------
\* Every text stays inside its view, and bytes stay bytes, in arenas of every
\* size (string.h:68-253).
THEOREM TypeCorrect == Spec => []TypeOK
<1>1. StrInv => TypeOK
  BY DEF StrInv
<1> QED  BY SpecInv, <1>1, PTL

\* However views are cut from views, they stay inside the block they came from
\* (string.h:162-173, 186-204).
THEOREM ViewsStayInBlock == Spec => []ViewsInBlock
<1>1. StrInv => ViewsInBlock
  BY DEF StrInv
<1> QED  BY SpecInv, <1>1, PTL

\* No call writes to two blocks (string.h:85-253).
THEOREM OneBlockIsWritten == Spec => OneBlockWritten
<1>1. StrInv /\ [Next]_vars => [WritesOneBlock]_vars
  BY StepInv
<1> QED  BY SpecInv, <1>1, PTL DEF Spec, OneBlockWritten

\* str_append puts the two texts one behind the other, whatever bytes the two
\* strings share (string.h:206-216).
THEOREM AppendsLandBehind == Spec => AppendsBehind
<1>1. StrInv /\ [Next]_vars =>
        [\A d, s \in Views :
          StrAppend(d, s) =>
              Text(memory', strs[d].start, strs[d].length + strs[s].length) =
                  TextOf(strs[d]) \o TextOf(strs[s])]_vars
  BY AppendedText
<1> QED  BY SpecInv, <1>1, PTL DEF Spec, AppendsBehind

\* str_copy gives the destination the text of the source, and the two are equal
\* afterwards unless they share bytes (string.h:119-145).
THEOREM CopiesAreTheText == Spec => CopiesAreEqual
<1>1. StrInv /\ [Next]_vars =>
        [\A d, s \in Views :
          StrCopy(d, s) =>
              /\ Text(memory', strs[d].start, strs'[d].length) = TextOf(strs[s])
              /\ \/ StrEq(strs[d], strs[s])'
                 \/ ~Apart(strs'[d], strs[s])]_vars
  BY CopiedText
<1> QED  BY SpecInv, <1>1, PTL DEF Spec, CopiesAreEqual

\* str_trim leaves out trim characters only, and all of them at the two ends
\* (string.h:186-204).
THEOREM TrimsAreTight == Spec => TrimIsTight
<1>1. StrInv /\ [Next]_vars =>
        [\A n \in Views :
          StrTrim(n) =>
             LET s == strs[n]
                 t == strs'[Len(strs')] IN
             /\ t.length > 0 => \A k \in {1, t.length} : TextOf(t)[k] \notin TrimChars
             /\ \A k \in 0..(s.length - 1) :
                   s.start + k \notin t.start..(Behind(t) - 1) => IsTrimChar(s, k)
             /\ t.start + t.capacity = Behind(s)]_vars
  BY TrimmedView
<1> QED  BY SpecInv, <1>1, PTL DEF Spec, TrimIsTight

\* The C string that str_to_cstr makes is the text up to its first NUL
\* (string.h:110-117, 147-160).
THEOREM CstrIsText == Spec => CstrReadsText
<1>1. StrInv /\ [Next]_vars =>
        [\A n \in Views :
          StrToCstr(n) /\ mode' = "live" =>
             LET text == TextOf(strs[n]) IN
             \E strlen \in 0..Len(text) :
                LET cstr == Text(memory', position, strlen) IN
                /\ memory'[position + strlen] = Nul
                /\ \A k \in 1..strlen : cstr[k] = text[k] /\ cstr[k] # Nul
                /\ StrEqCstr(strs[n], cstr) <=> \A k \in 1..Len(text) : text[k] # Nul]_vars
  BY ReadText
<1> QED  BY SpecInv, <1>1, PTL DEF Spec, CstrReadsText
=============================================================================
