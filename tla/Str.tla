-------------------------------- MODULE Str --------------------------------
(***************************************************************************)
(* Strings (src/src/base/string.h:68-253): views of bytes that an arena    *)
(* handed out, and the functions that make, cut, compare and join them.    *)
(* str_tokenize is in Tokenize.                                            *)
(*                                                                         *)
(* Several views may show the same bytes, as str_slice and str_trim make   *)
(* them, so the bytes are modelled, and which block a view was cut from.   *)
(***************************************************************************)
EXTENDS Integers, Sequences

CONSTANTS
    Chars,       \* characters of C strings
    Nul,         \* the character behind them
    TrimChars,   \* blanks, tabs and line ends (trim_lut)
    Capacity,    \* of the arena
    Alignment,   \* DEFAULT_ALIGNMENT
    Contents,    \* what an earlier use of the arena may have left in it
    CStrings,    \* C strings handed in
    Lengths,     \* lengths asked for
    Cuts,        \* positions views are cut at
    MaxStrs      \* bound on the strings made

Bytes == Chars \cup {Nul}
Addresses == 0..(Capacity - 1)

ASSUME NulAssumption == Nul \notin Chars /\ TrimChars \subseteq Chars
ASSUME ArenaAssumption ==
    /\ Alignment \in Nat \ {0}
    /\ Capacity \in Nat /\ Capacity % Alignment = 0
ASSUME InputsAssumption ==
    /\ Contents \subseteq [Addresses -> Bytes]
    /\ CStrings \subseteq Seq(Chars)
    /\ Lengths \subseteq Nat /\ Cuts \subseteq Nat /\ MaxStrs \in Nat

VARIABLES
    mode,      \* "live", or "stopped" by an assertion or a trap
    ndebug,    \* Release build: assert() is compiled out
    memory,    \* the bytes of the arena
    position,  \* of the arena: where the next block starts
    blocks,    \* history: the blocks handed out
    strs       \* the str_t made so far, each with the block it is a view of

arena == <<position, blocks>>
vars == <<mode, ndebug, memory, arena, strs>>

Init ==
    /\ mode = "live"
    /\ ndebug \in BOOLEAN
    /\ memory \in Contents
    /\ position = 0
    /\ blocks = << >> /\ strs = << >>

-----------------------------------------------------------------------------
Views == 1..Len(strs)

Text(bytes, start, length) == [n \in 1..length |-> bytes[start + n - 1]]

TextOf(s) == Text(memory, s.start, s.length)

\* str_from_size gives this when there is no room.
Invalid == [start |-> -1, length |-> 0, capacity |-> 0, block |-> 0]

StrValid(s) == s.start # -1 /\ s.length <= s.capacity

StrEq(s, t) == s.length = t.length /\ TextOf(s) = TextOf(t)

StrEqCstr(s, cstr) == s.length = Len(cstr) /\ TextOf(s) = cstr

\* Here and below, an operator named after another with a suffix is a mistaken
\* form of it, which the properties tell from the definition.

\* memmove and, by mistake, a copy from the first byte to the last, which reads
\* what it wrote where the source lies less than its length in front.
MovedForward(bytes, to, from, length) ==
    LET distance == IF from < to THEN to - from ELSE length + 1 IN
    [a \in Addresses |->
        IF a \in to..(to + length - 1) THEN bytes[from + ((a - to) % distance)]
                                       ELSE bytes[a]]

Moved(bytes, to, from, length) ==
    [a \in Addresses |->
        IF a \in to..(to + length - 1) THEN bytes[from + (a - to)] ELSE bytes[a]]

Written(bytes, to, cstr) ==
    [a \in Addresses |->
        IF a \in to..(to + Len(cstr) - 1) THEN cstr[a - to + 1] ELSE bytes[a]]

-----------------------------------------------------------------------------
(* arena_alloc, of which Arena has the details.                            *)

Aligned(size) == ((size + Alignment - 1) \div Alignment) * Alignment

Room(size) == Capacity - position >= Aligned(size)

TakeBlock(size) ==
    /\ Room(size)
    /\ position' = position + Aligned(size)
    /\ blocks' = Append(blocks, [start |-> position, size |-> size])

NewBlock(length, capacity) ==
    [start |-> position, length |-> length, capacity |-> capacity,
     block |-> Len(blocks) + 1]

\* A failed assertion, or a write through the NULL of a full arena.
Stop == mode' = "stopped" /\ UNCHANGED <<ndebug, memory, arena, strs>>

Calls(used) ==
    /\ mode = "live"
    /\ \A n \in used : ndebug \/ StrValid(strs[n])

Makes(s) == Len(strs) < MaxStrs /\ strs' = Append(strs, s)

UseInvalid ==
    /\ mode = "live" /\ ~ndebug
    /\ \E n \in Views : ~StrValid(strs[n])
    /\ Stop

StrFromSize(length) ==
    /\ Calls({})
    /\ \/ TakeBlock(length) /\ Makes(NewBlock(0, length))
       \/ ~Room(length) /\ Makes(Invalid) /\ UNCHANGED arena
    /\ UNCHANGED <<mode, ndebug, memory>>

StrFromCstr(cstr) ==
    /\ Calls({})
    /\ \/ /\ TakeBlock(Len(cstr))
          /\ Makes(NewBlock(Len(cstr), Len(cstr)))
          /\ memory' = Written(memory, position, cstr)
          /\ UNCHANGED <<mode, ndebug>>
       \/ ~Room(Len(cstr)) /\ Stop

\* The copy has a byte more, for the terminator; by mistake, it has not, or has
\* no terminator.
ToCstrIn(n, room, end) ==
    /\ Calls({n})
    /\ LET s == strs[n] IN
       \/ /\ TakeBlock(room)
          /\ memory' = [Moved(memory, position, s.start, s.length)
                           EXCEPT ![position + s.length] = end]
          /\ UNCHANGED <<mode, ndebug, strs>>
       \/ ~Room(room) /\ Stop

StrToCstrUnterminated(n) ==
    ToCstrIn(n, strs[n].length + 1, memory[position + strs[n].length])

StrToCstr(n) == ToCstrIn(n, strs[n].length + 1, Nul)

\* Where the destination is too small false is returned and nothing changes.
StrCopyBytes(d, s) ==
    /\ Calls({d, s}) /\ strs[d].capacity >= strs[s].length
    /\ memory' = Moved(memory, strs[d].start, strs[s].start, strs[s].length)
    /\ UNCHANGED <<mode, ndebug, arena, strs>>

StrCopy(d, s) ==
    /\ Calls({d, s}) /\ strs[d].capacity >= strs[s].length
    /\ UNCHANGED <<mode, ndebug, arena>>
    /\ strs' = [strs EXCEPT ![d].length = strs[s].length]
    /\ memory' = Moved(memory, strs[d].start, strs[s].start, strs[s].length)

\* A part of the view and what is behind it; by mistake, with its capacity.
SliceWith(n, from, to, capacity) ==
    /\ Calls({n})
    /\ to >= from /\ from <= strs[n].capacity /\ to <= strs[n].capacity
    /\ Makes([strs[n] EXCEPT !.start = @ + from,
                             !.length = to - from, !.capacity = capacity])
    /\ UNCHANGED <<mode, ndebug, memory, arena>>

StrSliceWhole(n, from, to) == SliceWith(n, from, to, strs[n].capacity)

StrSlice(n, from, to) == SliceWith(n, from, to, strs[n].capacity - from)

\* The view without the trim characters at its two ends.  An empty one has its
\* place behind them.
Trimmed(s, start, end) ==
    [s EXCEPT !.start = @ + start, !.length = end - start,
              !.capacity = s.length - start]

IsTrimChar(s, n) == memory[s.start + n] \in TrimChars

LeadingEnd(s) ==
    CHOOSE n \in 0..s.length :
        /\ \A k \in 0..(n - 1) : IsTrimChar(s, k)
        /\ n = s.length \/ ~IsTrimChar(s, n)

TrailingStart(s, start) ==
    CHOOSE n \in start..s.length :
        /\ \A k \in n..(s.length - 1) : IsTrimChar(s, k)
        /\ n = start \/ ~IsTrimChar(s, n - 1)

StrTrimLeft(n) ==
    /\ Calls({n})
    /\ Makes(Trimmed(strs[n], LeadingEnd(strs[n]), strs[n].length))
    /\ UNCHANGED <<mode, ndebug, memory, arena>>

StrTrim(n) ==
    /\ Calls({n})
    /\ LET start == LeadingEnd(strs[n]) IN
       Makes(Trimmed(strs[n], start, TrailingStart(strs[n], start)))
    /\ UNCHANGED <<mode, ndebug, memory, arena>>

\* The bytes are moved behind the text; the length of the view stays.  By
\* mistake, room is asked for the source alone, or the bytes are copied forward.
AppendIf(d, s, room, bytes) ==
    /\ Calls({d, s}) /\ room >= strs[s].length
    /\ UNCHANGED <<mode, ndebug, arena, strs>>
    /\ memory' = bytes

Behind(s) == s.start + s.length

StrAppendOver(d, s) ==
    AppendIf(d, s, strs[d].capacity,
             Moved(memory, Behind(strs[d]), strs[s].start, strs[s].length))

StrAppendForward(d, s) ==
    AppendIf(d, s, strs[d].capacity - strs[d].length,
             MovedForward(memory, Behind(strs[d]), strs[s].start, strs[s].length))

StrAppend(d, s) ==
    AppendIf(d, s, strs[d].capacity - strs[d].length,
             Moved(memory, Behind(strs[d]), strs[s].start, strs[s].length))

StrAppendCstr(d, cstr) ==
    /\ Calls({d}) /\ strs[d].capacity - strs[d].length >= Len(cstr)
    /\ memory' = Written(memory, Behind(strs[d]), cstr)
    /\ UNCHANGED <<mode, ndebug, arena, strs>>

\* A new string with room for both texts, which are moved there; its length is
\* that of str_from_size, 0.
StrFromAppend(d, s) ==
    /\ Calls({d, s})
    /\ LET length == strs[d].length + strs[s].length
           moved == Moved(memory, position, strs[d].start, strs[d].length) IN
       \/ /\ TakeBlock(length) /\ Makes(NewBlock(0, length))
          /\ memory' = Moved(moved, position + strs[d].length,
                             strs[s].start, strs[s].length)
          /\ UNCHANGED <<mode, ndebug>>
       \/ ~Room(length) /\ Stop

StrFromAppendCstr(d, cstr) ==
    /\ Calls({d})
    /\ LET length == strs[d].length + Len(cstr)
           moved == Moved(memory, position, strs[d].start, strs[d].length) IN
       \/ /\ TakeBlock(length) /\ Makes(NewBlock(0, length))
          /\ memory' = Written(moved, position + strs[d].length, cstr)
          /\ UNCHANGED <<mode, ndebug>>
       \/ ~Room(length) /\ Stop

Next ==
    \/ UseInvalid
    \/ \E length \in Lengths : StrFromSize(length)
    \/ \E cstr \in CStrings : StrFromCstr(cstr)
    \/ \E n \in Views : StrToCstr(n) \/ StrTrim(n)
    \/ \E n \in Views, from, to \in Cuts : StrSlice(n, from, to)
    \/ \E d, s \in Views : StrCopy(d, s) \/ StrAppend(d, s) \/ StrFromAppend(d, s)
    \/ \E d \in Views, cstr \in CStrings :
          StrAppendCstr(d, cstr) \/ StrFromAppendCstr(d, cstr)

Spec == Init /\ [][Next]_vars

-----------------------------------------------------------------------------
(* What must hold of strings that share bytes.                             *)

Block == [start : 0..Capacity, size : 0..Capacity]

Str == [start : -1..Capacity, length : 0..Capacity, capacity : 0..Capacity,
        block : Nat]

TypeOK ==
    /\ mode \in {"live", "stopped"}
    /\ ndebug \in BOOLEAN
    /\ memory \in [Addresses -> Bytes]
    /\ position \in 0..Capacity
    /\ blocks \in Seq(Block)
    /\ strs \in Seq(Str)

ViewIn(s, given) ==
    /\ s.length <= s.capacity
    /\ \/ s.block = 0 /\ s.capacity = 0
       \/ LET b == given[s.block] IN
          /\ s.block \in 1..Len(given)
          /\ b.start <= s.start /\ s.start + s.capacity <= b.start + b.size

\* However a view was cut, copied to and cut again, its capacity ends inside the
\* block it came from and its length inside its capacity (the capacities of
\* str_slice and str_trim, string.h:171 and 202).
ViewsInBlock == \A n \in Views : ViewIn(strs[n], blocks)

BytesOf(b) == b.start..(b.start + b.size - 1)

WritesOneBlock ==
    \/ memory' = memory
    \/ \E n \in 1..Len(blocks') :
          \A a \in Addresses \ BytesOf(blocks'[n]) : memory'[a] = memory[a]

\* A call changes bytes of one block only: no terminator, no appended text and
\* no copy runs into the block behind (string.h:115, 127, 214, 228).
OneBlockWritten == [][WritesOneBlock]_vars

Apart(s, t) == Behind(s) <= t.start \/ Behind(t) <= s.start

\* What is behind str_append is the two texts as they were, also where the source
\* is a view of the bytes that are written over, or the destination itself.
AppendsBehind ==
    [][\A d, s \in Views :
          StrAppend(d, s) =>
              Text(memory', strs[d].start, strs[d].length + strs[s].length) =
                  TextOf(strs[d]) \o TextOf(strs[s])]_vars

\* After str_copy the destination has the text the source had, and str_eq says
\* so unless the copy changed the source, which shows some of the same bytes.
CopiesAreEqual ==
    [][\A d, s \in Views :
          StrCopy(d, s) =>
              /\ Text(memory', strs[d].start, strs'[d].length) = TextOf(strs[s])
              /\ \/ StrEq(strs[d], strs[s])'
                 \/ ~Apart(strs'[d], strs[s])]_vars

\* A trimmed view begins and ends with other characters, what was left out is
\* trim characters, and no character is shown that the view did not show.
TrimIsTight ==
    [][\A n \in Views :
          StrTrim(n) =>
             LET s == strs[n]
                 t == strs'[Len(strs')] IN
             /\ t.length > 0 => \A k \in {1, t.length} : TextOf(t)[k] \notin TrimChars
             /\ \A k \in 0..(s.length - 1) :
                   s.start + k \notin t.start..(Behind(t) - 1) => IsTrimChar(s, k)
             /\ t.start + t.capacity = Behind(s)]_vars

\* The C string of a text is the text, up to the first NUL in it: str_eq_cstr
\* holds of the two exactly when there is none.
CstrReadsText ==
    [][\A n \in Views :
          StrToCstr(n) /\ mode' = "live" =>
             LET text == TextOf(strs[n]) IN
             \E strlen \in 0..Len(text) :
                LET cstr == Text(memory', position, strlen) IN
                /\ memory'[position + strlen] = Nul
                /\ \A k \in 1..strlen : cstr[k] = text[k] /\ cstr[k] # Nul
                /\ StrEqCstr(strs[n], cstr) <=> \A k \in 1..Len(text) : text[k] # Nul]_vars
=============================================================================
