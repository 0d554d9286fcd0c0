------------------------------- MODULE Memory -------------------------------
(***************************************************************************)
(* The mappings of src/src/base/memory.h (its Linux branches) in the       *)
(* address space of the process, page by page.  The callers are those of   *)
(* the program: files are unmapped by their size, arenas by their          *)
(* capacity, copies of samples by the number of the samples.               *)
(***************************************************************************)
EXTENDS Integers, Sequences

CONSTANTS
    PageSize,      \* get_page_size()
    LastPage,      \* of the address space
    SampleSize,    \* bytes of a data_value_t: 4
    Sizes,         \* bytes asked for, a multiple of SampleSize for copies
    MaxMappings    \* bound on the mappings made

ASSUME SizesAssumption ==
    /\ PageSize \in Nat \ {0} /\ SampleSize \in Nat \ {0}
    /\ LastPage \in Nat /\ MaxMappings \in Nat
    /\ Sizes \subseteq Nat

VARIABLES
    mode,        \* "running", or "stopped" by an assertion
    ndebug,      \* Release build: assert() is compiled out
    owner,       \* the mapping a page belongs to, 0 if to none
    droppable,   \* pages whose bytes the system may drop (MADV_FREE)
    mappings     \* what was mapped, in order; live until it is unmapped

vars == <<mode, ndebug, owner, droppable, mappings>>

Page == 0..LastPage

Kinds == {"file", "arena", "copy"}

Init ==
    /\ mode = "running"
    /\ ndebug \in BOOLEAN
    /\ owner = [p \in Page |-> 0]
    /\ droppable = {}
    /\ mappings = << >>

\* The pages that align_size makes of a size; mmap and munmap round up so too.
\* Here and below, an operator named after another with a suffix is a mistaken
\* form of it, which the properties tell from the definition.
PageCountDown(size) == size \div PageSize

PageCount(size) == (size + PageSize - 1) \div PageSize

PagesFrom(start, size) == start..(start + PageCount(size) - 1)

\* memory_map_anonymous and memory_map_file: at any place that is free.
MapAt(kind, size, start) ==
    /\ mode = "running" /\ Len(mappings) < MaxMappings
    /\ kind = "copy" => size % SampleSize = 0
    /\ PageCount(size) > 0
    /\ \A p \in PagesFrom(start, size) : p \in Page /\ owner[p] = 0
    /\ owner' = [p \in Page |-> IF p \in PagesFrom(start, size)
                                  THEN Len(mappings) + 1 ELSE owner[p]]
    /\ mappings' = Append(mappings, [kind |-> kind, start |-> start,
                                     size |-> size, live |-> TRUE])
    /\ UNCHANGED <<mode, ndebug, droppable>>

\* A mapping that is refused, as one of no bytes is, fails an assertion.  In a
\* Release build nothing changes, and the caller gets MAP_FAILED or NULL.
MapRefused ==
    /\ mode = "running" /\ ~ndebug
    /\ mode' = "stopped"
    /\ UNCHANGED <<ndebug, owner, droppable, mappings>>

\* What the callers give as the size of the mapping m.  By mistake, a number of
\* bytes is multiplied by the bytes of a sample.
SizeGivenTimes(m) ==
    IF mappings[m].kind = "copy" THEN mappings[m].size * SampleSize
                                 ELSE mappings[m].size

SizeGiven(m) ==
    IF mappings[m].kind = "copy" THEN mappings[m].size \div SampleSize
                                 ELSE mappings[m].size

\* memory_unmap_anonymous and memory_unmap_file.
Unmap(m) ==
    /\ mode = "running" /\ mappings[m].live
    /\ LET freed == PagesFrom(mappings[m].start, SizeGiven(m)) IN
       /\ owner' = [p \in Page |-> IF p \in freed THEN 0 ELSE owner[p]]
       /\ droppable' = droppable \ freed
    /\ mappings' = [mappings EXCEPT ![m].live = FALSE]
    /\ UNCHANGED <<mode, ndebug>>

\* memory_dontneed, of arenas only.  By mistake, of a whole page more.
DontneedSize(m, size) ==
    /\ mode = "running" /\ mappings[m].live /\ mappings[m].kind = "arena"
    /\ droppable' = droppable \cup PagesFrom(mappings[m].start, size)
    /\ UNCHANGED <<mode, ndebug, owner, mappings>>

DontneedBehind(m) == DontneedSize(m, mappings[m].size + PageSize)

Dontneed(m) == DontneedSize(m, mappings[m].size)

Next ==
    \/ \E kind \in Kinds, size \in Sizes, start \in Page : MapAt(kind, size, start)
    \/ MapRefused
    \/ \E m \in 1..Len(mappings) : Unmap(m) \/ Dontneed(m)

Spec == Init /\ [][Next]_vars

-----------------------------------------------------------------------------
(* What must hold of the pages.                                            *)

Mapping == [kind : Kinds, start : Page, size : Sizes, live : BOOLEAN]

TypeOK ==
    /\ mode \in {"running", "stopped"}
    /\ ndebug \in BOOLEAN
    /\ owner \in [Page -> 0..Len(mappings)]
    /\ droppable \subseteq Page
    /\ mappings \in Seq(Mapping)

PagesOf(m) == {p \in Page : owner[p] = m}

\* A live mapping has all its pages, whatever is unmapped by a wrong size or
\* mapped where pages of others stay behind (memory.h:48-60, 120-132).
LiveMappingsWhole ==
    \A m \in 1..Len(mappings) :
        mappings[m].live =>
            PagesOf(m) = PagesFrom(mappings[m].start, mappings[m].size)

\* Of a file and an arena nothing stays mapped; of a copy the pages behind as
\* many bytes as it had samples (prepare_data.c:141, memory.h:54).
LeftBehind ==
    \A m \in 1..Len(mappings) :
        ~mappings[m].live =>
            PagesOf(m) = {p \in PagesFrom(mappings[m].start, mappings[m].size) :
                              /\ mappings[m].kind = "copy"
                              /\ (p - mappings[m].start) * PageSize >= SizeGiven(m)}

\* Only bytes of arenas may be dropped while they are mapped (memory.h:62).
ArenasDroppedOnly ==
    \A p \in droppable :
        owner[p] # 0 /\ mappings[owner[p]].kind = "arena" /\ mappings[owner[p]].live
=============================================================================
