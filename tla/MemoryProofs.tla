---------------------------- MODULE MemoryProofs ----------------------------
(***************************************************************************)
(* Proofs about Memory, for any page size, address space, size of a sample *)
(* and sizes of mappings.                                                  *)
(***************************************************************************)
EXTENDS Memory, TLAPS

-----------------------------------------------------------------------------
(* Pages and bytes.                                                        *)

LEMMA Division ==
    ASSUME NEW x, x \in Nat, NEW a, a \in Nat, a > 0
    PROVE  /\ x \div a \in Nat /\ x % a \in 0..(a - 1)
           /\ x = a * (x \div a) + (x % a)
  OBVIOUS

LEMMA Quotient ==
    ASSUME NEW x, x \in Nat, NEW a, a \in Nat, a > 0
    PROVE  x \div a \in Nat /\ x \div a <= x
<1> DEFINE q == x \div a   r == x % a
<1>1. q \in Nat /\ r \in 0..(a - 1) /\ x = a * q + r
  BY Division
<1> HIDE DEF q, r
<1>2. a * q >= q
  BY <1>1
<1>3. q <= x
  BY <1>1, <1>2
<1> QED  BY <1>1, <1>3 DEF q

\* A page number is below the count exactly if some of the bytes are behind it.
LEMMA CountOfPages ==
    ASSUME NEW size, size \in Nat
    PROVE  /\ PageCount(size) \in Nat
           /\ \A k \in Nat : k >= PageCount(size) <=> k * PageSize >= size
<1>1. PageSize \in Nat /\ PageSize > 0 /\ size + PageSize - 1 \in Nat
  BY SizesAssumption
<1> DEFINE a == PageSize
           q == (size + PageSize - 1) \div PageSize
           r == (size + PageSize - 1) % PageSize
<1>2. q \in Nat /\ r \in 0..(a - 1) /\ size + a - 1 = a * q + r
  BY <1>1, Division
<1>3. a \in Nat /\ a > 0
  BY <1>1
<1> HIDE DEF a, q, r
<1>4. ASSUME NEW k, k \in Nat, k >= q PROVE k * a >= size
  <2>1. k * a >= q * a
    BY <1>2, <1>3, <1>4
  <2>2. a * q = q * a /\ a * q >= size
    BY <1>2, <1>3
  <2> QED  BY <2>1, <2>2, <1>2, <1>3, <1>4
<1>5. ASSUME NEW k, k \in Nat, k < q PROVE k * a < size
  <2>1. k + 1 <= q
    BY <1>2, <1>5
  <2>2. (k + 1) * a <= q * a
    BY <2>1, <1>2, <1>3, <1>5
  <2>3. (k + 1) * a = k * a + a /\ q * a = a * q
    BY <1>2, <1>3, <1>5
  <2>4. k * a \in Nat /\ a * q \in Nat
    BY <1>2, <1>3, <1>5
  <2>5. a * q <= size + a - 1
    BY <1>2, <1>3
  <2> QED  BY <2>2, <2>3, <2>4, <2>5, <1>3
<1>6. \A k \in Nat : k >= q <=> k * a >= size
  <2> TAKE k \in Nat
  <2>1. k * a \in Nat
    BY <1>3
  <2> QED  BY <1>4, <1>5, <1>2, <2>1
<1> QED  BY <1>2, <1>6 DEF PageCount, a, q

LEMMA FewerPages ==
    ASSUME NEW size, size \in Nat, NEW given, given \in Nat, given <= size
    PROVE  PageCount(given) <= PageCount(size)
<1>1. /\ PageCount(size) \in Nat /\ PageCount(given) \in Nat
      /\ PageCount(size) * PageSize >= size
  BY CountOfPages
<1>2. PageCount(size) * PageSize \in Nat
  BY <1>1, SizesAssumption
<1>3. PageCount(size) * PageSize >= given
  BY <1>1, <1>2
<1> QED  BY <1>1, <1>3, CountOfPages

LEMMA PagesFromMember ==
    ASSUME NEW start, start \in Nat, NEW size, size \in Nat, NEW p
    PROVE  /\ p \in PagesFrom(start, size) <=>
                /\ p \in Nat /\ start <= p
                /\ p - start < PageCount(size)
           /\ p \in Nat /\ start <= p =>
                (p \in PagesFrom(start, size) <=> (p - start) * PageSize < size)
<1>1. PageCount(size) \in Nat
  BY CountOfPages
<1>2. p \in PagesFrom(start, size) <=>
          p \in Nat /\ start <= p /\ p - start < PageCount(size)
  BY <1>1 DEF PagesFrom
<1>3. ASSUME p \in Nat, start <= p
      PROVE  p - start < PageCount(size) <=> (p - start) * PageSize < size
  <2>1. p - start \in Nat
    BY <1>3
  <2>2. p - start >= PageCount(size) <=> (p - start) * PageSize >= size
    BY <2>1, CountOfPages
  <2>3. (p - start) * PageSize \in Nat
    BY <2>1, SizesAssumption
  <2> QED  BY <2>1, <2>2, <2>3, <1>1
<1> QED  BY <1>2, <1>3

-----------------------------------------------------------------------------
(* The inductive invariant: every mapping was made of pages of the address *)
(* space, and the three properties hold together: a mapping is unmapped    *)
(* without harm to others because each live one has all its own pages.     *)

MadeOfPages ==
    \A m \in 1..Len(mappings) :
        PagesFrom(mappings[m].start, mappings[m].size) \subseteq Page

IInv == TypeOK /\ MadeOfPages /\ LiveMappingsWhole /\ LeftBehind /\ ArenasDroppedOnly

LEMMA MappingFacts ==
    ASSUME TypeOK, NEW m \in 1..Len(mappings)
    PROVE  /\ mappings[m] \in Mapping
           /\ mappings[m].start \in Nat /\ mappings[m].size \in Nat
           /\ mappings[m].kind \in Kinds /\ mappings[m].live \in BOOLEAN
           /\ SizeGiven(m) \in Nat /\ SizeGiven(m) <= mappings[m].size
           /\ mappings[m].kind # "copy" => SizeGiven(m) = mappings[m].size
<1>1. mappings[m] \in Mapping
  BY DEF TypeOK
<1>2. /\ mappings[m].start \in Nat /\ mappings[m].size \in Nat
      /\ mappings[m].kind \in Kinds /\ mappings[m].live \in BOOLEAN
  <2>1. mappings[m].start \in Page /\ mappings[m].size \in Sizes
    BY <1>1 DEF Mapping
  <2>2. mappings[m].kind \in Kinds /\ mappings[m].live \in BOOLEAN
    BY <1>1 DEF Mapping
  <2>3. mappings[m].start \in Nat
    BY <2>1, SizesAssumption DEF Page
  <2>4. mappings[m].size \in Nat
    BY <2>1, SizesAssumption
  <2> QED  BY <2>2, <2>3, <2>4, Zenon
<1>3. /\ mappings[m].size \div SampleSize \in Nat
      /\ mappings[m].size \div SampleSize <= mappings[m].size
  BY <1>2, SizesAssumption, Quotient
<1> QED  BY <1>1, <1>2, <1>3 DEF SizeGiven

LEMMA InitInvariant == Init => IInv
<1> SUFFICES ASSUME Init PROVE IInv
  OBVIOUS
<1>1. mappings \in Seq(Mapping) /\ Len(mappings) = 0
  BY DEF Init
<1> QED
  BY <1>1 DEF Init, IInv, TypeOK, MadeOfPages, LiveMappingsWhole, LeftBehind,
              ArenasDroppedOnly

\* A mapping that is made takes pages that belong to none.
LEMMA MapAtInvariant ==
    ASSUME IInv, NEW kind \in Kinds, NEW size \in Sizes, NEW start \in Page,
           MapAt(kind, size, start)
    PROVE  IInv'
<1> DEFINE N == Len(mappings) + 1
           new == [kind |-> kind, start |-> start, size |-> size, live |-> TRUE]
<1>1. /\ TypeOK /\ MadeOfPages /\ LiveMappingsWhole /\ LeftBehind
      /\ ArenasDroppedOnly
  BY DEF IInv
<1>2. /\ start \in Nat /\ size \in Nat /\ new \in Mapping
      /\ Len(mappings) \in Nat
  BY <1>1, SizesAssumption DEF TypeOK, Page, Mapping
<1>3. /\ mappings' = Append(mappings, new)
      /\ PagesFrom(start, size) \subseteq Page
      /\ \A p \in PagesFrom(start, size) : owner[p] = 0
      /\ owner' = [p \in Page |-> IF p \in PagesFrom(start, size)
                                    THEN N ELSE owner[p]]
      /\ UNCHANGED <<mode, ndebug, droppable>>
  BY DEF MapAt
<1>4. /\ mappings' \in Seq(Mapping) /\ Len(mappings') = N
      /\ mappings'[N] = new
      /\ \A m \in 1..Len(mappings) : mappings'[m] = mappings[m]
  BY <1>1, <1>2, <1>3 DEF TypeOK
<1>5. \A p \in Page : owner[p] \in 0..Len(mappings)
  BY <1>1 DEF TypeOK
<1>6. TypeOK'
  BY <1>1, <1>2, <1>3, <1>4, <1>5 DEF TypeOK
<1>7. \A m \in 1..Len(mappings) : SizeGiven(m)' = SizeGiven(m)
  BY <1>4 DEF SizeGiven
<1>8. ASSUME NEW m \in 1..Len(mappings) PROVE PagesOf(m)' = PagesOf(m)
  BY <1>2, <1>3, <1>5, <1>8 DEF PagesOf
<1>9. {p \in Page : owner'[p] = N} = PagesFrom(start, size)
  <2>1. N \in Nat /\ N > Len(mappings)
    BY <1>2
  <2>2. \A p \in Page : owner'[p] = N <=> p \in PagesFrom(start, size)
    BY <2>1, <1>2, <1>3, <1>5
  <2> QED  BY <2>2, <1>3
<1>10. \A m \in 1..N : m \in 1..Len(mappings) \/ m = N
  BY <1>2
<1>11. MadeOfPages'
  BY <1>1, <1>3, <1>4, <1>10 DEF MadeOfPages
<1>12. LiveMappingsWhole'
  <2> SUFFICES ASSUME NEW m \in 1..N, mappings'[m].live
               PROVE  PagesOf(m)' =
                         PagesFrom(mappings'[m].start, mappings'[m].size)
    BY <1>4 DEF LiveMappingsWhole
  <2>1. CASE m = N
    BY <2>1, <1>4, <1>9 DEF PagesOf
  <2>2. CASE m \in 1..Len(mappings)
    BY <2>2, <1>1, <1>4, <1>8 DEF LiveMappingsWhole
  <2> QED  BY <2>1, <2>2, <1>10
<1>13. LeftBehind'
  <2> SUFFICES ASSUME NEW m \in 1..N, ~mappings'[m].live
               PROVE  PagesOf(m)' =
                        {p \in PagesFrom(mappings'[m].start, mappings'[m].size) :
                           /\ mappings'[m].kind = "copy"
                           /\ (p - mappings'[m].start) * PageSize >= SizeGiven(m)'}
    BY <1>4 DEF LeftBehind
  <2>1. m \in 1..Len(mappings)
    BY <1>4, <1>10
  <2> QED  BY <2>1, <1>1, <1>4, <1>7, <1>8 DEF LeftBehind
<1>14. ArenasDroppedOnly'
  <2> SUFFICES ASSUME NEW p \in droppable
               PROVE  /\ owner'[p] # 0 /\ mappings'[owner'[p]].kind = "arena"
                      /\ mappings'[owner'[p]].live
    BY <1>3 DEF ArenasDroppedOnly
  <2>1. /\ owner[p] # 0 /\ mappings[owner[p]].kind = "arena"
        /\ mappings[owner[p]].live /\ p \in Page
    BY <1>1 DEF ArenasDroppedOnly, TypeOK
  <2>2. owner'[p] = owner[p]
    BY <2>1, <1>3
  <2>3. owner[p] \in 1..Len(mappings)
    BY <2>1, <1>5, <1>2
  <2> QED  BY <2>1, <2>2, <2>3, <1>4
<1> QED  BY <1>6, <1>11, <1>12, <1>13, <1>14 DEF IInv

\* What is unmapped was the mapping's own, by whatever smaller size.
LEMMA UnmapInvariant ==
    ASSUME IInv, NEW m \in 1..Len(mappings), Unmap(m)
    PROVE  IInv'
<1> DEFINE start == mappings[m].start   size == mappings[m].size
           given == SizeGiven(m)
           freed == PagesFrom(start, given)
<1>1. /\ TypeOK /\ MadeOfPages /\ LiveMappingsWhole /\ LeftBehind
      /\ ArenasDroppedOnly
  BY DEF IInv
<1>2. /\ start \in Nat /\ size \in Nat /\ given \in Nat /\ given <= size
      /\ mappings[m] \in Mapping
      /\ mappings[m].kind # "copy" => given = size
  BY <1>1, MappingFacts
<1>3. /\ mappings[m].live
      /\ owner' = [p \in Page |-> IF p \in freed THEN 0 ELSE owner[p]]
      /\ droppable' = droppable \ freed
      /\ mappings' = [mappings EXCEPT ![m].live = FALSE]
      /\ UNCHANGED <<mode, ndebug>>
  BY DEF Unmap
<1>4. PagesOf(m) = PagesFrom(start, size)
  BY <1>1, <1>3 DEF LiveMappingsWhole
<1>5. freed \subseteq PagesFrom(start, size)
  <2> SUFFICES ASSUME NEW p \in freed PROVE p \in PagesFrom(start, size)
    OBVIOUS
  <2>1. PageCount(given) <= PageCount(size)
    BY <1>2, FewerPages
  <2>2. PageCount(given) \in Nat /\ PageCount(size) \in Nat
    BY <1>2, CountOfPages
  <2>3. p \in Nat /\ start <= p /\ p - start < PageCount(given)
    BY <1>2, PagesFromMember
  <2>4. p - start < PageCount(size)
    BY <2>1, <2>2, <2>3, <1>2
  <2> QED  BY <2>3, <2>4, <1>2, PagesFromMember
<1>6. /\ mappings' \in Seq(Mapping) /\ Len(mappings') = Len(mappings)
      /\ \A k \in 1..Len(mappings) :
            /\ mappings'[k].kind = mappings[k].kind
            /\ mappings'[k].start = mappings[k].start
            /\ mappings'[k].size = mappings[k].size
            /\ mappings'[k].live = (mappings[k].live /\ k # m)
  <2>1. mappings \in Seq(Mapping)
    BY <1>1 DEF TypeOK
  <2>2. [mappings[m] EXCEPT !.live = FALSE] \in Mapping
    BY <1>2 DEF Mapping
  <2>3. mappings' \in Seq(Mapping) /\ Len(mappings') = Len(mappings)
    BY <1>3, <2>1, <2>2
  <2>4. ASSUME NEW k \in 1..Len(mappings)
        PROVE  /\ mappings'[k].kind = mappings[k].kind
               /\ mappings'[k].start = mappings[k].start
               /\ mappings'[k].size = mappings[k].size
               /\ mappings'[k].live = (mappings[k].live /\ k # m)
    <3>1. /\ mappings[k] \in Mapping
          /\ mappings'[k] = IF k = m THEN [mappings[m] EXCEPT !.live = FALSE]
                                     ELSE mappings[k]
      BY <1>3, <2>1
    <3>2. mappings[k] = [kind |-> mappings[k].kind, start |-> mappings[k].start,
                         size |-> mappings[k].size, live |-> mappings[k].live]
          /\ mappings[k].live \in BOOLEAN
      BY <3>1 DEF Mapping
    <3>3. CASE k = m
      BY <3>1, <3>2, <3>3
    <3>4. CASE k # m
      BY <3>1, <3>2, <3>4
    <3> QED  BY <3>3, <3>4
  <2> QED  BY <2>3, <2>4
<1>7. TypeOK'
  <2>1. \A p \in Page : owner[p] \in 0..Len(mappings)
    BY <1>1 DEF TypeOK
  <2>2. 0 \in 0..Len(mappings)
    BY <1>1 DEF TypeOK
  <2>3. owner' \in [Page -> 0..Len(mappings)]
    BY <1>3, <2>1, <2>2
  <2> QED  BY <1>1, <1>3, <1>6, <2>3 DEF TypeOK
<1>8. \A k \in 1..Len(mappings) : SizeGiven(k)' = SizeGiven(k)
  BY <1>6 DEF SizeGiven
<1>9. \A p \in freed : p \in Page /\ owner[p] = m
  BY <1>4, <1>5 DEF PagesOf
<1>10. ASSUME NEW k \in 1..Len(mappings), k # m PROVE PagesOf(k)' = PagesOf(k)
  BY <1>3, <1>9, <1>10 DEF PagesOf
<1>11. PagesOf(m)' = PagesFrom(start, size) \ freed
  <2>1. PagesOf(m)' = PagesOf(m) \ freed
    BY <1>3, <1>9 DEF PagesOf
  <2> QED  BY <2>1, <1>4
<1>12. PagesOf(m)' = {p \in PagesFrom(start, size) :
                        /\ mappings[m].kind = "copy"
                        /\ (p - start) * PageSize >= given}
  <2>1. ASSUME NEW p \in PagesFrom(start, size)
        PROVE  p \notin freed <=>
                  /\ mappings[m].kind = "copy"
                  /\ (p - start) * PageSize >= given
    <3>1. p \in Nat /\ start <= p
      BY <1>2, PagesFromMember
    <3>2. p \in freed <=> (p - start) * PageSize < given
      BY <3>1, <1>2, PagesFromMember
    <3>3. (p - start) * PageSize \in Int
      BY <3>1, <1>2, SizesAssumption
    <3>4. mappings[m].kind # "copy" => p \in freed
      BY <1>2
    <3> QED  BY <3>2, <3>3, <3>4, <1>2
  <2> QED  BY <2>1, <1>11
<1>13. MadeOfPages'
  BY <1>1, <1>6 DEF MadeOfPages
<1>14. LiveMappingsWhole'
  BY <1>1, <1>6, <1>10 DEF LiveMappingsWhole
<1>15. LeftBehind'
  <2> SUFFICES ASSUME NEW k \in 1..Len(mappings), ~mappings'[k].live
               PROVE  PagesOf(k)' =
                        {p \in PagesFrom(mappings[k].start, mappings[k].size) :
                           /\ mappings[k].kind = "copy"
                           /\ (p - mappings[k].start) * PageSize >= SizeGiven(k)}
    BY <1>6, <1>8 DEF LeftBehind
  <2>1. CASE k = m
    BY <2>1, <1>12
  <2>2. CASE k # m
    BY <2>2, <1>1, <1>6, <1>10 DEF LeftBehind
  <2> QED  BY <2>1, <2>2
<1>16. ArenasDroppedOnly'
  <2> SUFFICES ASSUME NEW p \in droppable, p \notin freed
               PROVE  /\ owner'[p] # 0 /\ mappings'[owner'[p]].kind = "arena"
                      /\ mappings'[owner'[p]].live
    BY <1>3 DEF ArenasDroppedOnly
  <2>1. /\ owner[p] # 0 /\ mappings[owner[p]].kind = "arena"
        /\ mappings[owner[p]].live /\ p \in Page
    BY <1>1 DEF ArenasDroppedOnly, TypeOK
  <2>2. owner'[p] = owner[p] /\ owner[p] \in 1..Len(mappings)
    BY <2>1, <1>1, <1>3 DEF TypeOK
  <2>3. owner[p] # m
    <3> SUFFICES ASSUME owner[p] = m PROVE FALSE
      OBVIOUS
    <3>1. given = size
      BY <2>1, <1>2
    <3>2. p \in PagesFrom(start, size)
      BY <2>1, <1>4 DEF PagesOf
    <3> QED  BY <3>1, <3>2
  <2> QED  BY <2>1, <2>2, <2>3, <1>6
<1> QED  BY <1>7, <1>13, <1>14, <1>15, <1>16 DEF IInv

LEMMA DontneedInvariant ==
    ASSUME IInv, NEW m \in 1..Len(mappings), Dontneed(m)
    PROVE  IInv'
<1>1. /\ TypeOK /\ MadeOfPages /\ LiveMappingsWhole /\ LeftBehind
      /\ ArenasDroppedOnly
  BY DEF IInv
<1>2. /\ mappings[m].live /\ mappings[m].kind = "arena"
      /\ droppable' = droppable \cup PagesFrom(mappings[m].start, mappings[m].size)
      /\ UNCHANGED <<mode, ndebug, owner, mappings>>
  BY DEF Dontneed, DontneedSize
<1>3. \A p \in PagesFrom(mappings[m].start, mappings[m].size) :
          p \in Page /\ owner[p] = m
  BY <1>1, <1>2 DEF LiveMappingsWhole, PagesOf
<1>4. TypeOK'
  BY <1>1, <1>2, <1>3 DEF TypeOK
<1>5. MadeOfPages' /\ LiveMappingsWhole' /\ LeftBehind'
  BY <1>1, <1>2 DEF MadeOfPages, LiveMappingsWhole, LeftBehind, PagesOf, SizeGiven
<1>6. ArenasDroppedOnly'
  BY <1>1, <1>2, <1>3, SizesAssumption DEF ArenasDroppedOnly, TypeOK
<1> QED  BY <1>4, <1>5, <1>6 DEF IInv

LEMMA NextInvariant == IInv /\ [Next]_vars => IInv'
<1> SUFFICES ASSUME IInv, [Next]_vars PROVE IInv'
  OBVIOUS
<1>1. ASSUME NEW kind \in Kinds, NEW size \in Sizes, NEW start \in Page,
             MapAt(kind, size, start)
      PROVE  IInv'
  BY <1>1, MapAtInvariant
<1>2. CASE MapRefused
  BY <1>2 DEF MapRefused, IInv, TypeOK, MadeOfPages, LiveMappingsWhole, LeftBehind,
              ArenasDroppedOnly, PagesOf, SizeGiven
<1>3. ASSUME NEW m \in 1..Len(mappings), Unmap(m) PROVE IInv'
  BY <1>3, UnmapInvariant
<1>4. ASSUME NEW m \in 1..Len(mappings), Dontneed(m) PROVE IInv'
  BY <1>4, DontneedInvariant
<1>5. CASE UNCHANGED vars
  BY <1>5 DEF vars, IInv, TypeOK, MadeOfPages, LiveMappingsWhole, LeftBehind,
              ArenasDroppedOnly, PagesOf, SizeGiven
<1> QED  BY <1>1, <1>2, <1>3, <1>4, <1>5 DEF Next

LEMMA Invariance == Spec => []IInv
  BY InitInvariant, NextInvariant, PTL DEF Spec

-----------------------------------------------------------------------------
\* Owners are mappings that were made, and only pages that exist are dropped
\* (memory.h).
THEOREM TypeCorrect == Spec => []TypeOK
<1>1. IInv => TypeOK  BY DEF IInv
<1> QED  BY <1>1, Invariance, PTL

\* Whatever else is unmapped, and by whatever size the callers of
\* memory_unmap_anonymous and memory_unmap_file give, a live mapping keeps all
\* its pages (memory.h:48-60, 120-132).
THEOREM LiveMappingsStayWhole == Spec => []LiveMappingsWhole
<1>1. IInv => LiveMappingsWhole  BY DEF IInv
<1> QED  BY <1>1, Invariance, PTL

\* Only of copies of samples pages stay mapped: those behind as many bytes as
\* there were samples (prepare_data.c:141).
THEOREM CopiesStayBehind == Spec => []LeftBehind
<1>1. IInv => LeftBehind  BY DEF IInv
<1> QED  BY <1>1, Invariance, PTL

\* memory_dontneed lets the system drop pages of live arenas alone
\* (memory.h:62-74).
THEOREM DroppedAreArenas == Spec => []ArenasDroppedOnly
<1>1. IInv => ArenasDroppedOnly  BY DEF IInv
<1> QED  BY <1>1, Invariance, PTL
=============================================================================
