------------------------------ MODULE MainProofs ------------------------------
(***************************************************************************)
(* Proofs about Main, for every number of arguments, every set of paths    *)
(* and every capacity of the arenas.                                       *)
(***************************************************************************)
EXTENDS Main, FiniteSetTheorems, WellFoundedInduction, TLAPS

-----------------------------------------------------------------------------
(* Sets of arguments.                                                      *)

LEMMA ArgumentSets ==
    ASSUME NEW S, S \subseteq 1..Args
    PROVE  IsFiniteSet(S) /\ Cardinality(S) \in 0..Args
<1>1. IsFiniteSet(1..Args) /\ Cardinality(1..Args) = Args
  BY ArgsAssumption, FS_Interval
<1>2. IsFiniteSet(S) /\ Cardinality(S) <= Args
  BY <1>1, FS_Subset
<1> QED  BY <1>2, ArgsAssumption, FS_CardinalityType

LEMMA FirstArguments ==
    ASSUME NEW n, n \in Nat
    PROVE  IsFiniteSet(1..n) /\ Cardinality(1..n) = n
  BY FS_Interval

\* Of two sets of the same size each has as many elements that the other has not.
LEMMA SameSizeDifference ==
    ASSUME NEW S, IsFiniteSet(S), NEW T, IsFiniteSet(T),
           Cardinality(S) = Cardinality(T)
    PROVE  Cardinality(S \ T) = Cardinality(T \ S)
<1>1. /\ IsFiniteSet(S \ T) /\ IsFiniteSet(T \ S) /\ IsFiniteSet(S \cap T)
  BY FS_Subset
<1>2. /\ Cardinality(S \ T) \in Nat /\ Cardinality(T \ S) \in Nat
      /\ Cardinality(S \cap T) \in Nat
  BY <1>1, FS_CardinalityType
<1>3. /\ (S \ T) \cup (S \cap T) = S /\ (S \ T) \cap (S \cap T) = {}
      /\ (T \ S) \cup (S \cap T) = T /\ (T \ S) \cap (S \cap T) = {}
  OBVIOUS
<1>4. Cardinality(S) = Cardinality(S \ T) + Cardinality(S \cap T) - Cardinality({})
  <2>1. Cardinality((S \ T) \cup (S \cap T)) =
            Cardinality(S \ T) + Cardinality(S \cap T)
                - Cardinality((S \ T) \cap (S \cap T))
    BY <1>1, FS_Union
  <2> QED  BY <2>1, <1>3
<1>5. Cardinality(T) = Cardinality(T \ S) + Cardinality(S \cap T) - Cardinality({})
  <2>1. Cardinality((T \ S) \cup (S \cap T)) =
            Cardinality(T \ S) + Cardinality(S \cap T)
                - Cardinality((T \ S) \cap (S \cap T))
    BY <1>1, FS_Union
  <2> QED  BY <2>1, <1>3
<1>6. Cardinality({}) = 0
  BY FS_EmptySet
<1> DEFINE a == Cardinality(S \ T)   b == Cardinality(T \ S)
           c == Cardinality(S \cap T)
<1>7. a \in Nat /\ b \in Nat /\ c \in Nat /\ a + c - 0 = b + c - 0
  BY <1>2, <1>4, <1>5, <1>6
<1> HIDE DEF a, b, c
<1>8. a = b
  BY <1>7
<1> QED  BY <1>8 DEF a, b

-----------------------------------------------------------------------------
(* The inductive invariant.                                                *)

\* What was found so far is what is counted, and stands before the argument that
\* is resolved next.
Counting ==
    /\ Cardinality(Found) = length
    /\ pc \in {"start", "resolve"} => Found \subseteq 1..(arg - 1)

Inside == {"stat", "file", "entries", "entry"}

\* The loop examines the elements one by one, holes included, up to the count.
Walk ==
    /\ pc \in {"start", "resolve"} => i = 1 /\ examined = {}
    /\ pc \in {"paths", "done"} => i <= length + 1 /\ examined = 1..(i - 1)
    /\ pc \in Inside => i <= length /\ examined = 1..i
    /\ pc = "done" => i > length
    /\ pc = "abort" => i <= length /\ ~ndebug /\ paths[i] = Hole

\* What arena_temp holds while a path is examined, and where it was cleared.
TempTracks ==
    /\ pc \in {"start", "resolve"} => cleared = 0
    /\ pc \in {"paths"} \cup Inside => cleared <= i - 1
    /\ TempHolds
    /\ pc = "stat" => temp = Taken[i] - Taken[cleared]

\* A path takes no more than PATH_MAX allows: of arena_global each that was found,
\* of arena_temp each since it was cleared.
Room ==
    /\ global <= Header + (length + entries) * Aligned(PathMax - 1)
    /\ pc = "paths" => temp <= (i - 1 - cleared) * Aligned(PathMax)
    /\ pc = "stat" => temp <= (i - cleared) * Aligned(PathMax)

RunInv ==
    /\ TypeOK /\ Counting /\ Walk /\ TempTracks
    /\ EachFileIsCounted
    /\ Room /\ TrapsForRoom

LEMMA HoleIsNoPath == \A p \in Paths : p # Hole
  BY PathsAssumption DEF Hole

LEMMA AlignedFacts ==
    ASSUME NEW size, size \in Nat
    PROVE  Aligned(size) \in Nat /\ Aligned(size) % 8 = 0 /\ Aligned(size) >= size
  BY DEF Aligned

LEMMA CopyFacts ==
    ASSUME NEW p, p \in Paths \cup {Hole}
    PROVE  p.length \in Nat /\ Copy(p) \in Nat /\ Copy(p) % 8 = 0
<1>1. p.length \in Nat
  BY PathsAssumption, SizesAssumption DEF Hole
<1> QED  BY <1>1, AlignedFacts DEF Copy

LEMMA HeaderFacts == Header \in Nat /\ Header % 8 = 0
<1>1. 16 + 24 * (Args + 1) - 1 \in Nat /\ 10 \in Nat
  BY ArgsAssumption
<1>2. /\ Aligned(10) \in Nat /\ Aligned(10) % 8 = 0
      /\ Aligned(16 + 24 * (Args + 1) - 1) \in Nat
      /\ Aligned(16 + 24 * (Args + 1) - 1) % 8 = 0
  BY <1>1, AlignedFacts
<1> QED  BY <1>2 DEF Header

-----------------------------------------------------------------------------
(* What the copies of the paths take of arena_temp.                        *)

LEMMA LeastNat ==
    ASSUME NEW T, T \subseteq Nat, T # {}
    PROVE  \E x \in T : \A y \in T : x <= y
<1> DEFINE R == OpToRel(<, Nat)
<1>1. IsWellFoundedOn(R, Nat)
  BY NatLessThanWellFounded
<1>2. \A x, y \in Nat : x < y => <<x, y>> \in R
  BY DEF OpToRel
<1> HIDE DEF R
<1>3. PICK x \in T : \A y \in T : ~(<<y, x>> \in R)
  BY <1>1, WFMin
<1>4. ASSUME NEW y \in T PROVE x <= y
  <2>1. x \in Nat /\ y \in Nat
    OBVIOUS
  <2>2. ~(y < x)
    BY <1>2, <1>3, <2>1, Zenon
  <2> QED  BY <2>1, <2>2
<1> QED  BY <1>4

\* There is a sum of the first m copies for every m: the least m without one
\* would have one, got from that of m - 1.
LEMMA SumsExist ==
    ASSUME NEW Size
    PROVE  \E f : f = [n \in 0..Args |-> IF n = 0 THEN 0 ELSE f[n - 1] + Size[n]]
<1> DEFINE IsSum(f, m) ==
               f = [n \in 0..m |-> IF n = 0 THEN 0 ELSE f[n - 1] + Size[n]]
           Without == {m \in 0..Args : ~\E f : IsSum(f, m)}
<1>1. Without = {}
  <2> SUFFICES ASSUME Without # {} PROVE FALSE
    OBVIOUS
  <2>1. Without \subseteq Nat
    BY ArgsAssumption
  <2>2. PICK m \in Without : \A k \in Without : m <= k
    <3> HIDE DEF Without
    <3> QED  BY <2>1, LeastNat
  <2>3. m \in 0..Args /\ ~\E f : IsSum(f, m)
    OBVIOUS
  <2>4. m # 0
    <3>1. IsSum([n \in 0..0 |-> 0], 0)
      OBVIOUS
    <3> QED  BY <2>3, <3>1
  <2>5. m - 1 \in 0..Args /\ m - 1 \notin Without /\ m \in Nat
    BY <2>2, <2>3, <2>4, ArgsAssumption
  <2>6. PICK f : IsSum(f, m - 1)
    BY <2>5
  <2> DEFINE g == [n \in 0..m |-> IF n = m THEN f[m - 1] + Size[m] ELSE f[n]]
  <2>7. ASSUME NEW n \in 0..m
        PROVE  g[n] = IF n = 0 THEN 0 ELSE g[n - 1] + Size[n]
    <3>1. CASE n = m
      BY <2>4, <2>5, <3>1
    <3>2. CASE n = 0
      <4>1. f[0] = 0
        BY <2>4, <2>5, <2>6
      <4> QED  BY <2>4, <2>5, <3>2, <4>1
    <3>3. CASE n # m /\ n # 0
      <4>1. /\ n \in 0..(m - 1) /\ n - 1 \in 0..m /\ n - 1 # m
        BY <2>5, <3>3
      <4>2. f[n] = f[n - 1] + Size[n]
        BY <2>6, <3>3, <4>1
      <4>3. g[n] = f[n] /\ g[n - 1] = f[n - 1]
        BY <3>3, <4>1
      <4> QED  BY <3>3, <4>2, <4>3
    <3> QED  BY <3>1, <3>2, <3>3
  <2>8. g = [n \in 0..m |-> IF n = 0 THEN 0 ELSE g[n - 1] + Size[n]]
    <3>1. g = [n \in 0..m |-> g[n]]
      OBVIOUS
    <3> HIDE DEF g
    <3> QED  BY <2>7, <3>1
  <2> QED  BY <2>3, <2>8
<1>2. Args \in 0..Args
  BY ArgsAssumption
<1>3. \E f : IsSum(f, Args)
  BY <1>1, <1>2
<1> QED  BY <1>3

LEMMA TakenFacts ==
    ASSUME paths \in [1..Args -> Paths \cup {Hole}]
    PROVE  /\ Taken[0] = 0
           /\ \A n \in 1..Args : Taken[n] = Taken[n - 1] + Copy(paths[n])
           /\ \A n \in 0..Args : Taken[n] \in Nat
<1> DEFINE Size == [n \in 1..Args |-> Copy(paths[n])]
           Sum(f) == f = [n \in 0..Args |-> IF n = 0 THEN 0 ELSE f[n - 1] + Size[n]]
<1>1. ASSUME NEW f
      PROVE  Sum(f) <=> f = [n \in 0..Args |->
                                IF n = 0 THEN 0 ELSE f[n - 1] + Copy(paths[n])]
  <2>1. \A n \in 0..Args : n # 0 => Size[n] = Copy(paths[n])
    BY ArgsAssumption
  <2> QED  BY <2>1
<1>2. Taken = [n \in 0..Args |->
                  IF n = 0 THEN 0 ELSE Taken[n - 1] + Copy(paths[n])]
  <2>1. \E f : Sum(f)
    BY SumsExist
  <2>2. \E f : f = [n \in 0..Args |->
                       IF n = 0 THEN 0 ELSE f[n - 1] + Copy(paths[n])]
    <3> HIDE DEF Sum
    <3> QED  BY <1>1, <2>1
  <2> QED  BY <2>2 DEF Taken
<1>3. /\ Taken[0] = 0
      /\ \A n \in 1..Args : Taken[n] = Taken[n - 1] + Copy(paths[n])
  BY <1>2, ArgsAssumption
<1> DEFINE Wrong == {n \in 0..Args : Taken[n] \notin Nat}
<1>4. Wrong = {}
  <2> SUFFICES ASSUME Wrong # {} PROVE FALSE
    OBVIOUS
  <2>1. Wrong \subseteq Nat
    BY ArgsAssumption
  <2>2. PICK m \in Wrong : \A k \in Wrong : m <= k
    <3> HIDE DEF Wrong
    <3> QED  BY <2>1, LeastNat
  <2>3. m \in 1..Args /\ m - 1 \in 0..Args /\ m - 1 \notin Wrong
    BY <1>3, <2>2, ArgsAssumption
  <2>4. Copy(paths[m]) \in Nat
    BY <2>3, CopyFacts
  <2> QED  BY <1>3, <2>2, <2>3, <2>4
<1> QED  BY <1>3, <1>4

LEMMA InitRunInv == Init => RunInv
<1> SUFFICES ASSUME Init PROVE RunInv
  OBVIOUS
<1>1. Found = {}
  BY DEF Init, Found
<1>2. TypeOK
  <2>1. /\ arg \in 1..(Args + 1) /\ length \in 0..Args /\ i \in 1..(Args + 1)
        /\ entries \in 0..MaxEntries /\ cleared \in 0..Args
        /\ global \in 0..GlobalSize /\ global % 8 = 0
        /\ temp \in 0..TempSize /\ temp % 8 = 0
        /\ examined \subseteq 1..Args
    BY ArgsAssumption, SizesAssumption DEF Init
  <2>2. /\ files \in Nat /\ path \in Paths \cup {Hole}
        /\ paths \in [1..Args -> Paths \cup {Hole}]
    BY DEF Init
  <2>3. returned \in Nat /\ benchmark_files_processed \in Nat
    BY DEF Init, Calls!Init
  <2>4. ended \in BOOLEAN /\ ndebug \in BOOLEAN
    BY DEF Init, Calls!Init
  <2> QED  BY <2>1, <2>2, <2>3, <2>4 DEF Init, TypeOK
<1>3. Counting
  BY <1>1, FS_EmptySet DEF Init, Counting
<1>4. Walk /\ TrapsForRoom /\ EachFileIsCounted
  <2>1. Walk /\ TrapsForRoom
    BY DEF Init, Walk, Inside, TrapsForRoom
  <2>2. pc = "start" /\ files = 0 /\ benchmark_files_processed = 0
    BY DEF Init, Calls!Init
  <2>3. 0 = 0 - 0
    OBVIOUS
  <2> QED  BY <2>1, <2>2, <2>3 DEF EachFileIsCounted
<1>5. TempTracks
  BY DEF Init, Inside, TempTracks, TempHolds
<1>6. Room
  <2>1. Header \in Nat /\ Aligned(PathMax - 1) \in Nat
    BY HeaderFacts, AlignedFacts, SizesAssumption
  <2>2. (0 + 0) * Aligned(PathMax - 1) = 0
    BY <2>1
  <2> QED  BY <2>1, <2>2 DEF Init, Room
<1> QED  BY <1>2, <1>3, <1>4, <1>5, <1>6 DEF RunInv

\* The steps of main after the arguments are resolved leave the paths alone.
LEMMA SamePaths ==
    ASSUME [Next]_vars, ~Resolve, ~NotResolved
    PROVE  UNCHANGED <<ndebug, arg, paths, length>>
  BY DEF Next, vars, SameArgs, Start, Resolved, CopyPath, NotExamined,
         NeitherFileNorDirectory, NeitherThen, OpenDirectory, FoundFile, ReadEntry,
         CloseDirectory, ProcessEntry, ProcessFile, ProcessThen, Finish

LEMMA StepTypeOK == RunInv /\ [Next]_vars => TypeOK'
<1> SUFFICES ASSUME RunInv, [Next]_vars PROVE TypeOK'
  OBVIOUS
<1>1. TypeOK /\ Counting /\ Walk
  BY DEF RunInv
<1>2. /\ Args \in Nat /\ GlobalSize \in Nat /\ TempSize \in Nat /\ MaxEntries \in Nat
      /\ PathMax \in Nat
  BY ArgsAssumption, SizesAssumption
<1>3. CASE Start
  <2>1. /\ Header \in Nat /\ Header % 8 = 0
        /\ Aligned(PathMax) \in Nat /\ Aligned(PathMax) % 8 = 0
    BY <1>2, HeaderFacts, AlignedFacts
  <2> QED  BY <2>1, <1>1, <1>2, <1>3 DEF Start, TypeOK, Ends, SameArgs, SameCalls,
                                         SameReports
<1>4. CASE Resolve
  <2>1. /\ pc = "resolve" /\ arg <= Args /\ arg \in 1..Args
        /\ UNCHANGED <<ndebug, i, path, entries, temp, cleared, examined, files,
                       returned, benchmark_files_processed, ended>>
    BY <1>1, <1>2, <1>4 DEF Resolve, ResolveTo, SameCalls, SameReports, TypeOK
  <2>2. PICK p \in Paths :
            IF global + Aligned(p.length) <= GlobalSize
            THEN /\ paths' = [paths EXCEPT ![arg] = p]
                 /\ length' = length + 1
                 /\ global' = global + Aligned(p.length)
                 /\ arg' = arg + 1
                 /\ UNCHANGED pc
            ELSE Trap /\ UNCHANGED <<paths, length, global, arg>>
    BY <1>4 DEF Resolve, ResolveTo
  <2>3. p.length \in Nat
    BY CopyFacts
  <2>4. Aligned(p.length) \in Nat /\ Aligned(p.length) % 8 = 0
    BY <2>3, AlignedFacts
  <2>5. CASE global + Aligned(p.length) <= GlobalSize
    <3>1. length' \in 0..Args
      <4>1. Found \subseteq 1..(arg - 1) /\ Cardinality(Found) = length
        BY <1>1, <2>1 DEF Counting
      <4>2. arg - 1 \in Nat
        BY <2>1
      <4>3. IsFiniteSet(1..(arg - 1)) /\ Cardinality(1..(arg - 1)) = arg - 1
        BY <4>2, FirstArguments
      <4>4. length <= arg - 1
        BY <4>1, <4>3, FS_Subset
      <4> QED  BY <4>4, <2>1, <2>2, <2>5, <1>1, <1>2 DEF TypeOK
    <3>2. global' \in 0..GlobalSize /\ global' % 8 = 0
      BY <2>2, <2>4, <2>5, <1>1, <1>2 DEF TypeOK
    <3>3. paths' \in [1..Args -> Paths \cup {Hole}] /\ arg' \in 1..(Args + 1)
      BY <2>1, <2>2, <2>5, <1>1, <1>2 DEF TypeOK
    <3>4. UNCHANGED pc
      BY <2>2, <2>5
    <3> QED  BY <1>1, <2>1, <3>1, <3>2, <3>3, <3>4 DEF TypeOK
  <2>6. CASE ~(global + Aligned(p.length) <= GlobalSize)
    <3>1. pc' = "trap" /\ UNCHANGED <<paths, length, global, arg>>
      BY <2>2, <2>6 DEF Trap
    <3> QED  BY <1>1, <2>1, <3>1 DEF TypeOK, Ends
  <2> QED  BY <2>5, <2>6
<1>5. CASE NotResolved
  <2>1. /\ pc = "resolve" /\ arg <= Args /\ arg' = arg + 1 /\ length' = length + 0
        /\ UNCHANGED <<pc, ndebug, paths, i, path, entries, global, temp, cleared,
                       examined, files, returned, benchmark_files_processed, ended>>
    BY <1>5 DEF NotResolved, NotResolvedBut, SameCalls, SameReports
  <2>2. arg' \in 1..(Args + 1) /\ length' = length
    BY <2>1, <1>1, <1>2 DEF TypeOK
  <2> QED  BY <1>1, <2>1, <2>2 DEF TypeOK
<1>6. CASE Resolved
  BY <1>1, <1>2, <1>6 DEF Resolved, TypeOK, SameArgs, SameCalls, SameReports
<1>7. CASE CopyPath
  <2>1. i \in 1..Args /\ paths[i] \in Paths \cup {Hole}
    BY <1>1, <1>2, <1>7 DEF CopyPath, TypeOK
  <2>2. Copy(paths[i]) \in Nat /\ Copy(paths[i]) % 8 = 0
    BY <2>1, CopyFacts
  <2>3. temp' \in 0..TempSize /\ temp' % 8 = 0
    BY <2>2, <1>1, <1>2, <1>7 DEF CopyPath, TypeOK
  <2>4. examined' \subseteq 1..Args /\ pc' \in {"abort", "stat", "trap"}
    BY <2>1, <1>1, <1>7 DEF CopyPath, TypeOK, Trap
  <2> QED  BY <1>1, <1>7, <2>3, <2>4 DEF CopyPath, TypeOK, Ends, SameArgs, SameCalls,
                                         SameReports
<1>8. CASE NotExamined
  <2>1. i' \in 1..(Args + 1)
    BY <1>1, <1>2, <1>8 DEF NotExamined, Walk, Inside, TypeOK
  <2> QED  BY <2>1, <1>1, <1>8 DEF NotExamined, TypeOK, SameArgs, SameCalls,
                                   SameReports
<1>9. ASSUME NextPath, pc \in Inside
      PROVE  /\ pc' = "paths" /\ i' \in 1..(Args + 1) /\ cleared' \in 0..Args
             /\ temp' \in 0..TempSize /\ temp' % 8 = 0
  BY <1>1, <1>2, <1>9 DEF NextPath, NextPathBy, Walk, TypeOK
<1>10. CASE NeitherFileNorDirectory
  <2>1. NextPath /\ pc \in Inside
    BY <1>10 DEF NeitherFileNorDirectory, NeitherThen, Inside
  <2> QED  BY <2>1, <1>1, <1>9, <1>10
           DEF NeitherFileNorDirectory, NeitherThen, TypeOK, SameArgs, SameCalls,
               SameReports
<1>11. CASE OpenDirectory
  BY <1>1, <1>11 DEF OpenDirectory, TypeOK, SameArgs, SameCalls, SameReports
<1>12. CASE FoundFile
  <2>1. paths[i] \in Paths \cup {Hole}
    BY <1>1, <1>2, <1>12 DEF FoundFile, Walk, Inside, TypeOK
  <2>2. files' \in Nat /\ path' = paths[i]
    BY <1>1, <1>12 DEF FoundFile, ComeUpon, TypeOK
  <2> QED  BY <2>1, <2>2, <1>1, <1>12 DEF FoundFile, TypeOK, SameArgs, SameReports
<1>13. CASE ReadEntry
  <2>1. /\ pc = "entries" /\ entries < MaxEntries /\ entries' = entries + 1
        /\ UNCHANGED <<i, temp, cleared, examined, ndebug, arg, paths, length,
                       returned, benchmark_files_processed, ended>>
    BY <1>13 DEF ReadEntry, SameArgs, SameReports
  <2>2. PICK p \in Paths :
            IF global + Aligned(p.length) <= GlobalSize
            THEN /\ global' = global + Aligned(p.length)
                 /\ \/ pc' = "entry" /\ ComeUpon(p)
                    \/ UNCHANGED <<pc, path, files>>
            ELSE Trap /\ UNCHANGED <<global, path, files>>
    BY <1>13 DEF ReadEntry
  <2>3. p.length \in Nat
    BY CopyFacts
  <2>4. Aligned(p.length) \in Nat /\ Aligned(p.length) % 8 = 0
    BY <2>3, AlignedFacts
  <2>5. global' \in 0..GlobalSize /\ global' % 8 = 0
    BY <2>2, <2>4, <1>1, <1>2 DEF TypeOK
  <2>6. /\ pc' \in {"entry", "entries", "trap"} /\ path' \in Paths \cup {Hole}
        /\ files' \in Nat
    BY <2>1, <2>2, <1>1 DEF Trap, ComeUpon, TypeOK
  <2>7. entries' \in 0..MaxEntries
    BY <2>1, <1>1, <1>2 DEF TypeOK
  <2> QED  BY <1>1, <2>1, <2>5, <2>6, <2>7 DEF TypeOK, Ends
<1>14. CASE CloseDirectory
  <2>1. NextPath /\ pc \in Inside
    BY <1>14 DEF CloseDirectory, Inside
  <2> QED  BY <2>1, <1>1, <1>9, <1>14 DEF CloseDirectory, TypeOK, SameArgs, SameCalls,
                                          SameReports
<1>15. ASSUME CallReturns \/ Calls!End
       PROVE  /\ returned' \in Nat /\ benchmark_files_processed' \in Nat
              /\ ended' \in BOOLEAN
  <2>1. /\ returned' \in {returned, returned + 1}
        /\ benchmark_files_processed' \in
               {benchmark_files_processed, benchmark_files_processed + 1}
    BY <1>15 DEF CallReturns, Calls!Pass, Calls!Report, Calls!End
  <2>2. ended' = ended \/ ended' = TRUE
    BY <1>15, Zenon DEF CallReturns, Calls!Pass, Calls!Report, Calls!End
  <2>3. ended \in BOOLEAN
    BY <1>1 DEF TypeOK
  <2>4. ended' \in BOOLEAN
    BY <2>2, <2>3, Zenon
  <2> QED  BY <1>1, <2>1, <2>4 DEF TypeOK
<1>16. CASE ProcessEntry
  <2>1. CallReturns \/ Calls!End
    BY <1>16 DEF ProcessEntry
  <2>2. pc' \in {"entries", "ended"}
    BY <1>16 DEF ProcessEntry
  <2> QED  BY <2>1, <2>2, <1>1, <1>15, <1>16 DEF ProcessEntry, TypeOK, Ends, SameArgs
<1>17. CASE ProcessFile
  <2>1. CallReturns \/ Calls!End
    BY <1>17 DEF ProcessFile, ProcessThen
  <2>2. /\ pc \in Inside
        /\ NextPath \/ (pc' = "ended" /\ UNCHANGED <<i, temp, cleared>>)
        /\ UNCHANGED <<path, entries, global, examined, files, ndebug, arg, paths,
                       length>>
    BY <1>17 DEF ProcessFile, ProcessThen, SameArgs, Inside
  <2>3. /\ pc' \in {"paths", "ended"} /\ i' \in 1..(Args + 1) /\ cleared' \in 0..Args
        /\ temp' \in 0..TempSize /\ temp' % 8 = 0
    BY <2>2, <1>1, <1>9 DEF TypeOK
  <2> QED  BY <2>1, <2>2, <2>3, <1>1, <1>15 DEF TypeOK, Ends
<1>18. CASE Finish
  BY <1>1, <1>18 DEF Finish, TypeOK, Ends, SameArgs, SameCalls, SameReports
<1>19. CASE UNCHANGED vars
  BY <1>1, <1>19 DEF vars, TypeOK
<1> QED
  BY <1>3, <1>4, <1>5, <1>6, <1>7, <1>8, <1>10, <1>11, <1>12, <1>13, <1>14, <1>16,
     <1>17, <1>18, <1>19 DEF Next

LEMMA StepCounting == RunInv /\ [Next]_vars => Counting'
<1> SUFFICES ASSUME RunInv, [Next]_vars PROVE Counting'
  OBVIOUS
<1>1. TypeOK /\ Counting
  BY DEF RunInv
<1>2. CASE Resolve
  <2>1. pc = "resolve" /\ arg \in 1..Args /\ Found \subseteq 1..(arg - 1)
    BY <1>1, <1>2, ArgsAssumption DEF Resolve, ResolveTo, TypeOK, Counting
  <2>2. PICK p \in Paths :
            IF global + Aligned(p.length) <= GlobalSize
            THEN /\ paths' = [paths EXCEPT ![arg] = p]
                 /\ length' = length + 1
                 /\ arg' = arg + 1
                 /\ UNCHANGED pc
            ELSE Trap /\ UNCHANGED <<paths, length, arg>>
    BY <1>2 DEF Resolve, ResolveTo
  <2>3. CASE global + Aligned(p.length) <= GlobalSize
    <3>1. Found' = Found \cup {arg}
      <4>1. paths \in [1..Args -> Paths \cup {Hole}]
        BY <1>1 DEF TypeOK
      <4> QED  BY <4>1, <2>1, <2>2, <2>3, HoleIsNoPath DEF Found
    <3>2. arg \notin Found
      BY <2>1
    <3>3. IsFiniteSet(Found)
      BY ArgumentSets DEF Found
    <3>4. Cardinality(Found \cup {arg}) = Cardinality(Found) + 1
      BY <3>2, <3>3, FS_AddElement
    <3>5. Found' \subseteq 1..(arg' - 1)
      BY <3>1, <2>1, <2>2, <2>3
    <3> QED  BY <3>1, <3>4, <3>5, <2>2, <2>3, <1>1 DEF Counting
  <2>4. CASE ~(global + Aligned(p.length) <= GlobalSize)
    <3>1. pc' = "trap" /\ UNCHANGED <<paths, length>>
      BY <2>2, <2>4 DEF Trap
    <3> QED  BY <3>1, <1>1 DEF Counting, Found
  <2> QED  BY <2>3, <2>4
<1>3. CASE NotResolved
  <2>1. /\ pc = "resolve" /\ arg' = arg + 1 /\ length' = length + 0
        /\ UNCHANGED <<pc, paths>>
    BY <1>3 DEF NotResolved, NotResolvedBut
  <2>2. length' = length /\ 1..(arg - 1) \subseteq 1..(arg' - 1)
    BY <2>1, <1>1, ArgsAssumption DEF TypeOK
  <2>3. Found' = Found
    BY <2>1 DEF Found
  <2> QED  BY <2>1, <2>2, <2>3, <1>1 DEF Counting
<1>4. CASE ~Resolve /\ ~NotResolved
  <2>1. UNCHANGED <<arg, paths, length>>
    BY <1>4, SamePaths
  <2>2. pc' \in {"start", "resolve"} => pc \in {"start", "resolve"}
    BY <1>4 DEF Next, vars, Start, Resolved, CopyPath, Trap, NotExamined,
                NeitherFileNorDirectory, NeitherThen, NextPath, NextPathBy,
                OpenDirectory, FoundFile, ReadEntry, CloseDirectory, ProcessEntry,
                ProcessFile, ProcessThen, Finish
  <2>3. Found' = Found
    BY <2>1 DEF Found
  <2> QED  BY <2>1, <2>2, <2>3, <1>1 DEF Counting
<1> QED  BY <1>2, <1>3, <1>4

\* The steps that stay where they are in the loop over the paths, or leave it.
LEMMA SameWalk ==
    ASSUME [Next]_vars, ~CopyPath, ~NotExamined, ~NeitherFileNorDirectory,
           ~CloseDirectory, ~ProcessFile
    PROVE  UNCHANGED <<i, examined>>
  BY DEF Next, vars, Start, Resolve, ResolveTo, NotResolved, NotResolvedBut, Resolved,
         OpenDirectory, FoundFile, ReadEntry, ProcessEntry, Finish

LEMMA StepWalk == RunInv /\ [Next]_vars => Walk'
<1> SUFFICES ASSUME RunInv, [Next]_vars PROVE Walk'
  OBVIOUS
<1>1. TypeOK /\ Walk
  BY DEF RunInv
<1>2. i \in Nat /\ i >= 1 /\ length \in Nat
  BY <1>1, ArgsAssumption DEF TypeOK
<1>3. CASE Start \/ Resolve \/ NotResolved
  <2>1. /\ pc \in {"start", "resolve"} /\ UNCHANGED <<i, examined>>
        /\ pc' \in {"start", "resolve", "exit", "denied", "trap"}
    BY <1>3 DEF Start, Resolve, ResolveTo, NotResolved, NotResolvedBut, Trap
  <2> QED  BY <2>1, <1>1 DEF Walk, Inside
<1>4. CASE Resolved
  <2>1. i = 1 /\ examined = {} /\ UNCHANGED <<i, examined, length>> /\ pc' = "paths"
    BY <1>1, <1>4 DEF Resolved, Walk, SameArgs
  <2>2. 1..(1 - 1) = {}
    OBVIOUS
  <2> QED  BY <2>1, <2>2, <1>2 DEF Walk, Inside
<1>5. CASE CopyPath
  <2>1. pc = "paths" /\ i <= length /\ UNCHANGED <<i, ndebug, paths, length>>
    BY <1>5 DEF CopyPath, SameArgs
  <2>2. \/ pc' = "abort" /\ paths[i] = Hole /\ ~ndebug
        \/ pc' = "stat" /\ examined' = examined \cup {i}
        \/ pc' = "trap"
    BY <1>5 DEF CopyPath, Trap
  <2>3. examined = 1..(i - 1)
    BY <1>1, <2>1 DEF Walk
  <2>4. (1..(i - 1)) \cup {i} = 1..i
    BY <1>2
  <2> QED  BY <2>1, <2>2, <2>3, <2>4 DEF Walk, Inside
<1>6. ASSUME pc \in Inside, pc' = "paths", i' = i + 1, UNCHANGED <<examined, length>>
      PROVE  Walk'
  <2>1. i <= length /\ examined = 1..i
    BY <1>1, <1>6 DEF Walk
  <2>2. i' - 1 = i /\ i' <= length' + 1
    BY <1>2, <1>6, <2>1
  <2> QED  BY <1>6, <2>1, <2>2 DEF Walk, Inside
<1>7. CASE NotExamined
  <2>1. pc = "stat" /\ pc' = "paths" /\ i' = i + 1 /\ UNCHANGED <<examined, length>>
    BY <1>7 DEF NotExamined, SameArgs
  <2> QED  BY <2>1, <1>6 DEF Inside
<1>8. CASE NeitherFileNorDirectory \/ CloseDirectory
  <2>1. /\ pc \in Inside /\ pc' = "paths" /\ i' = i + 1
        /\ UNCHANGED <<examined, length>>
    BY <1>8 DEF NeitherFileNorDirectory, NeitherThen, CloseDirectory, NextPath,
                NextPathBy, SameArgs, Inside
  <2> QED  BY <2>1, <1>6
<1>9. CASE ProcessFile
  <2>1. /\ pc \in Inside /\ UNCHANGED <<examined, length>>
        /\ \/ pc' = "paths" /\ i' = i + 1
           \/ pc' = "ended"
    BY <1>9 DEF ProcessFile, ProcessThen, NextPath, NextPathBy, SameArgs, Inside
  <2>2. CASE pc' = "paths" /\ i' = i + 1
    BY <2>1, <2>2, <1>6
  <2>3. CASE pc' = "ended"
    BY <2>3 DEF Walk, Inside
  <2> QED  BY <2>1, <2>2, <2>3
<1>10. CASE OpenDirectory \/ FoundFile \/ ReadEntry \/ ProcessEntry
  <2>1. /\ pc \in Inside /\ pc' \in Inside \cup {"trap", "ended"}
        /\ UNCHANGED <<i, examined, length>>
    BY <1>10 DEF OpenDirectory, FoundFile, ReadEntry, ProcessEntry, SameArgs, Inside,
                 Trap
  <2> QED  BY <2>1, <1>1 DEF Walk, Inside
<1>11. CASE Finish
  BY <1>1, <1>11 DEF Finish, SameArgs, Walk, Inside
<1>12. CASE UNCHANGED vars
  BY <1>1, <1>12 DEF vars, Walk
<1> QED
  BY <1>3, <1>4, <1>5, <1>7, <1>8, <1>9, <1>10, <1>11, <1>12 DEF Next

\* A file that is come upon is counted when its call returns.
LEMMA StepFiles == RunInv /\ [Next]_vars => EachFileIsCounted'
<1> SUFFICES ASSUME RunInv, [Next]_vars PROVE EachFileIsCounted'
  OBVIOUS
<1>1. TypeOK /\ EachFileIsCounted
  BY DEF RunInv
<1>2. files \in Nat /\ benchmark_files_processed \in Nat
  BY <1>1 DEF TypeOK
<1> DEFINE Up == {"file", "entry", "ended"}
<1>3. ASSUME pc \notin Up, pc' \notin Up, SameCalls PROVE EachFileIsCounted'
  BY <1>1, <1>2, <1>3 DEF EachFileIsCounted, SameCalls, SameReports
<1>4. CASE Start \/ Resolve \/ NotResolved \/ Resolved
  <2>1. pc \notin Up /\ pc' \notin Up /\ SameCalls
    BY <1>4 DEF Start, Resolve, ResolveTo, NotResolved, NotResolvedBut, Resolved, Trap
  <2> QED  BY <2>1, <1>3
<1>5. CASE CopyPath \/ NotExamined \/ NeitherFileNorDirectory \/ OpenDirectory
  <2>1. pc \notin Up /\ pc' \notin Up /\ SameCalls
    BY <1>5 DEF CopyPath, NotExamined, NeitherFileNorDirectory, NeitherThen,
                OpenDirectory, NextPath, NextPathBy, Trap
  <2> QED  BY <2>1, <1>3
<1>6. CASE CloseDirectory \/ Finish
  <2>1. pc \notin Up /\ pc' \notin Up /\ SameCalls
    BY <1>6 DEF CloseDirectory, Finish, NextPath, NextPathBy
  <2> QED  BY <2>1, <1>3
<1>7. ASSUME NEW p, pc \notin Up, pc' \in {"file", "entry"}, ComeUpon(p), SameReports
      PROVE  EachFileIsCounted'
  <2>1. benchmark_files_processed = files
    BY <1>1, <1>2, <1>7 DEF EachFileIsCounted
  <2>2. /\ path' = p /\ files' = files + (IF p.wav THEN 1 ELSE 0)
        /\ benchmark_files_processed' = benchmark_files_processed
    BY <1>7 DEF ComeUpon, SameReports
  <2> QED  BY <2>1, <2>2, <1>2, <1>7 DEF EachFileIsCounted
<1>8. CASE FoundFile
  BY <1>7, <1>8 DEF FoundFile
<1>9. CASE ReadEntry
  <2>1. pc \notin Up /\ SameReports
    BY <1>9 DEF ReadEntry
  <2>2. \/ pc' = "entry" /\ \E p \in Paths : ComeUpon(p)
        \/ pc' \in {"entries", "trap"} /\ UNCHANGED files
    BY <1>9 DEF ReadEntry, Trap
  <2>3. CASE pc' = "entry" /\ \E p \in Paths : ComeUpon(p)
    BY <2>1, <2>3, <1>7
  <2>4. CASE pc' \in {"entries", "trap"} /\ UNCHANGED files
    BY <2>1, <2>4, <1>3 DEF SameCalls
  <2> QED  BY <2>2, <2>3, <2>4
<1>10. CASE ProcessEntry \/ ProcessFile
  <2>1. /\ pc \in {"file", "entry"} /\ UNCHANGED <<path, files>>
        /\ \/ CallReturns /\ pc' \in {"paths", "entries"}
           \/ path.wav /\ Calls!End /\ pc' = "ended"
    BY <1>10 DEF ProcessEntry, ProcessFile, ProcessThen, NextPath, NextPathBy
  <2>2. CASE path.wav /\ CallReturns /\ pc' \in {"paths", "entries"}
    <3>1. benchmark_files_processed' = benchmark_files_processed + 1
      BY <2>2 DEF CallReturns, Calls!Report
    <3> QED  BY <2>1, <2>2, <3>1, <1>1, <1>2 DEF EachFileIsCounted
  <2>3. CASE ~path.wav /\ CallReturns /\ pc' \in {"paths", "entries"}
    <3>1. benchmark_files_processed' = benchmark_files_processed
      BY <2>3 DEF CallReturns, Calls!Pass
    <3> QED  BY <2>1, <2>3, <3>1, <1>1, <1>2 DEF EachFileIsCounted
  <2>4. CASE path.wav /\ Calls!End /\ pc' = "ended"
    <3>1. benchmark_files_processed' = benchmark_files_processed
      BY <2>4 DEF Calls!End
    <3> QED  BY <2>1, <2>4, <3>1, <1>1, <1>2 DEF EachFileIsCounted
  <2> QED  BY <2>1, <2>2, <2>3, <2>4
<1>11. CASE UNCHANGED vars
  BY <1>1, <1>11 DEF vars, EachFileIsCounted
<1> QED  BY <1>4, <1>5, <1>6, <1>8, <1>9, <1>10, <1>11 DEF Next

\* A path, or the copy of one, takes at most what the longest takes.
LEMMA PathFits ==
    ASSUME NEW p, p \in Paths \cup {Hole}
    PROVE  /\ Aligned(p.length) \in Nat /\ Copy(p) \in Nat
           /\ Aligned(PathMax - 1) \in Nat /\ Aligned(PathMax) \in Nat
           /\ Aligned(p.length) <= Aligned(PathMax - 1)
           /\ Copy(p) <= Aligned(PathMax)
<1>1. /\ p.length \in Nat /\ PathMax \in Nat /\ PathMax - 1 \in Nat
      /\ p.length <= PathMax - 1
  BY PathsAssumption, SizesAssumption DEF Hole
<1> QED  BY <1>1 DEF Aligned, Copy

LEMMA OneMore ==
    ASSUME NEW k \in Int, NEW a \in Nat
    PROVE  (k + 1) * a = k * a + a /\ k * a \in Int
  OBVIOUS

\* A path that takes room is found, or an entry, or copied: it is counted.
LEMMA StepRoom == RunInv /\ [Next]_vars => Room'
<1> SUFFICES ASSUME RunInv, [Next]_vars PROVE Room'
  OBVIOUS
<1>1. TypeOK /\ Walk /\ TempTracks /\ Room
  BY DEF RunInv
<1> DEFINE g == Aligned(PathMax - 1)
           t == Aligned(PathMax)
<1>2. /\ Header \in Nat /\ g \in Nat /\ t \in Nat
      /\ global \in Nat /\ temp \in Nat /\ length \in Nat /\ entries \in Nat
      /\ i \in Nat /\ cleared \in Nat
  BY <1>1, HeaderFacts, AlignedFacts, ArgsAssumption, SizesAssumption DEF TypeOK
<1>3. global <= Header + (length + entries) * g
  BY <1>1 DEF Room
<1>4. (length + entries) * g \in Nat
  <2>1. length + entries \in Nat
    BY <1>2
  <2> QED  BY <2>1, <1>2
<1>5. (length + entries + 1) * g = (length + entries) * g + g
  <2>1. length + entries \in Int
    BY <1>2
  <2> HIDE DEF g
  <2> QED  BY <2>1, <1>2, OneMore
<1> HIDE DEF g, t
\* The first bound.
<1>6. global' <= Header + (length' + entries') * g
  <2>1. CASE Start
    <3>1. global' \in {global, Header} /\ length' = length /\ entries' = entries
      BY <2>1 DEF Start, SameArgs
    <3> QED  BY <3>1, <1>2, <1>3, <1>4
  <2>2. ASSUME NEW p \in Paths,
               \/ /\ global' = global + Aligned(p.length)
                  /\ length' + entries' = length + entries + 1
               \/ /\ global' = global
                  /\ length' + entries' \in {length + entries, length + entries + 1}
        PROVE  global' <= Header + (length' + entries') * g
    <3>1. Aligned(p.length) \in Nat /\ Aligned(p.length) <= g
      BY PathFits DEF g
    <3>2. (length' + entries') * g \in
              {(length + entries) * g, (length + entries) * g + g}
      BY <2>2, <1>5
    <3>3. \/ /\ global' = global + Aligned(p.length)
             /\ (length' + entries') * g = (length + entries) * g + g
          \/ /\ global' = global
             /\ (length' + entries') * g >= (length + entries) * g
      BY <2>2, <3>2, <1>2, <1>4, <1>5
    <3> DEFINE k == (length + entries) * g
               m == (length' + entries') * g
    <3>4. /\ global <= Header + k /\ k \in Nat /\ m \in Int
          /\ \/ global' = global + Aligned(p.length) /\ m = k + g
             \/ global' = global /\ m >= k
      BY <3>2, <3>3, <1>2, <1>3, <1>4
    <3> HIDE DEF k, m
    <3>5. global' <= Header + m
      BY <3>1, <3>4, <1>2
    <3> QED  BY <3>5 DEF m
  <2>3. CASE Resolve
    <3>1. entries' = entries
      BY <2>3 DEF Resolve, ResolveTo
    <3>2. PICK p \in Paths :
              \/ global' = global + Aligned(p.length) /\ length' = length + 1
              \/ global' = global /\ length' = length
      BY <2>3 DEF Resolve, ResolveTo
    <3>3. \/ /\ global' = global + Aligned(p.length)
             /\ length' + entries' = length + entries + 1
          \/ global' = global /\ length' + entries' = length + entries
      BY <3>1, <3>2, <1>2
    <3> QED  BY <3>3, <2>2
  <2>4. CASE ReadEntry
    <3>1. length' = length /\ entries' = entries + 1
      BY <2>4 DEF ReadEntry, SameArgs
    <3>2. PICK p \in Paths :
              global' = global + Aligned(p.length) \/ global' = global
      BY <2>4 DEF ReadEntry
    <3>3. length' + entries' = length + entries + 1
      BY <3>1, <1>2
    <3> QED  BY <3>2, <3>3, <2>2
  <2>5. CASE ~Start /\ ~Resolve /\ ~ReadEntry
    <3>1. global' = global /\ entries' = entries
      BY <2>5 DEF Next, vars, NotResolved, NotResolvedBut, Resolved, CopyPath,
                  NotExamined, NeitherFileNorDirectory, NeitherThen, OpenDirectory,
                  FoundFile, CloseDirectory, ProcessEntry, ProcessFile, ProcessThen,
                  Finish
    <3>2. length' = length
      <4>1. CASE NotResolved
        BY <4>1, <1>2 DEF NotResolved, NotResolvedBut
      <4>2. CASE ~NotResolved
        BY <4>2, <2>5, SamePaths
      <4> QED  BY <4>1, <4>2
    <3> QED  BY <3>1, <3>2, <1>3
  <2> QED  BY <2>1, <2>3, <2>4, <2>5
\* The bounds of arena_temp.
<1>7. /\ pc' = "paths" => temp' <= (i' - 1 - cleared') * t
      /\ pc' = "stat" => temp' <= (i' - cleared') * t
  <2>1. CASE Resolved
    <3>1. /\ pc' = "paths" /\ temp' = 0 /\ i' = 1 /\ cleared' = 0
      BY <2>1, <1>1 DEF Resolved, Walk, TempTracks
    <3>2. (1 - 1 - 0) * t = 0
      BY <1>2
    <3> QED  BY <3>1, <3>2
  <2>2. CASE CopyPath
    <3>1. /\ pc = "paths" /\ UNCHANGED <<i, cleared>>
          /\ pc' # "paths"
          /\ pc' = "stat" => temp' = temp + Copy(paths[i])
      BY <2>2 DEF CopyPath, Trap
    <3>2. temp <= (i - 1 - cleared) * t
      BY <3>1, <1>1 DEF Room, t
    <3>3. paths[i] \in Paths \cup {Hole}
      BY <2>2, <1>1, ArgsAssumption DEF CopyPath, TypeOK
    <3>4. Copy(paths[i]) \in Nat /\ Copy(paths[i]) <= t
      BY <3>3, PathFits DEF t
    <3>5. (i - 1 - cleared + 1) * t = (i - 1 - cleared) * t + t
          /\ (i - 1 - cleared) * t \in Int
      <4>1. i - 1 - cleared \in Int
        BY <1>2
      <4> QED  BY <4>1, <1>2, OneMore
    <3>6. i - 1 - cleared + 1 = i - cleared
      BY <1>2
    <3>7. (i - cleared) * t = (i - 1 - cleared) * t + t
      BY <3>5, <3>6
    <3> QED  BY <3>1, <3>2, <3>4, <3>5, <3>7, <1>2
  <2>3. CASE NotExamined
    <3>1. /\ pc = "stat" /\ pc' = "paths" /\ i' = i + 1 /\ UNCHANGED <<temp, cleared>>
      BY <2>3 DEF NotExamined
    <3>2. temp <= (i - cleared) * t
      BY <3>1, <1>1 DEF Room, t
    <3>3. i' - 1 - cleared' = i - cleared
      BY <3>1, <1>2
    <3> QED  BY <3>1, <3>2, <3>3
  <2>4. ASSUME NextPath PROVE pc' = "paths" /\ temp' <= (i' - 1 - cleared') * t
    <3>1. pc' = "paths" /\ temp' = 0 /\ i' = i + 1 /\ cleared' = i
      BY <2>4 DEF NextPath, NextPathBy
    <3>2. i' - 1 - cleared' = 0 /\ 0 * t = 0
      BY <3>1, <1>2
    <3> QED  BY <3>1, <3>2
  <2>5. CASE NeitherFileNorDirectory \/ CloseDirectory
    <3>1. NextPath
      BY <2>5 DEF NeitherFileNorDirectory, NeitherThen, CloseDirectory
    <3> QED  BY <3>1, <2>4
  <2>6. CASE ProcessFile
    <3>1. NextPath \/ pc' = "ended"
      BY <2>6 DEF ProcessFile, ProcessThen
    <3> QED  BY <3>1, <2>4
  <2>7. CASE Start \/ Resolve \/ NotResolved
    <3>1. pc' \notin {"paths", "stat"}
      BY <2>7 DEF Start, Resolve, ResolveTo, NotResolved, NotResolvedBut, Trap
    <3> QED  BY <3>1
  <2>8. CASE OpenDirectory \/ FoundFile \/ ReadEntry \/ ProcessEntry \/ Finish
    <3>1. pc' \notin {"paths", "stat"}
      BY <2>8 DEF OpenDirectory, FoundFile, ReadEntry, ProcessEntry, Finish, Trap
    <3> QED  BY <3>1
  <2>9. CASE UNCHANGED vars
    BY <2>9, <1>1 DEF vars, Room, t
  <2> QED  BY <2>1, <2>2, <2>3, <2>5, <2>6, <2>7, <2>8, <2>9 DEF Next
<1> QED  BY <1>6, <1>7 DEF Room, g, t

\* The path that is refused would have been one more than there is room for.
LEMMA StepTrapsForRoom == RunInv /\ [Next]_vars => TrapsForRoom'
<1> SUFFICES ASSUME RunInv, [Next]_vars PROVE TrapsForRoom'
  OBVIOUS
<1>1. TypeOK /\ Counting /\ Room /\ TrapsForRoom
  BY DEF RunInv
<1> DEFINE g == Aligned(PathMax - 1)
           t == Aligned(PathMax)
<1>2. /\ Header \in Nat /\ g \in Nat /\ t \in Nat
      /\ GlobalSize \in Nat /\ TempSize \in Nat /\ Args \in Nat
      /\ global \in Nat /\ temp \in Nat /\ length \in Nat /\ entries \in Nat
      /\ i \in Nat /\ cleared \in Nat /\ arg \in Nat
  BY <1>1, HeaderFacts, AlignedFacts, ArgsAssumption, SizesAssumption DEF TypeOK
<1>3. Cardinality(Found) = length /\ global <= Header + (length + entries) * g
  BY <1>1 DEF Counting, Room
<1>4. (length + entries + 1) * g = (length + entries) * g + g
      /\ (length + entries) * g \in Int
  <2>1. length + entries \in Int
    BY <1>2
  <2> HIDE DEF g
  <2> QED  BY <2>1, <1>2, OneMore
<1> HIDE DEF g, t
<1>5. ASSUME NEW p \in Paths, ~(global + Aligned(p.length) <= GlobalSize)
      PROVE  Header + (length + entries + 1) * g > GlobalSize
  <2>1. Aligned(p.length) \in Nat /\ Aligned(p.length) <= g
    BY PathFits DEF g
  <2> QED  BY <2>1, <1>2, <1>3, <1>4, <1>5
<1>6. CASE Resolve
  <2> SUFFICES ASSUME pc' = "trap" PROVE TrapsForRoom'
    BY DEF TrapsForRoom
  <2>1. pc = "resolve" /\ arg <= Args /\ UNCHANGED entries
    BY <1>6 DEF Resolve, ResolveTo
  <2>2. PICK p \in Paths : /\ ~(global + Aligned(p.length) <= GlobalSize)
                           /\ UNCHANGED <<paths, arg>>
    BY <1>6, <2>1 DEF Resolve, ResolveTo
  <2>3. Found' = Found /\ arg' = arg /\ entries' = entries
    BY <2>1, <2>2 DEF Found
  <2>4. GlobalPaths' = length + entries + 1
    BY <2>1, <2>3, <1>2, <1>3 DEF GlobalPaths
  <2>5. Header + (length + entries + 1) * g > GlobalSize
    BY <2>2, <1>5
  <2> QED  BY <2>4, <2>5 DEF TrapsForRoom, g
<1>7. CASE ReadEntry
  <2> SUFFICES ASSUME pc' = "trap" PROVE TrapsForRoom'
    BY DEF TrapsForRoom
  <2>1. pc = "entries" /\ entries' = entries + 1 /\ UNCHANGED <<paths, arg>>
    BY <1>7 DEF ReadEntry, SameArgs
  <2>2. PICK p \in Paths : ~(global + Aligned(p.length) <= GlobalSize)
    BY <1>7, <2>1 DEF ReadEntry
  <2>3. Found' = Found
    BY <2>1 DEF Found
  <2>4. GlobalPaths' \in {length + entries + 1, length + entries + 1 + 1}
    BY <2>1, <2>3, <1>2, <1>3 DEF GlobalPaths
  <2>5. Header + (length + entries + 1) * g > GlobalSize
    BY <2>2, <1>5
  <2>6. (length + entries + 1 + 1) * g = (length + entries + 1) * g + g
        /\ (length + entries + 1) * g \in Int
    <3>1. length + entries + 1 \in Int
      BY <1>2
    <3> QED  BY <3>1, <1>2, OneMore
  <2>7. Header + GlobalPaths' * g > GlobalSize
    <3>1. CASE GlobalPaths' = length + entries + 1
      BY <3>1, <2>5
    <3>2. CASE GlobalPaths' = length + entries + 1 + 1
      BY <3>2, <2>5, <2>6, <1>2
    <3> QED  BY <2>4, <3>1, <3>2
  <2> QED  BY <2>7 DEF TrapsForRoom, g
<1>8. CASE CopyPath
  <2> SUFFICES ASSUME pc' = "trap" PROVE TrapsForRoom'
    BY DEF TrapsForRoom
  <2>1. /\ pc = "paths" /\ i <= length /\ UNCHANGED <<i, cleared>>
        /\ ~(temp + Copy(paths[i]) <= TempSize)
    BY <1>8 DEF CopyPath
  <2>2. temp <= (i - 1 - cleared) * t
    BY <2>1, <1>1 DEF Room, t
  <2>3. paths[i] \in Paths \cup {Hole}
    BY <2>1, <1>1, <1>2 DEF TypeOK
  <2>4. Copy(paths[i]) \in Nat /\ Copy(paths[i]) <= t
    BY <2>3, PathFits DEF t
  <2>5. (i - 1 - cleared + 1) * t = (i - 1 - cleared) * t + t
        /\ (i - 1 - cleared) * t \in Int
    <3>1. i - 1 - cleared \in Int
      BY <1>2
    <3> QED  BY <3>1, <1>2, OneMore
  <2>6. TempPaths' = i - 1 - cleared + 1
    BY <2>1, <1>2 DEF TempPaths
  <2>7. (i - 1 - cleared + 1) * t > TempSize
    BY <2>1, <2>2, <2>4, <2>5, <1>2
  <2> QED  BY <2>6, <2>7 DEF TrapsForRoom, t
<1>9. CASE UNCHANGED vars
  BY <1>1, <1>9 DEF vars, TrapsForRoom, GlobalPaths, TempPaths, Found
<1>10. CASE Next /\ ~Resolve /\ ~ReadEntry /\ ~CopyPath
  <2>1. pc' # "trap"
    BY <1>10 DEF Next, Start, NotResolved, NotResolvedBut, Resolved, NotExamined,
                 NeitherFileNorDirectory, NeitherThen, OpenDirectory, FoundFile,
                 CloseDirectory, ProcessEntry, ProcessFile, ProcessThen, NextPath,
                 NextPathBy, Finish
  <2> QED  BY <2>1 DEF TrapsForRoom
<1> QED  BY <1>6, <1>7, <1>8, <1>9, <1>10

\* A path that is passed by stays in arena_temp, and every other one is cleared
\* from it with those passed by before.
LEMMA StepTempTracks == RunInv /\ [Next]_vars => TempTracks'
<1> SUFFICES ASSUME RunInv, [Next]_vars PROVE TempTracks'
  OBVIOUS
<1>1. TypeOK /\ Walk /\ TempTracks
  BY DEF RunInv
<1>2. /\ i \in Nat /\ i >= 1 /\ length \in 0..Args /\ cleared \in 0..Args
      /\ temp \in Nat /\ Args \in Nat
  BY <1>1, ArgsAssumption, SizesAssumption DEF TypeOK
<1>3. /\ Taken[0] = 0
      /\ \A n \in 1..Args : Taken[n] = Taken[n - 1] + Copy(paths[n])
      /\ \A n \in 0..Args : Taken[n] \in Nat
  <2>1. paths \in [1..Args -> Paths \cup {Hole}]
    BY <1>1 DEF TypeOK
  <2> QED  BY <2>1, TakenFacts
<1>4. CASE Start \/ Resolve \/ NotResolved
  <2>1. /\ pc \in {"start", "resolve"} /\ UNCHANGED cleared
        /\ pc' \in {"start", "resolve", "exit", "denied", "trap"}
    BY <1>4 DEF Start, Resolve, ResolveTo, NotResolved, NotResolvedBut, Trap
  <2> QED  BY <2>1, <1>1 DEF TempTracks, TempHolds, Inside
<1>5. ASSUME ~Resolve, ~NotResolved PROVE Taken' = Taken
  <2>1. paths' = paths
    BY <1>5, SamePaths
  <2> QED  BY <2>1 DEF Taken
<1>6. CASE Resolved
  <2>1. ~Resolve /\ ~NotResolved
    <3>1. arg > Args /\ arg \in Int /\ Args \in Int
      BY <1>1, <1>2, <1>6 DEF Resolved, TypeOK
    <3>2. ~(arg <= Args)
      BY <3>1
    <3> QED  BY <3>2 DEF Resolve, ResolveTo, NotResolved, NotResolvedBut
  <2>2. /\ pc = "resolve" /\ i = 1 /\ cleared = 0 /\ UNCHANGED <<i, cleared>>
        /\ pc' = "paths" /\ temp' = 0
    BY <1>1, <1>6 DEF Resolved, Walk, TempTracks
  <2>3. Taken'[i' - 1] = 0 /\ Taken'[cleared'] = 0
    BY <1>3, <1>5, <2>1, <2>2
  <2> QED  BY <2>2, <2>3 DEF TempTracks, TempHolds, Inside
<1>7. ASSUME pc \in {"paths"} \cup Inside PROVE ~Resolve /\ ~NotResolved
  BY <1>7 DEF Resolve, ResolveTo, NotResolved, NotResolvedBut, Inside
<1>8. CASE CopyPath
  <2>1. /\ pc = "paths" /\ i \in 1..Args /\ UNCHANGED <<i, cleared>>
        /\ \/ pc' = "stat" /\ temp' = temp + Copy(paths[i])
           \/ pc' \in {"abort", "trap"}
    BY <1>2, <1>8 DEF CopyPath, Trap
  <2>2. temp = Taken[i - 1] - Taken[cleared] /\ cleared <= i - 1
    BY <1>1, <2>1 DEF TempTracks, TempHolds
  <2>3. /\ Taken[i] = Taken[i - 1] + Copy(paths[i])
        /\ Taken[i] \in Nat /\ Taken[i - 1] \in Nat /\ Taken[cleared] \in Nat
        /\ Copy(paths[i]) \in Nat
    <3>1. i - 1 \in 0..Args /\ i \in 0..Args /\ paths[i] \in Paths \cup {Hole}
      BY <1>1, <1>2, <2>1 DEF TypeOK
    <3> QED  BY <1>2, <1>3, <2>1, <3>1, CopyFacts
  <2>4. temp + Copy(paths[i]) = Taken[i] - Taken[cleared]
    BY <2>2, <2>3
  <2>5. Taken' = Taken
    BY <1>5, <1>7, <2>1
  <2> QED  BY <2>1, <2>2, <2>4, <2>5 DEF TempTracks, TempHolds, Inside
<1>9. CASE NotExamined
  <2>1. /\ pc = "stat" /\ pc' = "paths" /\ i' = i + 1 /\ UNCHANGED <<temp, cleared>>
    BY <1>9 DEF NotExamined
  <2>2. temp = Taken[i] - Taken[cleared] /\ cleared <= i - 1
    BY <1>1, <2>1 DEF TempTracks, Inside
  <2>3. Taken' = Taken
    BY <1>5, <1>7, <2>1 DEF Inside
  <2>4. i' - 1 = i /\ cleared' <= i' - 1
    BY <1>2, <2>1, <2>2
  <2> QED  BY <2>1, <2>2, <2>3, <2>4 DEF TempTracks, TempHolds, Inside
<1>10. ASSUME NextPath, pc \in Inside PROVE TempTracks'
  <2>1. pc' = "paths" /\ i' = i + 1 /\ temp' = 0 /\ cleared' = i
    BY <1>10 DEF NextPath, NextPathBy
  <2>2. Taken' = Taken
    BY <1>5, <1>7, <1>10
  <2>3. i \in 0..Args
    BY <1>1, <1>2, <1>10 DEF Walk
  <2>4. Taken[i] - Taken[i] = 0
    BY <1>3, <2>3
  <2>5. i' - 1 = i /\ cleared' <= i' - 1
    BY <1>2, <2>1
  <2> QED  BY <2>1, <2>2, <2>4, <2>5 DEF TempTracks, TempHolds, Inside
<1>11. CASE NeitherFileNorDirectory \/ CloseDirectory
  <2>1. pc \in Inside /\ NextPath
    BY <1>11 DEF NeitherFileNorDirectory, NeitherThen, CloseDirectory, Inside
  <2> QED  BY <2>1, <1>10
<1>12. CASE ProcessFile
  <2>1. pc \in Inside /\ (NextPath \/ pc' = "ended")
    BY <1>12 DEF ProcessFile, ProcessThen, Inside
  <2>2. CASE pc' = "ended"
    BY <2>2 DEF TempTracks, TempHolds, Inside
  <2> QED  BY <2>1, <2>2, <1>10
<1>13. CASE OpenDirectory \/ FoundFile \/ ReadEntry \/ ProcessEntry
  <2>1. /\ pc \in Inside /\ pc' \in (Inside \cup {"trap", "ended"}) \ {"stat"}
        /\ UNCHANGED <<i, cleared>>
    BY <1>13 DEF OpenDirectory, FoundFile, ReadEntry, ProcessEntry, Inside, Trap
  <2> QED  BY <2>1, <1>1 DEF TempTracks, TempHolds, Inside
<1>14. CASE Finish
  BY <1>14 DEF Finish, TempTracks, TempHolds, Inside
<1>15. CASE UNCHANGED vars
  BY <1>1, <1>15 DEF vars, TempTracks, TempHolds, Taken
<1> QED
  BY <1>4, <1>6, <1>8, <1>9, <1>11, <1>12, <1>13, <1>14, <1>15 DEF Next

-----------------------------------------------------------------------------
(* The theorems.                                                           *)

\* The invariant the theorems below follow from, over main.c:192-275.
THEOREM RunInvariant == Spec => []RunInv
<1>1. RunInv /\ [Next]_vars => RunInv'
  BY StepTypeOK, StepCounting, StepWalk, StepTempTracks, StepFiles, StepRoom,
     StepTrapsForRoom DEF RunInv
<1> QED  BY <1>1, InitRunInv, PTL DEF Spec

\* Counters, paths and the sizes of the arenas stay what they are declared to be
\* (main.c:192-266).
THEOREM TypeCorrect == Spec => []TypeOK
<1>1. RunInv => TypeOK  BY DEF RunInv
<1> QED  BY <1>1, RunInvariant, PTL

\* Of any number of arguments as many paths are lost as failed arguments are met,
\* wherever in the list they stand.
THEOREM PathsAreLost == Spec => []LostPaths
<1>1. RunInv => LostPaths
  <2> SUFFICES ASSUME RunInv, pc = "done"
               PROVE  Cardinality(Found \ examined) = Cardinality(examined \ Found)
    BY DEF LostPaths
  <2>1. TypeOK /\ Counting /\ Walk
    BY DEF RunInv
  <2>2. length \in Nat /\ i \in Nat /\ i = length + 1 /\ examined = 1..(i - 1)
    BY <2>1, ArgsAssumption DEF TypeOK, Walk
  <2>3. examined = 1..length
    BY <2>2
  <2>4. IsFiniteSet(examined) /\ Cardinality(examined) = length
    BY <2>2, <2>3, FirstArguments
  <2>5. IsFiniteSet(Found) /\ Cardinality(Found) = length
    BY <2>1, ArgumentSets DEF Found, Counting
  <2> QED  BY <2>4, <2>5, SameSizeDifference
<1> QED  BY <1>1, RunInvariant, PTL

\* A Debug build aborts at a failed argument only if one behind it was found.
THEOREM AbortsAreBeforePaths == Spec => []AbortsBeforePath
<1>1. RunInv => AbortsBeforePath
  <2> SUFFICES ASSUME RunInv, pc = "abort", \A n \in Found : ~(n > i)
               PROVE  FALSE
    BY DEF AbortsBeforePath, RunInv, Walk
  <2>1. TypeOK /\ Counting /\ Walk
    BY DEF RunInv
  <2>2. i \in Nat /\ i >= 1 /\ i <= length /\ paths[i] = Hole /\ length \in Nat
    BY <2>1, ArgsAssumption DEF TypeOK, Walk
  <2>3. i \notin Found
    BY <2>2 DEF Found
  <2>4. Found \subseteq 1..(i - 1)
    <3>1. Found \subseteq 1..Args
      BY DEF Found
    <3> QED  BY <3>1, <2>2, <2>3, ArgsAssumption
  <2>5. IsFiniteSet(1..(i - 1)) /\ Cardinality(1..(i - 1)) = i - 1
    BY <2>2, FirstArguments
  <2>6. Cardinality(Found) <= i - 1
    BY <2>4, <2>5, FS_Subset
  <2> QED  BY <2>1, <2>2, <2>6 DEF Counting
<1> QED  BY <1>1, RunInvariant, PTL

\* However arguments, directories and failures mix, the count of files (main.c:179) is
\* the number of times main came upon one that ends with v (main.c:252, 257), less
\* the one it is processing.
THEOREM FilesAreCounted == Spec => []EachFileIsCounted
<1>1. RunInv => EachFileIsCounted  BY DEF RunInv
<1> QED  BY <1>1, RunInvariant, PTL

\* Whatever the capacities, main writes through NULL only with more paths than an
\* arena has room for (main.c:211, 224, 246).
THEOREM TrapsAreForRoom == Spec => []TrapsForRoom
<1>1. RunInv => TrapsForRoom  BY DEF RunInv
<1> QED  BY <1>1, RunInvariant, PTL

\* Of any number of paths arena_temp holds those passed by since it was cleared,
\* and nothing else (main.c:222-266).
THEOREM TempIsTracked == Spec => []TempHolds
<1>1. RunInv => TempHolds  BY DEF RunInv, TempTracks
<1> QED  BY <1>1, RunInvariant, PTL

-----------------------------------------------------------------------------
(* Both loops end.                                                         *)

\* How far a pass through the loops has come; a path that is dealt with counts
\* for more than the pass that it begins.
StageLeft ==
    IF pc = "start" THEN 6 ELSE IF pc = "resolve" THEN 5
    ELSE IF pc = "paths" THEN 4 ELSE IF pc \in {"stat", "entry"} THEN 3
    ELSE IF pc \in {"file", "entries"} THEN 2 ELSE 0

StepsLeft ==
    (Args + 1 - arg) + 4 * (Args + 1 - i) + 2 * (MaxEntries - entries) + StageLeft

LEMMA LessOfCounts ==
    ASSUME NEW a \in Int, NEW b \in Int, NEW e \in Int, NEW r \in Int,
           NEW x \in Int, NEW y \in Int, NEW z \in Int, NEW s \in Int,
           \/ x = a /\ y = b /\ z = e /\ s < r
           \/ x = a + 1 /\ y = b /\ z = e /\ s = r
           \/ x = a /\ y = b + 1 /\ z = e /\ s < r + 4
           \/ x = a /\ y = b /\ z = e + 1 /\ s < r + 2
    PROVE  (Args + 1 - x) + 4 * (Args + 1 - y) + 2 * (MaxEntries - z) + s
             < (Args + 1 - a) + 4 * (Args + 1 - b) + 2 * (MaxEntries - e) + r
  BY ArgsAssumption, SizesAssumption

LEMMA StepCounts ==
    ASSUME TypeOK, TypeOK', Next
    PROVE  StepsLeft' < StepsLeft
<1>1. /\ Args \in Nat /\ MaxEntries \in Nat
      /\ arg \in 1..(Args + 1) /\ i \in 1..(Args + 1) /\ entries \in 0..MaxEntries
      /\ arg' \in 1..(Args + 1) /\ i' \in 1..(Args + 1) /\ entries' \in 0..MaxEntries
  BY ArgsAssumption, SizesAssumption DEF TypeOK
<1>b. StageLeft \in Int /\ StageLeft' \in Int
  BY DEF StageLeft
<1>c. ASSUME \/ arg' = arg /\ i' = i /\ entries' = entries /\ StageLeft' < StageLeft
             \/ arg' = arg + 1 /\ i' = i /\ entries' = entries /\ StageLeft' = StageLeft
             \/ arg' = arg /\ i' = i + 1 /\ entries' = entries /\ StageLeft' < StageLeft + 4
             \/ arg' = arg /\ i' = i /\ entries' = entries + 1 /\ StageLeft' < StageLeft + 2
      PROVE  StepsLeft' < StepsLeft
  <2>1. /\ arg \in Int /\ i \in Int /\ entries \in Int
        /\ arg' \in Int /\ i' \in Int /\ entries' \in Int
    BY <1>1
  <2> QED  BY <2>1, <1>b, <1>c, LessOfCounts DEF StepsLeft
<1>2. CASE Start \/ Resolved \/ CopyPath \/ OpenDirectory \/ FoundFile \/ Finish
  <2>1. i' = i /\ arg' = arg /\ entries' = entries
    BY <1>2 DEF Start, Resolved, CopyPath, OpenDirectory, FoundFile, Finish, SameArgs
  <2>2. StageLeft' < StageLeft /\ StageLeft \in Int /\ StageLeft' \in Int
    BY <1>2 DEF Start, Resolved, CopyPath, OpenDirectory, FoundFile, Finish, Trap,
       StageLeft
  <2> QED  BY <2>1, <2>2, <1>c
<1>3. CASE Resolve \/ NotResolved
  <2>1. i' = i /\ entries' = entries
    BY <1>3 DEF Resolve, ResolveTo, NotResolved, NotResolvedBut
  <2>2. \/ arg' = arg + 1 /\ StageLeft' = StageLeft
        \/ arg' = arg /\ StageLeft' < StageLeft
    BY <1>3 DEF Resolve, ResolveTo, NotResolved, NotResolvedBut, Trap, StageLeft
  <2> QED  BY <2>1, <2>2, <1>c
\* The next path.
<1>4. CASE NotExamined \/ NeitherFileNorDirectory \/ CloseDirectory
  <2>1. i' = i + 1 /\ arg' = arg /\ entries' = entries
    BY <1>4 DEF NotExamined, NeitherFileNorDirectory, NeitherThen, CloseDirectory,
       NextPath, NextPathBy, SameArgs
  <2>2. StageLeft' = 4 /\ StageLeft \in {2, 3}
    BY <1>4 DEF NotExamined, NeitherFileNorDirectory, NeitherThen, CloseDirectory,
       NextPath, NextPathBy, StageLeft
  <2> QED  BY <2>1, <2>2, <1>c
<1>5. CASE ReadEntry
  <2>1. i' = i /\ arg' = arg /\ entries' = entries + 1
    BY <1>5 DEF ReadEntry, SameArgs
  <2>2. StageLeft = 2 /\ StageLeft' \in {0, 2, 3}
    BY <1>5 DEF ReadEntry, Trap, StageLeft
  <2> QED  BY <2>1, <2>2, <1>c
<1>6. CASE ProcessEntry
  <2>1. i' = i /\ arg' = arg /\ entries' = entries
    BY <1>6 DEF ProcessEntry, SameArgs
  <2>2. StageLeft = 3 /\ StageLeft' \in {0, 2}
    BY <1>6 DEF ProcessEntry, StageLeft
  <2> QED  BY <2>1, <2>2, <1>c
<1>7. CASE ProcessFile
  <2>1. arg' = arg /\ entries' = entries
    BY <1>7 DEF ProcessFile, ProcessThen, SameArgs
  <2>2. \/ i' = i + 1 /\ StageLeft = 2 /\ StageLeft' = 4
        \/ i' = i /\ StageLeft = 2 /\ StageLeft' = 0
    BY <1>7 DEF ProcessFile, ProcessThen, NextPath, NextPathBy, StageLeft
  <2> QED  BY <2>1, <2>2, <1>c
<1> QED  BY <1>2, <1>3, <1>4, <1>5, <1>6, <1>7 DEF Next

\* Neither loop of main goes on for ever: what is left of the arguments, of the
\* paths and of the entries is a natural number that every step makes smaller, a
\* path that is passed over included (main.c:206-213, 222-266).
THEOREM PathsCountDown ==
    Spec => [](StepsLeft \in Nat) /\ [][StepsLeft' < StepsLeft]_vars
<1>1. TypeOK => StepsLeft \in Nat
  <2> SUFFICES ASSUME TypeOK PROVE StepsLeft \in Nat
    OBVIOUS
  <2>1. /\ Args \in Nat /\ MaxEntries \in Nat /\ StageLeft \in Nat
        /\ arg \in 1..(Args + 1) /\ i \in 1..(Args + 1) /\ entries \in 0..MaxEntries
    BY ArgsAssumption, SizesAssumption DEF TypeOK, StageLeft
  <2> QED  BY <2>1 DEF StepsLeft
<1>2. TypeOK /\ TypeOK' /\ [Next]_vars => [StepsLeft' < StepsLeft]_vars
  BY StepCounts
<1> QED  BY <1>1, <1>2, TypeCorrect, PTL DEF Spec
=============================================================================
