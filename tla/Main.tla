-------------------------------- MODULE Main --------------------------------
(***************************************************************************)
(* main (src/src/main.c:192-275): the arguments are resolved to absolute   *)
(* paths in arena_global, and then every path is examined: a regular file  *)
(* is processed, and so is every file in a directory.  A path is copied    *)
(* into arena_temp to examine it.                                          *)
(*                                                                         *)
(* What realpath, stat, opendir and readdir find is up to the environment; *)
(* process_file is taken from CallContract.  An arena is known by its      *)
(* position (Arena has the blocks).                                        *)
(***************************************************************************)
EXTENDS Integers, FiniteSets

CONSTANTS
    Args,         \* the number of arguments, argc - 1
    Paths,        \* absolute paths: their length, and whether they end with v
    PathMax,      \* PATH_MAX
    GlobalSize,   \* capacity of arena_global, 1 GB in the code
    TempSize,     \* capacity of arena_temp, 4 MB in the code
    MaxEntries    \* bound on the entries of all directories

ASSUME ArgsAssumption == Args \in Nat
ASSUME PathsAssumption ==
    \A p \in Paths : p.length \in 1..(PathMax - 1) /\ p.wav \in BOOLEAN
ASSUME SizesAssumption ==
    /\ PathMax \in Nat \ {0} /\ GlobalSize \in Nat /\ TempSize \in Nat
    /\ MaxEntries \in Nat

VARIABLES
    pc,        \* the part of main that runs next
    ndebug,    \* Release build: assert() is compiled out
    arg,       \* i of the first loop
    paths,     \* the array of paths; an element that is not written is a hole
    length,    \* the length in its header
    i,         \* i of the second loop, counted from 1
    path,      \* the path that was found to be a file
    entries,   \* directory entries read so far
    global, temp,    \* positions of arena_global and arena_temp
    cleared,   \* history: the last index after which arena_temp was cleared
    examined,  \* history: the indices whose path stat was asked about
    files,     \* history: how often a file to be processed was come upon
    returned, benchmark_files_processed, ended    \* as in CallContract

vars == <<pc, ndebug, arg, paths, length, i, path, entries, global, temp, cleared,
          examined, files, returned, benchmark_files_processed, ended>>

Calls == INSTANCE CallContract WITH reported <- benchmark_files_processed

Hole == [length |-> 0, wav |-> FALSE]     \* arena memory is zero

(* Here and below, an operator named after another with a suffix is a      *)
(* mistaken form of it, which the properties tell from the definition.     *)

\* The bytes arena_alloc takes for a size, and for the copy of a path with its
\* terminator.
Aligned(size) == ((size + 7) \div 8) * 8

Copy(p) == Aligned(p.length + 1)

\* A file whose name ends with v has been come upon, and is up for process_file.
ComeUpon(p) == path' = p /\ files' = files + (IF p.wav THEN 1 ELSE 0)

\* The test block, the array header and the array: array_from_size multiplies
\* before it subtracts, sizeof(str_t) * argc - 1.
Header == Aligned(10) + Aligned(16 + 24 * (Args + 1) - 1)

SameReports == UNCHANGED <<returned, benchmark_files_processed, ended>>
SameCalls == SameReports /\ UNCHANGED files
SameArgs == UNCHANGED <<ndebug, arg, paths, length>>

Trap == pc' = "trap"     \* a write through the NULL an arena returned

-----------------------------------------------------------------------------
Init ==
    /\ pc = "start"
    /\ ndebug \in BOOLEAN
    /\ arg = 1
    /\ paths = [n \in 1..Args |-> Hole]
    /\ length = 0 /\ i = 1
    /\ path = Hole /\ entries = 0
    /\ global = 0 /\ temp = 0
    /\ cleared = 0 /\ examined = {} /\ files = 0
    /\ Calls!Init

\* Without arguments main exits.  The arenas are made, or a mapping fails: the
\* process stops at the assertion or at the write to test.
Start ==
    /\ pc = "start"
    /\ \/ Args = 0 /\ pc' = "exit" /\ UNCHANGED <<global, temp>>
       \/ /\ Args > 0 /\ Header <= GlobalSize /\ Aligned(PathMax) <= TempSize
          /\ pc' = "resolve" /\ global' = Header /\ temp' = Aligned(PathMax)
       \/ Args > 0 /\ pc' = "denied" /\ UNCHANGED <<global, temp>>
    /\ UNCHANGED <<i, path, entries, cleared, examined>> /\ SameArgs /\ SameCalls

\* realpath succeeds: the path is stored at the index of its argument, or, by
\* mistake, at the next free one.
ResolveTo(slot) ==
    /\ pc = "resolve" /\ arg <= Args
    /\ \E p \in Paths :
          IF global + Aligned(p.length) <= GlobalSize
          THEN /\ paths' = [paths EXCEPT ![slot] = p]
               /\ length' = length + 1
               /\ global' = global + Aligned(p.length)
               /\ arg' = arg + 1
               /\ UNCHANGED pc
          ELSE Trap /\ UNCHANGED <<paths, length, global, arg>>
    /\ UNCHANGED <<ndebug, i, path, entries, temp, cleared, examined>> /\ SameCalls

ResolveOverFirst == ResolveTo(1)

Resolve == ResolveTo(arg)

\* realpath fails: the element stays a hole and is not counted, or, by mistake,
\* it is.
NotResolvedBut(count) ==
    /\ pc = "resolve" /\ arg <= Args
    /\ arg' = arg + 1 /\ length' = length + count
    /\ UNCHANGED <<pc, ndebug, paths, i, path, entries, global, temp, cleared,
                   examined>> /\ SameCalls

NotResolvedCounted == NotResolvedBut(1)

NotResolved == NotResolvedBut(0)

\* The arena_temp is cleared for the second loop.
Resolved ==
    /\ pc = "resolve" /\ arg > Args
    /\ pc' = "paths" /\ temp' = 0
    /\ UNCHANGED <<i, path, entries, global, cleared, examined>>
    /\ SameArgs /\ SameCalls

\* str_to_cstr of the path: an assertion that it is no hole, and a copy.
CopyPath ==
    /\ pc = "paths" /\ i <= length
    /\ \/ /\ paths[i] = Hole /\ ~ndebug
          /\ pc' = "abort" /\ UNCHANGED <<temp, examined>>
       \/ /\ paths[i] # Hole \/ ndebug
          /\ IF temp + Copy(paths[i]) <= TempSize
             THEN /\ pc' = "stat" /\ temp' = temp + Copy(paths[i])
                  /\ examined' = examined \cup {i}
             ELSE Trap /\ UNCHANGED <<temp, examined>>
    /\ UNCHANGED <<i, path, entries, global, cleared>> /\ SameArgs /\ SameCalls

\* The path has been dealt with.
NextPathBy(step) == pc' = "paths" /\ i' = i + step /\ temp' = 0 /\ cleared' = i

NextPath == NextPathBy(1)

\* stat or opendir fails: main continues without clearing arena_temp.
NotExamined ==
    /\ pc = "stat"
    /\ pc' = "paths" /\ i' = i + 1
    /\ UNCHANGED <<path, entries, global, temp, cleared, examined>>
    /\ SameArgs /\ SameCalls

\* The path of a hole is empty, and there is no file of that name.
NeitherThen(leave) ==
    /\ pc = "stat" /\ paths[i] # Hole
    /\ leave
    /\ UNCHANGED <<path, entries, global, examined>> /\ SameArgs /\ SameCalls

NeitherStays == NeitherThen(NextPathBy(0))

NeitherFileNorDirectory == NeitherThen(NextPath)

OpenDirectory ==
    /\ pc = "stat" /\ paths[i] # Hole
    /\ pc' = "entries"
    /\ UNCHANGED <<i, path, entries, global, temp, cleared, examined>>
    /\ SameArgs /\ SameCalls

FoundFile ==
    /\ pc = "stat" /\ paths[i] # Hole
    /\ pc' = "file" /\ ComeUpon(paths[i])
    /\ UNCHANGED <<i, entries, global, temp, cleared, examined>>
    /\ SameArgs /\ SameReports

\* An entry that is not hidden takes its path from arena_global, whatever it is.
\* It is processed if the bit S_IFREG of its mode is set (of a socket it is).
ReadEntry ==
    /\ pc = "entries" /\ entries < MaxEntries
    /\ entries' = entries + 1
    /\ \E p \in Paths :
          IF global + Aligned(p.length) <= GlobalSize
          THEN /\ global' = global + Aligned(p.length)
               /\ \/ pc' = "entry" /\ ComeUpon(p)
                  \/ UNCHANGED <<pc, path, files>>
          ELSE Trap /\ UNCHANGED <<global, path, files>>
    /\ UNCHANGED <<i, temp, cleared, examined>> /\ SameArgs /\ SameReports

CloseDirectory ==
    /\ pc = "entries"
    /\ NextPath
    /\ UNCHANGED <<path, entries, global, examined>> /\ SameArgs /\ SameCalls

\* process_file of the path: it passes over one that does not end with v.
CallReturns == IF path.wav THEN Calls!Report ELSE Calls!Pass

ProcessEntry ==
    /\ pc = "entry"
    /\ \/ CallReturns /\ pc' = "entries"
       \/ path.wav /\ Calls!End /\ pc' = "ended"
    /\ UNCHANGED <<i, path, entries, global, temp, cleared, examined, files>>
    /\ SameArgs

\* After the file of an argument arena_temp is cleared; by mistake it is not, or
\* the file is processed again.
ProcessThen(leave) ==
    /\ pc = "file"
    /\ \/ CallReturns /\ leave
       \/ path.wav /\ Calls!End /\ pc' = "ended" /\ UNCHANGED <<i, temp, cleared>>
    /\ UNCHANGED <<path, entries, global, examined, files>> /\ SameArgs

ProcessNotCleared ==
    ProcessThen(pc' = "paths" /\ i' = i + 1 /\ cleared' = i /\ UNCHANGED temp)

ProcessAgain == ProcessThen(pc' = "file" /\ UNCHANGED <<i, temp, cleared>>)

ProcessFile == ProcessThen(NextPath)

\* All paths are dealt with: the totals are printed.
Finish ==
    /\ pc = "paths" /\ i > length
    /\ pc' = "done"
    /\ UNCHANGED <<i, path, entries, global, temp, cleared, examined>>
    /\ SameArgs /\ SameCalls

Next ==
    \/ Start
    \/ Resolve
    \/ NotResolved
    \/ Resolved
    \/ CopyPath
    \/ NotExamined
    \/ NeitherFileNorDirectory
    \/ OpenDirectory
    \/ FoundFile
    \/ ReadEntry
    \/ CloseDirectory
    \/ ProcessEntry
    \/ ProcessFile
    \/ Finish

\* One thread; a directory ends after finitely many entries.
Spec == Init /\ [][Next]_vars /\ WF_vars(Next)

-----------------------------------------------------------------------------
(* What must hold of a run.                                                *)

Ends == {"exit", "denied", "trap", "abort", "ended", "done"}

TypeOK ==
    /\ pc \in {"start", "resolve", "paths", "stat", "file", "entries", "entry"}
              \cup Ends
    /\ ndebug \in BOOLEAN
    /\ arg \in 1..(Args + 1)
    /\ paths \in [1..Args -> Paths \cup {Hole}]
    /\ length \in 0..Args /\ i \in 1..(Args + 1)
    /\ path \in Paths \cup {Hole}
    /\ entries \in 0..MaxEntries
    /\ global \in 0..GlobalSize /\ global % 8 = 0
    /\ temp \in 0..TempSize /\ temp % 8 = 0
    /\ cleared \in 0..Args
    /\ examined \subseteq 1..Args /\ files \in Nat
    /\ returned \in Nat /\ benchmark_files_processed \in Nat /\ ended \in BOOLEAN

Found == {n \in 1..Args : paths[n] # Hole}

\* Paths are stored by the index of their argument and counted by their number
\* (main.c:211-212), and the loop over them stops at the count (main.c:222): for
\* each argument that failed and is met on the way, one path behind is lost.
LostPaths ==
    pc = "done" => Cardinality(Found \ examined) = Cardinality(examined \ Found)

\* A Debug build aborts at an argument that failed only if a later one did not:
\* arguments that fail at the end of the list do no harm.
AbortsBeforePath ==
    pc = "abort" =>
        ~ndebug /\ paths[i] = Hole /\ \E n \in Found : n > i

\* The bytes the copies of the first n paths take.
Taken[n \in 0..Args] == IF n = 0 THEN 0 ELSE Taken[n - 1] + Copy(paths[n])

\* arena_temp holds the paths that could not be examined since it was cleared:
\* `continue` (main.c:228, 235) passes by arena_clear, and other paths do not.
TempHolds == pc = "paths" => temp = Taken[i - 1] - Taken[cleared]

\* A file is counted as often as main comes upon it, by an argument or by an entry
\* of a directory: none is passed over, and none is processed a second time for
\* the same argument or entry, whatever failed or was cleared before.  One that
\* two arguments name, or an argument and its directory, counts twice.
EachFileIsCounted ==
    benchmark_files_processed =
        files - (IF pc \in {"file", "entry", "ended"} /\ path.wav THEN 1 ELSE 0)

\* The paths that arena_global has been asked to hold, the one that is being
\* resolved included, and the paths copied to arena_temp since it was cleared.
GlobalPaths == Cardinality(Found) + entries + (IF arg <= Args THEN 1 ELSE 0)
TempPaths == i - cleared

\* main writes through NULL (string.h:92, 114) only where there are too many paths
\* for an arena, each as long as PATH_MAX allows: arguments that fail take nothing
\* of arena_global, and a file that was processed nothing of arena_temp.
TrapsForRoom ==
    pc = "trap" =>
        \/ Header + GlobalPaths * Aligned(PathMax - 1) > GlobalSize
        \/ TempPaths * Aligned(PathMax) > TempSize

\* Every run ends: main gets to the totals, or the process is stopped.
MainEnds == <>(pc \in Ends)

-----------------------------------------------------------------------------
(* What an assertion says and main does not ensure.                        *)

\* str_to_cstr asserts that the path it copies is valid.
PathsAreValid == pc = "paths" /\ i <= length => paths[i] # Hole
=============================================================================
