---------------------------- MODULE ProcessFile ----------------------------
(***************************************************************************)
(* process_file (main.c:106-190) with load_file and unload_file            *)
(* (load_file.c), called for one path after the other as main does.  The   *)
(* operating system may refuse every request, and another process may      *)
(* shrink a file while it is mapped.  What happens inside parse_file_info  *)
(* and prepare_data is taken from ParseContract and PrepareContract.       *)
(*                                                                         *)
(* The module follows what the process holds: open descriptors, mapped     *)
(* files, copies of samples and arenas.                                    *)
(***************************************************************************)
EXTENDS FileInfo

CONSTANTS
    MaxCalls,     \* the number of paths main passes on
    FileSizes,    \* sizes fstat may report
    PageSize,     \* get_page_size()
    ParsedInfos   \* outcomes of parse_file_info

ASSUME CallsAssumption == MaxCalls \in Nat
ASSUME SizesAssumption == FileSizes \subseteq Nat
ASSUME PageAssumption == PageSize \in Nat \ {0}
ASSUME InfosAssumption == ParsedInfos \subseteq ParsedFileInfo

VARIABLES
    pc,         \* the part of process_file that runs next
    ndebug,     \* Release build: assert() is compiled out
    calls,      \* calls made so far
    denied,     \* history: the environment refused this call something
    st_size,    \* what fstat reported
    loaded,     \* loaded_file: result and data_size
    parsed,     \* parsed_file_info
    memory,     \* the anonymous memory for the copy can be had
    stage,      \* how far the payload got, in the terms of PrepareContract
    fds,        \* open file descriptors
    file_maps,  \* mapped files
    arenas,     \* mapped arenas
    copies,     \* copies of samples that are mapped, in whole or in part
    benchmark_files_processed

vars == <<pc, ndebug, calls, denied, st_size, loaded, parsed, memory, stage, fds,
          file_maps, arenas, copies, benchmark_files_processed>>

Parser == INSTANCE ParseContract WITH
    data_size <- loaded.data_size, returned <- pc # "parse",
    trapped <- pc = "stopped"

Copier == INSTANCE PrepareContract WITH info <- parsed

NotLoaded == [result |-> "ERROR", data_size |-> 0]

\* What a call keeps, and what it holds.
Results == <<loaded, parsed, memory, stage>>
Held == <<fds, file_maps, arenas, copies>>
Run == <<ndebug, calls, benchmark_files_processed>>

\* size_to_allocate, and whether prepare_data maps a copy of that size.
CopySize(p) ==
    IF p.result = "SUCCESS" THEN (p.size \div Copier!BytesPerSample(p)) * 4 ELSE 0

HasCopy == memory /\ CopySize(parsed) > 0

Stop == pc' = "stopped"     \* the process ends: a trap or a failed assertion

-----------------------------------------------------------------------------
Init ==
    /\ pc = "idle"
    /\ ndebug \in BOOLEAN
    /\ calls = 0
    /\ denied = FALSE
    /\ st_size = 0
    /\ loaded = NotLoaded
    /\ parsed = EmptyFileInfo
    /\ memory = TRUE
    /\ stage = "parsed"
    /\ fds = 0 /\ file_maps = 0 /\ arenas = 0 /\ copies = 0
    /\ benchmark_files_processed = 0

(* Some actions are an instance of a general form that has a mistaken      *)
(* instance too; the properties below tell the one from the other.         *)

\* A path whose last character is not 'v' is passed over.
Skip ==
    /\ pc = "idle" /\ calls < MaxCalls
    /\ calls' = calls + 1
    /\ UNCHANGED <<pc, ndebug, denied, st_size, benchmark_files_processed>>
    /\ UNCHANGED Results /\ UNCHANGED Held

\* For any other path the call makes an arena of its own.  A failed mmap is an
\* assertion, or an arena at MAP_FAILED that str_to_cstr writes to.
MakeArena ==
    /\ pc = "idle" /\ calls < MaxCalls
    /\ calls' = calls + 1
    /\ loaded' = NotLoaded /\ parsed' = EmptyFileInfo
    /\ memory' = TRUE /\ stage' = "parsed"
    /\ \/ pc' = "open" /\ denied' = FALSE /\ arenas' = arenas + 1
       \/ Stop /\ denied' = TRUE /\ UNCHANGED arenas
    /\ UNCHANGED <<ndebug, st_size, fds, file_maps, copies, benchmark_files_processed>>

\* The outcome of load_file when it does not map the file.
NotMapped(result) == loaded' = [loaded EXCEPT !.result = result]

Open ==
    /\ pc = "open"
    /\ \/ pc' = "fstat" /\ fds' = fds + 1 /\ UNCHANGED <<denied, loaded>>
       \/ /\ pc' = "parse" /\ NotMapped("INVALID_FILE")
          /\ denied' = TRUE /\ UNCHANGED fds
    /\ UNCHANGED <<st_size, parsed, memory, stage, file_maps, arenas, copies>>
    /\ UNCHANGED Run

\* A file that is refused or too small is closed, or, by mistake, is not.
FstatThen(leave) ==
    /\ pc = "fstat"
    /\ \/ \E size \in FileSizes :
              /\ st_size' = size
              /\ IF size < MinFileSize
                 THEN pc' = leave /\ NotMapped("TOO_SMALL")
                 ELSE pc' = "map" /\ UNCHANGED loaded
              /\ UNCHANGED denied
       \/ /\ pc' = leave /\ NotMapped("INVALID_FILE")
          /\ denied' = TRUE /\ UNCHANGED st_size
    /\ UNCHANGED <<parsed, memory, stage>> /\ UNCHANGED Held /\ UNCHANGED Run

FstatNotClosed == FstatThen("parse")

Fstat == FstatThen("close")

\* memory_map_file asserts false where it returns NULL.  By mistake, the result
\* of a file that is mapped stays the initial one.
MapFileResult(result) ==
    /\ pc = "map"
    /\ \/ /\ pc' = "close"
          /\ loaded' = [result |-> result, data_size |-> st_size]
          /\ file_maps' = file_maps + 1
          /\ UNCHANGED denied
       \/ /\ IF ndebug THEN pc' = "close" /\ NotMapped("MAP_FAILED")
                       ELSE Stop /\ UNCHANGED loaded
          /\ denied' = TRUE /\ UNCHANGED file_maps
    /\ UNCHANGED <<st_size, parsed, memory, stage, fds, arenas, copies>>
    /\ UNCHANGED Run

MapFileNoResult == MapFileResult("ERROR")

MapFile == MapFileResult("SUCCESS")

CloseRetried == pc = "close" /\ UNCHANGED vars    \* tries again for ever

Close ==
    /\ pc = "close" /\ pc' = "parse"
    /\ fds' = fds - 1
    /\ UNCHANGED <<denied, st_size, file_maps, arenas, copies>>
    /\ UNCHANGED Results /\ UNCHANGED Run

\* parse_file_info of a file that was not loaded: the assertion, or a copy from
\* a null pointer.  A compiler may drop that copy, since nothing reads it; the
\* data_size of 0 is then too small for a fmt chunk.
ParseNothing ==
    /\ pc = "parse" /\ loaded.result # "SUCCESS"
    /\ \/ Stop /\ UNCHANGED parsed
       \/ /\ ndebug /\ pc' = "prepare"
          /\ parsed' = [parsed EXCEPT !.result = "INVALID_FMT"]
    /\ UNCHANGED <<denied, st_size, loaded, memory, stage>>
    /\ UNCHANGED Held /\ UNCHANGED Run

\* parse_file_info returns, stays in one of its loops, or reads a GUID behind the
\* mapped pages of the file (ScanEnds).
Parse ==
    /\ pc = "parse" /\ loaded.result = "SUCCESS"
    /\ \/ /\ pc' = "prepare"
          /\ \E p \in ParsedInfos : Parser!Outcome(p, loaded.data_size) /\ parsed' = p
          /\ memory' \in BOOLEAN
       \/ pc' = "hung" /\ UNCHANGED <<parsed, memory>>
       \/ /\ Parser!MayTrap(loaded.data_size) /\ Stop
          /\ UNCHANGED <<parsed, memory>>
    /\ denied' = (denied \/ ~memory')
    /\ UNCHANGED <<st_size, loaded, stage>>
    /\ UNCHANGED Held /\ UNCHANGED Run

\* prepare_data asserts that the file was parsed; without assertions it returns
\* the result INVALID_PARSED_FILE_INFO, which nobody looks at.
Prepare ==
    /\ pc = "prepare"
    /\ \/ /\ ndebug \/ parsed.result = "SUCCESS"
          /\ Copier!Prepare /\ pc' = "unload_file"
          /\ copies' = IF HasCopy THEN copies + 1 ELSE copies
       \/ Copier!Stop /\ Stop /\ UNCHANGED copies
    /\ UNCHANGED <<denied, st_size, loaded, parsed, memory, fds, file_maps, arenas>>
    /\ UNCHANGED Run

\* Another process shortens the file: its pages are gone from the mapping.
FileShrinks ==
    /\ pc \in {"parse", "prepare"} /\ loaded.result = "SUCCESS"
    /\ Stop
    /\ denied' = TRUE
    /\ UNCHANGED st_size
    /\ UNCHANGED Results /\ UNCHANGED Held /\ UNCHANGED Run

\* unload_file unmaps what was mapped; by mistake, nothing.
UnloadFileIf(mapped) ==
    /\ pc = "unload_file" /\ pc' = "measure"
    /\ file_maps' = IF mapped THEN file_maps - 1 ELSE file_maps
    /\ UNCHANGED <<denied, st_size, fds, arenas, copies>>
    /\ UNCHANGED Results /\ UNCHANGED Run

UnloadFileKept == UnloadFileIf(FALSE)

UnloadFile == UnloadFileIf(loaded.result = "SUCCESS")

\* The level is computed and printed, and the file is counted.  By mistake, a
\* file that cannot be measured is passed over.
MeasureElse(leave) ==
    /\ pc = "measure"
    /\ \/ /\ Copier!Report /\ pc' = "return"
          /\ benchmark_files_processed' = benchmark_files_processed + 1
       \/ Copier!Stop /\ pc' = leave /\ UNCHANGED benchmark_files_processed
    /\ UNCHANGED <<ndebug, calls, denied, st_size, loaded, parsed, memory>>
    /\ UNCHANGED Held

MeasureOrSkip == MeasureElse("return")

Measure == MeasureElse("stopped")

\* unload_prepared_data unmaps one page of the copy (LeftBehind of Memory), and
\* arena_clear empties the arena and leaves it mapped.
Return ==
    /\ pc = "return" /\ pc' = "idle"
    /\ copies' = IF HasCopy /\ CopySize(parsed) <= PageSize
                 THEN copies - 1 ELSE copies
    /\ UNCHANGED <<denied, st_size, fds, file_maps, arenas>>
    /\ UNCHANGED Results /\ UNCHANGED Run

Next ==
    \/ Skip
    \/ MakeArena
    \/ Open
    \/ Fstat
    \/ MapFile
    \/ Close
    \/ ParseNothing
    \/ Parse
    \/ Prepare
    \/ FileShrinks
    \/ UnloadFile
    \/ Measure
    \/ Return

\* One thread; a system call returns.
Spec == Init /\ [][Next]_vars /\ WF_vars(Next)

-----------------------------------------------------------------------------
(* What must hold of a sequence of calls.                                  *)

Stages == {"idle", "open", "fstat", "map", "close", "parse", "prepare",
           "unload_file", "measure", "return", "stopped", "hung"}

FlagsOK == ndebug \in BOOLEAN /\ denied \in BOOLEAN /\ memory \in BOOLEAN

TypeOK ==
    /\ pc \in Stages
    /\ FlagsOK
    /\ calls \in 0..MaxCalls
    /\ st_size \in Nat
    /\ loaded \in LoadedFile
    /\ parsed \in ParsedFileInfo
    /\ stage \in {"parsed", "prepared", "reported", "stopped"}
    /\ fds \in Nat /\ file_maps \in Nat /\ arenas \in Nat /\ copies \in Nat
    /\ benchmark_files_processed \in Nat

\* load_file closes its descriptor on each way out (load_file.c:43-65), and the
\* file stays mapped exactly from there to unload_file, before the level is
\* computed (main.c:136).
FileReleased ==
    pc \notin {"stopped", "hung"} =>
        /\ fds = IF pc \in {"fstat", "map", "close"} THEN 1 ELSE 0
        /\ file_maps = IF /\ loaded.result = "SUCCESS"
                          /\ pc \in {"close", "parse", "prepare", "unload_file"}
                       THEN 1 ELSE 0

\* A call that gets past the suffix check returns only by way of a report: no
\* failure of load_file, parse_file_info or prepare_data makes it skip the file
\* (main.c:128, 132).  The arena of each reported file stays mapped, and its copy
\* of the samples may.
ReturnsOnlyByReport ==
    pc = "idle" =>
        arenas = benchmark_files_processed /\ copies <= benchmark_files_processed

\* The process is stopped, or hangs, only over a file it could not load, a file
\* that is not well formed, for something the environment refused, or, in the
\* scan, over a file with too few mapped bytes behind it for the read of a GUID:
\* never over a parsed and well formed file it was given everything for.
StopExplained ==
    /\ pc = "stopped" =>
           \/ denied
           \/ loaded.result = "TOO_SMALL"
           \/ /\ loaded.result = "SUCCESS" /\ parsed = EmptyFileInfo
              /\ Parser!MayTrap(loaded.data_size)
           \/ parsed # EmptyFileInfo /\ ~Copier!WellFormed(parsed)
    /\ pc = "hung" => loaded.result = "SUCCESS" /\ parsed = EmptyFileInfo

\* A file is reported once per call, after it was loaded and parsed, from a
\* payload inside it, and after it was unmapped.
ReportsParsedFiles ==
    [][benchmark_files_processed' # benchmark_files_processed =>
           /\ benchmark_files_processed' = benchmark_files_processed + 1
           /\ loaded.result = "SUCCESS"
           /\ Parser!Accepts(parsed, loaded.data_size)
           /\ fds = 0 /\ file_maps = 0
           /\ calls > benchmark_files_processed]_vars

\* Every call returns, unless the process stops or parse_file_info hangs.
CallsEnd == []<>(pc \in {"idle", "stopped", "hung"})

\* What main sees of a call is what CallContract promises.
Calls == INSTANCE CallContract WITH
    returned <- IF pc = "idle" THEN calls ELSE calls - 1,
    reported <- IF pc = "return" THEN benchmark_files_processed - 1
                                 ELSE benchmark_files_processed,
    ended <- pc \in {"stopped", "hung"}

ImplementsCalls == Calls!Spec

-----------------------------------------------------------------------------
(* What assertions say and process_file does not ensure.                   *)

\* Each stage asserts that the one before succeeded: parse_file_info that the file
\* was loaded (parse_file_info.c:43), prepare_data that it was parsed
\* (prepare_data.c:13).
StagesAreChecked ==
    /\ pc = "parse" => loaded.result = "SUCCESS"
    /\ pc = "prepare" => parsed.result = "SUCCESS"
=============================================================================
