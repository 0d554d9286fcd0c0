------------------------- MODULE ProcessFileProofs -------------------------
(***************************************************************************)
(* Proofs about ProcessFile, for any number of calls, any file sizes and   *)
(* any outcomes of parse_file_info.                                        *)
(***************************************************************************)
EXTENDS ProcessFile, TLAPS

(***************************************************************************)
(* The inductive invariant: what a call holds, and what it knows about its *)
(* file, at each point of process_file.                                    *)
(***************************************************************************)
Ended == {"stopped", "hung"}
Loading == {"open", "fstat", "map", "close", "parse"}
Parsed == {"prepare", "unload_file", "measure"}

\* A call holds one arena more than were left behind by the files reported.
ArenasMatch ==
    /\ pc \notin Ended =>
           arenas = benchmark_files_processed
                        + IF pc \in Loading \cup Parsed THEN 1 ELSE 0
    /\ arenas <= calls

\* A copy is there from prepare_data to the return, and none is counted twice.
CopiesMatch ==
    /\ pc \notin Ended =>
           copies <= benchmark_files_processed
                         + IF pc \in {"unload_file", "measure"} THEN 1 ELSE 0
    /\ pc \in {"unload_file", "measure", "return"} /\ HasCopy => copies >= 1

\* A file that was not loaded was refused or too small.
LoadFailures ==
    pc \in {"close", "parse"} /\ loaded.result # "SUCCESS" =>
        denied \/ loaded.result = "TOO_SMALL"

\* What is known of the file before and after parse_file_info.
ParseKnown ==
    /\ pc \in Loading => parsed = EmptyFileInfo /\ memory
    /\ pc \in Parsed =>
           /\ parsed # EmptyFileInfo
           /\ memory \/ denied
           /\ parsed.result = "SUCCESS" =>
                  /\ loaded.result = "SUCCESS"
                  /\ Parser!Accepts(parsed, loaded.data_size)

CallInv ==
    /\ TypeOK
    /\ FileReleased
    /\ ArenasMatch /\ CopiesMatch
    /\ LoadFailures /\ ParseKnown
    /\ StopExplained

-----------------------------------------------------------------------------
(* The invariant holds at the start.                                       *)

LEMMA EmptyIsParsed == EmptyFileInfo \in ParsedFileInfo
  BY DEF EmptyFileInfo, ParsedFileInfo, DataTypes, ParseResults

LEMMA NotLoadedType == NotLoaded \in LoadedFile /\ NotLoaded.result = "ERROR"
  BY DEF NotLoaded, LoadedFile, LoadResults

LEMMA InitCallInv == Init => CallInv
<1> SUFFICES ASSUME Init PROVE CallInv
  OBVIOUS
<1> USE DEF Init
<1>1. TypeOK
  <2>1. FlagsOK  BY Zenon DEF FlagsOK
  <2> QED  BY <2>1, EmptyIsParsed, NotLoadedType, CallsAssumption
           DEF TypeOK, Stages
<1>2. FileReleased /\ ArenasMatch
  BY DEF FileReleased, ArenasMatch, Ended, Loading, Parsed
<1>3. CopiesMatch
  BY DEF CopiesMatch
<1>4. LoadFailures /\ ParseKnown /\ StopExplained
  BY DEF LoadFailures, ParseKnown, StopExplained, Loading, Parsed
<1> QED  BY <1>1, <1>2, <1>3, <1>4 DEF CallInv

-----------------------------------------------------------------------------
(* Every step preserves it, part by part.                                  *)

\* What parse_file_info returns is a parsed_file_info_t other than the one it
\* starts from, and a success is a payload inside the file.
LEMMA OutcomeFacts ==
    ASSUME NEW p \in ParsedInfos, NEW size, Parser!Outcome(p, size)
    PROVE  /\ p \in ParsedFileInfo
           /\ p # EmptyFileInfo
           /\ p.result = "SUCCESS" => Parser!Accepts(p, size)
  BY InfosAssumption
  DEF Parser!Outcome, Parser!Rejects, Parser!Accepts, EmptyFileInfo

\* A load_file that fails sets the result and nothing else, one that succeeds
\* the size as well.
LEMMA NotMappedFacts ==
    ASSUME loaded \in LoadedFile, NEW r \in LoadResults, NotMapped(r)
    PROVE  loaded' \in LoadedFile /\ loaded'.result = r
  BY DEF NotMapped, LoadedFile

LEMMA MappedFacts ==
    ASSUME st_size \in Nat
    PROVE  LET f == [result |-> "SUCCESS", data_size |-> st_size] IN
           f \in LoadedFile /\ f.result = "SUCCESS"
  BY DEF LoadedFile, LoadResults

\* A step of load_file maps the file and sets SUCCESS, sets another result and
\* maps nothing, or leaves both alone.
LoadStep ==
    /\ loaded' \in LoadedFile
    /\ \/ UNCHANGED <<loaded, file_maps>> /\ pc' \in {"fstat", "map", "stopped"}
       \/ /\ loaded'.result # "SUCCESS" /\ UNCHANGED file_maps
          /\ pc' \in {"close", "parse"}
       \/ /\ loaded'.result = "SUCCESS" /\ file_maps' = file_maps + 1
          /\ pc' = "close"

LEMMA LoadSteps == CallInv /\ (Open \/ Fstat \/ MapFile) => LoadStep
<1> SUFFICES ASSUME CallInv, Open \/ Fstat \/ MapFile PROVE LoadStep
  OBVIOUS
<1>0. loaded \in LoadedFile /\ st_size \in Nat
  BY DEF CallInv, TypeOK
<1> USE DEF LoadStep, Stop, Held
<1>1. CASE Open
  BY <1>0, <1>1, NotMappedFacts DEF Open, LoadResults
<1>2. CASE Fstat
  BY <1>0, <1>2, NotMappedFacts DEF Fstat, FstatThen, LoadResults
<1>3. CASE MapFile
  BY <1>0, <1>3, NotMappedFacts, MappedFacts DEF MapFile, MapFileResult, LoadResults
<1> QED  BY <1>1, <1>2, <1>3

LEMMA StepFlags == CallInv /\ [Next]_vars => FlagsOK'
<1> SUFFICES ASSUME CallInv, [Next]_vars PROVE FlagsOK'
  OBVIOUS
<1> USE DEF CallInv, TypeOK, FlagsOK, Results, Held, Run
<1>1. CASE Skip
  BY <1>1, Zenon DEF Skip
<1>2. CASE MakeArena
  BY <1>2, Zenon DEF MakeArena
<1>3. CASE Open
  BY <1>3, Zenon DEF Open
<1>4. CASE Fstat
  BY <1>4, Zenon DEF Fstat, FstatThen
<1>5. CASE MapFile
  BY <1>5, Zenon DEF MapFile, MapFileResult
<1>6. CASE Close
  BY <1>6, Zenon DEF Close
<1>7. CASE ParseNothing
  BY <1>7, Zenon DEF ParseNothing
<1>8. CASE Parse
  BY <1>8, Zenon DEF Parse
<1>9. CASE Prepare
  BY <1>9, Zenon DEF Prepare
<1>10. CASE FileShrinks
  BY <1>10, Zenon DEF FileShrinks
<1>11. CASE UnloadFile
  BY <1>11, Zenon DEF UnloadFile, UnloadFileIf
<1>12. CASE Measure
  BY <1>12, Zenon DEF Measure, MeasureElse
<1>13. CASE Return
  BY <1>13, Zenon DEF Return
<1>14. CASE UNCHANGED vars
  BY <1>14, Zenon DEF vars
<1> QED
  BY <1>1, <1>2, <1>3, <1>4, <1>5, <1>6, <1>7, <1>8, <1>9, <1>10, <1>11, <1>12,
     <1>13, <1>14 DEF Next

\* The counts of what is held never drop below zero: what is released is held.
LEMMA StepTypeOK == CallInv /\ [Next]_vars => TypeOK'
<1> SUFFICES ASSUME CallInv, [Next]_vars PROVE TypeOK'
  OBVIOUS
<1>0. FlagsOK'
  BY StepFlags
<1>a. Open \/ Fstat \/ MapFile => LoadStep
  BY LoadSteps
<1> USE DEF CallInv, TypeOK, Stages, Results, Held, Run, Stop
<1>1. CASE Skip
  <2>1. calls' \in 0..MaxCalls
    BY <1>1, CallsAssumption DEF Skip
  <2> QED  BY <1>0, <1>1, <2>1 DEF Skip
<1>2. CASE MakeArena
  <2>1. calls' \in 0..MaxCalls
    BY <1>2, CallsAssumption DEF MakeArena
  <2>2. pc' \in Stages /\ arenas' \in Nat
    BY <1>2 DEF MakeArena
  <2>3. loaded' \in LoadedFile /\ parsed' \in ParsedFileInfo
    BY <1>2, EmptyIsParsed, NotLoadedType DEF MakeArena
  <2> QED  BY <1>0, <1>2, <2>1, <2>2, <2>3 DEF MakeArena
<1>3. CASE Open
  BY <1>0, <1>3, <1>a DEF LoadStep, Open
<1>4. CASE Fstat
  BY <1>0, <1>4, <1>a, SizesAssumption DEF LoadStep, Fstat, FstatThen
<1>5. CASE MapFile
  BY <1>0, <1>5, <1>a DEF LoadStep, MapFile, MapFileResult
<1>6. CASE Close
  BY <1>0, <1>6 DEF Close, FileReleased
<1>7. CASE ParseNothing
  BY <1>0, <1>7 DEF ParseNothing, ParsedFileInfo, ParseResults
<1>8. CASE Parse
  BY <1>0, <1>8, OutcomeFacts DEF Parse
<1>9. CASE Prepare
  BY <1>0, <1>9 DEF Prepare, Copier!Prepare, Copier!Stop
<1>10. CASE FileShrinks
  BY <1>0, <1>10 DEF FileShrinks
<1>11. CASE UnloadFile
  BY <1>0, <1>11 DEF UnloadFile, UnloadFileIf, FileReleased
<1>12. CASE Measure
  BY <1>0, <1>12 DEF Measure, MeasureElse, Copier!Report, Copier!Stop
<1>13. CASE Return
  BY <1>0, <1>13 DEF Return, CopiesMatch
<1>14. CASE UNCHANGED vars
  BY <1>0, <1>14 DEF vars
<1> QED
  BY <1>1, <1>2, <1>3, <1>4, <1>5, <1>6, <1>7, <1>8, <1>9, <1>10, <1>11, <1>12,
     <1>13, <1>14 DEF Next

LEMMA StepFileReleased == CallInv /\ [Next]_vars => FileReleased'
<1> SUFFICES ASSUME CallInv, [Next]_vars PROVE FileReleased'
  OBVIOUS
<1>a. Open \/ Fstat \/ MapFile => LoadStep
  BY LoadSteps
<1> USE DEF CallInv, FileReleased, Results, Held, Run, Stop
<1>1. CASE Skip
  BY <1>1 DEF Skip
<1>2. CASE MakeArena
  BY <1>2 DEF MakeArena
<1>3. CASE Open
  BY <1>3, <1>a DEF LoadStep, Open
<1>4. CASE Fstat
  BY <1>4, <1>a DEF LoadStep, Fstat, FstatThen
<1>5. CASE MapFile
  BY <1>5, <1>a DEF LoadStep, MapFile, MapFileResult
<1>6. CASE Close
  BY <1>6 DEF Close
<1>7. CASE ParseNothing
  BY <1>7 DEF ParseNothing
<1>8. CASE Parse
  BY <1>8 DEF Parse
<1>9. CASE Prepare
  BY <1>9 DEF Prepare
<1>10. CASE FileShrinks
  BY <1>10 DEF FileShrinks
<1>11. CASE UnloadFile
  BY <1>11 DEF UnloadFile, UnloadFileIf
<1>12. CASE Measure
  BY <1>12 DEF Measure, MeasureElse
<1>13. CASE Return
  BY <1>13 DEF Return
<1>14. CASE UNCHANGED vars
  BY <1>14 DEF vars
<1> QED
  BY <1>1, <1>2, <1>3, <1>4, <1>5, <1>6, <1>7, <1>8, <1>9, <1>10, <1>11, <1>12,
     <1>13, <1>14 DEF Next

LEMMA StepArenas == CallInv /\ [Next]_vars => ArenasMatch'
<1> SUFFICES ASSUME CallInv, [Next]_vars PROVE ArenasMatch'
  OBVIOUS
<1> USE DEF CallInv, TypeOK, ArenasMatch, Ended, Loading, Parsed, Results, Held, Run, Stop
<1>1. CASE Skip
  BY <1>1 DEF Skip
<1>2. CASE MakeArena
  BY <1>2 DEF MakeArena
<1>3. CASE Open
  BY <1>3 DEF Open
<1>4. CASE Fstat
  BY <1>4 DEF Fstat, FstatThen
<1>5. CASE MapFile
  BY <1>5 DEF MapFile, MapFileResult
<1>6. CASE Close
  BY <1>6 DEF Close
<1>7. CASE ParseNothing
  BY <1>7 DEF ParseNothing
<1>8. CASE Parse
  BY <1>8 DEF Parse
<1>9. CASE Prepare
  BY <1>9 DEF Prepare
<1>10. CASE FileShrinks
  BY <1>10 DEF FileShrinks
<1>11. CASE UnloadFile
  BY <1>11 DEF UnloadFile, UnloadFileIf
<1>12. CASE Measure
  BY <1>12 DEF Measure, MeasureElse
<1>13. CASE Return
  BY <1>13 DEF Return
<1>14. CASE UNCHANGED vars
  BY <1>14 DEF vars
<1> QED
  BY <1>1, <1>2, <1>3, <1>4, <1>5, <1>6, <1>7, <1>8, <1>9, <1>10, <1>11, <1>12,
     <1>13, <1>14 DEF Next

LEMMA StepCopies == CallInv /\ [Next]_vars => CopiesMatch'
<1> SUFFICES ASSUME CallInv, [Next]_vars PROVE CopiesMatch'
  OBVIOUS
<1> USE DEF CallInv, TypeOK, CopiesMatch, HasCopy, Ended, Results, Held, Run, Stop
<1>1. CASE Skip
  BY <1>1 DEF Skip
<1>2. CASE MakeArena
  BY <1>2 DEF MakeArena
<1>3. CASE Open
  BY <1>3 DEF Open
<1>4. CASE Fstat
  BY <1>4 DEF Fstat, FstatThen
<1>5. CASE MapFile
  BY <1>5 DEF MapFile, MapFileResult
<1>6. CASE Close
  BY <1>6 DEF Close
<1>7. CASE ParseNothing
  BY <1>7 DEF ParseNothing
<1>8. CASE Parse
  BY <1>8 DEF Parse
<1>9. CASE Prepare
  BY <1>9 DEF Prepare
<1>10. CASE FileShrinks
  BY <1>10 DEF FileShrinks
<1>11. CASE UnloadFile
  BY <1>11 DEF UnloadFile, UnloadFileIf
<1>12. CASE Measure
  BY <1>12 DEF Measure, MeasureElse
<1>13. CASE Return
  BY <1>13 DEF Return
<1>14. CASE UNCHANGED vars
  BY <1>14 DEF vars
<1> QED
  BY <1>1, <1>2, <1>3, <1>4, <1>5, <1>6, <1>7, <1>8, <1>9, <1>10, <1>11, <1>12,
     <1>13, <1>14 DEF Next

LEMMA StepKnown == CallInv /\ [Next]_vars => LoadFailures' /\ ParseKnown'
<1> SUFFICES ASSUME CallInv, [Next]_vars PROVE LoadFailures' /\ ParseKnown'
  OBVIOUS
<1> USE DEF CallInv, LoadFailures, ParseKnown, Loading, Parsed, Results, Held, Run, Stop
<1>1. CASE Skip
  BY <1>1 DEF Skip
<1>2. CASE MakeArena
  BY <1>2 DEF MakeArena
<1>3. CASE Open
  BY <1>3, LoadSteps DEF Open
<1>4. CASE Fstat
  <2>1. ParseKnown'
    BY <1>4 DEF Fstat, FstatThen
  <2>2. loaded'.result = "TOO_SMALL" \/ denied' \/ pc' = "map"
    <3>1. CASE NotMapped("TOO_SMALL")
      BY <3>1, NotMappedFacts DEF LoadResults, TypeOK
    <3> QED  BY <1>4, <3>1 DEF Fstat, FstatThen
  <2> QED  BY <2>1, <2>2
<1>5. CASE MapFile
  BY <1>5, LoadSteps DEF MapFile, MapFileResult
<1>6. CASE Close
  BY <1>6 DEF Close
<1>7. CASE ParseNothing
  <2>1. LoadFailures'
    BY <1>7 DEF ParseNothing
  <2>2. pc' = "prepare" =>
            /\ parsed' # EmptyFileInfo /\ parsed'.result # "SUCCESS"
            /\ memory'
    BY <1>7 DEF ParseNothing, EmptyFileInfo
  <2>3. pc' \in {"prepare", "stopped"}
    BY <1>7 DEF ParseNothing
  <2> QED  BY <2>1, <2>2, <2>3
<1>8. CASE Parse
  BY <1>8, OutcomeFacts DEF Parse
<1>9. CASE Prepare
  BY <1>9 DEF Prepare
<1>10. CASE FileShrinks
  BY <1>10 DEF FileShrinks
<1>11. CASE UnloadFile
  BY <1>11 DEF UnloadFile, UnloadFileIf
<1>12. CASE Measure
  BY <1>12 DEF Measure, MeasureElse
<1>13. CASE Return
  BY <1>13 DEF Return
<1>14. CASE UNCHANGED vars
  BY <1>14 DEF vars
<1> QED
  BY <1>1, <1>2, <1>3, <1>4, <1>5, <1>6, <1>7, <1>8, <1>9, <1>10, <1>11, <1>12,
     <1>13, <1>14 DEF Next

LEMMA StepStopExplained == CallInv /\ [Next]_vars => StopExplained'
<1> SUFFICES ASSUME CallInv, [Next]_vars PROVE StopExplained'
  OBVIOUS
<1> USE DEF CallInv, StopExplained, LoadFailures, ParseKnown, Loading, Parsed, Results, Held, Run, Stop
<1>1. CASE Skip
  BY <1>1 DEF Skip
<1>2. CASE MakeArena
  BY <1>2 DEF MakeArena
<1>3. CASE Open
  BY <1>3 DEF Open
<1>4. CASE Fstat
  BY <1>4 DEF Fstat, FstatThen
<1>5. CASE MapFile
  BY <1>5 DEF MapFile, MapFileResult
<1>6. CASE Close
  BY <1>6 DEF Close
<1>7. CASE ParseNothing
  BY <1>7 DEF ParseNothing
<1>8. CASE Parse
  BY <1>8 DEF Parse
<1>9. CASE Prepare
  BY <1>9 DEF Prepare, Copier!Stop
<1>10. CASE FileShrinks
  BY <1>10 DEF FileShrinks
<1>11. CASE UnloadFile
  BY <1>11 DEF UnloadFile, UnloadFileIf
<1>12. CASE Measure
  BY <1>12 DEF Measure, MeasureElse, Copier!Stop
<1>13. CASE Return
  BY <1>13 DEF Return
<1>14. CASE UNCHANGED vars
  BY <1>14 DEF vars
<1> QED
  BY <1>1, <1>2, <1>3, <1>4, <1>5, <1>6, <1>7, <1>8, <1>9, <1>10, <1>11, <1>12,
     <1>13, <1>14 DEF Next

-----------------------------------------------------------------------------
(* The theorems.                                                           *)

LEMMA CallInvariant == Spec => []CallInv
<1>1. CallInv /\ [Next]_vars => CallInv'
  BY StepTypeOK, StepFileReleased, StepArenas, StepCopies, StepKnown,
     StepStopExplained DEF CallInv
<1> QED  BY <1>1, InitCallInv, PTL DEF Spec

\* The fields of the state keep their types: nothing is released that is not held.
THEOREM TypeCorrect == Spec => []TypeOK
<1>1. CallInv => TypeOK  BY DEF CallInv
<1> QED  BY <1>1, CallInvariant, PTL

\* On every way through load_file and process_file the descriptor is closed before
\* the file is parsed, and the file unmapped before the level is computed.
THEOREM FilesAreReleased == Spec => []FileReleased
<1>1. CallInv => FileReleased  BY DEF CallInv
<1> QED  BY <1>1, CallInvariant, PTL

\* A call returns only by a report or for its suffix, and leaves an arena behind.
THEOREM FailureNeverReturns == Spec => []ReturnsOnlyByReport
<1>1. CallInv => ReturnsOnlyByReport
  BY DEF CallInv, ArenasMatch, CopiesMatch, ReturnsOnlyByReport, Ended, Loading,
         Parsed, TypeOK
<1> QED  BY <1>1, CallInvariant, PTL

\* Well formed files that the environment refuses nothing never end the process.
THEOREM StopsAreExplained == Spec => []StopExplained
<1>1. CallInv => StopExplained  BY DEF CallInv
<1> QED  BY <1>1, CallInvariant, PTL

\* Each report is of a file that was loaded and parsed, from a payload inside it,
\* with nothing of the file held any more.
THEOREM ReportsAreParsed == Spec => ReportsParsedFiles
<1> DEFINE Reported ==
        benchmark_files_processed' # benchmark_files_processed =>
           /\ benchmark_files_processed' = benchmark_files_processed + 1
           /\ loaded.result = "SUCCESS"
           /\ Parser!Accepts(parsed, loaded.data_size)
           /\ fds = 0 /\ file_maps = 0
           /\ calls > benchmark_files_processed
<1>1. CallInv /\ Measure => Reported
  BY DEF CallInv, TypeOK, FileReleased, ArenasMatch, ParseKnown, Ended, Loading,
         Parsed, Measure, MeasureElse, Copier!Report, Copier!Measurable
<1>2. [Next]_vars /\ ~Measure => Reported
  BY DEF Next, vars, Skip, MakeArena, Open, Fstat, FstatThen, MapFile,
         MapFileResult, Close, ParseNothing, Parse, Prepare, FileShrinks,
         UnloadFile, UnloadFileIf, Return, Run
<1>3. CallInv /\ [Next]_vars => [Reported]_vars
  BY <1>1, <1>2
<1> QED  BY <1>3, CallInvariant, PTL DEF Spec, ReportsParsedFiles

\* Main sees calls that pass over a path, report a file, or end the process.
THEOREM CallsAreImplemented == Spec => ImplementsCalls
<1>1. Init => Calls!Init
  BY DEF Init, Calls!Init
<1>2. CallInv /\ [Next]_vars => [Calls!Next]_Calls!vars
  <2> SUFFICES ASSUME CallInv, [Next]_vars PROVE [Calls!Next]_Calls!vars
    OBVIOUS
  <2>0. calls \in Int /\ benchmark_files_processed \in Int
    BY CallsAssumption DEF CallInv, TypeOK
  <2> USE <2>0 DEF Calls!Next, Calls!vars, Calls!Pass, Calls!Report, Calls!End,
                   Results, Held, Run, Stop
  <2>1. CASE Skip
    BY <2>1 DEF Skip
  <2>2. CASE MakeArena
    BY <2>2 DEF MakeArena
  <2>3. CASE Open
    BY <2>3 DEF Open
  <2>4. CASE Fstat
    BY <2>4 DEF Fstat, FstatThen
  <2>5. CASE MapFile
    BY <2>5 DEF MapFile, MapFileResult
  <2>6. CASE Close
    BY <2>6 DEF Close
  <2>7. CASE ParseNothing
    BY <2>7 DEF ParseNothing
  <2>8. CASE Parse
    BY <2>8 DEF Parse
  <2>9. CASE Prepare
    BY <2>9 DEF Prepare
  <2>10. CASE FileShrinks
    BY <2>10 DEF FileShrinks
  <2>11. CASE UnloadFile
    BY <2>11 DEF UnloadFile, UnloadFileIf
  <2>12. CASE Measure
    BY <2>12 DEF Measure, MeasureElse
  <2>13. CASE Return
    BY <2>13 DEF Return
  <2>14. CASE UNCHANGED vars
    BY <2>14 DEF vars
  <2> QED
    BY <2>1, <2>2, <2>3, <2>4, <2>5, <2>6, <2>7, <2>8, <2>9, <2>10, <2>11, <2>12,
       <2>13, <2>14 DEF Next
<1> QED  BY <1>1, <1>2, CallInvariant, PTL DEF Spec, ImplementsCalls, Calls!Spec
=============================================================================
