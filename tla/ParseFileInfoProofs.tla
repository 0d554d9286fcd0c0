------------------------ MODULE ParseFileInfoProofs ------------------------
(***************************************************************************)
(* Proofs about ParseFileInfo, for every width of u32, every page size,    *)
(* every set of file sizes and every set of chunks and fmt contents the    *)
(* assumptions allow.                                                      *)
(***************************************************************************)
EXTENDS ParseFileInfo, TLAPS

(***************************************************************************)
(* The inductive invariant.  ReadsInFile needs to know where the pointer   *)
(* that reads next is, ImplementsContract that the payload fields are      *)
(* still zero while the scan runs, and both that no fmt chunk was read     *)
(* before the second scan.                                                 *)
(***************************************************************************)
InFmtScan ==
    pc \in {"riff", "fmt"} =>
        fmt_chunk = NoFmt /\ data_chunk_in_file = 0

FmtPointerFits ==
    pc = "fmt" => fmt_chunk_in_file \in RiffHeaderSize..(data_size - FmtChunkSize)

DataPointerFits ==
    pc = "data" =>
        data_chunk_in_file \in (RiffHeaderSize + 8)..(data_size - ChunkHeaderSize)

PayloadUntouched ==
    pc # "done" =>
        parsed_file_info = [EmptyFileInfo EXCEPT
                               !.data_type = parsed_file_info.data_type]

OutcomeInContract == pc = "done" => Contract!Outcome(parsed_file_info, data_size)

ScanInv ==
    /\ TypeOK
    /\ InFmtScan /\ FmtPointerFits /\ DataPointerFits
    /\ ReadsInFile
    /\ ChunksWordAligned
    /\ PayloadUntouched
    /\ OutcomeInContract

-----------------------------------------------------------------------------
(* The arithmetic of the scan.                                             *)

\* A step of either loop is even, and it is the step to the next RIFF chunk
\* unless the size is within 9 of the width of u32; then it is at most 8.
LEMMA AdvanceFacts ==
    ASSUME NEW s \in 0..(U32 - 1)
    PROVE  /\ Advance(s) \in Nat
           /\ Advance(s) % 2 = 0
           /\ \/ Advance(s) = 8 + s + Pad(s)
              \/ s >= U32 - 9 /\ Advance(s) \in 0..8
<1>1. PICK sum \in Nat : sum = 8 + s + Pad(s)
  BY U32Assumption DEF Pad
<1>2. sum % 2 = 0 /\ sum <= U32 + 8 /\ sum <= s + 9
  BY <1>1, U32Assumption DEF Pad
<1>3. Advance(s) = sum % U32
  BY <1>1 DEF Advance
<1>4. CASE sum < U32
  <2>1. Advance(s) = sum  BY <1>3, <1>4, U32Assumption
  <2> QED  BY <2>1, <1>1, <1>2
<1>5. CASE sum >= U32
  <2>1. sum % U32 = sum - U32                   BY <1>2, <1>5, U32Assumption
  <2>2. (sum - U32) % 2 = 0                     BY <1>2, <1>5, U32Assumption
  <2>3. s >= U32 - 9 /\ sum - U32 \in 0..8      BY <1>2, <1>5, U32Assumption
  <2> QED  BY <2>1, <2>2, <2>3, <1>3
<1> QED  BY <1>4, <1>5, U32Assumption

\* The second scan starts at an even offset behind the fmt chunk's header.
LEMMA AfterFmtFacts ==
    ASSUME fmt_chunk_in_file \in Nat, fmt_chunk_in_file % 2 = 0,
           chunk.size \in Nat
    PROVE  /\ AfterFmt \in Nat /\ AfterFmt % 2 = 0
           /\ AfterFmt >= fmt_chunk_in_file + 8
  BY DEF AfterFmt, Pad

\* A read raises reach to its own end or leaves it.
LEMMA TouchFacts ==
    ASSUME reach \in Nat, NEW end \in Nat, NEW bound \in Nat,
           reach <= bound, end <= bound, Touch(end)
    PROVE  reach' \in Nat /\ reach' <= bound
  BY DEF Touch

LEMMA EmptyFileInfoType == EmptyFileInfo \in ParsedFileInfo
  BY DEF EmptyFileInfo, ParsedFileInfo, DataTypes, ParseResults

\* ParseContract takes its types from FileInfo too.
LEMMA ContractTypes ==
    /\ Contract!ParsedFileInfo = ParsedFileInfo
    /\ Contract!EmptyFileInfo = EmptyFileInfo
  BY DEF Contract!ParsedFileInfo, Contract!DataTypes, Contract!ParseResults,
         Contract!EmptyFileInfo, ParsedFileInfo, DataTypes, ParseResults,
         EmptyFileInfo

-----------------------------------------------------------------------------
(* Every step preserves the inductive invariant.                           *)

LEMMA InitScanInv == Init => ScanInv
<1> SUFFICES ASSUME Init PROVE ScanInv
  OBVIOUS
<1> USE SizesAssumption DEF Init
<1>1. TypeOK
  BY EmptyFileInfoType DEF TypeOK
<1>2. InFmtScan /\ FmtPointerFits /\ DataPointerFits
  BY DEF InFmtScan, FmtPointerFits, DataPointerFits
<1>3. ReadsInFile /\ ChunksWordAligned
  BY DEF ReadsInFile, ChunksWordAligned, NoFmt, Extensible, MinFileSize
<1>4. PayloadUntouched /\ OutcomeInContract
  BY DEF PayloadUntouched, OutcomeInContract, EmptyFileInfo
<1> QED  BY <1>1, <1>2, <1>3, <1>4 DEF ScanInv

\* A failure in the contract's sense: the record of a running scan with its
\* result set to one of the three errors.
LEMMA RejectionOutcome ==
    ASSUME NEW info \in ParsedFileInfo, NEW size \in Nat,
           NEW r \in {"INVALID_FMT", "INVALID_DATA", "UNSUPPORTED_FORMAT"},
           info = [EmptyFileInfo EXCEPT !.data_type = info.data_type]
    PROVE  LET p == [info EXCEPT !.result = r] IN
           p \in ParsedFileInfo /\ Contract!Outcome(p, size)
<1> DEFINE p == [info EXCEPT !.result = r]
<1>1. p \in ParsedFileInfo
  BY DEF ParsedFileInfo, ParseResults
<1>2. p.result = r /\ p.data = 0 /\ p.size = 0 /\ p.bits_per_sample = 0
      /\ p.channels = 0
  BY DEF ParsedFileInfo, EmptyFileInfo
<1> QED  BY <1>1, <1>2, ContractTypes DEF Contract!Outcome, Contract!Rejects

LEMMA ReadRiffScanInv == ScanInv /\ ReadRiff => ScanInv'
<1> SUFFICES ASSUME ScanInv, ReadRiff PROVE ScanInv'
  OBVIOUS
<1> USE DEF ScanInv, ReadRiff
<1>1. data_size \in Nat /\ data_size >= MinFileSize
  BY SizesAssumption DEF TypeOK
<1>2. ~(RiffHeaderSize + 8 > data_size)
  BY <1>1 DEF RiffHeaderSize, MinFileSize
<1>3. pc' = "fmt" /\ parsed_file_info' = parsed_file_info
  BY <1>2
<1>4. fmt_chunk_in_file' = 12
  BY DEF RiffHeaderSize
<1>5. fmt_chunk.format_type = 0 /\ reach <= data_size
  BY <1>1 DEF InFmtScan, ReadsInFile, NoFmt, Extensible
<1>6. reach' \in Nat /\ reach' <= data_size
  BY <1>1, <1>5, TouchFacts DEF TypeOK, RiffHeaderSize, MinFileSize
<1>7. TypeOK'
  BY <1>3, <1>4, <1>6 DEF TypeOK
<1>8. (InFmtScan /\ FmtPointerFits /\ DataPointerFits)'
  BY <1>1, <1>3, <1>4
  DEF InFmtScan, FmtPointerFits, DataPointerFits, RiffHeaderSize, FmtChunkSize,
      MinFileSize
<1>9. (ReadsInFile /\ ChunksWordAligned)'
  BY <1>1, <1>4, <1>5, <1>6 DEF ReadsInFile, ChunksWordAligned, Extensible
<1>10. (PayloadUntouched /\ OutcomeInContract)'
  BY <1>3 DEF PayloadUntouched, OutcomeInContract
<1> QED  BY <1>7, <1>8, <1>9, <1>10

\* What the actions that scan for the fmt chunk start from.
FmtScanState ==
    /\ data_size \in Nat /\ data_size >= MinFileSize
    /\ fmt_chunk_in_file \in Nat
    /\ fmt_chunk_in_file >= 12 /\ fmt_chunk_in_file + 24 <= data_size
    /\ fmt_chunk_in_file % 2 = 0
    /\ chunk.size \in 0..(U32 - 1)
    /\ reach \in Nat /\ reach <= data_size
    /\ fmt_chunk = NoFmt /\ data_chunk_in_file = 0
    /\ parsed_file_info \in ParsedFileInfo
    /\ parsed_file_info = [EmptyFileInfo EXCEPT
                              !.data_type = parsed_file_info.data_type]

LEMMA InFmt == ScanInv /\ pc = "fmt" => FmtScanState
<1> SUFFICES ASSUME ScanInv, pc = "fmt" PROVE FmtScanState
  OBVIOUS
<1>1. data_size \in Nat /\ data_size >= MinFileSize
  BY SizesAssumption DEF ScanInv, TypeOK
<1>2. /\ fmt_chunk_in_file \in Nat
      /\ fmt_chunk_in_file >= 12 /\ fmt_chunk_in_file + 24 <= data_size
  BY <1>1 DEF ScanInv, TypeOK, FmtPointerFits, RiffHeaderSize, FmtChunkSize
<1>3. chunk.size \in 0..(U32 - 1)
  BY ChunksAssumption DEF ScanInv, TypeOK
<1>4. fmt_chunk = NoFmt /\ data_chunk_in_file = 0
  BY DEF ScanInv, InFmtScan
<1>5. reach \in Nat /\ reach <= data_size
  BY <1>1, <1>4 DEF ScanInv, TypeOK, ReadsInFile, NoFmt, Extensible
<1>6. /\ fmt_chunk_in_file % 2 = 0
      /\ parsed_file_info \in ParsedFileInfo
      /\ parsed_file_info = [EmptyFileInfo EXCEPT
                                !.data_type = parsed_file_info.data_type]
  BY DEF ScanInv, TypeOK, ChunksWordAligned, PayloadUntouched
<1> QED  BY <1>1, <1>2, <1>3, <1>4, <1>5, <1>6 DEF FmtScanState

LEMMA SkipToFmtScanInv == ScanInv /\ SkipToFmt => ScanInv'
<1> SUFFICES ASSUME ScanInv, SkipToFmt PROVE ScanInv'
  OBVIOUS
<1>1. FmtScanState
  BY InFmt DEF SkipToFmt, SkipToFmtUntil, Arrive
<1>2. PICK to \in Nat : /\ to = fmt_chunk_in_file + Advance(chunk.size)
                        /\ to >= fmt_chunk_in_file /\ to % 2 = 0
  <2>1. Advance(chunk.size) \in Nat /\ Advance(chunk.size) % 2 = 0
    BY <1>1, AdvanceFacts DEF FmtScanState
  <2> QED  BY <1>1, <2>1 DEF FmtScanState
<1>3. /\ pc = "fmt" /\ Touch(fmt_chunk_in_file + 8)
      /\ fmt_chunk_in_file' = to
      /\ UNCHANGED <<data_size, data_chunk_in_file, fmt_chunk>>
  BY <1>2 DEF SkipToFmt, SkipToFmtUntil, Arrive
<1>4. reach' \in Nat /\ reach' <= data_size
  <2>1. fmt_chunk_in_file + 8 \in Nat /\ fmt_chunk_in_file + 8 <= data_size
    BY <1>1 DEF FmtScanState
  <2> QED  BY <1>1, <1>3, <2>1, TouchFacts DEF FmtScanState
<1>5. (ReadsInFile /\ ChunksWordAligned /\ InFmtScan)'
  <2>1. ReadsInFile'
    BY <1>1, <1>3, <1>4 DEF FmtScanState, ReadsInFile, NoFmt, Extensible
  <2>2. ChunksWordAligned'
    BY <1>1, <1>2, <1>3 DEF FmtScanState, ChunksWordAligned
  <2>3. InFmtScan'
    BY <1>1, <1>3 DEF FmtScanState, InFmtScan
  <2> QED  BY <2>1, <2>2, <2>3
<1>6. CASE to > data_size - FmtChunkSize
  <2>1. Return([parsed_file_info EXCEPT !.result = "INVALID_FMT"])
        /\ UNCHANGED chunk
    BY <1>3, <1>6 DEF SkipToFmt, SkipToFmtUntil, Arrive
  <2>2. parsed_file_info' \in ParsedFileInfo /\ OutcomeInContract'
    BY <1>1, <1>3, <2>1, RejectionOutcome
    DEF FmtScanState, Return, OutcomeInContract
  <2>3. TypeOK'
    BY <1>3, <1>4, <2>1, <2>2 DEF ScanInv, TypeOK, Return
  <2>4. (FmtPointerFits /\ DataPointerFits /\ PayloadUntouched)'
    BY <2>1 DEF FmtPointerFits, DataPointerFits, PayloadUntouched, Return
  <2> QED  BY <2>2, <2>3, <2>4, <1>5 DEF ScanInv
<1>7. CASE ~(to > data_size - FmtChunkSize)
  <2>1. /\ UNCHANGED <<pc, parsed_file_info>>
        /\ IF to = fmt_chunk_in_file THEN UNCHANGED chunk ELSE chunk' \in Chunks
    BY <1>3, <1>7 DEF SkipToFmt, SkipToFmtUntil, Arrive
  <2>2. chunk' \in Chunks
    BY <2>1 DEF ScanInv, TypeOK
  <2>3. TypeOK'
    BY <1>3, <1>4, <2>1, <2>2 DEF ScanInv, TypeOK
  <2>4. (DataPointerFits /\ PayloadUntouched /\ OutcomeInContract)'
    BY <1>3, <2>1 DEF ScanInv, DataPointerFits, PayloadUntouched, OutcomeInContract
  <2>5. FmtPointerFits'
    BY <1>1, <1>2, <1>3, <1>7
    DEF FmtScanState, FmtPointerFits, RiffHeaderSize, FmtChunkSize
  <2> QED  BY <2>3, <2>4, <2>5, <1>5 DEF ScanInv
<1> QED  BY <1>6, <1>7

\* Reading the fmt chunk, with or without its GUID, stays within the bound.
LEMMA ReadFmtFacts ==
    ASSUME ScanInv, NEW f \in FmtFields, ReadFmt(f)
    PROVE  /\ FmtScanState
           /\ fmt_chunk' = f
           /\ reach' \in Nat
           /\ ReadsInFile'
           /\ UNCHANGED <<data_size, fmt_chunk_in_file>>
<1>1. FmtScanState
  BY InFmt DEF ReadFmt
<1>2. fmt_chunk' = f /\ UNCHANGED <<data_size, fmt_chunk_in_file>>
  BY DEF ReadFmt
<1>3. CASE f.format_type = Extensible
  <2>1. Touch(fmt_chunk_in_file + 36)
    BY <1>3 DEF ReadFmt, GuidEnd
  <2>2. reach' \in Nat /\ reach' <= data_size + 12
    <3>1. /\ data_size + 12 \in Nat /\ reach <= data_size + 12
          /\ fmt_chunk_in_file + 36 \in Nat
          /\ fmt_chunk_in_file + 36 <= data_size + 12
      BY <1>1 DEF FmtScanState
    <3> QED  BY <1>1, <2>1, <3>1, TouchFacts DEF FmtScanState
  <2>3. ReadsInFile'
    BY <1>1, <1>2, <1>3, <2>2 DEF FmtScanState, ReadsInFile, GuidEnd, FmtChunkSize
  <2> QED  BY <1>1, <1>2, <2>2, <2>3
<1>4. CASE f.format_type # Extensible
  <2>1. Touch(fmt_chunk_in_file + 24)
    BY <1>4 DEF ReadFmt, FmtChunkSize
  <2>2. reach' \in Nat /\ reach' <= data_size
    <3>1. fmt_chunk_in_file + 24 \in Nat /\ fmt_chunk_in_file + 24 <= data_size
      BY <1>1 DEF FmtScanState
    <3> QED  BY <1>1, <2>1, <3>1, TouchFacts DEF FmtScanState
  <2>3. ReadsInFile'
    BY <1>1, <1>2, <1>4, <2>2 DEF FmtScanState, ReadsInFile
  <2> QED  BY <1>1, <1>2, <2>2, <2>3
<1> QED  BY <1>3, <1>4

LEMMA GuidTrapsScanInv == ScanInv /\ GuidTraps => ScanInv'
<1> SUFFICES ASSUME ScanInv, GuidTraps PROVE ScanInv'
  OBVIOUS
<1>1. PICK f \in FmtFields : ReadFmt(f)
  BY DEF GuidTraps
<1>2. /\ fmt_chunk' = f /\ reach' \in Nat /\ ReadsInFile'
      /\ UNCHANGED <<data_size, fmt_chunk_in_file>>
  BY <1>1, ReadFmtFacts
<1>3. /\ pc = "fmt" /\ pc' = "trap"
      /\ UNCHANGED <<data_chunk_in_file, chunk, parsed_file_info>>
  BY <1>1 DEF GuidTraps, ReadFmt
<1>4. TypeOK'
  BY <1>2, <1>3 DEF ScanInv, TypeOK
<1>5. (ChunksWordAligned /\ InFmtScan /\ FmtPointerFits /\ DataPointerFits
       /\ PayloadUntouched /\ OutcomeInContract)'
  BY <1>2, <1>3 DEF ScanInv, ChunksWordAligned, InFmtScan, FmtPointerFits,
                    DataPointerFits, PayloadUntouched, OutcomeInContract
<1> QED  BY <1>2, <1>4, <1>5 DEF ScanInv

LEMMA UnsupportedFormatScanInv == ScanInv /\ UnsupportedFormat => ScanInv'
<1> SUFFICES ASSUME ScanInv, UnsupportedFormat PROVE ScanInv'
  OBVIOUS
<1>1. PICK f \in FmtFields : ReadFmt(f)
  BY DEF UnsupportedFormat
<1>2. /\ FmtScanState
      /\ fmt_chunk' = f /\ reach' \in Nat /\ ReadsInFile'
      /\ UNCHANGED <<data_size, fmt_chunk_in_file>>
  BY <1>1, ReadFmtFacts
<1>3. /\ Return([parsed_file_info EXCEPT !.result = "UNSUPPORTED_FORMAT"])
      /\ UNCHANGED <<data_chunk_in_file, chunk>>
  BY DEF UnsupportedFormat
<1>4. parsed_file_info' \in ParsedFileInfo /\ OutcomeInContract'
  BY <1>2, <1>3, RejectionOutcome DEF FmtScanState, Return, OutcomeInContract
<1>5. TypeOK'
  BY <1>2, <1>3, <1>4 DEF ScanInv, TypeOK, Return
<1>6. (ChunksWordAligned /\ InFmtScan /\ FmtPointerFits /\ DataPointerFits
       /\ PayloadUntouched)'
  BY <1>2, <1>3 DEF ScanInv, ChunksWordAligned, InFmtScan, FmtPointerFits,
                    DataPointerFits, PayloadUntouched, Return
<1> QED  BY <1>2, <1>4, <1>5, <1>6 DEF ScanInv

LEMMA FoundFmtScanInv == ScanInv /\ FoundFmt => ScanInv'
<1> SUFFICES ASSUME ScanInv, FoundFmt PROVE ScanInv'
  OBVIOUS
<1> DEFINE info(f) == [parsed_file_info EXCEPT !.data_type = DataType(f)]
<1>1. PICK f \in FmtFields :
        /\ ReadFmt(f)
        /\ data_chunk_in_file' = AfterFmt
        /\ IF AfterFmt + 8 > data_size
           THEN /\ Return([info(f) EXCEPT !.result = "INVALID_DATA"])
                /\ UNCHANGED chunk
           ELSE /\ pc' = "data" /\ parsed_file_info' = info(f)
                /\ chunk' \in Chunks
  BY DEF FoundFmt
<1>2. /\ FmtScanState
      /\ fmt_chunk' = f /\ reach' \in Nat /\ ReadsInFile'
      /\ UNCHANGED <<data_size, fmt_chunk_in_file>>
  BY <1>1, ReadFmtFacts
<1>3. /\ AfterFmt \in Nat /\ AfterFmt % 2 = 0
      /\ AfterFmt >= fmt_chunk_in_file + 8
  BY <1>2, AfterFmtFacts DEF FmtScanState
<1>4. ChunksWordAligned'
  BY <1>1, <1>2, <1>3 DEF FmtScanState, ChunksWordAligned
<1>5. /\ info(f) \in ParsedFileInfo
      /\ info(f) = [EmptyFileInfo EXCEPT !.data_type = info(f).data_type]
  BY <1>2 DEF FmtScanState, ParsedFileInfo, EmptyFileInfo, DataType, DataTypes
<1> HIDE DEF info
<1>6. CASE AfterFmt + 8 > data_size
  <2>1. Return([info(f) EXCEPT !.result = "INVALID_DATA"]) /\ UNCHANGED chunk
    BY <1>1, <1>6
  <2>2. parsed_file_info' \in ParsedFileInfo /\ OutcomeInContract'
    BY <1>2, <1>5, <2>1, RejectionOutcome
    DEF FmtScanState, Return, OutcomeInContract
  <2>3. TypeOK'
    BY <1>1, <1>2, <1>3, <2>1, <2>2 DEF ScanInv, TypeOK, Return
  <2>4. (InFmtScan /\ FmtPointerFits /\ DataPointerFits /\ PayloadUntouched)'
    BY <2>1 DEF InFmtScan, FmtPointerFits, DataPointerFits, PayloadUntouched,
                Return
  <2> QED  BY <1>2, <1>4, <2>2, <2>3, <2>4 DEF ScanInv
<1>7. CASE ~(AfterFmt + 8 > data_size)
  <2>1. pc' = "data" /\ parsed_file_info' = info(f) /\ chunk' \in Chunks
    BY <1>1, <1>7
  <2>2. TypeOK'
    BY <1>1, <1>2, <1>3, <1>5, <2>1 DEF ScanInv, TypeOK
  <2>3. DataPointerFits'
    BY <1>1, <1>2, <1>3, <1>7
    DEF FmtScanState, DataPointerFits, RiffHeaderSize, ChunkHeaderSize
  <2>4. PayloadUntouched'
    BY <1>5, <2>1 DEF PayloadUntouched
  <2>5. (InFmtScan /\ FmtPointerFits /\ OutcomeInContract)'
    BY <2>1 DEF InFmtScan, FmtPointerFits, OutcomeInContract
  <2> QED  BY <1>2, <1>4, <2>2, <2>3, <2>4, <2>5 DEF ScanInv
<1> QED  BY <1>6, <1>7

\* What the actions that scan for the data chunk start from.
DataScanState ==
    /\ data_size \in Nat
    /\ data_chunk_in_file \in Nat
    /\ data_chunk_in_file >= 20 /\ data_chunk_in_file + 8 <= data_size
    /\ data_chunk_in_file % 2 = 0
    /\ chunk.size \in 0..(U32 - 1)
    /\ fmt_chunk.bits_per_sample \in Nat /\ fmt_chunk.channels \in Nat
    /\ parsed_file_info \in ParsedFileInfo
    /\ parsed_file_info = [EmptyFileInfo EXCEPT
                              !.data_type = parsed_file_info.data_type]

LEMMA InData == ScanInv /\ pc = "data" => DataScanState
<1> SUFFICES ASSUME ScanInv, pc = "data" PROVE DataScanState
  OBVIOUS
<1>1. data_size \in Nat
  BY SizesAssumption DEF ScanInv, TypeOK
<1>2. /\ data_chunk_in_file \in Nat
      /\ data_chunk_in_file >= 20 /\ data_chunk_in_file + 8 <= data_size
  BY <1>1 DEF ScanInv, TypeOK, DataPointerFits, RiffHeaderSize, ChunkHeaderSize
<1>3. chunk.size \in 0..(U32 - 1)
  BY ChunksAssumption DEF ScanInv, TypeOK
<1>4. fmt_chunk.bits_per_sample \in Nat /\ fmt_chunk.channels \in Nat
  BY FmtAssumption DEF ScanInv, TypeOK, NoFmt
<1>5. /\ data_chunk_in_file % 2 = 0
      /\ parsed_file_info \in ParsedFileInfo
      /\ parsed_file_info = [EmptyFileInfo EXCEPT
                                !.data_type = parsed_file_info.data_type]
  BY DEF ScanInv, TypeOK, ChunksWordAligned, PayloadUntouched
<1> QED  BY <1>1, <1>2, <1>3, <1>4, <1>5 DEF DataScanState

\* A read of the header under the second pointer.
LEMMA TouchDataFacts ==
    ASSUME ScanInv, DataScanState, Touch(data_chunk_in_file + 8),
           UNCHANGED <<data_size, fmt_chunk>>
    PROVE  reach' \in Nat /\ ReadsInFile'
<1> DEFINE over == IF fmt_chunk.format_type = Extensible
                   THEN GuidEnd - FmtChunkSize ELSE 0
<1>1. /\ over \in Nat /\ reach \in Nat /\ reach <= data_size + over
  BY DEF ScanInv, TypeOK, ReadsInFile, GuidEnd, FmtChunkSize
<1>2. ReadsInFile' <=> reach' <= data_size + over
  BY DEF ReadsInFile
<1> HIDE DEF over
<1>3. /\ data_size + over \in Nat
      /\ data_chunk_in_file + 8 \in Nat
      /\ data_chunk_in_file + 8 <= data_size + over
  BY <1>1 DEF DataScanState
<1> QED  BY <1>1, <1>2, <1>3, TouchFacts

LEMMA SkipToDataScanInv == ScanInv /\ SkipToData => ScanInv'
<1> SUFFICES ASSUME ScanInv, SkipToData PROVE ScanInv'
  OBVIOUS
<1>1. DataScanState
  BY InData DEF SkipToData, SkipToDataFrom, Arrive
<1>2. PICK to \in Nat : /\ to = data_chunk_in_file + Advance(chunk.size)
                        /\ to >= data_chunk_in_file /\ to % 2 = 0
  <2>1. Advance(chunk.size) \in Nat /\ Advance(chunk.size) % 2 = 0
    BY <1>1, AdvanceFacts DEF DataScanState
  <2> QED  BY <1>1, <2>1 DEF DataScanState
<1>3. /\ pc = "data" /\ Touch(data_chunk_in_file + 8)
      /\ data_chunk_in_file' = to
      /\ UNCHANGED <<data_size, fmt_chunk_in_file, fmt_chunk>>
  BY <1>2 DEF SkipToData, SkipToDataFrom, Arrive
<1>4. reach' \in Nat /\ ReadsInFile'
  BY <1>1, <1>3, TouchDataFacts
<1>5. ChunksWordAligned'
  BY <1>2, <1>3 DEF ScanInv, ChunksWordAligned
<1>6. CASE to > data_size - ChunkHeaderSize
  <2>1. Return([parsed_file_info EXCEPT !.result = "INVALID_DATA"])
        /\ UNCHANGED chunk
    BY <1>3, <1>6 DEF SkipToData, SkipToDataFrom, Arrive
  <2>2. parsed_file_info' \in ParsedFileInfo /\ OutcomeInContract'
    BY <1>1, <1>3, <2>1, RejectionOutcome
    DEF DataScanState, Return, OutcomeInContract
  <2>3. TypeOK'
    BY <1>3, <1>4, <2>1, <2>2 DEF ScanInv, TypeOK, Return
  <2>4. (InFmtScan /\ FmtPointerFits /\ DataPointerFits /\ PayloadUntouched)'
    BY <2>1 DEF InFmtScan, FmtPointerFits, DataPointerFits, PayloadUntouched,
                Return
  <2> QED  BY <1>4, <1>5, <2>2, <2>3, <2>4 DEF ScanInv
<1>7. CASE ~(to > data_size - ChunkHeaderSize)
  <2>1. /\ UNCHANGED <<pc, parsed_file_info>>
        /\ IF to = data_chunk_in_file THEN UNCHANGED chunk ELSE chunk' \in Chunks
    BY <1>3, <1>7 DEF SkipToData, SkipToDataFrom, Arrive
  <2>2. chunk' \in Chunks
    BY <2>1 DEF ScanInv, TypeOK
  <2>3. TypeOK'
    BY <1>3, <1>4, <2>1, <2>2 DEF ScanInv, TypeOK
  <2>4. DataPointerFits'
    BY <1>1, <1>2, <1>3, <1>7
    DEF DataScanState, DataPointerFits, RiffHeaderSize, ChunkHeaderSize
  <2>5. (InFmtScan /\ FmtPointerFits /\ PayloadUntouched /\ OutcomeInContract)'
    BY <1>3, <2>1 DEF ScanInv, InFmtScan, FmtPointerFits, PayloadUntouched,
                      OutcomeInContract
  <2> QED  BY <1>4, <1>5, <2>3, <2>4, <2>5 DEF ScanInv
<1> QED  BY <1>6, <1>7

\* The record of a success, field by field.
AcceptedInfo(info, d, s, b, ch) ==
    [info EXCEPT !.data = d, !.size = s, !.bits_per_sample = b, !.channels = ch,
                 !.result = "SUCCESS"]

LEMMA AcceptedFields ==
    ASSUME NEW info, NEW d, NEW s, NEW b, NEW ch,
           info \in ParsedFileInfo,
           d \in Nat, s \in Nat, b \in Nat, ch \in Nat
    PROVE  /\ AcceptedInfo(info, d, s, b, ch) \in ParsedFileInfo
           /\ AcceptedInfo(info, d, s, b, ch).result = "SUCCESS"
           /\ AcceptedInfo(info, d, s, b, ch).data = d
           /\ AcceptedInfo(info, d, s, b, ch).size = s
  BY DEF AcceptedInfo, ParsedFileInfo, ParseResults

LEMMA FoundDataScanInv == ScanInv /\ FoundData => ScanInv'
<1> SUFFICES ASSUME ScanInv, FoundData PROVE ScanInv'
  OBVIOUS
<1>0. PICK payload \in Nat : payload = data_chunk_in_file + 8
  BY DEF ScanInv, TypeOK
<1> DEFINE remaining == (data_size - (data_chunk_in_file + 8)) - chunk.size
           accepted == AcceptedInfo(parsed_file_info, payload, chunk.size,
                                    fmt_chunk.bits_per_sample, fmt_chunk.channels)
<1>1. DataScanState
  BY InData DEF FoundData, FoundDataIf
<1>2. /\ Touch(data_chunk_in_file + 8)
      /\ pc' = "done"
      /\ UNCHANGED <<data_size, fmt_chunk_in_file, data_chunk_in_file, chunk,
                     fmt_chunk>>
  BY DEF FoundData, FoundDataIf, Remaining, Return, ChunkHeaderSize
<1>3. reach' \in Nat /\ ReadsInFile'
  BY <1>1, <1>2, TouchDataFacts
<1>4. parsed_file_info' \in ParsedFileInfo /\ OutcomeInContract'
  <2>1. CASE remaining < 0
    <3>1. parsed_file_info' = [parsed_file_info EXCEPT !.result = "INVALID_DATA"]
      BY <2>1 DEF FoundData, FoundDataIf, Remaining, Return
    <3> QED  BY <1>1, <1>2, <3>1, RejectionOutcome
             DEF DataScanState, OutcomeInContract
  <2>2. CASE ~(remaining < 0)
    <3>1. parsed_file_info' = accepted
      BY <1>0, <2>2 DEF FoundData, FoundDataIf, Remaining,
                            Return, Accepted, AcceptedInfo
    <3>2. /\ accepted \in ParsedFileInfo
          /\ accepted.result = "SUCCESS"
          /\ accepted.data = payload
          /\ accepted.size = chunk.size
      <4>1. chunk.size \in Nat
        BY <1>1, U32Assumption DEF DataScanState
      <4>2. /\ parsed_file_info \in ParsedFileInfo
            /\ fmt_chunk.bits_per_sample \in Nat /\ fmt_chunk.channels \in Nat
        BY <1>1 DEF DataScanState
      <4> QED  BY <1>0, <4>1, <4>2, AcceptedFields
    <3>3. /\ accepted.data >= 28
          /\ accepted.data + accepted.size <= data_size
      BY <1>0, <1>1, <2>2, <3>2 DEF DataScanState
    <3> HIDE DEF accepted
    <3>4. Contract!Outcome(accepted, data_size)
      BY <3>2, <3>3, ContractTypes
      DEF Contract!Outcome, Contract!Accepts, Contract!RiffHeaderSize,
          Contract!ChunkHeaderSize
    <3> QED  BY <1>2, <3>1, <3>2, <3>4 DEF OutcomeInContract
  <2> QED  BY <2>1, <2>2
<1>5. TypeOK'
  BY <1>2, <1>3, <1>4 DEF ScanInv, TypeOK
<1>6. (ChunksWordAligned /\ InFmtScan /\ FmtPointerFits /\ DataPointerFits
       /\ PayloadUntouched)'
  BY <1>2 DEF ScanInv, ChunksWordAligned, InFmtScan, FmtPointerFits,
              DataPointerFits, PayloadUntouched
<1> QED  BY <1>3, <1>4, <1>5, <1>6 DEF ScanInv

-----------------------------------------------------------------------------
(* The theorems.                                                           *)

LEMMA StepScanInv == ScanInv /\ [Next]_vars => ScanInv'
<1> SUFFICES ASSUME ScanInv, [Next]_vars PROVE ScanInv'
  OBVIOUS
<1>1. CASE ReadRiff           BY <1>1, ReadRiffScanInv
<1>2. CASE SkipToFmt          BY <1>2, SkipToFmtScanInv
<1>3. CASE GuidTraps          BY <1>3, GuidTrapsScanInv
<1>4. CASE UnsupportedFormat  BY <1>4, UnsupportedFormatScanInv
<1>5. CASE FoundFmt           BY <1>5, FoundFmtScanInv
<1>6. CASE SkipToData         BY <1>6, SkipToDataScanInv
<1>7. CASE FoundData          BY <1>7, FoundDataScanInv
<1>8. CASE UNCHANGED vars
  <2> USE <1>8 DEF vars
  <2>1. TypeOK'  BY DEF ScanInv, TypeOK
  <2>2. (InFmtScan /\ FmtPointerFits /\ DataPointerFits)'
    BY DEF ScanInv, InFmtScan, FmtPointerFits, DataPointerFits
  <2>3. (ReadsInFile /\ ChunksWordAligned)'
    BY DEF ScanInv, ReadsInFile, ChunksWordAligned
  <2>4. (PayloadUntouched /\ OutcomeInContract)'
    BY DEF ScanInv, PayloadUntouched, OutcomeInContract
  <2> QED  BY <2>1, <2>2, <2>3, <2>4 DEF ScanInv
<1> QED  BY <1>1, <1>2, <1>3, <1>4, <1>5, <1>6, <1>7, <1>8 DEF Next

LEMMA ScanInvariant == Spec => []ScanInv
  BY InitScanInv, StepScanInv, PTL DEF Spec

\* The variables of the scan keep their types: pointers and sizes never become
\* negative, and the record that is returned is a parsed_file_info_t.
THEOREM TypeCorrect == Spec => []TypeOK
<1>1. ScanInv => TypeOK  BY DEF ScanInv
<1> QED  BY <1>1, ScanInvariant, PTL

\* For every file and every u32 width, no read passes the end of the file but
\* that of the GUID, and that one by no more than 12 bytes.
THEOREM ReadsStayInFile == Spec => []ReadsInFile
<1>1. ScanInv => ReadsInFile  BY DEF ScanInv
<1> QED  BY <1>1, ScanInvariant, PTL

\* Chunk pointers are even for ever, whatever sizes the chunks declare.
THEOREM PointersWordAligned == Spec => []ChunksWordAligned
<1>1. ScanInv => ChunksWordAligned  BY DEF ScanInv
<1> QED  BY <1>1, ScanInvariant, PTL

\* Each iteration of a loop moves its own pointer to the next RIFF chunk or,
\* where the u32 sum wraps, forward by at most 8, and the other one not at all.
THEOREM LoopsMoveForward == Spec => ScanMoves
<1> DEFINE Moves ==
        /\ (pc = "fmt" /\ chunk.marker # "fmt ") =>
               /\ RiffStep(fmt_chunk_in_file, fmt_chunk_in_file')
               /\ data_chunk_in_file' = data_chunk_in_file
        /\ pc = "data" =>
               /\ fmt_chunk_in_file' = fmt_chunk_in_file
               /\ chunk.marker # "data" =>
                      RiffStep(data_chunk_in_file, data_chunk_in_file')
<1>1. ASSUME NEW from \in Nat, chunk.size \in 0..(U32 - 1)
      PROVE  RiffStep(from, from + Advance(chunk.size))
  BY <1>1, AdvanceFacts, U32Assumption DEF RiffStep, Pad
<1>2. ScanInv /\ Next => Moves
  <2> SUFFICES ASSUME ScanInv, Next PROVE Moves
    OBVIOUS
  <2>1. CASE pc = "fmt" /\ chunk.marker # "fmt "
    <3>1. SkipToFmt
      BY <2>1 DEF Next, ReadRiff, GuidTraps, UnsupportedFormat, FoundFmt, ReadFmt,
                  SkipToData, SkipToDataFrom, FoundData, FoundDataIf
    <3>2. /\ fmt_chunk_in_file' = fmt_chunk_in_file + Advance(chunk.size)
          /\ data_chunk_in_file' = data_chunk_in_file
      BY <3>1 DEF SkipToFmt, SkipToFmtUntil, Arrive
    <3> QED  BY <1>1, <2>1, <3>2, InFmt DEF FmtScanState
  <2>2. CASE pc = "data" /\ chunk.marker # "data"
    <3>1. SkipToData
      BY <2>2 DEF Next, ReadRiff, SkipToFmt, SkipToFmtUntil,
                  GuidTraps, UnsupportedFormat, FoundFmt, ReadFmt, FoundData, FoundDataIf
    <3>2. /\ data_chunk_in_file' = data_chunk_in_file + Advance(chunk.size)
          /\ fmt_chunk_in_file' = fmt_chunk_in_file
      BY <3>1 DEF SkipToData, SkipToDataFrom, Arrive
    <3> QED  BY <1>1, <2>2, <3>2, InData DEF DataScanState
  <2>3. CASE pc = "data" /\ chunk.marker = "data"
    <3>1. FoundData
      BY <2>3 DEF Next, ReadRiff, SkipToFmt, SkipToFmtUntil,
                  GuidTraps, UnsupportedFormat, FoundFmt, ReadFmt, SkipToData,
                  SkipToDataFrom
    <3> QED  BY <2>3, <3>1 DEF FoundData, FoundDataIf
  <2>4. CASE ~(pc = "data") /\ ~(pc = "fmt" /\ chunk.marker # "fmt ")
    BY <2>4
  <2> QED  BY <2>1, <2>2, <2>3, <2>4
<1>3. ScanInv /\ [Next]_vars => [Moves]_vars
  BY <1>2
<1> QED  BY <1>3, ScanInvariant, PTL DEF Spec, ScanMoves

\* A GUID behind the pages of the file is at most 12 bytes behind the file.
LEMMA TrapsAllowed ==
    ASSUME ScanInv, pc = "fmt", GuidBehindPages
    PROVE  Contract!MayTrap(data_size)
<1> DEFINE behind == (PageSize - (data_size % PageSize)) % PageSize
<1>1. FmtScanState
  BY InFmt
<1>2. data_size % PageSize \in Int
  BY <1>1, PageAssumption DEF FmtScanState
<1>3. behind \in Int
  BY <1>2, PageAssumption
<1>4. fmt_chunk_in_file + 36 > data_size + behind
  BY DEF GuidBehindPages, BytesBehind, GuidEnd
<1> HIDE DEF behind
<1>5. behind < 12
  BY <1>1, <1>3, <1>4 DEF FmtScanState
<1> QED  BY <1>5 DEF behind, Contract!MayTrap, Contract!BytesBehind,
                     Contract!GuidEnd, Contract!FmtChunkSize

\* The scan implements its contract: it starts where the contract starts, and
\* every step either returns an outcome the contract allows, traps in a file the
\* contract lets it trap in, or changes nothing the caller can see.
THEOREM ScanRefinesContract == Spec => ImplementsContract
<1>1. Init => Contract!Init
  BY SizesAssumption, ContractTypes
  DEF Init, Contract!Init, MinFileSize, Contract!MinFileSize
<1>2. ScanInv /\ ScanInv' /\ [Next]_vars => [Contract!Next]_Contract!vars
  <2> SUFFICES ASSUME ScanInv, ScanInv', [Next]_vars
               PROVE  [Contract!Next]_Contract!vars
    OBVIOUS
  <2>1. data_size' = data_size
    BY DEF Next, vars, ReadRiff, SkipToFmt, SkipToFmtUntil,
           GuidTraps, UnsupportedFormat, FoundFmt, ReadFmt, SkipToData, SkipToDataFrom,
           FoundData, FoundDataIf
  <2>2. CASE pc \in {"done", "trap"}
    <3>1. UNCHANGED vars
      BY <2>2 DEF Next, ReadRiff, SkipToFmt, SkipToFmtUntil,
                  GuidTraps, UnsupportedFormat, FoundFmt, ReadFmt, SkipToData,
                  SkipToDataFrom, FoundData, FoundDataIf
    <3> QED  BY <3>1 DEF vars, Contract!vars
  <2>3. CASE pc \notin {"done", "trap"} /\ pc' \notin {"done", "trap"}
    BY <2>1, <2>3 DEF Contract!vars
  <2>4. CASE pc \notin {"done", "trap"} /\ pc' = "done"
    <3>1. Contract!Outcome(parsed_file_info', data_size)
      BY <2>1, <2>4 DEF ScanInv, OutcomeInContract
    <3> QED  BY <2>1, <2>4, <3>1 DEF Contract!Return, Contract!Running, Contract!Next
  <2>5. CASE pc \notin {"done", "trap"} /\ pc' = "trap"
    <3>1. GuidTraps
      BY <2>5 DEF Next, vars, ReadRiff, SkipToFmt, SkipToFmtUntil, Arrive,
                  UnsupportedFormat, FoundFmt, SkipToData, SkipToDataFrom,
                  FoundData, FoundDataIf, Return
    <3>2. pc = "fmt" /\ GuidBehindPages
      BY <3>1 DEF GuidTraps, ReadFmt
    <3>3. Contract!MayTrap(data_size)
      BY <3>2, TrapsAllowed
    <3> QED  BY <2>1, <2>5, <3>3 DEF Contract!Trap, Contract!Running, Contract!Next
  <2> QED  BY <2>2, <2>3, <2>4, <2>5
<1> QED  BY <1>1, <1>2, ScanInvariant, PTL
         DEF Spec, ImplementsContract, Contract!Spec

-----------------------------------------------------------------------------
(* The only way not to end.                                                *)

\* What lies behind the pointer that scans.
BytesLeft ==
    IF pc = "riff" THEN data_size + 1
    ELSE IF pc = "fmt" THEN data_size - fmt_chunk_in_file
    ELSE IF pc = "data" THEN data_size - data_chunk_in_file
    ELSE 0

\* A step is of no bytes for two sizes, and for no other.
LEMMA ZeroSteps ==
    ASSUME NEW s \in 0..(U32 - 1), Advance(s) = 0
    PROVE  s \in {U32 - 8, U32 - 9}
<1>1. PICK sum \in Nat : sum = 8 + s + Pad(s)
  BY U32Assumption DEF Pad
<1>2. sum <= U32 + 8 /\ sum >= 8 /\ sum % U32 = 0
  BY <1>1, U32Assumption DEF Pad, Advance
<1>3. sum = U32
  <2>1. CASE sum < U32  BY <1>2, <2>1, U32Assumption
  <2>2. CASE sum >= U32
    <3>1. sum % U32 = sum - U32  BY <1>2, <2>2, U32Assumption
    <3> QED  BY <1>2, <3>1, U32Assumption
  <2> QED  BY <2>1, <2>2, U32Assumption
<1> QED  BY <1>1, <1>3, U32Assumption DEF Pad

LEMMA BytesLeftFacts ==
    ASSUME ScanInv
    PROVE  /\ BytesLeft \in Nat /\ data_size \in Nat /\ data_size >= MinFileSize
           /\ pc \notin {"done", "trap"} => BytesLeft > 0
<1>1. data_size \in Nat /\ data_size >= MinFileSize
  BY SizesAssumption DEF ScanInv, TypeOK
<1>2. CASE pc = "fmt"
  BY <1>1, <1>2, InFmt DEF FmtScanState, BytesLeft
<1>3. CASE pc = "data"
  BY <1>1, <1>3, InData DEF DataScanState, BytesLeft
<1>4. CASE pc \in {"riff", "done", "trap"}
  BY <1>1, <1>4 DEF BytesLeft
<1> QED  BY <1>1, <1>2, <1>3, <1>4 DEF ScanInv, TypeOK

\* A pass of a loop ends the scan, goes on, or is at a step of 0 and stays there.
LEMMA ArriveFacts ==
    ASSUME NEW from \in Nat, NEW room \in Nat, NEW error,
           data_size \in Nat, from + room <= data_size,
           chunk.size \in 0..(U32 - 1),
           Arrive(from, from + Advance(chunk.size), room, error)
    PROVE  \/ pc' = "done"
           \/ pc' = pc /\ Advance(chunk.size) \in Nat /\ Advance(chunk.size) > 0
                       /\ from + Advance(chunk.size) <= data_size - room
           \/ pc' = pc /\ chunk' = chunk /\ chunk.size \in {U32 - 8, U32 - 9}
<1>1. Advance(chunk.size) \in Nat
  BY AdvanceFacts
<1>2. CASE from + Advance(chunk.size) > data_size - room
  BY <1>2 DEF Arrive, Return
<1>3. CASE ~(from + Advance(chunk.size) > data_size - room)
  <2>1. /\ pc' = pc
        /\ IF from + Advance(chunk.size) = from THEN UNCHANGED chunk
           ELSE chunk' \in Chunks
    BY <1>3 DEF Arrive
  <2>2. CASE Advance(chunk.size) = 0
    <3>1. from + Advance(chunk.size) = from
      BY <2>2
    <3> QED  BY <2>1, <2>2, <3>1, ZeroSteps
  <2>3. CASE Advance(chunk.size) > 0
    BY <1>1, <1>3, <2>1, <2>3
  <2> QED  BY <1>1, <2>2, <2>3
<1> QED  BY <1>2, <1>3

Onward == BytesLeft' < BytesLeft \/ (AtZeroStep /\ AtZeroStep')

LEMMA StepsOnward ==
    ASSUME ScanInv, Next
    PROVE  Onward
<1>1. /\ BytesLeft \in Nat /\ data_size \in Nat /\ data_size >= MinFileSize
      /\ pc \notin {"done", "trap"} => BytesLeft > 0
  BY BytesLeftFacts
<1>2. data_size' = data_size
  BY DEF Next, ReadRiff, SkipToFmt, SkipToFmtUntil, GuidTraps, UnsupportedFormat,
     FoundFmt, ReadFmt, SkipToData, SkipToDataFrom, FoundData, FoundDataIf
<1>3. pc \notin {"done", "trap"}
  BY DEF Next, ReadRiff, SkipToFmt, SkipToFmtUntil, GuidTraps, UnsupportedFormat,
     FoundFmt, ReadFmt, SkipToData, SkipToDataFrom, FoundData, FoundDataIf
<1>4. CASE pc' \in {"done", "trap"}
  BY <1>1, <1>3, <1>4 DEF BytesLeft, Onward
<1>5. CASE ReadRiff /\ pc' # "done"
  <2>1. pc = "riff" /\ pc' = "fmt" /\ fmt_chunk_in_file' = 12
    BY <1>5 DEF ReadRiff, Return, RiffHeaderSize
  <2>2. BytesLeft = data_size + 1 /\ BytesLeft' = data_size - 12
    BY <1>2, <2>1 DEF BytesLeft
  <2> QED  BY <1>1, <2>2 DEF Onward
<1>6. CASE SkipToFmt /\ pc' # "done"
  <2>1. /\ pc = "fmt" /\ chunk.marker # "fmt "
        /\ fmt_chunk_in_file' = fmt_chunk_in_file + Advance(chunk.size)
        /\ Arrive(fmt_chunk_in_file, fmt_chunk_in_file + Advance(chunk.size),
                  FmtChunkSize, "INVALID_FMT")
    BY <1>6 DEF SkipToFmt, SkipToFmtUntil, Arrive
  <2>2. /\ fmt_chunk_in_file \in Nat /\ fmt_chunk_in_file + 24 <= data_size
        /\ chunk.size \in 0..(U32 - 1)
    BY <2>1, InFmt DEF FmtScanState
  <2>3. \/ pc' = pc /\ Advance(chunk.size) \in Nat /\ Advance(chunk.size) > 0
        \/ pc' = pc /\ chunk' = chunk /\ chunk.size \in {U32 - 8, U32 - 9}
    BY <1>1, <1>6, <2>1, <2>2, ArriveFacts DEF FmtChunkSize
  <2>4. CASE Advance(chunk.size) \in Nat /\ Advance(chunk.size) > 0 /\ pc' = pc
    <3>1. /\ BytesLeft = data_size - fmt_chunk_in_file
          /\ BytesLeft' = data_size - (fmt_chunk_in_file + Advance(chunk.size))
      BY <1>2, <2>1, <2>4 DEF BytesLeft
    <3> QED  BY <1>1, <2>2, <2>4, <3>1 DEF Onward
  <2>5. CASE pc' = pc /\ chunk' = chunk /\ chunk.size \in {U32 - 8, U32 - 9}
    BY <2>1, <2>5 DEF AtZeroStep, Onward
  <2> QED  BY <2>3, <2>4, <2>5
<1>7. CASE FoundFmt /\ pc' # "done"
  <2>1. /\ pc = "fmt" /\ pc' = "data" /\ data_chunk_in_file' = AfterFmt
    BY <1>7 DEF FoundFmt, ReadFmt, Return
  <2>2. /\ fmt_chunk_in_file \in Nat /\ AfterFmt \in Nat
        /\ AfterFmt >= fmt_chunk_in_file + 8
    BY <2>1, InFmt, AfterFmtFacts DEF FmtScanState
  <2>3. /\ BytesLeft = data_size - fmt_chunk_in_file
        /\ BytesLeft' = data_size - AfterFmt
    BY <1>2, <2>1 DEF BytesLeft
  <2> QED  BY <1>1, <2>2, <2>3 DEF Onward
<1>8. CASE SkipToData /\ pc' # "done"
  <2>1. /\ pc = "data" /\ chunk.marker # "data"
        /\ data_chunk_in_file' = data_chunk_in_file + Advance(chunk.size)
        /\ Arrive(data_chunk_in_file, data_chunk_in_file + Advance(chunk.size),
                  ChunkHeaderSize, "INVALID_DATA")
    BY <1>8 DEF SkipToData, SkipToDataFrom, Arrive
  <2>2. /\ data_chunk_in_file \in Nat /\ data_chunk_in_file + 8 <= data_size
        /\ chunk.size \in 0..(U32 - 1)
    BY <2>1, InData DEF DataScanState
  <2>3. \/ pc' = pc /\ Advance(chunk.size) \in Nat /\ Advance(chunk.size) > 0
        \/ pc' = pc /\ chunk' = chunk /\ chunk.size \in {U32 - 8, U32 - 9}
    BY <1>1, <1>8, <2>1, <2>2, ArriveFacts DEF ChunkHeaderSize
  <2>4. CASE Advance(chunk.size) \in Nat /\ Advance(chunk.size) > 0 /\ pc' = pc
    <3>1. /\ BytesLeft = data_size - data_chunk_in_file
          /\ BytesLeft' = data_size - (data_chunk_in_file + Advance(chunk.size))
      BY <1>2, <2>1, <2>4 DEF BytesLeft
    <3> QED  BY <1>1, <2>2, <2>4, <3>1 DEF Onward
  <2>5. CASE pc' = pc /\ chunk' = chunk /\ chunk.size \in {U32 - 8, U32 - 9}
    BY <2>1, <2>5 DEF AtZeroStep, Onward
  <2> QED  BY <2>3, <2>4, <2>5
<1>9. CASE GuidTraps \/ UnsupportedFormat \/ FoundData
  BY <1>4, <1>9 DEF GuidTraps, UnsupportedFormat, FoundData, FoundDataIf, Return
<1> QED  BY <1>4, <1>5, <1>6, <1>7, <1>8, <1>9 DEF Next

\* Of every file, every step leaves less to scan but at a chunk that declares a
\* size of 2^32 - 8 or 2^32 - 9, and such a step stays at that chunk: there is no
\* other way for the loops not to end (parse_file_info.c:60-68, 101-109).
THEOREM ScanCountsDown ==
    Spec => [](BytesLeft \in Nat)
            /\ [][BytesLeft' < BytesLeft \/ (AtZeroStep /\ AtZeroStep')]_vars
<1>1. ScanInv => BytesLeft \in Nat
  BY BytesLeftFacts
<1>2. ScanInv /\ [Next]_vars => [Onward]_vars
  BY StepsOnward
<1> QED  BY <1>1, <1>2, ScanInvariant, PTL DEF Spec, Onward
=============================================================================
