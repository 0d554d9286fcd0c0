--------------------------- MODULE ParseFileInfo ---------------------------
(***************************************************************************)
(* parse_file_info (src/src/parse_file_info.c): the scan over the chunks   *)
(* of a loaded file for the first "fmt " chunk and the first "data" chunk  *)
(* behind it.                                                              *)
(*                                                                         *)
(* The bytes of the file are unconstrained: when a scan pointer arrives at *)
(* an offset, the chunk header found there is any member of Chunks, and it *)
(* stays the same for as long as the pointer stays.  Pointers only ever    *)
(* move forward, so no other offset is read as a header twice.             *)
(***************************************************************************)
EXTENDS FileInfo

CONSTANTS
    U32,         \* the number of values of a u32: 2^32 in the code
    PageSize,    \* the unit in which files are mapped
    DataSizes,   \* the sizes of the files that are loaded
    Chunks,      \* chunk headers a file may hold: marker and declared size
    FmtFields    \* contents of a fmt chunk, GUID of the extension included

Markers == {"fmt ", "data", "other"}

ASSUME U32Assumption == U32 \in Nat /\ U32 > 8 /\ U32 % 2 = 0
ASSUME PageAssumption == PageSize \in Nat \ {0}
ASSUME SizesAssumption == \A s \in DataSizes : s \in Nat /\ s >= MinFileSize
ASSUME ChunksAssumption == Chunks \subseteq [marker : Markers, size : 0..(U32 - 1)]
ASSUME FmtAssumption ==
    \A f \in FmtFields :
        /\ f.format_type \in Nat /\ f.guid \in Nat
        /\ f.channels \in Nat /\ f.bits_per_sample \in Nat

VARIABLES
    pc,                  \* "riff", "fmt", "data": what is read next; "done";
                         \* "trap": the process has ended of a read
    data_size,           \* loaded_file->data_size
    fmt_chunk_in_file,   \* offset of the pointer of the first scan
    data_chunk_in_file,  \* offset of the pointer of the second scan
    chunk,               \* the header under the pointer that is scanning
    fmt_chunk,           \* the fmt chunk once it is found
    parsed_file_info,    \* the record that is returned
    reach                \* history: the end of the furthest byte read so far

vars == <<pc, data_size, fmt_chunk_in_file, data_chunk_in_file, chunk,
          fmt_chunk, parsed_file_info, reach>>

NoFmt == [format_type |-> 0, guid |-> 0, channels |-> 0, bits_per_sample |-> 0]

-----------------------------------------------------------------------------
(* The arithmetic of the scan.  Here and below, an operator named after     *)
(* another with a suffix is a mistaken form of it, which the properties tell *)
(* from the definition.                                                    *)

Pad(size) == size % 2

AdvanceNoPad(size) == (8 + size) % U32

AdvanceNoHeader(size) == (size + Pad(size)) % U32

\* 8 + next_chunk_size + (next_chunk_size & 1) is computed in u32.
Advance(size) == (8 + size + Pad(size)) % U32

\* 8, fmt_size and its pad are added to the pointer one by one: no u32 sum.
AfterFmt == fmt_chunk_in_file + 8 + chunk.size + Pad(chunk.size)

\* The sample format a fmt chunk announces, with the GUID for EXTENSIBLE.
FormatCode(f) == IF f.format_type = Extensible THEN f.guid ELSE f.format_type

Supported(f) == FormatCode(f) \in {1, 3}

DataType(f) == IF FormatCode(f) = 1 THEN "INT" ELSE "FLOAT"

\* A read of the bytes below offset `end`.
Touch(end) == reach' = IF end > reach THEN end ELSE reach

Return(info) == pc' = "done" /\ parsed_file_info' = info

\* A pointer moves from `from` to `to`: the end of the scan if fewer than `room`
\* bytes are left there, and else the next header to look at.
Arrive(from, to, room, error) ==
    IF to > data_size - room
    THEN Return([parsed_file_info EXCEPT !.result = error]) /\ UNCHANGED chunk
    ELSE /\ IF to = from THEN UNCHANGED chunk ELSE chunk' \in Chunks
         /\ UNCHANGED <<pc, parsed_file_info>>

-----------------------------------------------------------------------------
Init ==
    /\ pc = "riff"
    /\ data_size \in DataSizes
    /\ fmt_chunk_in_file = 0
    /\ data_chunk_in_file = 0
    /\ chunk \in Chunks
    /\ fmt_chunk = NoFmt
    /\ parsed_file_info = EmptyFileInfo
    /\ reach = 0

\* The RIFF header is copied but not compared with anything; the first chunk
\* is taken to follow it.
ReadRiff ==
    /\ pc = "riff"
    /\ Touch(RiffHeaderSize)
    /\ fmt_chunk_in_file' = RiffHeaderSize
    /\ IF RiffHeaderSize + 8 > data_size
       THEN Return([parsed_file_info EXCEPT !.result = "INVALID_FMT"])
       ELSE pc' = "fmt" /\ UNCHANGED parsed_file_info
    /\ UNCHANGED <<data_size, data_chunk_in_file, chunk, fmt_chunk>>

\* One iteration of the loop that looks for the fmt chunk.
SkipToFmtUntil(room) ==
    /\ pc = "fmt" /\ chunk.marker # "fmt "
    /\ Touch(fmt_chunk_in_file + 8)
    /\ fmt_chunk_in_file' = fmt_chunk_in_file + Advance(chunk.size)
    /\ Arrive(fmt_chunk_in_file, fmt_chunk_in_file', room, "INVALID_FMT")
    /\ UNCHANGED <<data_size, data_chunk_in_file, fmt_chunk>>

SkipToFmtHeaderOnly == SkipToFmtUntil(ChunkHeaderSize)

SkipToFmt == SkipToFmtUntil(FmtChunkSize)

\* The fmt chunk is copied out, and for EXTENSIBLE the GUID behind it is read.
\* What lies behind the file reads as any bytes.
ReadFmt(f) ==
    /\ pc = "fmt" /\ chunk.marker = "fmt "
    /\ fmt_chunk' = f
    /\ Touch(fmt_chunk_in_file
             + IF f.format_type = Extensible THEN GuidEnd ELSE FmtChunkSize)
    /\ UNCHANGED <<data_size, fmt_chunk_in_file>>

\* The GUID, or a part of it, is behind the last page of the file.
GuidBehindPages ==
    fmt_chunk_in_file + GuidEnd > data_size + BytesBehind(data_size, PageSize)

\* There the read traps, unless another mapping happens to follow.
GuidTraps ==
    /\ \E f \in FmtFields : ReadFmt(f) /\ f.format_type = Extensible
    /\ GuidBehindPages
    /\ pc' = "trap"
    /\ UNCHANGED <<data_chunk_in_file, chunk, parsed_file_info>>

UnsupportedFormat ==
    /\ \E f \in FmtFields : ReadFmt(f) /\ ~Supported(f)
    /\ Return([parsed_file_info EXCEPT !.result = "UNSUPPORTED_FORMAT"])
    /\ UNCHANGED <<data_chunk_in_file, chunk>>

\* A supported format: the second scan starts behind the fmt chunk.
FoundFmt ==
    \E f \in FmtFields :
        /\ ReadFmt(f) /\ Supported(f)
        /\ data_chunk_in_file' = AfterFmt
        /\ LET info == [parsed_file_info EXCEPT !.data_type = DataType(f)] IN
           IF AfterFmt + 8 > data_size
           THEN /\ Return([info EXCEPT !.result = "INVALID_DATA"])
                /\ UNCHANGED chunk
           ELSE /\ pc' = "data" /\ parsed_file_info' = info
                /\ chunk' \in Chunks

\* One iteration of the loop that looks for the data chunk, and the same with
\* the step taken from the pointer of the first loop.
SkipToDataFrom(pointer) ==
    /\ pc = "data" /\ chunk.marker # "data"
    /\ Touch(data_chunk_in_file + 8)
    /\ data_chunk_in_file' = pointer + Advance(chunk.size)
    /\ Arrive(data_chunk_in_file, data_chunk_in_file', ChunkHeaderSize, "INVALID_DATA")
    /\ UNCHANGED <<data_size, fmt_chunk_in_file, fmt_chunk>>

SkipToDataFromFmt == SkipToDataFrom(fmt_chunk_in_file)

SkipToData == SkipToDataFrom(data_chunk_in_file)

\* The record of a file whose payload follows the header under the pointer.
Accepted(size) ==
    [parsed_file_info EXCEPT
        !.data = data_chunk_in_file + 8,
        !.size = size,
        !.bits_per_sample = fmt_chunk.bits_per_sample,
        !.channels = fmt_chunk.channels,
        !.result = "SUCCESS"]

\* The data chunk: rejected when its payload would end behind the file.  By
\* mistake, the chunk's own header is forgotten.
FoundDataIf(remaining) ==
    /\ pc = "data" /\ chunk.marker = "data"
    /\ Touch(data_chunk_in_file + ChunkHeaderSize)
    /\ Return(IF remaining < 0
              THEN [parsed_file_info EXCEPT !.result = "INVALID_DATA"]
              ELSE Accepted(chunk.size))
    /\ UNCHANGED <<data_size, fmt_chunk_in_file, data_chunk_in_file, chunk,
                   fmt_chunk>>

Remaining == (data_size - (data_chunk_in_file + 8)) - chunk.size

FoundDataOff8 == FoundDataIf(Remaining + 8)

FoundData == FoundDataIf(Remaining)

Next ==
    \/ ReadRiff
    \/ SkipToFmt
    \/ GuidTraps
    \/ UnsupportedFormat
    \/ FoundFmt
    \/ SkipToData
    \/ FoundData

\* The function runs on one thread until it returns.
Spec == Init /\ [][Next]_vars /\ WF_vars(Next)

-----------------------------------------------------------------------------
(* What must hold of the scan.                                             *)

TypeOK ==
    /\ pc \in {"riff", "fmt", "data", "done", "trap"}
    /\ data_size \in DataSizes
    /\ fmt_chunk_in_file \in Nat
    /\ data_chunk_in_file \in Nat
    /\ chunk \in Chunks
    /\ fmt_chunk \in FmtFields \cup {NoFmt}
    /\ parsed_file_info \in ParsedFileInfo
    /\ reach \in Nat

\* No read of the scan passes the end of the file, whatever sizes the chunks
\* declare, except that of the GUID: it lies behind the 24 bytes the scan has
\* made room for (parse_file_info.c:64), so it passes the end by up to 12.
ReadsInFile ==
    reach <= data_size
             + IF fmt_chunk.format_type = Extensible THEN GuidEnd - FmtChunkSize
                                                     ELSE 0

\* Both scan pointers stay on even offsets, as RIFF places its chunks: the pad
\* byte is counted for every chunk passed, also where the u32 sum wraps.
ChunksWordAligned ==
    fmt_chunk_in_file % 2 = 0 /\ data_chunk_in_file % 2 = 0

\* A step of either loop from offset `from` to offset `to`: to the next chunk
\* of the RIFF file, or, when the u32 sum wraps, by at most one chunk header.
RiffStep(from, to) ==
    \/ to = from + 8 + chunk.size + Pad(chunk.size)
    \/ chunk.size >= U32 - 9 /\ to \in from..(from + 8)

\* Every iteration of the two loops (parse_file_info.c:60-68, 101-109) makes a
\* RiffStep with its own pointer and leaves the other one where it is.
ScanMoves ==
    [][ /\ (pc = "fmt" /\ chunk.marker # "fmt ") =>
            /\ RiffStep(fmt_chunk_in_file, fmt_chunk_in_file')
            /\ data_chunk_in_file' = data_chunk_in_file
        /\ pc = "data" =>
            /\ fmt_chunk_in_file' = fmt_chunk_in_file
            /\ chunk.marker # "data" =>
                   RiffStep(data_chunk_in_file, data_chunk_in_file')
      ]_vars

\* The scan is at a chunk it does not look for whose size wraps to a step of 0.
AtZeroStep ==
    /\ \/ pc = "fmt" /\ chunk.marker # "fmt "
       \/ pc = "data" /\ chunk.marker # "data"
    /\ chunk.size \in {U32 - 8, U32 - 9}

\* The read of a GUID that leaves the mapping has ended the process.
TrappedAtGuid ==
    pc = "trap" /\ fmt_chunk.format_type = Extensible /\ GuidBehindPages

\* parse_file_info returns, but for two ways out: at a chunk that declares a size
\* of 2^32 - 8 or 2^32 - 9 the loop stays for ever, and at an EXTENSIBLE fmt chunk
\* so near the end of a file that fills its last page that the GUID lies behind
\* that page (parse_file_info.c:78-80) the process may end.
ScanEnds == <>(pc = "done") \/ <>[]AtZeroStep \/ <>[]TrappedAtGuid

\* The scan returns once, with an outcome ParseContract allows: a rejection
\* with an empty payload, or a payload that lies inside the file.  It traps only
\* in a file behind which fewer than 12 bytes can be read.
Contract == INSTANCE ParseContract WITH
    returned <- pc = "done",
    trapped <- pc = "trap",
    parsed <- IF pc = "done" THEN parsed_file_info ELSE EmptyFileInfo

ImplementsContract == Contract!Spec
=============================================================================
