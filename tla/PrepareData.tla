---------------------------- MODULE PrepareData ----------------------------
(***************************************************************************)
(* prepare_data and unload_prepared_data (src/src/prepare_data.c), and the *)
(* level computation of process_file between them (main.c:140-169): the    *)
(* samples of a parsed file are copied out of their frames into one plane  *)
(* per channel, each plane is read in order, and the copy is unmapped.     *)
(*                                                                         *)
(* A sample is represented by its number in the file, so that the copy     *)
(* shows which sample ended up where; the arithmetic on its bytes is left  *)
(* out.  The fields are named as in parsed_file_info_t, prepared_data_t    *)
(* and the two functions.                                                  *)
(***************************************************************************)
EXTENDS FileInfo

CONSTANTS
    ParsedInfos,  \* what parse_file_info may have returned
    PageSize,     \* get_page_size()
    Tails         \* numbers of bytes that can be read behind the payload

ASSUME PageAssumption == PageSize \in Nat \ {0} /\ PageSize % 4 = 0
\* A record of a failure has an empty payload (Rejects in ParseContract).
ASSUME InfosAssumption ==
    /\ ParsedInfos \subseteq ParsedFileInfo
    /\ \A p \in ParsedInfos : p.result # "SUCCESS" => p.size = 0
ASSUME TailsAssumption == Tails \subseteq Nat

VARIABLES
    pc,                \* the part of the code that runs next
    ndebug,            \* Release build: assert() is compiled out
    memory,            \* mmap can provide the anonymous memory asked for
    tail,              \* bytes mapped behind the payload of this file
    parsed_file_info,  \* the argument of prepare_data
    i,                 \* the byte offset of the loop that copies samples
    mapped,            \* bytes of the anonymous mapping `data` points to
    data,              \* its elements
    prepared_data,     \* the record prepare_data returns
    channel, sample,   \* the counters of the loops that compute the level
    seen               \* history: the elements those loops have read

vars == <<pc, ndebug, memory, tail, parsed_file_info, i, mapped, data,
          prepared_data, channel, sample, seen>>

-----------------------------------------------------------------------------
(* Sizes and indices.                                                      *)

Depths == {8, 16, 24, 32, 64}     \* the cases of the switch

AlignSize(size) == ((size + PageSize - 1) \div PageSize) * PageSize

\* bits_per_sample / 8, and the literal sample size of each loop.
BytesPerSample == parsed_file_info.bits_per_sample \div 8

SampleCount == parsed_file_info.size \div BytesPerSample

\* Here and below, an operator named after another with a suffix is a mistaken
\* form of it, which the properties tell from the definition.
SizeToAllocateInSamples == SampleCount

SizeToAllocate == SampleCount * 4

GetDeinterleavedIndexInFrames(byte_offset, channels, size, bytes_per_sample) ==
    byte_offset \div bytes_per_sample

GetDeinterleavedIndexTooFar(byte_offset, channels, size, bytes_per_sample) ==
    ((byte_offset \div bytes_per_sample) % channels)
        * (size \div bytes_per_sample)
    + ((byte_offset \div bytes_per_sample) \div channels)

GetDeinterleavedIndex(byte_offset, channels, size, bytes_per_sample) ==
    ((byte_offset \div bytes_per_sample) % channels)
        * ((size \div bytes_per_sample) \div channels)
    + ((byte_offset \div bytes_per_sample) \div channels)

\* The member of data_value_t a sample is written to, and read from.
WrittenMember(p) ==
    IF \/ p.bits_per_sample = 64
       \/ p.bits_per_sample = 32 /\ p.data_type = "FLOAT"
    THEN "f32" ELSE "i32"

ReadMemberInt(p) == "i32"

ReadMember(p) == IF p.data_type = "INT" THEN "i32" ELSE "f32"

\* An element of data: the sample it holds and the member it was written to.
Sample(k, m) == [sample |-> k, member |-> m]

\* Anonymous memory is zero until it is written.
Zero == [sample |-> -1, member |-> "none"]

NotPrepared ==
    [size |-> 0, channels |-> 0, data_type |-> "INT", result |-> "ERROR"]

Trap == pc' = "trap"       \* SIGSEGV, SIGBUS or SIGFPE ends the process
Abort == pc' = "abort"     \* a failed assertion does

SameInput == UNCHANGED <<ndebug, memory, tail, parsed_file_info>>
SameCopy == UNCHANGED <<i, mapped, data, prepared_data>>

-----------------------------------------------------------------------------
Init ==
    /\ pc = "allocate"
    /\ ndebug \in BOOLEAN
    /\ memory \in BOOLEAN
    /\ tail \in Tails
    /\ parsed_file_info \in ParsedInfos
    /\ i = 0
    /\ mapped = 0
    /\ data = << >>
    /\ prepared_data = NotPrepared
    /\ channel = 0 /\ sample = 0
    /\ seen = {}

\* A record that parse_file_info did not fill: the assertion of a Debug build,
\* or a result that no caller looks at.
Reject ==
    /\ pc = "allocate" /\ parsed_file_info.result # "SUCCESS"
    /\ IF ndebug
       THEN /\ pc' = "measure"
            /\ prepared_data' =
                   [prepared_data EXCEPT !.result = "INVALID_PARSED_FILE_INFO"]
       ELSE Abort /\ UNCHANGED prepared_data
    /\ UNCHANGED <<i, mapped, data, channel, sample, seen>> /\ SameInput

\* size_to_allocate divides by the sample size.  mmap rejects a length of 0;
\* its failure value is not NULL, so a Release build goes on with it.
Allocate ==
    /\ pc = "allocate" /\ parsed_file_info.result = "SUCCESS"
    /\ IF BytesPerSample = 0
       THEN Trap /\ UNCHANGED <<mapped, data>>
       ELSE IF memory /\ SizeToAllocate > 0
            THEN /\ pc' = "deinterleave"
                 /\ mapped' = AlignSize(SizeToAllocate)
                 /\ data' = [n \in 0..(mapped' \div 4 - 1) |-> Zero]
            ELSE /\ IF ndebug THEN pc' = "deinterleave" ELSE Abort
                 /\ UNCHANGED <<mapped, data>>
    /\ UNCHANGED <<i, prepared_data, channel, sample, seen>> /\ SameInput

\* The copy is complete, or there is none: a Debug build stops at a depth that
\* is not in the switch, a Release build takes the zeros for the samples.
FinishCopy ==
    /\ pc = "deinterleave"
    /\ \/ parsed_file_info.bits_per_sample \notin Depths
       \/ i >= parsed_file_info.size
    /\ IF parsed_file_info.bits_per_sample \notin Depths /\ ~ndebug
       THEN Abort /\ UNCHANGED prepared_data
       ELSE /\ pc' = "measure"
            /\ prepared_data' = [size |-> SampleCount,
                                 channels |-> parsed_file_info.channels,
                                 data_type |-> parsed_file_info.data_type,
                                 result |-> "SUCCESS"]
    /\ UNCHANGED <<i, mapped, data, channel, sample, seen>> /\ SameInput

\* One iteration of the loop of the file's depth.  An access outside the
\* mappings traps, unless another mapping happens to be there.
Deinterleave ==
    /\ pc = "deinterleave"
    /\ parsed_file_info.bits_per_sample \in Depths
    /\ i < parsed_file_info.size
    /\ LET index == GetDeinterleavedIndex(i, parsed_file_info.channels,
                                          parsed_file_info.size, BytesPerSample)
           readable == i + BytesPerSample <= parsed_file_info.size + tail
           value == Sample(i \div BytesPerSample, WrittenMember(parsed_file_info))
       IN
       \/ /\ parsed_file_info.channels = 0 \/ mapped = 0
          /\ Trap /\ UNCHANGED <<i, data>>
       \/ /\ parsed_file_info.channels > 0 /\ mapped > 0
          /\ ~readable \/ index \notin DOMAIN data
          /\ Trap /\ UNCHANGED <<i, data>>
       \/ /\ parsed_file_info.channels > 0 /\ mapped > 0
          /\ data' = IF index \in DOMAIN data
                     THEN [data EXCEPT ![index] = value] ELSE data
          /\ i' = i + BytesPerSample
          /\ UNCHANGED pc
    /\ UNCHANGED <<mapped, prepared_data, channel, sample, seen>> /\ SameInput

\* sample_count_channel divides by the number of channels.
Measure ==
    /\ pc = "measure"
    /\ IF prepared_data.channels = 0 THEN Trap ELSE pc' = "analyze"
    /\ UNCHANGED <<channel, sample, seen>> /\ SameCopy /\ SameInput

SampleCountChannelLess1 == prepared_data.size \div prepared_data.channels - 1

SampleCountChannel == prepared_data.size \div prepared_data.channels

\* One iteration of the inner loop over the samples of a channel.
AnalyzeSample ==
    /\ pc = "analyze" /\ channel < prepared_data.channels
    /\ sample < SampleCountChannel
    /\ LET sample_index == sample + channel * SampleCountChannel IN
       IF sample_index \in DOMAIN data
       THEN /\ seen' = seen \cup {[element |-> data[sample_index],
                                   as |-> ReadMember(prepared_data)]}
            /\ sample' = sample + 1
            /\ UNCHANGED pc
       ELSE Trap /\ UNCHANGED <<seen, sample>>
    /\ UNCHANGED channel /\ SameCopy /\ SameInput

NextChannelBy(step) ==
    /\ pc = "analyze" /\ channel < prepared_data.channels
    /\ sample >= SampleCountChannel
    /\ channel' = channel + step /\ sample' = 0
    /\ UNCHANGED <<pc, seen>> /\ SameCopy /\ SameInput

NextChannelNotCounted == NextChannelBy(0)

NextChannel == NextChannelBy(1)

\* The level is computed and printed.
Report ==
    /\ pc = "analyze" /\ channel >= prepared_data.channels
    /\ pc' = "unload"
    /\ UNCHANGED <<channel, sample, seen>> /\ SameCopy /\ SameInput

\* unload_prepared_data passes the number of elements as the number of bytes.
\* When there is no mapping munmap fails: a Debug build has stopped before.
UnloadPreparedData ==
    /\ pc = "unload" /\ pc' = "done"
    /\ mapped' = IF mapped = 0 THEN 0 ELSE mapped - AlignSize(prepared_data.size)
    /\ data' = << >>
    /\ UNCHANGED <<i, prepared_data, channel, sample, seen>> /\ SameInput

Next ==
    \/ Reject
    \/ Allocate
    \/ Deinterleave
    \/ FinishCopy
    \/ Measure
    \/ AnalyzeSample
    \/ NextChannel
    \/ Report
    \/ UnloadPreparedData

\* One thread runs the functions from the first line to the last.
Spec == Init /\ [][Next]_vars /\ WF_vars(Next)

-----------------------------------------------------------------------------
(* What must hold of the copy and of the level.                            *)

Elements == [sample : Nat, member : {"i32", "f32"}] \cup {Zero}

TypeOK ==
    /\ pc \in {"allocate", "deinterleave", "measure", "analyze", "unload",
               "done", "trap", "abort"}
    /\ ndebug \in BOOLEAN /\ memory \in BOOLEAN
    /\ tail \in Tails
    /\ parsed_file_info \in ParsedInfos
    /\ i \in Nat
    /\ mapped \in Nat /\ mapped % PageSize = 0
    /\ data \in [DOMAIN data -> Elements]
    /\ DOMAIN data \in {{}, 0..(mapped \div 4 - 1)}
    /\ prepared_data \in [size : Nat, channels : Nat, data_type : DataTypes,
                          result : {"SUCCESS", "ERROR", "INVALID_PARSED_FILE_INFO"}]
    /\ channel \in Nat /\ sample \in Nat
    /\ seen \subseteq [element : Elements, as : {"i32", "f32"}]

\* Samples the loop copies (a last one may be incomplete), whole frames, and
\* the samples behind the last whole frame.
CopiedSamples ==
    (parsed_file_info.size + BytesPerSample - 1) \div BytesPerSample

Frames == SampleCount \div parsed_file_info.channels

Ragged == CopiedSamples - Frames * parsed_file_info.channels

Incomplete == parsed_file_info.size % BytesPerSample # 0

\* The file has samples that prepare_data copies.
HasSamples ==
    parsed_file_info.size > 0 /\ parsed_file_info.bits_per_sample \in Depths

\* The copy writes no element behind the size_to_allocate bytes it asked for,
\* except the incomplete last sample of a mono file: that goes one behind.
WritesInBounds ==
    \A n \in DOMAIN data :
        data[n] # Zero =>
            \/ n < SampleCount
            \/ n = SampleCount /\ parsed_file_info.channels = 1 /\ Incomplete

\* When prepare_data returns, sample t of channel c is element c * Frames + t:
\* the planes process_file reads (main.c:146-149).  The samples behind the last
\* whole frame have no place of their own: number r of them replaces the first
\* sample of channel r + 1.
PlanarLayout ==
    pc \in {"measure", "analyze", "unload"} /\ HasSamples =>
        LET channels == parsed_file_info.channels IN
        \A c \in 0..(channels - 1), t \in 0..(Frames - 1) :
            data[c * Frames + t].sample =
                IF t = 0 /\ c \in 1..Ragged THEN Frames * channels + c - 1
                                            ELSE t * channels + c

\* Samples the level does not depend on: all of a file without a whole frame;
\* those whose place a sample behind the last frame took; and that sample, if
\* there is no next channel whose first sample it could replace.
Lost(k) ==
    LET channels == parsed_file_info.channels IN
    \/ Frames = 0
    \/ k \in 1..Ragged /\ k < channels
    \/ k >= Frames * channels + channels - 1

\* The level is taken over every sample of the file but those that are Lost; in
\* a file of whole frames that is every sample.
LevelCoversFile ==
    pc \in {"unload", "done"} /\ HasSamples =>
        {e.element.sample : e \in seen} =
            {k \in 0..(CopiedSamples - 1) : ~Lost(k)}

\* The format a depth is commented with in the switch (prepare_data.c:49-106).
CommentedFormat(p) ==
    \/ p.bits_per_sample \in {8, 16, 24} /\ p.data_type = "INT"
    \/ p.bits_per_sample = 32
    \/ p.bits_per_sample = 64 /\ p.data_type = "FLOAT"

\* The level rests on samples of the file, each read from the member of the
\* union it was written to.  Only a Release build that meets an unknown depth
\* reads zeros, and only a format the comments rule out mixes the members up.
ReadAsWritten ==
    \A e \in seen :
        \/ e.element = Zero /\ ndebug
           /\ parsed_file_info.bits_per_sample \notin Depths
        \/ e.element # Zero
           /\ (e.as = e.element.member <=> CommentedFormat(parsed_file_info))

\* The stages end, one way or the other.
Ends == <>(pc \in {"done", "trap", "abort"})

\* What the caller sees is what PrepareContract promises: a well formed file is
\* copied, measured and reported in both builds, and the process is stopped
\* only by a file that is not, or for want of memory.
Contract == INSTANCE PrepareContract WITH
    info <- parsed_file_info,
    stage <- CASE pc \in {"allocate", "deinterleave"} -> "parsed"
               [] pc \in {"measure", "analyze"} -> "prepared"
               [] pc \in {"unload", "done"} -> "reported"
               [] OTHER -> "stopped"

ImplementsContract == Contract!Spec

-----------------------------------------------------------------------------
(* What assertions say and the code does not ensure.                       *)

\* Behind the first line of prepare_data the assertions on the way say that a
\* mapping succeeds (memory.h:41) and that the default case of the switch is not
\* reached (prepare_data.c:117): where there is memory for the copy, none stops
\* the process on a file that was parsed.
ParsedIsCopied ==
    pc = "abort" /\ memory => parsed_file_info.result # "SUCCESS"
=============================================================================
