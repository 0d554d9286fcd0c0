------------------------------ MODULE FileInfo ------------------------------
(***************************************************************************)
(* The types the three stages of the analyzer hand to each other           *)
(* (src/src/types.h), and the sizes of the structures a WAV file is read   *)
(* through.  A file is a run of bytes; an offset into it stands for the    *)
(* pointer loaded_file->data + offset.                                     *)
(***************************************************************************)
EXTENDS Integers

\* load_file accepts no smaller file (LOAD_FILE_TOO_SMALL).
MinFileSize == 128

RiffHeaderSize == 12      \* sizeof(wave_riff_header_t)
ChunkHeaderSize == 8      \* sizeof(wave_generic_chunk_t)
FmtChunkSize == 24        \* sizeof(wave_fmt_chunk_t)
GuidEnd == 36             \* end of the four GUID bytes: 8 + 24 + sizeof(u32)

Extensible == 65534       \* WAVE_FORMAT_EXTENSIBLE

\* A file is mapped in whole pages: so many bytes can be read behind its end.
BytesBehind(size, page_size) == (page_size - (size % page_size)) % page_size

DataTypes == {"INT", "FLOAT"}

LoadResults == {"SUCCESS", "ERROR", "INVALID_FILE", "MAP_FAILED", "TOO_SMALL"}

ParseResults == {"SUCCESS", "ERROR", "INVALID_RIFF", "INVALID_FMT",
                 "INVALID_DATA", "UNSUPPORTED_FORMAT"}

\* loaded_file_t without the pointer and the name.
LoadedFile == [result : LoadResults, data_size : Nat]

\* parsed_file_info_t without the fields that are only passed on
\* (loaded_file, sample_rate); data is the offset of the payload.
ParsedFileInfo ==
    [data : Nat, size : Nat, bits_per_sample : Nat, data_type : DataTypes,
     channels : Nat, result : ParseResults]

\* parsed_file_info_t as parse_file_info declares it: { 0 }, then ERROR.
EmptyFileInfo ==
    [data |-> 0, size |-> 0, bits_per_sample |-> 0, data_type |-> "INT",
     channels |-> 0, result |-> "ERROR"]
=============================================================================
