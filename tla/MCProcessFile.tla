--------------------------- MODULE MCProcessFile ---------------------------
(***************************************************************************)
(* A small instance of ProcessFile for TLC.                                *)
(***************************************************************************)
EXTENDS ProcessFile

\* Three calls: a file can be processed after one that left something behind.
MCMaxCalls == 3

\* An empty file, the largest that is too small, the least size, which fills its
\* last page, and a larger one with 12 mapped bytes behind it.
MCFileSizes == {0, 127, 128, 212}

MCPageSize == 16

Payload(data, size, bits, channels) ==
    [EmptyFileInfo EXCEPT !.data = data, !.size = size, !.bits_per_sample = bits,
                          !.channels = channels, !.result = "SUCCESS"]

\* Rejections; payloads that end with the file and before it, with a copy of one
\* page and of several; an empty one; half a sample; a depth of less than a byte
\* and one missing in prepare_data; no channels.
MCParsedInfos ==
    {[EmptyFileInfo EXCEPT !.result = r] :
        r \in {"INVALID_FMT", "INVALID_DATA", "UNSUPPORTED_FORMAT"}}
    \cup {Payload(44, 84, 16, 2), Payload(44, 168, 24, 2), Payload(44, 8, 32, 1),
          Payload(44, 0, 16, 2), Payload(44, 1, 16, 1), Payload(44, 8, 4, 1),
          Payload(44, 12, 12, 1), Payload(44, 8, 16, 0)}
=============================================================================
