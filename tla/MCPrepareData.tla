--------------------------- MODULE MCPrepareData ---------------------------
(***************************************************************************)
(* A small instance of PrepareData for TLC: pages of 16 bytes hold four    *)
(* elements of the copy, so copies of one page and of several occur.       *)
(***************************************************************************)
EXTENDS PrepareData

MCPageSize == 16

\* Nothing behind the payload, part of a sample, and room for any sample.
MCTails == {0, 3, 8}

\* Sizes with and without whole samples and frames, depths in the switch, a
\* depth below a byte, one that is not a multiple of 8, one that is missing in
\* the switch, and every number of channels up to 3.
MCParsedInfos ==
    [data : {28}, size : {0, 1, 3, 5, 6, 8, 12, 16, 18, 24}, data_type : DataTypes,
     bits_per_sample : {4, 8, 12, 16, 24, 32, 40, 64}, channels : 0..3,
     result : {"SUCCESS"}]
    \cup {[EmptyFileInfo EXCEPT !.result = "INVALID_DATA"]}
=============================================================================
