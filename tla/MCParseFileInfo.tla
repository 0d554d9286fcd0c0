-------------------------- MODULE MCParseFileInfo --------------------------
(***************************************************************************)
(* A small instance of ParseFileInfo for TLC.  A u32 has 512 values, so a  *)
(* file of the least size is still shorter than the largest chunk size, as *)
(* in the code, and 503, 504 and 511 are the sizes 2^32 - 9, 2^32 - 8 and  *)
(* 2^32 - 1 at which the u32 sum wraps to 0, to 0 and to 8.                *)
(***************************************************************************)
EXTENDS ParseFileInfo

MCU32 == 512

\* The three sizes have 0, 13 and 10 readable bytes behind them: the GUID may be
\* behind the mapping wherever it is behind the file, never, and at its end.
MCPageSize == 16

\* The least size, an odd size, and one with room for one chunk more.
MCDataSizes == {128, 131, 150}

\* A fmt chunk is at least 16 bytes; others have any size.  Sizes are odd and
\* even, end before, at and behind the end of the file, and wrap.
MCChunks ==
    [marker : {"fmt "}, size : {16, 17, 40, 84, 504}]
    \cup [marker : {"data"}, size : {0, 1, 76, 84, 104, 511}]
    \cup [marker : {"other"}, size : {0, 15, 60, 68, 84, 400, 503, 504, 511}]

\* PCM, IEEE float, EXTENSIBLE with each kind of GUID, and an unknown format.
MCFmtFields ==
    {[format_type |-> f[1], guid |-> f[2], channels |-> 2, bits_per_sample |-> 16] :
        f \in {<<1, 0>>, <<3, 0>>, <<2, 1>>, <<Extensible, 1>>,
               <<Extensible, 3>>, <<Extensible, 2>>}}
=============================================================================
