------------------------------ MODULE MCLevel ------------------------------
(***************************************************************************)
(* A small instance of Level for TLC: bytes of four values, so that 256    *)
(* are 2^32; the extremes of every depth and the neighbours of 0.          *)
(***************************************************************************)
EXTENDS Level, TLC

MCPageSize == 16
MCTails == {0}

MCByte == 4
MCThreshold == 600

MCIntSamples == <<0..3, {0, 1, 7, 8, 15}, {0, 1, 31, 32, 63}, {0, 1, 127, 128, 255}>>

\* Zero, at both sides of each threshold, the largest, infinite.
MCSmallestF32 == 2
MCFloatThreshold == 5
MCLargestF32 == 12
MCInfinity == 20
MCFloatSamples == (4 :> {NaN, 0, -5, -6, 12, -20}) @@ (8 :> {NaN, 1, -6, 12, -13, 20})

\* Up to three samples and an incomplete one, in frames of one channel to three,
\* and frames that are not whole.
MCParsedInfos ==
    {[data |-> 28, size |-> bytes * samples + cut, bits_per_sample |-> 8 * bytes,
      data_type |-> type, channels |-> channels, result |-> "SUCCESS"] :
        bytes \in {1, 2, 3, 4, 8}, samples \in 0..3, cut \in 0..1, channels \in 1..3,
        type \in DataTypes}
    \cup {[EmptyFileInfo EXCEPT !.result = "INVALID_DATA"]}
=============================================================================
