------------------------------- MODULE Level -------------------------------
(***************************************************************************)
(* PrepareData with the values of the samples: their conversion to 32 bits *)
(* (prepare_data.c:48-115), the maximum of the magnitudes                  *)
(* (main.c:142-169) and what is reported of it (main.c:66-79).             *)
(*                                                                         *)
(* The copy of PrepareData shows which sample is in an element, so what is *)
(* in it is the converted value of that sample.  A byte has Byte values    *)
(* instead of 256.  A float is a number in units of which the threshold of *)
(* f32_to_db is FloatThreshold, or NaN; its rounding is left out.  A level *)
(* is a magnitude instead of its logarithm.  Files of the depths and types *)
(* that the comments of the switch name are modelled here.                 *)
(***************************************************************************)
EXTENDS PrepareData

CONSTANTS
    Byte,             \* the number of values of a byte
    Threshold,        \* the inverse of 0.0000000001, main.c:68
    FloatThreshold,   \* 0.0000000001 in main.c:78
    LargestF32, SmallestF32, Infinity,
    NaN,
    IntSamples,       \* what the bytes of a sample may be, by their number
    FloatSamples      \* the same of floats

\* The number of values of one byte to four.
Values == <<Byte, Byte * Byte, Byte * Byte * Byte, Byte * Byte * Byte * Byte>>

U32 == Values[4]

I32Max == U32 \div 2 - 1

ASSUME ByteAssumption == Byte \in Nat \ {0} /\ Byte % 2 = 0
\* The sample 1 of 2^31 is above the threshold.
ASSUME ThresholdAssumption == Threshold \in Nat /\ Threshold > I32Max
ASSUME FloatAssumption ==
    /\ {SmallestF32, FloatThreshold, LargestF32, Infinity} \subseteq Nat
    /\ 0 < SmallestF32 /\ SmallestF32 < FloatThreshold
    /\ FloatThreshold < LargestF32 /\ LargestF32 < Infinity
    /\ NaN \notin Int
\* Floats go to both infinities.
ASSUME SamplesAssumption ==
    /\ \A k \in 1..4 : IntSamples[k] \subseteq 0..(Values[k] - 1)
    /\ \A k \in {4, 8} : FloatSamples[k] \subseteq {NaN} \cup (-Infinity)..Infinity

VARIABLES
    file,        \* the samples of the file
    max_value,   \* the largest magnitude so far
    level        \* what process_file reports

values == <<file, max_value, level>>

Samples ==
    IF parsed_file_info.data_type = "INT" THEN IntSamples[BytesPerSample]
                                          ELSE FloatSamples[BytesPerSample]

\* A last sample that is incomplete is completed by the bytes behind it.
LevelInit ==
    /\ Init
    /\ \/ parsed_file_info.result # "SUCCESS" /\ file = << >>
       \/ /\ parsed_file_info.result = "SUCCESS"
          /\ CommentedFormat(parsed_file_info)
          /\ file \in [0..(CopiedSamples - 1) -> Samples]
    /\ max_value = 0 /\ level = 0

-----------------------------------------------------------------------------
(* The value of a sample in the copy.                                      *)

Magnitude(x) == IF x < 0 THEN -x ELSE x

\* The value of k bytes as a signed integer, and of any integer as a u32.
ToSigned(x, k) == IF x >= Values[k] \div 2 THEN x - Values[k] ELSE x

ToU32(x) == x % U32

ToI32(x) == ToSigned(ToU32(x), 4)

\* The 24-bit loop sets the bits above the sign itself.
SignExtended(x) ==
    IF x >= Values[3] \div 2 THEN ToI32(x + (U32 - Values[3])) ELSE x

\* 8, 16 and 24 bits are shifted, as u32, to the top of the i32; 32 are copied.
ShiftsAs16 == <<Values[3], Values[2], Values[2], 1>>

Shifts == <<Values[3], Values[2], Values[1], 1>>

ConvertInt(x, k) ==
    LET value == IF k = 3 THEN SignExtended(x) ELSE ToSigned(x, k) IN
    ToI32(ToU32(value) * Shifts[k])

\* (f32) of a f64: beyond the largest f32 it is infinite, below the smallest 0.
Narrow(x) ==
    IF x = NaN THEN NaN
    ELSE IF Magnitude(x) < SmallestF32 THEN 0
    ELSE IF Magnitude(x) <= LargestF32 THEN x
    ELSE IF x < 0 THEN -Infinity ELSE Infinity

ValueOf(k) ==
    IF parsed_file_info.data_type = "INT" THEN ConvertInt(file[k], BytesPerSample)
    ELSE IF BytesPerSample = 8 THEN Narrow(file[k]) ELSE file[k]

-----------------------------------------------------------------------------
(* The level.                                                              *)

\* (u32)llabs((i64)value), in an i64 maximum.  By mistake, in an i32.
CurrentI32(value) == ToI32(Magnitude(value))

Current(value) == ToU32(Magnitude(value))

\* fabsf of NaN is NaN, which no comparison calls larger.  By mistake, the
\* comparison is the other way round.
LargerOrNaN(value, max) == value = NaN \/ max = NaN \/ Magnitude(value) > max

Larger(value, max) == value # NaN /\ Magnitude(value) > max

MaxWith(value) ==
    IF prepared_data.data_type = "INT"
    THEN IF Current(value) > max_value THEN Current(value) ELSE max_value
    ELSE IF ~Larger(value, max_value) THEN max_value
         ELSE IF value = NaN THEN NaN ELSE Magnitude(value)

MeasureSample ==
    /\ AnalyzeSample
    /\ max_value' =
           IF pc' = "analyze"
           THEN MaxWith(ValueOf(data[sample + channel * SampleCountChannel].sample))
           ELSE max_value
    /\ UNCHANGED <<file, level>>

\* (i32)max_value wraps for 2^31; fabs makes it positive again.  0 stands for the
\* -200 dB of a level below the threshold.
I32ToDb(linear) ==
    IF Magnitude(linear) * Threshold > I32Max THEN Magnitude(linear) ELSE 0

F32ToDb(linear) ==
    IF linear # NaN /\ linear > FloatThreshold THEN linear ELSE 0

ReportLevel ==
    /\ Report
    /\ level' = IF prepared_data.data_type = "INT" THEN I32ToDb(ToI32(max_value))
                                                   ELSE F32ToDb(max_value)
    /\ UNCHANGED <<file, max_value>>

\* The steps that do not measure.
OtherStep ==
    /\ \/ Reject
       \/ Allocate
       \/ Deinterleave
       \/ FinishCopy
       \/ Measure
       \/ NextChannel
       \/ UnloadPreparedData
    /\ UNCHANGED values

LevelNext == OtherStep \/ MeasureSample \/ ReportLevel

LevelSpec == LevelInit /\ [][LevelNext]_<<vars, values>>

-----------------------------------------------------------------------------
(* What must hold of the values.                                           *)

LevelTypeOK ==
    /\ TypeOK
    /\ file \in [DOMAIN file -> Int \cup {NaN}]
    /\ max_value \in Nat /\ level \in Nat
    /\ parsed_file_info.data_type = "INT" => max_value <= I32Max + 1

\* The value of a sample as a fraction of full scale, in units of the 32 bits;
\* the loops get there through a u32 (prepare_data.c:57-84).
Scaled(x) == ToSigned(x, BytesPerSample) * (U32 \div Values[BytesPerSample])

\* Every element of the copy is its sample, scaled to full scale without loss,
\* sign and extremes included.
ScaledExactly ==
    parsed_file_info.data_type = "INT" =>
        \A n \in DOMAIN data :
            data[n] # Zero =>
                ValueOf(data[n].sample) = Scaled(file[data[n].sample])

IsLargest(x, numbers) ==
    (\A y \in numbers : y <= x) /\ (x \in numbers \/ (x = 0 /\ numbers = {}))

Reported == pc \in {"unload", "done"} /\ HasSamples

KeptSamples == {k \in 0..(CopiedSamples - 1) : ~Lost(k)}

\* The level of a file of integers is the magnitude of its loudest sample but
\* those that are Lost: also of the most negative one, whose magnitude no i32
\* holds (main.c:152-155), and of a single step, so only zeros are silent
\* (main.c:68).
LoudestReported ==
    Reported /\ parsed_file_info.data_type = "INT" =>
        IsLargest(level, {Magnitude(Scaled(file[k])) : k \in KeptSamples})

Numbers == {k \in KeptSamples : file[k] # NaN}

\* NaN samples never hide the loudest number of a file of floats, wherever they
\* stand, and one of NaN alone is silent (main.c:164-166).  A f64 sample beyond
\* the range of a f32 makes the level infinite (prepare_data.c:113).
NumbersReported ==
    Reported /\ parsed_file_info.data_type = "FLOAT" =>
        \E loudest \in {0} \cup {Magnitude(file[k]) : k \in Numbers} :
           /\ IsLargest(loudest, {Magnitude(file[k]) : k \in Numbers})
           /\ level = IF BytesPerSample = 8 /\ loudest > LargestF32 THEN Infinity
                      ELSE IF loudest > FloatThreshold THEN loudest ELSE 0
=============================================================================
