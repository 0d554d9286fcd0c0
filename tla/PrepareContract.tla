-------------------------- MODULE PrepareContract --------------------------
(***************************************************************************)
(* What becomes of a parsed file, as its caller sees it: prepare_data      *)
(* returns, process_file measures what it returned and reports a level, or *)
(* the process is stopped on the way (a failed assertion of a Debug build, *)
(* or a CPU trap).  PrepareData, the loops over the samples, implements    *)
(* this; ProcessFile uses its steps in place of the loops.                 *)
(***************************************************************************)
EXTENDS FileInfo

VARIABLES
    info,     \* the parsed_file_info_t the caller passes
    memory,   \* whether mmap can provide the anonymous memory asked for
    stage     \* "parsed", "prepared", "reported" or "stopped"

vars == <<info, memory, stage>>

Depths == {8, 16, 24, 32, 64}

BytesPerSample(p) == p.bits_per_sample \div 8

\* Nothing in a well formed file stops the process.
WellFormed(p) ==
    /\ p.result = "SUCCESS"
    /\ p.bits_per_sample \in Depths
    /\ p.channels >= 1
    /\ p.size > 0 /\ p.size % BytesPerSample(p) = 0

\* prepare_data returns for these: a record it rejects, or one whose sample
\* size is not 0 and whose samples, if it copies any, have somewhere to go.
CopiesSamples(p) == p.size > 0 /\ p.bits_per_sample \in Depths

Preparable(p, mem) ==
    \/ p.result # "SUCCESS"
    \/ /\ p.bits_per_sample >= 8
       /\ CopiesSamples(p) =>
              mem /\ p.channels >= 1 /\ p.size >= BytesPerSample(p)

\* The level is computed for these: dividing by the channels does not trap.
Measurable(p) == p.result = "SUCCESS" /\ p.channels >= 1

Init ==
    /\ info \in ParsedFileInfo
    /\ memory \in BOOLEAN
    /\ stage = "parsed"

Prepare ==
    stage = "parsed" /\ Preparable(info, memory) /\ stage' = "prepared"

Report == stage = "prepared" /\ Measurable(info) /\ stage' = "reported"

Stop ==
    /\ stage \in {"parsed", "prepared"}
    /\ ~(WellFormed(info) /\ memory)
    /\ stage' = "stopped"

Next == (Prepare \/ Report \/ Stop) /\ UNCHANGED <<info, memory>>

Spec == Init /\ [][Next]_vars
=============================================================================
