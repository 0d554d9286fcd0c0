--------------------------- MODULE ParseContract ---------------------------
(***************************************************************************)
(* What parse_file_info promises its caller, as one step: given a loaded   *)
(* file it returns, and either the result is a failure and the payload     *)
(* fields are untouched, or the payload it names lies inside the file; or, *)
(* for a file that fills its last page up to fewer than 12 bytes, the      *)
(* process is stopped.  ParseFileInfo, the chunk scan of the code,         *)
(* implements this; ProcessFile uses its outcomes in place of the scan.    *)
(***************************************************************************)
EXTENDS FileInfo

CONSTANT PageSize

VARIABLES data_size, returned, trapped, parsed

vars == <<data_size, returned, trapped, parsed>>

\* A failure leaves the payload empty; the scan never yields INVALID_RIFF
\* (no code compares the RIFF markers) and never returns the initial ERROR.
Rejects(p) ==
    /\ p.result \in {"INVALID_FMT", "INVALID_DATA", "UNSUPPORTED_FORMAT"}
    /\ p.data = 0 /\ p.size = 0 /\ p.bits_per_sample = 0 /\ p.channels = 0

\* Success: a riff header, a fmt header and a data header come before the
\* payload, and the payload ends inside the file.
Accepts(p, size) ==
    /\ p.result = "SUCCESS"
    /\ p.data >= RiffHeaderSize + 2 * ChunkHeaderSize
    /\ p.data + p.size <= size

Outcome(p, size) == p \in ParsedFileInfo /\ (Rejects(p) \/ Accepts(p, size))

\* The GUID is read behind the bytes of the fmt chunk there is room for: behind
\* the file, and, if its last page ends too soon, behind the mapping.
MayTrap(size) == BytesBehind(size, PageSize) < GuidEnd - FmtChunkSize

Init ==
    /\ data_size \in Nat /\ data_size >= MinFileSize
    /\ returned = FALSE
    /\ trapped = FALSE
    /\ parsed = EmptyFileInfo

Running == ~returned /\ ~trapped

Return ==
    /\ Running
    /\ returned' = TRUE
    /\ Outcome(parsed', data_size)
    /\ UNCHANGED <<data_size, trapped>>

Trap ==
    /\ Running
    /\ MayTrap(data_size)
    /\ trapped' = TRUE
    /\ UNCHANGED <<data_size, returned, parsed>>

Next == Return \/ Trap

Spec == Init /\ [][Next]_vars
=============================================================================
