---------------------------- MODULE CallContract ----------------------------
(***************************************************************************)
(* process_file as main sees it: a call passes over a path for its suffix  *)
(* and returns, or counts the file as processed and returns, or the        *)
(* process ends inside the call.  ProcessFile implements this; Main uses   *)
(* its steps for the calls it makes.                                       *)
(***************************************************************************)
EXTENDS Naturals

VARIABLES
    returned,   \* calls that returned
    reported,   \* files counted in benchmark_files_processed
    ended       \* the process stopped or hangs inside a call

vars == <<returned, reported, ended>>

Init == returned = 0 /\ reported = 0 /\ ended = FALSE

Pass == ~ended /\ returned' = returned + 1 /\ UNCHANGED <<reported, ended>>

Report ==
    /\ ~ended /\ returned' = returned + 1 /\ reported' = reported + 1
    /\ UNCHANGED ended

End == ~ended /\ ended' = TRUE /\ UNCHANGED <<returned, reported>>

Next == Pass \/ Report \/ End

Spec == Init /\ [][Next]_vars
=============================================================================
