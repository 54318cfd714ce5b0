----------------------------- MODULE Recording ------------------------------
(***************************************************************************)
(* What the recorder promises about its video file, without threads: the   *)
(* file is written in takes, one at a time; a take that ends leaves the    *)
(* file closed; once the recorder has reported the recording as finished   *)
(* no take begins again, so the reported file is never truncated.          *)
(***************************************************************************)

VARIABLES
  file,  \* "absent", "partial" (being written) or "closed"
  done   \* the recorder has reported that the recording is finished

Init == file = "absent" /\ done = FALSE

BeginTake == ~done /\ file # "partial" /\ file' = "partial" /\ UNCHANGED done

EndTake == file = "partial" /\ file' = "closed" /\ UNCHANGED done

Report == ~done /\ file # "partial" /\ done' = TRUE /\ UNCHANGED file

Next == BeginTake \/ EndTake \/ Report

Spec == Init /\ [][Next]_<<file, done>>
=============================================================================
