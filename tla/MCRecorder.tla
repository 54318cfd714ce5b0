----------------------------- MODULE MCRecorder -----------------------------
(* Two threads that may both call OnStop, any number of times: the exit     *)
(* handler is entered by the answer thread and by the window thread.        *)
EXTENDS Recorder
=============================================================================
