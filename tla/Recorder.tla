------------------------------ MODULE Recorder ------------------------------
(***************************************************************************)
(* The screen recorder screen2swf.dll as OSCShellApp uses it: OnRecordEx   *)
(* is called once, starts a RecordAVIThread and a CheckFreeTimesThread,    *)
(* and any thread of the process may call OnStop, which asks the recording *)
(* thread to finish through the plain global "recordstate" and waits for   *)
(* the manual-reset event hFinishEvent for at most a minute.  Nothing is   *)
(* locked: the code is cut into steps wherever another thread could tell.  *)
(*                                                                         *)
(* A recording thread whose AVIStreamWrite fails restarts the recording    *)
(* once with the codec "MSVC"; a thread that cannot open its file or its   *)
(* streams reads the local variable "error" before it is initialised.      *)
(* Pixels, cursors, audio and frame times are left out.                    *)
(***************************************************************************)
EXTENDS Integers, FiniteSets

CONSTANT Callers  \* the threads that may call OnStop

VARIABLES
  recordstate,    \* global: 1 while a recording is wanted
  recordpaused,   \* global: 1 while the user is idle and no frame is taken
  msvc,           \* compfccHandler is 'MSVC': the fallback codec is in use
  hFinishEvent,   \* the handle of the finish event: "NULL" or "open"
  signalled,      \* the state of the (manual-reset) event object
  starter,        \* program counter of the OnRecord call
  th,             \* th[t]: program counter of the t-th RecordAVIThread
  error,          \* error[t]: the local variable "error" of RecordVideo
  pfile,          \* pfile[t]: thread t has the AVI file open for writing
  avi,            \* what the AVI file on disk looks like
  idle,           \* idle[t]: program counter of the t-th CheckFreeTimesThread
  stop,           \* stop[c]: program counter of caller c inside OnStop
  result          \* result[c]: how c's last OnStop ended

recVars == <<recordstate, recordpaused, msvc, hFinishEvent, signalled, starter,
             th, error, pfile, avi, idle, stop, result>>

\* OnRecordStart runs at most twice: from OnRecord and from the one restart.
Threads == 1..2

Live(t) == th[t] \notin {"none", "ended"}

StarterPc == {"idle", "created", "done"}
ThreadPc == {"none", "new", "stream", "loop", "body", "cleanup", "decide",
             "restart", "generic", "ended"}
IdlePc == {"none", "loop", "check", "ended"}
StopPc == {"idle", "reset", "interrupt", "wait", "blocked", "close"}
StopResult == {"none", "notrecording", "signalled", "timeout", "failed"}

(* Type correctness of the recorder's globals and program counters. *)
TypeOK ==
  /\ recordstate \in 0..1
  /\ recordpaused \in 0..1
  /\ msvc \in BOOLEAN
  /\ hFinishEvent \in {"NULL", "open"}
  /\ signalled \in BOOLEAN
  /\ starter \in StarterPc
  /\ th \in [Threads -> ThreadPc]
  /\ error \in [Threads -> 0..1]
  /\ pfile \in [Threads -> BOOLEAN]
  /\ avi \in {"absent", "partial", "closed"}
  /\ idle \in [Threads -> IdlePc]
  /\ stop \in [Callers -> StopPc]
  /\ result \in [Callers -> StopResult]

RecInit ==
  /\ recordstate = 0
  /\ recordpaused = 0
  /\ msvc = FALSE
  /\ hFinishEvent = "NULL"
  /\ signalled = FALSE
  /\ starter = "idle"
  /\ th = [t \in Threads |-> "none"]
  /\ error = [t \in Threads |-> 0]
  /\ pfile = [t \in Threads |-> FALSE]
  /\ avi = "absent"
  /\ idle = [t \in Threads |-> "none"]
  /\ stop = [c \in Callers |-> "idle"]
  /\ result = [c \in Callers |-> "none"]

-----------------------------------------------------------------------------
(* Win32 events, from how OnStop, OnRecord and RecordVideo use them. *)

\* SetEvent releases the threads that wait at that moment and leaves the event
\* set; on a handle that is already closed and NULL it fails and does nothing.
SetEvent ==
  IF hFinishEvent = "open"
  THEN /\ signalled' = TRUE
       /\ stop' = [c \in Callers |-> IF stop[c] = "blocked" THEN "close" ELSE stop[c]]
       /\ result' = [c \in Callers |-> IF stop[c] = "blocked" THEN "signalled" ELSE result[c]]
  ELSE UNCHANGED <<signalled, stop, result>>

ResetEvent ==
  signalled' = (signalled /\ hFinishEvent # "open")

-----------------------------------------------------------------------------
(* Starting. *)

\* The two threads OnRecordStart creates run in the first free slot.
OnRecordStart ==
  \E t \in Threads :
    /\ th[t] = "none"
    /\ \A s \in Threads : s < t => th[s] # "none"
    /\ recordstate' = 1
    /\ th' = [s \in Threads |-> IF s = t THEN "new"
                                ELSE IF th[s] = "restart" THEN "ended" ELSE th[s]]
    /\ idle' = [idle EXCEPT ![t] = "loop"]

\* OnRecord: the finish event is created before anything else; a pause flag
\* left set makes the call report a finished recording and return.
OnRecord ==
  /\ starter = "idle"
  /\ hFinishEvent' = "open"
  /\ IF recordpaused = 1
     THEN /\ recordpaused' = 0
          /\ signalled' = TRUE
          /\ starter' = "done"
     ELSE /\ signalled' = FALSE
          /\ starter' = "created"
          /\ UNCHANGED recordpaused
  /\ UNCHANGED <<recordstate, msvc, th, error, pfile, avi, idle, stop, result>>

OnRecordBegin ==
  /\ starter = "created"
  /\ OnRecordStart
  /\ starter' = "done"
  /\ UNCHANGED <<recordpaused, msvc, hFinishEvent, signalled, error, pfile, avi,
                 stop, result>>

-----------------------------------------------------------------------------
(* RecordVideo, run by the t-th RecordAVIThread. *)

\* AVIFileOpen creates (and so truncates) the file, or fails.  On a failure
\* "error" has never been assigned: whether it reads as 1 is not determined.
OpenFile(t) ==
  /\ th[t] = "new"
  /\ \/ /\ th' = [th EXCEPT ![t] = "stream"]
        /\ pfile' = [pfile EXCEPT ![t] = TRUE]
        /\ avi' = "partial"
        /\ UNCHANGED error
     \/ /\ th' = [th EXCEPT ![t] = "cleanup"]
        /\ \E e \in 0..1 : error' = [error EXCEPT ![t] = e]
        /\ UNCHANGED <<pfile, avi>>
  /\ UNCHANGED <<recordstate, recordpaused, msvc, hFinishEvent, signalled, starter,
                 idle, stop, result>>

\* The stream, its compressor and its format; a failure jumps to the same label.
MakeStreams(t) ==
  /\ th[t] = "stream"
  /\ \/ /\ th' = [th EXCEPT ![t] = "loop"]
        /\ error' = [error EXCEPT ![t] = 0]
     \/ /\ th' = [th EXCEPT ![t] = "cleanup"]
        /\ \E e \in 0..1 : error' = [error EXCEPT ![t] = e]
  /\ UNCHANGED <<recordstate, recordpaused, msvc, hFinishEvent, signalled, starter,
                 pfile, avi, idle, stop, result>>

\* Mutant of LoopTest: a paused recording does not look at recordstate.
PausedLoopTest(t) ==
  /\ th[t] = "loop"
  /\ th' = [th EXCEPT ![t] = IF recordstate = 1 \/ recordpaused = 1 THEN "body" ELSE "cleanup"]
  /\ UNCHANGED <<recordstate, recordpaused, msvc, hFinishEvent, signalled, starter,
                 error, pfile, avi, idle, stop, result>>

\* while (recordstate)
LoopTest(t) ==
  /\ th[t] = "loop"
  /\ th' = [th EXCEPT ![t] = IF recordstate = 1 THEN "body" ELSE "cleanup"]
  /\ UNCHANGED <<recordstate, recordpaused, msvc, hFinishEvent, signalled, starter,
                 error, pfile, avi, idle, stop, result>>

\* One pass: a frame is written unless the recording is paused, or the write
\* fails and the loop is left with error = 1.
WriteFrame(t) ==
  /\ th[t] = "body"
  /\ \/ /\ th' = [th EXCEPT ![t] = "loop"]
        /\ UNCHANGED error
     \/ /\ recordpaused = 0
        /\ th' = [th EXCEPT ![t] = "cleanup"]
        /\ error' = [error EXCEPT ![t] = 1]
  /\ UNCHANGED <<recordstate, recordpaused, msvc, hFinishEvent, signalled, starter,
                 pfile, avi, idle, stop, result>>

\* Mutant of CloseFile: a failed recording jumps over AVIFileClose.
CloseFileOnSuccess(t) ==
  /\ th[t] = "cleanup"
  /\ th' = [th EXCEPT ![t] = "decide"]
  /\ pfile' = [pfile EXCEPT ![t] = pfile[t] /\ error[t] = 1]
  /\ avi' = IF pfile[t] /\ error[t] # 1 THEN "closed" ELSE avi
  /\ UNCHANGED <<recordstate, recordpaused, msvc, hFinishEvent, signalled, starter,
                 error, idle, stop, result>>

\* Mutant of CloseFile: a successful recording is converted while it is still open.
CloseFileOnError(t) ==
  /\ th[t] = "cleanup"
  /\ th' = [th EXCEPT ![t] = "decide"]
  /\ pfile' = [pfile EXCEPT ![t] = pfile[t] /\ error[t] # 1]
  /\ avi' = IF pfile[t] /\ error[t] = 1 THEN "closed" ELSE avi
  /\ UNCHANGED <<recordstate, recordpaused, msvc, hFinishEvent, signalled, starter,
                 error, idle, stop, result>>

\* Label "error": the file and the streams are closed if they were opened.
CloseFile(t) ==
  /\ th[t] = "cleanup"
  /\ th' = [th EXCEPT ![t] = "decide"]
  /\ pfile' = [pfile EXCEPT ![t] = FALSE]
  /\ avi' = IF pfile[t] THEN "closed" ELSE avi
  /\ UNCHANGED <<recordstate, recordpaused, msvc, hFinishEvent, signalled, starter,
                 error, idle, stop, result>>

\* Mutant of Interrupted: the finish event is set, as the log line claims, also
\* when the recording goes on with the other codec.
InterruptedSignals(t) ==
  /\ th[t] = "decide"
  /\ error[t] = 1
  /\ recordpaused' = 0
  /\ recordstate' = 0
  /\ msvc' = TRUE
  /\ SetEvent
  /\ th' = [th EXCEPT ![t] = IF msvc THEN "ended" ELSE "restart"]
  /\ UNCHANGED <<hFinishEvent, starter, error, pfile, avi, idle>>

\* error == 1: OnRecordInterrupted, then one restart with the codec MSVC; when
\* that codec was in use already the thread returns and sets no event.
Interrupted(t) ==
  /\ th[t] = "decide"
  /\ error[t] = 1
  /\ recordpaused' = 0
  /\ recordstate' = 0
  /\ msvc' = TRUE
  /\ th' = [th EXCEPT ![t] = IF msvc THEN "ended" ELSE "restart"]
  /\ UNCHANGED <<hFinishEvent, signalled, starter, error, pfile, avi, idle, stop, result>>

Restart(t) ==
  /\ th[t] = "restart"
  /\ OnRecordStart
  /\ UNCHANGED <<recordpaused, msvc, hFinishEvent, signalled, starter, error, pfile,
                 avi, stop, result>>

\* error != 1: OnUserGeneric converts the finished file ...
OnUserGeneric(t) ==
  /\ th[t] = "decide"
  /\ error[t] # 1
  /\ th' = [th EXCEPT ![t] = "generic"]
  /\ UNCHANGED <<recordstate, recordpaused, msvc, hFinishEvent, signalled, starter,
                 error, pfile, avi, idle, stop, result>>

\* ... and the finish event is set.
Finish(t) ==
  /\ th[t] = "generic"
  /\ SetEvent
  /\ th' = [th EXCEPT ![t] = "ended"]
  /\ UNCHANGED <<recordstate, recordpaused, msvc, hFinishEvent, starter, error, pfile,
                 avi, idle>>

RecordVideo(t) ==
  \/ OpenFile(t)
  \/ MakeStreams(t)
  \/ LoopTest(t)
  \/ WriteFrame(t)
  \/ CloseFile(t)
  \/ Interrupted(t)
  \/ Restart(t)
  \/ OnUserGeneric(t)
  \/ Finish(t)

-----------------------------------------------------------------------------
(* CheckFreeTimesThread: while (recordstate) checkFreeEvent. *)

IdleTest(t) ==
  /\ idle[t] = "loop"
  /\ idle' = [idle EXCEPT ![t] = IF recordstate = 1 THEN "check" ELSE "ended"]
  /\ UNCHANGED <<recordstate, recordpaused, msvc, hFinishEvent, signalled, starter,
                 th, error, pfile, avi, stop, result>>

\* checkFreeEvent leaves the flag alone, pauses after the idle time has passed
\* or resumes after an input, whenever that is.
CheckFreeEvent(t) ==
  /\ idle[t] = "check"
  /\ idle' = [idle EXCEPT ![t] = "loop"]
  /\ recordpaused' \in 0..1
  /\ UNCHANGED <<recordstate, msvc, hFinishEvent, signalled, starter, th, error,
                 pfile, avi, stop, result>>

-----------------------------------------------------------------------------
(* OnStop, called by thread c. *)

StopCall(c) ==
  /\ stop[c] = "idle"
  /\ IF recordstate = 0
     THEN /\ result' = [result EXCEPT ![c] = "notrecording"]
          /\ UNCHANGED <<stop, recordpaused>>
     ELSE /\ stop' = [stop EXCEPT ![c] = "reset"]
          /\ result' = [result EXCEPT ![c] = "none"]
          /\ recordpaused' = 0
  /\ UNCHANGED <<recordstate, msvc, hFinishEvent, signalled, starter, th, error,
                 pfile, avi, idle>>

StopReset(c) ==
  /\ stop[c] = "reset"
  /\ ResetEvent
  /\ stop' = [stop EXCEPT ![c] = "interrupt"]
  /\ UNCHANGED <<recordstate, recordpaused, msvc, hFinishEvent, starter, th, error,
                 pfile, avi, idle, result>>

\* Mutant of StopInterrupt: recordstate counts recordings instead of being a flag.
StopInterruptCounts(c) ==
  /\ stop[c] = "interrupt"
  /\ recordpaused' = 0
  /\ recordstate' = recordstate - 1
  /\ stop' = [stop EXCEPT ![c] = "wait"]
  /\ UNCHANGED <<msvc, hFinishEvent, signalled, starter, th, error, pfile, avi, idle,
                 result>>

\* OnRecordInterrupted
StopInterrupt(c) ==
  /\ stop[c] = "interrupt"
  /\ recordpaused' = 0
  /\ recordstate' = 0
  /\ stop' = [stop EXCEPT ![c] = "wait"]
  /\ UNCHANGED <<msvc, hFinishEvent, signalled, starter, th, error, pfile, avi, idle,
                 result>>

\* WaitForSingleObject(hFinishEvent, 60 s) returns at once when the event is set
\* or the handle is NULL; otherwise the caller blocks, until SetEvent releases it
\* (above) or the minute is over.
StopWait(c) ==
  /\ stop[c] = "wait"
  /\ IF hFinishEvent = "open" /\ ~signalled
     THEN /\ stop' = [stop EXCEPT ![c] = "blocked"]
          /\ UNCHANGED result
     ELSE /\ stop' = [stop EXCEPT ![c] = "close"]
          /\ result' = [result EXCEPT ![c] = IF hFinishEvent = "open" THEN "signalled"
                                             ELSE "failed"]
  /\ UNCHANGED <<recordstate, recordpaused, msvc, hFinishEvent, signalled, starter,
                 th, error, pfile, avi, idle>>

\* Mutant of StopTimeout: the wait is INFINITE.
NoStopTimeout(c) ==
  /\ stop[c] = "blocked"
  /\ FALSE
  /\ UNCHANGED recVars

StopTimeout(c) ==
  /\ stop[c] = "blocked"
  /\ stop' = [stop EXCEPT ![c] = "close"]
  /\ result' = [result EXCEPT ![c] = "timeout"]
  /\ UNCHANGED <<recordstate, recordpaused, msvc, hFinishEvent, signalled, starter,
                 th, error, pfile, avi, idle>>

StopClose(c) ==
  /\ stop[c] = "close"
  /\ hFinishEvent' = "NULL"
  /\ stop' = [stop EXCEPT ![c] = "idle"]
  /\ UNCHANGED <<recordstate, recordpaused, msvc, signalled, starter, th, error,
                 pfile, avi, idle, result>>

StopStep(c) ==
  \/ StopReset(c)
  \/ StopInterrupt(c)
  \/ StopWait(c)
  \/ StopTimeout(c)
  \/ StopClose(c)

-----------------------------------------------------------------------------
RecStart == OnRecord \/ OnRecordBegin

RecThreads == \E t \in Threads : RecordVideo(t) \/ IdleTest(t) \/ CheckFreeEvent(t)

RecNext ==
  \/ RecStart
  \/ RecThreads
  \/ \E c \in Callers : StopCall(c) \/ StopStep(c)

\* Every thread of the process is scheduled again and again; nobody is obliged
\* to call OnStop.  Whether a write fails is left to the environment.
RecFairness ==
  /\ WF_recVars(RecStart)
  /\ \A t \in Threads : /\ WF_recVars(RecordVideo(t))
                        /\ WF_recVars(IdleTest(t) \/ CheckFreeEvent(t))
  /\ \A c \in Callers : WF_recVars(StopStep(c))

RecSpec == RecInit /\ [][RecNext]_recVars

FairRecSpec == RecSpec /\ RecFairness

-----------------------------------------------------------------------------
(* Properties. *)

(* The restarted recording writes the same file: no two recording threads
   have it open at a time, whatever fails and whoever calls OnStop. *)
SingleWriter ==
  \A s, t \in Threads : pfile[s] /\ pfile[t] => s = t

(* An OnStop that was released by the finish event may be trusted: from then
   on no recording thread is left, none has the file open, and whatever was
   recorded has been closed (RecordVideo closes before it signals, and a
   thread that signals never restarts the recording). *)
SignalMeansFinal ==
  \A c \in Callers :
    result[c] = "signalled" => /\ \A t \in Threads : ~Live(t) /\ ~pfile[t]
                               /\ avi # "partial"

(* OnStop always comes back, also when the recording was restarted or died
   without setting the event while the caller was waiting. *)
StopReturns ==
  \A c \in Callers : (stop[c] # "idle") ~> (stop[c] = "idle")

(* Once recordstate stays 0 the recording thread and the idle thread finish
   and the file is closed. *)
Drains ==
  <>[](recordstate = 0) =>
     <>[](\A t \in Threads : ~Live(t) /\ ~pfile[t] /\ idle[t] \in {"none", "ended"})

\* A thread has reached the end of RecordVideo by the branch that sets the event.
Reported == \E t \in Threads : th[t] = "ended" /\ error[t] # 1

Abstract == INSTANCE Recording WITH file <- avi, done <- Reported

(* The recorder keeps the promise of the module Recording: takes of the one
   video file never overlap, and after a recording thread has reported its
   recording as finished the file is never opened again. *)
ImplementsRecording == Abstract!Spec
=============================================================================
