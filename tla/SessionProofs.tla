---------------------------- MODULE SessionProofs ---------------------------
(* Theorems about a session's threads, for any set of configurations.       *)
EXTENDS Session, TLAPS

(***************************************************************************)
(* The inductive invariant.  Once exitmsg has been set from main's policy  *)
(* loop, main starts nothing any more; and what is still to be cleaned up  *)
(* - the login file, the recording, the login row - is in the charge of    *)
(* some thread inside ExitOscShell that has not yet come to it.  Which     *)
(* thread that is, and how many there are, does not matter: this is why    *)
(* the unlocked test of exitmsg does no harm.                              *)
(***************************************************************************)
ExitFlag == exitAt # "never" => exitmsg = 1

MainStarted == exitAt = "policy" => pc["main"] \notin Startup \cup Boxes

RecordingAudited ==
  /\ take = "running" \/ recordstate = 1 \/ pc["main"] = "recordex" => needAudit = 1
  /\ avi = "partial" => take = "running"

FileInCharge == exitAt = "policy" /\ loginfile => \E p \in Procs : pc[p] = "x_audit"

TakeInCharge ==
  exitAt = "policy" /\ take = "running" /\ recordstate = 1 /\ ~retried
    => \E p \in Procs : pc[p] \in {"x_audit", "x_stop"}

RowInCharge ==
  exitAt = "policy" /\ row = "online"
    => \E p \in Procs : pc[p] \in {"x_audit", "x_stop", "x_wait", "x_remote"}

InCharge == FileInCharge /\ TakeInCharge /\ RowInCharge

SesInv == SessionTypeOK /\ ExitFlag /\ MainStarted /\ RecordingAudited /\ InCharge

-----------------------------------------------------------------------------
(* Typing *)

\* The program counters, main's and the other threads'.
PcTyped ==
  /\ pc \in [Procs -> MainPc \cup ThreadPc]
  /\ pc["main"] \in MainPc
  /\ \A p \in Procs \ {"main"} : pc[p] \in ThreadPc

\* A thread that moves to a place of its own keeps the program counters typed.
LEMMA MovePc ==
  ASSUME PcTyped, NEW p \in Procs, NEW l, pc' = [pc EXCEPT ![p] = l],
         l \in IF p = "main" THEN MainPc ELSE ThreadPc
  PROVE  PcTyped'
BY DEF PcTyped, Procs

\* Where a thread goes on after ExitOscShell.
LEMMA ContinueType ==
  ASSUME NEW p \in Procs
  PROVE  /\ Continue(p) \in {"sleep", "end", "logoff"}
         /\ p = "main" => Continue(p) = "logoff"
BY DEF Continue, Procs

\* Every step of ExitOscShell stays among the thread's program counters.
LEMMA ExitStepPc ==
  ASSUME PcTyped, NEW p \in Procs, ExitStep(p)
  PROVE  /\ PcTyped'
         /\ pc' = [pc EXCEPT ![p] = pc'[p]]
         /\ pc'[p] \notin Startup \cup Boxes
<1> SUFFICES /\ pc' = [pc EXCEPT ![p] = pc'[p]]
             /\ pc'[p] \in ExitPc \cup {"sleep", "end", "logoff", "waitoff"}
             /\ p = "main" => pc'[p] \notin {"sleep", "end"}
  BY MovePc DEF MainPc, ThreadPc, ExitPc, Startup, Boxes
<1> USE DEF PcTyped
<1>1. CASE ExitTest(p)
  BY <1>1, ContinueType DEF ExitTest, Goto, ExitPc
<1>2. CASE ExitSet(p)
  BY <1>2 DEF ExitSet, Goto, ExitPc
<1>3. CASE ExitAudit(p)
  BY <1>3 DEF ExitAudit, Goto, ExitPc
<1>4. CASE OnStop(p)
  BY <1>4 DEF OnStop, Goto, ExitPc
<1>5. CASE OnStopReturns(p)
  BY <1>5 DEF OnStopReturns, Goto, ExitPc
<1>6. CASE ExitRemote(p)
  BY <1>6, ContinueType DEF ExitRemote, Goto, ExitPc
<1>7. CASE ExitSession(p)
  BY <1>7 DEF ExitSession, Goto, ExitPc
<1>8. QED
  BY <1>1, <1>2, <1>3, <1>4, <1>5, <1>6, <1>7 DEF ExitStep

\* Every step keeps the program counters typed.
LEMMA NextPc == PcTyped /\ [SesNext]_sesVars => PcTyped'
<1> SUFFICES ASSUME PcTyped, [SesNext]_sesVars PROVE PcTyped'
  OBVIOUS
<1> USE DEF Goto
<1>1. ASSUME NEW l \in MainPc, pc' = [pc EXCEPT !["main"] = l] PROVE PcTyped'
  BY <1>1, MovePc DEF Procs
<1>2. ASSUME NEW p \in Procs \ {"main"}, NEW l \in ThreadPc, pc' = [pc EXCEPT ![p] = l]
      PROVE  PcTyped'
  BY <1>2, MovePc
<1>3. CASE MainStart \/ OSCShellEx \/ StartRecord \/ OnRecordEx \/ ShellRemoteControlServer \/ UserOk
  BY <1>1, <1>3 DEF MainStart, OSCShellEx, StartRecord, OnRecordEx, ShellRemoteControlServer, UserOk,
                    MainPc, Startup, Boxes, ExitPc
<1>4. CASE PolicyTest \/ Tick
  BY <1>1, <1>4 DEF PolicyTest, Tick, MainPc, ExitPc
<1>5. CASE ShowDisableWindow \/ StartWatcher \/ StartAnswer
  <2>1. \E p \in Procs \ {"main"} : \E l \in Startup : pc' = [pc EXCEPT ![p] = "wait", !["main"] = l]
    BY <1>5 DEF ShowDisableWindow, StartWatcher, StartAnswer, StartThread, Startup, Procs
  <2>2. QED
    BY <2>1 DEF PcTyped, Procs, MainPc, ThreadPc
<1>6. CASE \E p \in Procs : ExitStep(p)
  BY <1>6, ExitStepPc
<1>7. CASE AnswerWakes \/ WatcherWakes \/ EndSessionMessage \/ WindowQuits
  BY <1>2, <1>7 DEF AnswerWakes, WatcherWakes, EndSessionMessage, WindowQuits, ThreadPc, ExitPc, Procs
<1>8. ASSUME UNCHANGED pc PROVE PcTyped'
  BY <1>8 DEF PcTyped
<1>9. CASE Recording \/ RecorderFails \/ MonitorDisconnect \/ AppExits \/ ExternalLogoff \/ SessionEnds
  BY <1>8, <1>9 DEF Recording, RecorderOpens, RecorderFinishes, RecorderFails, MonitorDisconnect,
                    AppExits, ExternalLogoff, SessionEnds
<1>10. CASE UNCHANGED sesVars
  BY <1>8, <1>10 DEF sesVars
<1>11. QED
  BY <1>3, <1>4, <1>5, <1>6, <1>7, <1>9, <1>10 DEF SesNext, Main

\* The variables that hold numbers or states; the flags are Booleans.
DataTyped ==
  /\ exitmsg \in 0..1 /\ needAudit \in 0..1 /\ recordstate \in 0..1
  /\ take \in {"none", "running", "ended"}
  /\ avi \in {"absent", "partial", "closed"}
  /\ app \in {"none", "running", "exited"}
  /\ row \in {"none", "online", "closed"}
  /\ session \in {"active", "ending", "gone"}
  /\ exitAt \in {"never", "startup", "policy"}

FlagsTyped == loginfile \in BOOLEAN /\ retried \in BOOLEAN /\ monitor \in BOOLEAN

\* Every step keeps the variables typed.
LEMMA NextData == DataTyped /\ [SesNext]_sesVars => DataTyped'
<1> SUFFICES ASSUME DataTyped, [SesNext]_sesVars PROVE DataTyped'
  OBVIOUS
<1> USE DEF DataTyped, recorder, remote
<1>1. CASE Main \/ UserOk
  BY <1>1 DEF Main, MainStart, OSCShellEx, ShowDisableWindow, StartWatcher, StartAnswer, StartThread,
              StartRecord, OnRecordEx, ShellRemoteControlServer, PolicyTest, Tick, UserOk
<1>2. ASSUME NEW p \in Procs, ExitStep(p) PROVE DataTyped'
  <2>1. CASE ExitTest(p) \/ ExitSet(p) \/ ExitAudit(p)
    BY <2>1 DEF ExitTest, ExitSet, ExitAudit
  <2>2. CASE OnStop(p) \/ OnStopReturns(p)
    BY <2>2 DEF OnStop, OnStopReturns
  <2>3. CASE ExitRemote(p)
    BY <2>3 DEF ExitRemote, ExitRemoteControlServer, Killed
  <2>4. CASE ExitSession(p)
    BY <2>4 DEF ExitSession
  <2>5. QED
    BY <1>2, <2>1, <2>2, <2>3, <2>4 DEF ExitStep
<1>3. CASE AnswerWakes \/ WatcherWakes \/ EndSessionMessage \/ WindowQuits
  BY <1>3 DEF AnswerWakes, WatcherWakes, EndSessionMessage, WindowQuits
<1>4. CASE Recording \/ RecorderFails
  BY <1>4 DEF Recording, RecorderOpens, RecorderFinishes, RecorderFails
<1>5. CASE MonitorDisconnect \/ AppExits \/ ExternalLogoff \/ SessionEnds
  BY <1>5 DEF MonitorDisconnect, ExitRemoteControlServer, Killed, AppExits, ExternalLogoff, SessionEnds
<1>6. CASE UNCHANGED sesVars
  BY <1>6 DEF sesVars
<1>7. QED
  BY <1>1, <1>2, <1>3, <1>4, <1>5, <1>6 DEF SesNext

\* Every step keeps the flags Boolean and the configuration as it is.
LEMMA NextFlags == FlagsTyped /\ [SesNext]_sesVars => FlagsTyped' /\ config' = config
<1> SUFFICES ASSUME FlagsTyped, [SesNext]_sesVars PROVE FlagsTyped' /\ config' = config
  OBVIOUS
<1> USE DEF FlagsTyped, recorder, remote
<1>1. CASE UserOk \/ MainStart \/ ShowDisableWindow \/ StartWatcher \/ StartAnswer \/ StartRecord
           \/ OnRecordEx \/ PolicyTest \/ Tick
  BY <1>1, Zenon DEF UserOk, MainStart, ShowDisableWindow, StartWatcher, StartAnswer, StartThread,
                     StartRecord, OnRecordEx, PolicyTest, Tick
<1>2. CASE OSCShellEx
  BY <1>2, Zenon DEF OSCShellEx
<1>3. CASE ShellRemoteControlServer
  BY <1>3, Zenon DEF ShellRemoteControlServer
<1>4. ASSUME NEW p \in Procs, ExitStep(p) PROVE FlagsTyped' /\ config' = config
  BY <1>4, Zenon DEF ExitStep, ExitTest, ExitSet, ExitAudit, OnStop, OnStopReturns, ExitRemote,
                     ExitRemoteControlServer, ExitSession
<1>5. CASE AnswerWakes \/ WatcherWakes \/ EndSessionMessage \/ WindowQuits
  BY <1>5, Zenon DEF AnswerWakes, WatcherWakes, EndSessionMessage, WindowQuits
<1>6. CASE Recording \/ RecorderFails
  BY <1>6, Zenon DEF Recording, RecorderOpens, RecorderFinishes, RecorderFails
<1>7. CASE MonitorDisconnect \/ AppExits \/ ExternalLogoff \/ SessionEnds
  BY <1>7, Zenon DEF MonitorDisconnect, ExitRemoteControlServer, AppExits, ExternalLogoff, SessionEnds
<1>8. CASE UNCHANGED sesVars
  BY <1>8, Zenon DEF sesVars
<1>9. QED
  BY <1>1, <1>2, <1>3, <1>4, <1>5, <1>6, <1>7, <1>8 DEF SesNext, Main

\* The types, put together.
LEMMA TypeParts == SessionTypeOK <=> config \in Configs /\ PcTyped /\ DataTyped /\ FlagsTyped
BY Zenon DEF SessionTypeOK, PcTyped, DataTyped, FlagsTyped

\* The initial state has the types.
LEMMA InitSessionType == SesInit => SessionTypeOK
<1> SUFFICES ASSUME SesInit PROVE SessionTypeOK
  OBVIOUS
<1>1. PcTyped
  BY DEF SesInit, PcTyped, Procs, MainPc, ThreadPc, Startup
<1>2. DataTyped
  BY DEF SesInit, DataTyped
<1>3. FlagsTyped /\ config \in Configs
  BY Zenon DEF SesInit, FlagsTyped
<1>4. QED
  BY <1>1, <1>2, <1>3, TypeParts

\* Every step keeps the types.
LEMMA NextSessionType == SessionTypeOK /\ [SesNext]_sesVars => SessionTypeOK'
<1> SUFFICES ASSUME SessionTypeOK, [SesNext]_sesVars PROVE SessionTypeOK'
  OBVIOUS
<1>1. (config \in Configs /\ PcTyped /\ DataTyped /\ FlagsTyped)'
  BY TypeParts, NextPc, NextData, NextFlags
<1>2. QED
  BY <1>1, Zenon DEF SessionTypeOK, PcTyped, DataTyped, FlagsTyped

-----------------------------------------------------------------------------
(* Who is in charge of the cleanup *)

\* What a step of main's start may do: it finds exitAt other than "policy".
LEMMA StartupStep ==
  ASSUME SesInv, pc["main"] \in Startup \cup Boxes, exitAt' = exitAt, exitmsg' = exitmsg
  PROVE  ExitFlag' /\ MainStarted' /\ InCharge'
BY DEF SesInv, ExitFlag, MainStarted, InCharge, FileInCharge, TakeInCharge, RowInCharge

\* A thread that is not cleaning up may move without anything losing its thread.
LEMMA OthersInCharge ==
  ASSUME SesInv, NEW p \in Procs, pc' = [pc EXCEPT ![p] = pc'[p]],
         pc[p] \notin {"x_audit", "x_stop", "x_wait", "x_remote"},
         UNCHANGED <<exitAt, loginfile, recordstate, take, retried, row>>
  PROVE  InCharge'
<1>1. pc \in [Procs -> MainPc \cup ThreadPc]
  BY DEF SesInv, SessionTypeOK
<1>2. \A q \in Procs : pc[q] \in {"x_audit", "x_stop", "x_wait", "x_remote"} => pc'[q] = pc[q]
  BY <1>1
<1>3. FileInCharge'
  BY <1>2 DEF SesInv, InCharge, FileInCharge
<1>4. TakeInCharge'
  BY <1>2 DEF SesInv, InCharge, TakeInCharge
<1>5. RowInCharge'
  BY <1>2 DEF SesInv, InCharge, RowInCharge
<1>6. QED
  BY <1>3, <1>4, <1>5 DEF InCharge

\* The steps of ExitOscShell: each hands over what it has not done itself.
LEMMA ExitStepInCharge ==
  ASSUME SesInv, NEW p \in Procs, ExitStep(p)
  PROVE  InCharge'
<1>0. /\ pc \in [Procs -> MainPc \cup ThreadPc] /\ PcTyped
      /\ pc' = [pc EXCEPT ![p] = pc'[p]]
      /\ needAudit \in 0..1 /\ recordstate \in 0..1
  BY ExitStepPc DEF SesInv, SessionTypeOK, PcTyped
<1>1. \A q \in Procs \ {p} : pc'[q] = pc[q]
  BY <1>0
<1>2. FileInCharge /\ TakeInCharge /\ RowInCharge
  BY DEF SesInv, InCharge
<1> USE DEF recorder, remote, Goto, At
<1>3. CASE ExitTest(p) \/ ExitSession(p)
  BY <1>0, <1>3, OthersInCharge DEF ExitTest, ExitSession
<1>4. CASE ExitSet(p)
  <2>1. pc'[p] = "x_audit"
    BY <1>0, <1>4 DEF ExitSet
  <2>2. QED
    BY <2>1 DEF InCharge, FileInCharge, TakeInCharge, RowInCharge
<1>5. CASE ExitAudit(p)
  <2>1. /\ pc[p] = "x_audit" /\ loginfile' = FALSE
        /\ pc'[p] = IF needAudit > 0 THEN "x_stop" ELSE "x_remote"
        /\ UNCHANGED <<exitAt, recordstate, take, retried, row>>
    BY <1>0, <1>5 DEF ExitAudit
  <2>2. FileInCharge'
    BY <2>1 DEF FileInCharge
  <2>3. TakeInCharge'
    BY <1>0, <1>1, <1>2, <2>1 DEF TakeInCharge, SesInv, RecordingAudited
  <2>4. RowInCharge'
    BY <1>1, <1>2, <2>1 DEF RowInCharge
  <2>5. QED
    BY <2>2, <2>3, <2>4 DEF InCharge
<1>6. CASE OnStop(p)
  <2>1. /\ pc[p] = "x_stop" /\ recordstate' = 0 /\ pc'[p] \in {"x_remote", "x_wait"}
        /\ UNCHANGED <<exitAt, loginfile, take, retried, row>>
    BY <1>0, <1>6 DEF OnStop
  <2>2. FileInCharge'
    BY <1>1, <1>2, <2>1 DEF FileInCharge
  <2>3. TakeInCharge'
    BY <2>1 DEF TakeInCharge
  <2>4. RowInCharge'
    BY <1>1, <1>2, <2>1 DEF RowInCharge
  <2>5. QED
    BY <2>2, <2>3, <2>4 DEF InCharge
<1>7. CASE OnStopReturns(p)
  <2>1. /\ pc[p] = "x_wait" /\ pc'[p] = "x_remote"
        /\ UNCHANGED <<exitAt, loginfile, recordstate, take, retried, row>>
    BY <1>0, <1>7 DEF OnStopReturns
  <2>2. FileInCharge' /\ TakeInCharge'
    BY <1>1, <1>2, <2>1 DEF FileInCharge, TakeInCharge
  <2>3. RowInCharge'
    BY <1>1, <1>2, <2>1 DEF RowInCharge
  <2>4. QED
    BY <2>2, <2>3 DEF InCharge
<1>8. CASE ExitRemote(p)
  <2>1. /\ pc[p] = "x_remote" /\ row' # "online"
        /\ UNCHANGED <<exitAt, loginfile, recordstate, take, retried>>
    BY <1>8 DEF ExitRemote, ExitRemoteControlServer
  <2>2. FileInCharge' /\ TakeInCharge'
    BY <1>1, <1>2, <2>1 DEF FileInCharge, TakeInCharge
  <2>3. RowInCharge'
    BY <2>1 DEF RowInCharge
  <2>4. QED
    BY <2>2, <2>3 DEF InCharge
<1>9. QED
  BY <1>3, <1>4, <1>5, <1>6, <1>7, <1>8 DEF ExitStep

\* What keeps a recording audited: needAudit is never taken back.
LEMMA NextAudited == SesInv /\ [SesNext]_sesVars => RecordingAudited'
<1> SUFFICES ASSUME SesInv, [SesNext]_sesVars PROVE RecordingAudited'
  OBVIOUS
<1>0. RecordingAudited /\ pc \in [Procs -> MainPc \cup ThreadPc] /\ "main" \in Procs
  BY DEF SesInv, SessionTypeOK, Procs
<1> USE DEF RecordingAudited, recorder, remote, Goto, At
<1>1. CASE MainStart \/ OSCShellEx \/ UserOk \/ PolicyTest \/ Tick
  BY <1>0, <1>1 DEF MainStart, OSCShellEx, UserOk, PolicyTest, Tick
<1>2. CASE ShowDisableWindow \/ StartWatcher \/ StartAnswer
  BY <1>0, <1>2 DEF ShowDisableWindow, StartWatcher, StartAnswer, StartThread, Procs
<1>3. CASE StartRecord
  BY <1>0, <1>3 DEF StartRecord
<1>4. CASE OnRecordEx
  BY <1>0, <1>4 DEF OnRecordEx
<1>5. CASE ShellRemoteControlServer
  BY <1>0, <1>5 DEF ShellRemoteControlServer
<1>6. ASSUME NEW p \in Procs, ExitStep(p) PROVE RecordingAudited'
  <2>1. UNCHANGED <<needAudit, take, avi>> /\ (recordstate' = recordstate \/ recordstate' = 0)
    BY <1>6 DEF ExitStep, ExitTest, ExitSet, ExitAudit, OnStop, OnStopReturns, ExitRemote, ExitSession
  <2>2. PcTyped
    BY DEF SesInv, SessionTypeOK, PcTyped
  <2>3. pc'["main"] = "recordex" => pc["main"] = "recordex"
    BY <1>0, <1>6, <2>2, ExitStepPc DEF Startup
  <2>4. QED
    BY <1>0, <2>1, <2>3
<1>7. CASE AnswerWakes \/ WatcherWakes \/ EndSessionMessage \/ WindowQuits
  BY <1>0, <1>7 DEF AnswerWakes, WatcherWakes, EndSessionMessage, WindowQuits
<1>8. CASE Recording \/ RecorderFails
  BY <1>0, <1>8 DEF Recording, RecorderOpens, RecorderFinishes, RecorderFails
<1>9. CASE MonitorDisconnect \/ AppExits \/ ExternalLogoff \/ SessionEnds
  BY <1>0, <1>9 DEF MonitorDisconnect, ExitRemoteControlServer, AppExits, ExternalLogoff, SessionEnds
<1>10. CASE UNCHANGED sesVars
  BY <1>0, <1>10 DEF sesVars
<1>11. QED
  BY <1>1, <1>2, <1>3, <1>4, <1>5, <1>6, <1>7, <1>8, <1>9, <1>10 DEF SesNext, Main

\* The initial state satisfies the invariant.
LEMMA InitSesInv == SesInit => SesInv
<1> SUFFICES ASSUME SesInit PROVE SesInv
  OBVIOUS
<1>1. ExitFlag /\ MainStarted /\ RecordingAudited /\ InCharge
  BY DEF SesInit, ExitFlag, MainStarted, RecordingAudited, InCharge, FileInCharge, TakeInCharge,
         RowInCharge, Procs
<1>2. QED
  BY <1>1, InitSessionType DEF SesInv

\* Every step keeps the invariant.
LEMMA NextSesInv == SesInv /\ [SesNext]_sesVars => SesInv'
<1> SUFFICES ASSUME SesInv, [SesNext]_sesVars PROVE SesInv'
  OBVIOUS
<1>0. /\ PcTyped /\ pc \in [Procs -> MainPc \cup ThreadPc] /\ "main" \in Procs
      /\ ExitFlag /\ MainStarted /\ InCharge
  BY DEF SesInv, SessionTypeOK, PcTyped, Procs
<1>1. SessionTypeOK' /\ RecordingAudited'
  BY NextSessionType, NextAudited DEF SesInv
<1> SUFFICES ExitFlag' /\ MainStarted' /\ InCharge'
  BY <1>1 DEF SesInv
<1> USE DEF recorder, remote, Goto, At
<1>2. CASE MainStart \/ OSCShellEx \/ ShowDisableWindow \/ StartWatcher \/ StartAnswer
           \/ StartRecord \/ OnRecordEx \/ ShellRemoteControlServer \/ UserOk
  <2>1. pc["main"] \in Startup \cup Boxes /\ exitAt' = exitAt /\ exitmsg' = exitmsg
    BY <1>2 DEF MainStart, OSCShellEx, ShowDisableWindow, StartWatcher, StartAnswer, StartThread,
                StartRecord, OnRecordEx, ShellRemoteControlServer, UserOk, Startup
  <2>2. QED
    BY <2>1, StartupStep
<1>3. ASSUME NEW p \in Procs, pc' = [pc EXCEPT ![p] = pc'[p]],
             p = "main" => pc'[p] \notin Startup \cup Boxes,
             pc[p] \notin {"x_audit", "x_stop", "x_wait", "x_remote"},
             UNCHANGED <<exitAt, exitmsg, loginfile, recordstate, take, retried, row>>
      PROVE  ExitFlag' /\ MainStarted' /\ InCharge'
  <2>1. ExitFlag' /\ MainStarted'
    BY <1>0, <1>3 DEF ExitFlag, MainStarted
  <2>2. QED
    BY <1>3, <2>1, OthersInCharge
<1>4. CASE PolicyTest \/ Tick
  <2>1. /\ pc' = [pc EXCEPT !["main"] = pc'["main"]]
        /\ pc["main"] \in {"policy", "tick"} /\ pc'["main"] \in {"policy", "tick", "x_test"}
        /\ UNCHANGED <<exitAt, exitmsg, loginfile, recordstate, take, retried, row>>
    BY <1>0, <1>4 DEF PolicyTest, Tick
  <2>2. QED
    BY <1>0, <1>3, <2>1 DEF Startup, Boxes
<1>5. CASE AnswerWakes \/ WatcherWakes \/ EndSessionMessage \/ WindowQuits
  <2>1. PICK p \in Procs \ {"main"} :
          /\ pc' = [pc EXCEPT ![p] = pc'[p]] /\ pc[p] \in {"wait", "sleep"}
          /\ UNCHANGED <<exitAt, exitmsg, loginfile, recordstate, take, retried, row>>
    BY <1>0, <1>5 DEF AnswerWakes, WatcherWakes, EndSessionMessage, WindowQuits, Procs
  <2>2. QED
    BY <1>3, <2>1
<1>6. ASSUME NEW p \in Procs, ExitStep(p) PROVE ExitFlag' /\ MainStarted' /\ InCharge'
  <2>1. pc' = [pc EXCEPT ![p] = pc'[p]] /\ pc'[p] \notin Startup \cup Boxes
    BY <1>0, <1>6, ExitStepPc
  <2>2. ExitFlag'
    BY <1>0, <1>6 DEF ExitFlag, ExitStep, ExitTest, ExitSet, ExitAudit, OnStop, OnStopReturns,
                      ExitRemote, ExitSession
  <2>3. exitAt' = "policy" => exitAt = "policy" \/ pc["main"] \notin Startup \cup Boxes
    BY <1>6 DEF ExitStep, ExitTest, ExitSet, ExitAudit, OnStop, OnStopReturns, ExitRemote, ExitSession
  <2>4. MainStarted'
    BY <1>0, <2>1, <2>3 DEF MainStarted
  <2>5. QED
    BY <1>6, <2>2, <2>4, ExitStepInCharge
<1>7. ASSUME UNCHANGED <<pc, exitAt, exitmsg>>,
             loginfile' = loginfile, row' = row \/ row' # "online",
             \/ UNCHANGED <<recordstate, take, retried>>
             \/ take' = "ended"
             \/ retried'
      PROVE  ExitFlag' /\ MainStarted' /\ InCharge'
  BY <1>0, <1>7 DEF ExitFlag, MainStarted, InCharge, FileInCharge, TakeInCharge, RowInCharge
<1>8. CASE Recording
  BY <1>7, <1>8 DEF Recording, RecorderOpens, RecorderFinishes
<1>9. CASE RecorderFails
  BY <1>7, <1>9 DEF RecorderFails
<1>10. CASE MonitorDisconnect
  BY <1>7, <1>10 DEF MonitorDisconnect, ExitRemoteControlServer
<1>11. CASE AppExits \/ ExternalLogoff \/ SessionEnds
  BY <1>7, <1>11 DEF AppExits, ExternalLogoff, SessionEnds
<1>12. CASE UNCHANGED sesVars
  BY <1>7, <1>12 DEF sesVars
<1>13. QED
  BY <1>2, <1>4, <1>5, <1>6, <1>8, <1>9, <1>10, <1>11, <1>12 DEF SesNext, Main

\* When the session is gone, everything stays as it is.
LEMMA GoneIsGone == session = "gone" /\ [SesNext]_sesVars => UNCHANGED sesVars
<1> SUFFICES ASSUME session = "gone", SesNext PROVE FALSE
  OBVIOUS
<1> USE DEF At
<1>1. ~Main /\ ~UserOk
  BY DEF Main, MainStart, OSCShellEx, ShowDisableWindow, StartWatcher, StartAnswer, StartThread,
         StartRecord, OnRecordEx, ShellRemoteControlServer, PolicyTest, Tick, UserOk
<1>2. \A p \in Procs : ~ExitStep(p)
  BY DEF ExitStep, ExitTest, ExitSet, ExitAudit, OnStop, OnStopReturns, ExitRemote, ExitSession
<1>3. ~AnswerWakes /\ ~WatcherWakes /\ ~EndSessionMessage /\ ~WindowQuits
  BY DEF AnswerWakes, WatcherWakes, EndSessionMessage, WindowQuits
<1>4. ~Recording /\ ~RecorderFails /\ ~MonitorDisconnect /\ ~AppExits
  BY DEF Recording, RecorderOpens, RecorderFinishes, RecorderFails, MonitorDisconnect, AppExits
<1>5. ~ExternalLogoff /\ ~SessionEnds
  BY DEF ExternalLogoff, SessionEnds
<1>6. QED
  BY <1>1, <1>2, <1>3, <1>4, <1>5 DEF SesNext

\* Only Windows ends a remote session; on the console main's return does.
LEMMA WhoEndsIt ==
  ASSUME [SesNext]_sesVars, session # "gone", session' = "gone", SessionTypeOK
  PROVE  SessionEnds \/ config'.console
<1> USE DEF recorder, remote
<1>1. ~Main /\ ~UserOk
  BY DEF Main, MainStart, OSCShellEx, ShowDisableWindow, StartWatcher, StartAnswer, StartThread,
         StartRecord, OnRecordEx, ShellRemoteControlServer, PolicyTest, Tick, UserOk
<1>2. ASSUME NEW p \in Procs, ExitStep(p) PROVE config'.console
  BY <1>2 DEF ExitStep, ExitTest, ExitSet, ExitAudit, OnStop, OnStopReturns, ExitRemote, ExitSession
<1>3. ~AnswerWakes /\ ~WatcherWakes /\ ~EndSessionMessage /\ ~WindowQuits
  BY DEF AnswerWakes, WatcherWakes, EndSessionMessage, WindowQuits
<1>4. ~Recording /\ ~RecorderFails /\ ~MonitorDisconnect /\ ~AppExits /\ ~ExternalLogoff
  BY DEF Recording, RecorderOpens, RecorderFinishes, RecorderFails, MonitorDisconnect, AppExits,
         ExternalLogoff
<1>5. QED
  BY <1>1, <1>2, <1>3, <1>4 DEF SesNext, sesVars

-----------------------------------------------------------------------------
(* The theorems *)

(* Type correctness of a session of OSCShellApp: among other things exitmsg  *)
(* stays a flag, however many threads pass its unlocked test.                *)
THEOREM SessionTyped == SesSpec => []SessionTypeOK
BY InitSessionType, NextSessionType, PTL DEF SesSpec

(* If Windows lets WindowProc's sleep run out, then in every configuration a *)
(* remote session that ends from the policy loop has its video closed, its   *)
(* login row closed and its login file deleted, whichever threads enter      *)
(* ExitOscShell and however they interleave with the recorder.               *)
THEOREM AuditIsComplete ==
  ASSUME Ample
  PROVE  SesSpec => []AuditComplete
<1>1. SesInit => SesInv /\ AuditComplete
  BY InitSesInv DEF SesInit, AuditComplete
<1>2. SesInv /\ AuditComplete /\ [SesNext]_sesVars => (SesInv /\ AuditComplete)'
  <2> SUFFICES ASSUME SesInv, AuditComplete, [SesNext]_sesVars PROVE AuditComplete'
    BY NextSesInv
  <2>1. CASE session = "gone"
    BY <2>1, GoneIsGone DEF AuditComplete, sesVars, recorder, remote
  <2>2. CASE session # "gone" /\ session' = "gone" /\ ~config'.console
    <3>1. SessionEnds
      BY <2>2, WhoEndsIt DEF SesInv
    <3>2. /\ \A p \in Procs : pc[p] \notin ExitPc
          /\ take = "running" => recordstate = 1
          /\ UNCHANGED <<config, exitAt, retried, avi, row, loginfile>>
      BY <3>1 DEF SessionEnds, Settled, recorder, remote
    <3>3. exitAt = "policy" => ~loginfile /\ row # "online"
      BY <3>2 DEF SesInv, InCharge, FileInCharge, RowInCharge, ExitPc
    <3>4. exitAt = "policy" /\ ~retried => avi # "partial"
      BY <3>2 DEF SesInv, InCharge, TakeInCharge, RecordingAudited, ExitPc
    <3>5. QED
      BY <3>2, <3>3, <3>4 DEF AuditComplete
  <2>3. CASE session' # "gone" \/ config'.console
    BY <2>3 DEF AuditComplete
  <2>4. QED
    BY <2>1, <2>2, <2>3
<1>3. QED
  BY <1>1, <1>2, PTL DEF SesSpec
=============================================================================
