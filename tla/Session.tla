------------------------------ MODULE Session -------------------------------
(***************************************************************************)
(* One run of OSCShellApp.exe inside a remote session: the main thread     *)
(* (main, CheckTimePolicy), the thread that waits for the launched tool    *)
(* (AnswerThread, AnswerThreadEx), the hidden window's thread (WindowProc) *)
(* and the watcher of the single-instance semaphore.  Each of them may     *)
(* find that the session has to end and enter SESSIONMANAGER::ExitOscShell,*)
(* whose guard "exitmsg" is an unlocked test-and-set.                      *)
(*                                                                         *)
(* The recorder is reduced to what a caller of OnStop can tell: the module *)
(* Recorder has its threads.  The database work of ExitRemoteControlServer *)
(* and ShellRemoteControlServer is one step each: the module LoginLog has  *)
(* the statements.  Windows itself - the user, the launched tool, a logoff *)
(* from outside, the end of the session - is the environment.              *)
(***************************************************************************)
EXTENDS Naturals, FiniteSets

CONSTANTS
  Ample,   \* WindowProc's Sleep(4000) is long enough for what is under way
  Configs  \* the configurations considered

\* On the console or remote; with a video file or without; a tool with children
\* (AnswerThreadEx) or one whose own process counts (AnswerThread).
AllConfigs == [console : BOOLEAN, video : BOOLEAN, haschild : BOOLEAN]

ASSUME SessionAssumption == Ample \in BOOLEAN /\ Configs \subseteq AllConfigs

VARIABLES
  config,     \* what the parameters and the database ask for; never changes
  pc,         \* pc[p]: program counter of thread p
  exitmsg,    \* SESSIONMANAGER::exitmsg
  needAudit,  \* SESSIONMANAGER::needAudit
  loginfile,  \* the file szloginfile exists
  recordstate,\* the recorder is asked to record
  take,       \* state of the recording thread: "none", "running" or "ended"
  retried,    \* the recording was restarted after a failed write
  avi,        \* the video file: "absent", "partial" or "closed"
  app,        \* the launched tool: "none", "running" or "exited"
  row,        \* the row of this access in Pr_LoginLog: "none", "online", "closed"
  monitor,    \* MonitorThread runs
  session,    \* the remote session: "active", "ending" or "gone"
  exitAt      \* what main was doing when exitmsg was set: "startup", "policy"

recorder == <<recordstate, take, retried, avi>>
remote == <<app, row, monitor>>
sesVars == <<config, pc, exitmsg, needAudit, loginfile, recorder, remote, session, exitAt>>

Procs == {"main", "answer", "window", "watcher"}

ExitPc == {"x_test", "x_set", "x_audit", "x_stop", "x_wait", "x_remote"}
Boxes == {"badargs", "launcherror", "initerror"}
Startup == {"start", "launch", "window", "watcher", "answer", "record", "recordex", "server"}
MainPc == Startup \cup Boxes \cup {"policy", "tick"} \cup ExitPc \cup {"logoff", "waitoff"}
ThreadPc == {"none", "wait"} \cup ExitPc \cup {"sleep", "logoff", "waitoff", "end"}

(* Type correctness of the session's variables. *)
SessionTypeOK ==
  /\ config \in Configs
  /\ pc \in [Procs -> MainPc \cup ThreadPc]
  /\ pc["main"] \in MainPc
  /\ \A p \in Procs \ {"main"} : pc[p] \in ThreadPc
  /\ exitmsg \in 0..1
  /\ needAudit \in 0..1
  /\ loginfile \in BOOLEAN
  /\ recordstate \in 0..1
  /\ take \in {"none", "running", "ended"}
  /\ retried \in BOOLEAN
  /\ avi \in {"absent", "partial", "closed"}
  /\ app \in {"none", "running", "exited"}
  /\ row \in {"none", "online", "closed"}
  /\ monitor \in BOOLEAN
  /\ session \in {"active", "ending", "gone"}
  /\ exitAt \in {"never", "startup", "policy"}

SesInit ==
  /\ config \in Configs
  /\ pc = [p \in Procs |-> IF p = "main" THEN "start" ELSE "none"]
  /\ exitmsg = 0
  /\ needAudit = 0
  /\ loginfile = FALSE
  /\ recordstate = 0
  /\ take = "none"
  /\ retried = FALSE
  /\ avi = "absent"
  /\ app = "none"
  /\ row = "none"
  /\ monitor = FALSE
  /\ session = "active"
  /\ exitAt = "never"

Goto(p, l) == pc' = [pc EXCEPT ![p] = l]

At(p, l) == session # "gone" /\ pc[p] = l

-----------------------------------------------------------------------------
(* main *)

\* The parameters: too few of them show a message box and end the session.
MainStart ==
  /\ At("main", "start")
  /\ \/ Goto("main", "badargs")
     \/ Goto("main", "launch")
  /\ UNCHANGED <<config, exitmsg, needAudit, loginfile, recorder, remote, session, exitAt>>

\* The user closes a message box of main.
UserOk ==
  /\ session # "gone"
  /\ pc["main"] \in Boxes
  /\ Goto("main", IF pc["main"] = "badargs" THEN "logoff" ELSE "x_test")
  /\ UNCHANGED <<config, exitmsg, needAudit, loginfile, recorder, remote, session, exitAt>>

\* OSCShellEx writes the tool's login file and launches it (module Launch).  NULL
\* means that it did not start, or that its window was not found: then it is left
\* running beside main's message box.
OSCShellEx ==
  /\ At("main", "launch")
  /\ loginfile' = TRUE
  /\ \/ /\ app' = "running"
        /\ Goto("main", "window")
     \/ /\ app' \in {app, "running"}
        /\ Goto("main", "launcherror")
  /\ UNCHANGED <<config, exitmsg, needAudit, recorder, row, monitor, session, exitAt>>

\* ShowDisableWindow, singleSemporeWatcher and the answer thread, in this order.
StartThread(l, p, next) ==
  /\ At("main", l)
  /\ pc' = [pc EXCEPT ![p] = "wait", !["main"] = next]
  /\ UNCHANGED <<config, exitmsg, needAudit, loginfile, recorder, remote, session, exitAt>>

ShowDisableWindow == StartThread("window", "window", "watcher")
StartWatcher == StartThread("watcher", "watcher", "answer")
StartAnswer == StartThread("answer", "answer", "record")

\* startRecord: needAudit is set before OnRecordEx starts the recording.
StartRecord ==
  /\ At("main", "record")
  /\ needAudit' = IF config.video THEN 1 ELSE needAudit
  /\ Goto("main", IF config.video THEN "recordex" ELSE "server")
  /\ UNCHANGED <<config, exitmsg, loginfile, recorder, remote, session, exitAt>>

OnRecordEx ==
  /\ At("main", "recordex")
  /\ recordstate' = 1
  /\ take' = "running"
  /\ Goto("main", "server")
  /\ UNCHANGED <<config, exitmsg, needAudit, loginfile, retried, avi, remote, session, exitAt>>

\* ShellRemoteControlServer: DoLoginLog(0) inserts the login row (the proxy does it
\* for some access types), then the monitor process and its thread are started;
\* both may fail.
ShellRemoteControlServer ==
  /\ At("main", "server")
  /\ \/ /\ row' \in {"none", "online"}
        /\ monitor' \in BOOLEAN
        /\ Goto("main", IF monitor' THEN "policy" ELSE "initerror")
     \/ /\ Goto("main", "initerror")
        /\ UNCHANGED <<row, monitor>>
  /\ UNCHANGED <<config, exitmsg, needAudit, loginfile, recorder, app, session, exitAt>>

\* CheckTimePolicy: while (isLoop())
PolicyTest ==
  /\ At("main", "policy")
  /\ Goto("main", IF exitmsg = 1 THEN "x_test" ELSE "tick")
  /\ UNCHANGED <<config, exitmsg, needAudit, loginfile, recorder, remote, session, exitAt>>

\* A second passes: heartbeat and time check (module TimePolicy); when the access
\* time is over the tool is terminated and the loop left.
Tick ==
  /\ At("main", "tick")
  /\ \/ /\ Goto("main", "policy")
        /\ UNCHANGED app
     \/ /\ app' = "exited"
        /\ Goto("main", "x_test")
  /\ UNCHANGED <<config, exitmsg, needAudit, loginfile, recorder, row, monitor,
                 session, exitAt>>

-----------------------------------------------------------------------------
(* ExitOscShell, by any thread p. *)

\* Mutant of Continue: main leaves the logoff to the thread that cleans up.
ContinueWithoutMain(p) ==
  IF p = "main" THEN "waitoff"
  ELSE IF p = "window" THEN "sleep"
  ELSE IF p = "answer" /\ ~config.haschild THEN "end"
  ELSE "logoff"

\* Where the thread goes on: ExitOscShell_Session calls exitSession; AnswerThread
\* and WindowProc call ExitOscShell alone.
Continue(p) ==
  IF p = "window" THEN "sleep"
  ELSE IF p = "answer" /\ ~config.haschild THEN "end"
  ELSE "logoff"

\* if (exitmsg != 1)
ExitTest(p) ==
  /\ At(p, "x_test")
  /\ Goto(p, IF exitmsg = 1 THEN Continue(p) ELSE "x_set")
  /\ UNCHANGED <<config, exitmsg, needAudit, loginfile, recorder, remote, session, exitAt>>

\* Mutant of ExitSet: the flag counts the threads.
ExitSetCounts(p) ==
  /\ At(p, "x_set")
  /\ exitmsg' = exitmsg + 1
  /\ exitAt' = exitAt
  /\ Goto(p, "x_audit")
  /\ UNCHANGED <<config, needAudit, loginfile, recorder, remote, session>>

\* exitmsg = 1
ExitSet(p) ==
  /\ At(p, "x_set")
  /\ exitmsg' = 1
  /\ exitAt' = IF exitAt # "never" THEN exitAt
                ELSE IF pc["main"] \in Startup \cup Boxes THEN "startup" ELSE "policy"
  /\ Goto(p, "x_audit")
  /\ UNCHANGED <<config, needAudit, loginfile, recorder, remote, session>>

\* Mutant of ExitAudit: a recording is stopped only when the tool has exited.
ExitAuditOfAnswer(p) ==
  /\ At(p, "x_audit")
  /\ loginfile' = FALSE
  /\ Goto(p, IF needAudit > 0 /\ p = "answer" THEN "x_stop" ELSE "x_remote")
  /\ UNCHANGED <<config, exitmsg, needAudit, recorder, remote, session, exitAt>>

\* The login file is deleted; if (needAudit > 0) OnStop()
ExitAudit(p) ==
  /\ At(p, "x_audit")
  /\ loginfile' = FALSE
  /\ Goto(p, IF needAudit > 0 THEN "x_stop" ELSE "x_remote")
  /\ UNCHANGED <<config, exitmsg, needAudit, recorder, remote, session, exitAt>>

\* OnStop: nothing to do, or the recorder is asked to finish ...
OnStop(p) ==
  /\ At(p, "x_stop")
  /\ recordstate' = 0
  /\ Goto(p, IF recordstate = 0 THEN "x_remote" ELSE "x_wait")
  /\ UNCHANGED <<config, exitmsg, needAudit, loginfile, take, retried, avi, remote,
                 session, exitAt>>

\* ... and awaited, until the event is set or a minute has passed.
OnStopReturns(p) ==
  /\ At(p, "x_wait")
  /\ Goto(p, "x_remote")
  /\ UNCHANGED <<config, exitmsg, needAudit, loginfile, recorder, remote, session, exitAt>>

\* The tool is terminated unless the caller says (flag 1) that it has exited.
Killed(flag) == IF flag = 0 /\ app = "running" THEN "exited" ELSE app

\* ExitRemoteControlServer: the access row is removed, the login row closed.
ExitRemoteControlServer(flag) ==
  /\ row' = IF row = "online" THEN "closed" ELSE row
  /\ monitor' = FALSE
  /\ app' = Killed(flag)

ExitRemote(p) ==
  /\ At(p, "x_remote")
  /\ ExitRemoteControlServer(IF p = "answer" THEN 1 ELSE 0)
  /\ Goto(p, Continue(p))
  /\ UNCHANGED <<config, exitmsg, needAudit, loginfile, recorder, session, exitAt>>

\* exitSession: a remote session is logged off; on the console main just returns
\* and the process with all its threads is gone.
ExitSession(p) ==
  /\ At(p, "logoff")
  /\ session' = IF config.console THEN IF p = "main" THEN "gone" ELSE session
                ELSE "ending"
  /\ Goto(p, IF config.console /\ p # "main" THEN "end" ELSE "waitoff")
  /\ UNCHANGED <<config, exitmsg, needAudit, loginfile, recorder, remote, exitAt>>

ExitStep(p) ==
  \/ ExitTest(p)
  \/ ExitSet(p)
  \/ ExitAudit(p)
  \/ OnStop(p)
  \/ OnStopReturns(p)
  \/ ExitRemote(p)
  \/ ExitSession(p)

-----------------------------------------------------------------------------
(* The other threads. *)

\* Mutant of AnswerWakes: the thread ends without telling anyone.
AnswerEnds ==
  /\ At("answer", "wait")
  /\ app = "exited"
  /\ Goto("answer", "end")
  /\ UNCHANGED <<config, exitmsg, needAudit, loginfile, recorder, remote, session, exitAt>>

\* AnswerThread, AnswerThreadEx: the tool (and its children) have exited.
AnswerWakes ==
  /\ At("answer", "wait")
  /\ app = "exited"
  /\ Goto("answer", IF exitmsg = 1 THEN "end" ELSE "x_test")
  /\ UNCHANGED <<config, exitmsg, needAudit, loginfile, recorder, remote, session, exitAt>>

\* singleSemporeWatcher: another session released the semaphore, or this one has
\* no handle and the wait fails.
WatcherWakes ==
  /\ At("watcher", "wait")
  /\ Goto("watcher", "x_test")
  /\ UNCHANGED <<config, exitmsg, needAudit, loginfile, recorder, remote, session, exitAt>>

\* WindowProc: WM_QUERYENDSESSION or WM_ENDSESSION.
EndSessionMessage ==
  /\ At("window", "wait")
  /\ session = "ending"
  /\ Goto("window", "x_test")
  /\ UNCHANGED <<config, exitmsg, needAudit, loginfile, recorder, remote, session, exitAt>>

\* Sleep(4000); PostQuitMessage(0)
WindowQuits ==
  /\ At("window", "sleep")
  /\ Goto("window", "end")
  /\ UNCHANGED <<config, exitmsg, needAudit, loginfile, recorder, remote, session, exitAt>>

\* The recording thread: a take is opened, and closed when recordstate is 0; a
\* failed write closes it too and restarts the recording once.
RecorderOpens ==
  /\ session # "gone"
  /\ take = "running"
  /\ avi # "partial"
  /\ avi' = "partial"
  /\ UNCHANGED <<config, pc, exitmsg, needAudit, loginfile, recordstate, take, retried,
                 remote, session, exitAt>>

RecorderFinishes ==
  /\ session # "gone"
  /\ take = "running"
  /\ recordstate = 0
  /\ avi = "partial"
  /\ avi' = "closed"
  /\ take' = "ended"
  /\ UNCHANGED <<config, pc, exitmsg, needAudit, loginfile, recordstate, retried, remote,
                 session, exitAt>>

RecorderFails ==
  /\ session # "gone"
  /\ take = "running"
  /\ avi' = IF avi = "partial" THEN "closed" ELSE avi
  /\ retried' = TRUE
  /\ recordstate' = IF retried THEN 0 ELSE 1
  /\ take' = IF retried THEN "ended" ELSE "running"
  /\ UNCHANGED <<config, pc, exitmsg, needAudit, loginfile, remote, session, exitAt>>

\* MonitorThread is told to disconnect: it closes the rows and kills the tool but
\* leaves exitmsg alone.
MonitorDisconnect ==
  /\ session # "gone"
  /\ monitor
  /\ ExitRemoteControlServer(0)
  /\ UNCHANGED <<config, pc, exitmsg, needAudit, loginfile, recorder, session, exitAt>>

-----------------------------------------------------------------------------
(* Windows and the user. *)

AppExits ==
  /\ session # "gone"
  /\ app = "running"
  /\ app' = "exited"
  /\ UNCHANGED <<config, pc, exitmsg, needAudit, loginfile, recorder, row, monitor,
                 session, exitAt>>

\* A logoff or shutdown from outside.
ExternalLogoff ==
  /\ session = "active"
  /\ session' = "ending"
  /\ UNCHANGED <<config, pc, exitmsg, needAudit, loginfile, recorder, remote, exitAt>>

\* Nothing that was under way is cut off: the window procedure has returned, every
\* thread has got through ExitOscShell, and a recording that was told to end has.
Settled ==
  /\ pc["window"] \in {"none", "end"}
  /\ \A p \in Procs : pc[p] \notin ExitPc
  /\ take = "running" => recordstate = 1

SessionEnds ==
  /\ session = "ending"
  /\ Ample => Settled
  /\ session' = "gone"
  /\ UNCHANGED <<config, pc, exitmsg, needAudit, loginfile, recorder, remote, exitAt>>

-----------------------------------------------------------------------------
Main ==
  \/ MainStart
  \/ OSCShellEx
  \/ ShowDisableWindow
  \/ StartWatcher
  \/ StartAnswer
  \/ StartRecord
  \/ OnRecordEx
  \/ ShellRemoteControlServer
  \/ PolicyTest
  \/ Tick

Recording == RecorderOpens \/ RecorderFinishes

SesNext ==
  \/ Main
  \/ UserOk
  \/ \E p \in Procs : ExitStep(p)
  \/ AnswerWakes
  \/ WatcherWakes
  \/ EndSessionMessage
  \/ WindowQuits
  \/ Recording
  \/ RecorderFails
  \/ MonitorDisconnect
  \/ AppExits
  \/ ExternalLogoff
  \/ SessionEnds

\* The threads run and Windows ends a session it has begun to end; nothing is
\* assumed of the user, of the tool, of failures or of other sessions.
SesFairness ==
  /\ WF_sesVars(Main)
  /\ \A p \in Procs : WF_sesVars(ExitStep(p))
  /\ WF_sesVars(AnswerWakes)
  /\ WF_sesVars(EndSessionMessage)
  /\ WF_sesVars(WindowQuits)
  /\ WF_sesVars(Recording)
  /\ WF_sesVars(SessionEnds)

SesSpec == SesInit /\ [][SesNext]_sesVars

FairSesSpec == SesSpec /\ SesFairness

-----------------------------------------------------------------------------
(* Properties. *)

(* A tool that has exited takes its session with it: whatever main is doing -
   still starting, or in its policy loop - the process ends, unless main waits
   for the user in a message box. *)
AppExitEndsSession ==
  (app = "exited") ~> (session = "gone" \/ pc["main"] \in Boxes)

(* A thread that has decided to end the session gets there: the cleanup of
   another thread, a failed recording or a lost finish event cannot block it. *)
ExitCompletes ==
  (exitmsg = 1) ~> (session = "gone" \/ pc["main"] \in Boxes)

(* Given that WindowProc's sleep is long enough, a remote session that ends from
   its policy loop leaves a closed video and no open login row, whichever
   threads decided to end it and in whatever order: the unlocked exitmsg lets
   two threads clean up but never none.  (A recording restarted after a failed
   write is the exception: see Recorder.) *)
AuditComplete ==
  session = "gone" /\ exitAt = "policy" /\ ~config.console /\ ~retried
    => avi # "partial" /\ row # "online" /\ ~loginfile

(* "a hidden window, so that a forced end of the process does not leave the
   recording incomplete": no session is gone with a video still open. *)
RecordingComplete ==
  session = "gone" => avi # "partial"
=============================================================================
