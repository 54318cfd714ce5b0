------------------------------ MODULE Watchdog ------------------------------
(***************************************************************************)
(* The watchdog service: MonitorSession, which logs off the disconnected   *)
(* sessions of the host, with its thread CheckNFSThread (NfsMount).        *)
(***************************************************************************)
EXTENDS NfsMount

CONSTANT MaxCrashes   \* how often the watchdog may crash
ASSUME CrashBound == MaxCrashes \in Nat

VARIABLES
  up,       \* the watchdog's process runs
  crashes,  \* how often it has crashed
  session,  \* the WTSConnectState of each session of the host
  count     \* passes of MonitorSession since the last look at the login rows

dogvars == <<nfsvars, up, crashes, session, count>>

Sessions == {0, 1, 2}
SessionStates == {"active", "disconnected", "gone"}

DogInit ==
  /\ NfsInit
  /\ up = TRUE /\ crashes = 0 /\ count = 0
  /\ session = [s \in Sessions |-> "active"]

\* The user's connection to a session breaks off.
Disconnect(s) ==
  /\ session[s] = "active"
  /\ session' = [session EXCEPT ![s] = "disconnected"]
  /\ UNCHANGED <<nfsvars, up, crashes, count>>

\* Mutant: LastSessionId starts as the first session instead of 0.
LogoffOthers ==
  session' = [s \in Sessions |->
                IF s > 1 /\ session[s] = "disconnected" THEN "gone" ELSE session[s]]

\* WTSEnumerateProcesses and the loop over its answer: disconnected sessions are
\* logged off, but for session 0, the one of the services.
LogoffDisconnected ==
  session' = [s \in Sessions |->
                IF s # 0 /\ session[s] = "disconnected" THEN "gone" ELSE session[s]]

\* Mutant: the count is not reset when the database cannot be opened.
MonitorPassCounts ==
  /\ up
  /\ LogoffDisconnected \/ UNCHANGED session
  /\ count' = count + 1
  /\ UNCHANGED <<nfsvars, up, crashes>>

\* One pass of the loop.  Every third pass opens the audit database; when that
\* fails the count starts again.
MonitorPass ==
  /\ up
  /\ LogoffDisconnected \/ UNCHANGED session  \* WTSEnumerateProcesses may fail
  /\ count' = (count + 1) % 3
  /\ UNCHANGED <<nfsvars, up, crashes>>

\* When it succeeds the process crashes in DBQueryProxyHostTime or in
\* DBCheckLoginLog: p_access, which only OSCShellEx sets, is NULL, and so is
\* sqlHandle after closeDBHandle.  CheckNFSThread ends where it is.
MonitorCrash ==
  /\ up /\ count = 2 /\ crashes < MaxCrashes
  /\ LogoffDisconnected \/ UNCHANGED session
  /\ up' = FALSE /\ crashes' = crashes + 1
  /\ watch' = "sleep" /\ hSvc' = "null"
  /\ UNCHANGED <<service, serving, mounting, mounted, losses, startFailed, count>>

\* The watchdog is started again (whoever calls MonitorSession is external).
MonitorStart ==
  /\ ~up
  /\ up' = TRUE /\ count' = 0
  /\ UNCHANGED <<nfsvars, crashes, session>>

\* Steps of the service NFS and of mount.exe, and of CheckNFSThread.
Nfs(A) == A /\ UNCHANGED <<up, crashes, session, count>>
NfsService == Nfs(ServiceStep)
Mounting(ok) == Nfs(MountEnds(ok))
CheckNFSThread == up /\ Nfs(CheckNFS)
Restarting == up /\ Nfs(RestartService)

DogNext ==
  \/ \E s \in Sessions : Disconnect(s)
  \/ MonitorPass \/ MonitorCrash \/ MonitorStart
  \/ NfsService \/ CheckNFSThread \/ Restarting \/ Nfs(LoseMount)
  \/ \E ok \in BOOLEAN : Mounting(ok)

DogSpec == DogInit /\ [][DogNext]_dogvars

(***************************************************************************)
(* Threads and services run; the manager restarts the watchdog; mount.exe, *)
(* OpenService and WTSEnumerateProcesses do not fail for ever.             *)
(***************************************************************************)
FairDogSpec ==
  /\ DogSpec
  /\ WF_dogvars(NfsService) /\ WF_dogvars(Restarting)
  /\ WF_dogvars(\E ok \in BOOLEAN : Mounting(ok)) /\ SF_dogvars(Mounting(TRUE))
  /\ SF_dogvars(CheckNFSThread /\ watch' = "query")
  /\ WF_dogvars(MonitorStart)
  /\ SF_dogvars(MonitorPass /\ LogoffDisconnected)

\* Type correctness; the passes of MonitorSession are counted up to the look at the
\* login rows and from there on anew, whether the database opens or not.
DogTypeOK ==
  /\ NfsTypeOK
  /\ up \in BOOLEAN /\ crashes \in 0..MaxCrashes
  /\ session \in [Sessions -> SessionStates] /\ count \in 0..2

\* A disconnected session is logged off, through every crash of the service;
\* session 0 is never taken for one.
DisconnectedLoggedOff ==
  \A s \in Sessions \ {0} : session[s] = "disconnected" ~> session[s] = "gone"
=============================================================================
