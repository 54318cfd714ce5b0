------------------------------ MODULE NfsMount ------------------------------
(***************************************************************************)
(* The video directory is a network drive.  The service NFS (P/NFS) mounts *)
(* it when it starts; CheckNFSThread of the watchdog service looks for the *)
(* directory every 20 s and calls RestartService when it is gone.  The two *)
(* are processes of their own that meet in the service control manager,    *)
(* which keeps the state of the service and the watchdog's handle to it.   *)
(***************************************************************************)
EXTENDS Naturals

CONSTANT MaxLosses   \* how often the drive may be lost
ASSUME MaxLossesNat == MaxLosses \in Nat

VARIABLES
  service,    \* dwCurrentState of the service, as the manager reports it
  serving,    \* how far the service's own process is
  mounting,   \* mount.exe, which the service starts and does not wait for
  mounted,    \* the video directory exists
  losses,     \* how often the drive has been lost
  watch,      \* how far CheckNFSThread is in RestartService
  hSvc,       \* the watchdog's handle to the service
  startFailed \* history: a started service ended before it was running

nfsvars == <<service, serving, mounting, mounted, losses, watch, hSvc, startFailed>>

ServiceStates == {"stopped", "startPending", "running", "stopPending"}
ServingAt == {"none", "main", "run", "mount", "loop", "revoke"}
WatchAt == {"sleep", "open", "query", "stop", "waitStop", "start", "waitStart"}

NfsInit ==
  /\ service \in {"stopped", "running"}
  /\ serving = IF service = "running" THEN "loop" ELSE "none"
  /\ mounting = FALSE
  /\ mounted \in BOOLEAN
  /\ losses = 0
  /\ watch = "sleep"
  /\ hSvc = "null"
  /\ startFailed = FALSE

(***************************************************************************)
(* The service.                                                            *)
(***************************************************************************)
\* ServiceMain up to Run: the handler is registered and the state reported;
\* a service whose handler cannot be registered returns and is stopped.
ServiceMain ==
  /\ serving = "main"
  /\ \/ serving' = "run" /\ UNCHANGED <<service, startFailed>>
     \/ serving' = "none" /\ service' = "stopped" /\ startFailed' = TRUE
  /\ UNCHANGED <<mounting, mounted, losses, watch, hSvc>>

\* Run reports RUNNING before it starts mount.exe.
RunService ==
  /\ serving = "run"
  /\ serving' = "mount"
  /\ service' = "running"
  /\ UNCHANGED <<mounting, mounted, losses, watch, hSvc, startFailed>>

\* ShellExecute does not wait for mount.exe; then the message loop is entered.
RunMount ==
  /\ serving = "mount"
  /\ serving' = "loop"
  /\ mounting' = TRUE
  /\ UNCHANGED <<service, mounted, losses, watch, hSvc, startFailed>>

\* Mutant: STOPPED is reported before the objects are revoked.
ServiceQuitsEarly ==
  /\ serving = "loop" /\ service = "stopPending"
  /\ serving' = "revoke"
  /\ service' = "stopped"
  /\ UNCHANGED <<mounting, mounted, losses, watch, hSvc, startFailed>>

\* The loop ends with the WM_QUIT that Handler posted (the state says so), and
\* ServiceMain reports STOPPED once Run has returned.
ServiceQuits ==
  /\ serving = "loop" /\ service = "stopPending"
  /\ serving' = "revoke"
  /\ UNCHANGED <<service, mounting, mounted, losses, watch, hSvc, startFailed>>

ServiceStopped ==
  /\ serving = "revoke"
  /\ serving' = "none"
  /\ service' = "stopped"
  /\ UNCHANGED <<mounting, mounted, losses, watch, hSvc, startFailed>>

\* mount.exe ends, with or without the drive.
MountEnds(ok) ==
  /\ mounting
  /\ mounting' = FALSE
  /\ mounted' = (mounted \/ ok)
  /\ UNCHANGED <<service, serving, losses, watch, hSvc, startFailed>>

\* The file server or the network goes away.
LoseMount ==
  /\ mounted /\ losses < MaxLosses
  /\ mounted' = FALSE
  /\ losses' = losses + 1
  /\ UNCHANGED <<service, serving, mounting, watch, hSvc, startFailed>>

(***************************************************************************)
(* CheckNFSThread and RestartService.                                      *)
(***************************************************************************)
\* QueryServiceStatus, ControlService and StartService fail on a closed handle.
HandleUsable == hSvc = "open"

NfsKeep == UNCHANGED <<mounting, mounted, losses>>

WatchTo(at, h) ==
  /\ watch' = at
  /\ hSvc' = h
  /\ NfsKeep

\* DirectoryExist is FALSE; OpenSCManager and OpenService succeed or fail.
CheckNFS ==
  /\ watch = "sleep" /\ ~mounted
  /\ \/ WatchTo("query", "open")
     \/ WatchTo("sleep", hSvc)
  /\ UNCHANGED <<service, serving, startFailed>>

\* Mutant: only a running service is restarted.
QueryRunning ==
  /\ watch = "query"
  /\ IF service = "running" THEN WatchTo("stop", hSvc) ELSE WatchTo("sleep", "closed")
  /\ UNCHANGED <<service, serving, startFailed>>

\* The first QueryServiceStatus; a pending service is left alone.
QueryService ==
  /\ watch = "query"
  /\ CASE service = "running" -> WatchTo("stop", hSvc)
       [] service = "stopped" -> WatchTo("start", hSvc)
       [] OTHER               -> WatchTo("sleep", "closed")
  /\ UNCHANGED <<service, serving, startFailed>>

\* ControlService(SERVICE_CONTROL_STOP): Handler reports STOP_PENDING and
\* posts WM_QUIT.  A service that is not running any more refuses.
StopService ==
  /\ watch = "stop"
  /\ \/ /\ service = "running" /\ serving \in {"mount", "loop"}
        /\ service' = "stopPending"
        /\ WatchTo("waitStop", hSvc)
     \/ /\ service # "running"
        /\ UNCHANGED service
        /\ WatchTo("sleep", "closed")
  /\ UNCHANGED <<serving, startFailed>>

\* while(QueryServiceStatus) ...: when the service is stopped both handles are
\* closed, but the "return" is commented out: the next query, on the closed
\* handle, ends the loop.
WaitStop ==
  /\ watch = "waitStop"
  /\ \/ HandleUsable /\ service = "stopped" /\ WatchTo("waitStop", "closed")
     \/ ~HandleUsable /\ WatchTo("start", hSvc)
  /\ UNCHANGED <<service, serving, startFailed>>

\* StartService, which fails on a closed handle and on a service that is not
\* stopped; on failure the handles are closed (again).
StartService ==
  /\ watch = "start"
  /\ \/ /\ HandleUsable /\ service = "stopped"
        /\ service' = "startPending"
        /\ serving' = "main"
        /\ startFailed' = FALSE
        /\ WatchTo("waitStart", hSvc)
     \/ /\ ~(HandleUsable /\ service = "stopped")
        /\ WatchTo("sleep", "closed")
        /\ UNCHANGED <<service, serving, startFailed>>

\* while(QueryServiceStatus) ...: only RUNNING ends this loop.
WaitStart ==
  /\ watch = "waitStart" /\ service = "running"
  /\ WatchTo("sleep", "closed")
  /\ UNCHANGED <<service, serving, startFailed>>

\* RestartService as a whole.
RestartService ==
  QueryService \/ StopService \/ WaitStop \/ StartService \/ WaitStart

ServiceStep == ServiceMain \/ RunService \/ RunMount \/ ServiceQuits \/ ServiceStopped

NfsTypeOK ==
  /\ service \in ServiceStates /\ serving \in ServingAt
  /\ mounting \in BOOLEAN /\ mounted \in BOOLEAN
  /\ losses \in 0..MaxLosses
  /\ watch \in WatchAt
  /\ hSvc \in {"null", "open", "closed"}
  /\ startFailed \in BOOLEAN

\* What the control manager says of the service agrees with what the service is
\* doing, whichever of the two moved last (NFS.cpp, Handler and ServiceMain).
ServiceReported ==
  /\ service = "stopped" <=> serving = "none"
  /\ service = "startPending" <=> serving \in {"main", "run"}
  /\ service = "running" => serving \in {"mount", "loop"}

\* A lost video directory comes back although RestartService closes the handle
\* it still needs: it fails to start the service it has stopped, and its next
\* call, 20 s later, finds the service stopped and starts it.  A service that
\* does not come up leaves the thread waiting for it.
MountComesBack == (~mounted) ~> (mounted \/ startFailed)
=============================================================================
