--------------------------- MODULE WatchdogProofs ---------------------------
(* Theorems about the watchdog service and the service NFS, for any number  *)
(* of losses of the drive and of crashes of the watchdog.                   *)
EXTENDS Watchdog, TLAPS

(***************************************************************************)
(* ServiceReported is inductive together with the types: the watchdog can  *)
(* change the reported state only where the service is in step with it,    *)
(* and every other change is the service's own.                            *)
(***************************************************************************)
NfsInv == NfsTypeOK /\ ServiceReported

\* The initial state satisfies the invariant.
LEMMA InitNfs == NfsInit => NfsInv
<1> SUFFICES ASSUME NfsInit PROVE NfsInv
  OBVIOUS
<1>1. mounting \in BOOLEAN /\ mounted \in BOOLEAN /\ startFailed \in BOOLEAN
  BY Zenon DEF NfsInit
<1>2. losses \in 0..MaxLosses
  BY MaxLossesNat DEF NfsInit
<1>3. QED
  BY <1>1, <1>2 DEF NfsInit, NfsInv, NfsTypeOK, ServiceReported, ServiceStates, ServingAt, WatchAt

\* The places and the handle of RestartService; the rest of the drive stays.
LEMMA WatchToType ==
  ASSUME NfsTypeOK, NEW at \in WatchAt, NEW h \in {"null", "open", "closed"}, WatchTo(at, h)
  PROVE  /\ watch' \in WatchAt /\ hSvc' \in {"null", "open", "closed"}
         /\ mounting' \in BOOLEAN /\ mounted' \in BOOLEAN /\ losses' \in 0..MaxLosses
<1>1. mounting' \in BOOLEAN /\ mounted' \in BOOLEAN
  BY Zenon DEF NfsTypeOK, WatchTo, NfsKeep
<1>2. QED
  BY <1>1 DEF NfsTypeOK, WatchTo, NfsKeep

\* A step of the service itself.
LEMMA ServiceStepInv == NfsInv /\ ServiceStep => NfsInv'
<1> SUFFICES ASSUME NfsInv, ServiceStep PROVE NfsInv'
  OBVIOUS
<1>1. mounting' \in BOOLEAN /\ mounted' \in BOOLEAN /\ startFailed' \in BOOLEAN
  BY Zenon DEF NfsInv, NfsTypeOK, ServiceStep, ServiceMain, RunService, RunMount, ServiceQuits,
               ServiceStopped
<1> USE DEF NfsInv, NfsTypeOK, ServiceReported, ServiceStates, ServingAt
<1>2. CASE ServiceMain
  BY <1>1, <1>2 DEF ServiceMain
<1>3. CASE RunService
  BY <1>1, <1>3 DEF RunService
<1>4. CASE RunMount
  BY <1>1, <1>4 DEF RunMount
<1>5. CASE ServiceQuits
  BY <1>1, <1>5 DEF ServiceQuits
<1>6. CASE ServiceStopped
  BY <1>1, <1>6 DEF ServiceStopped
<1>7. QED
  BY <1>2, <1>3, <1>4, <1>5, <1>6 DEF ServiceStep

\* A step of the drive: mount.exe ends, or the file server goes away.
LEMMA DriveInv ==
  ASSUME NfsInv, LoseMount \/ \E ok \in BOOLEAN : MountEnds(ok)
  PROVE  NfsInv'
<1>1. mounting' \in BOOLEAN /\ mounted' \in BOOLEAN /\ startFailed' \in BOOLEAN
  BY Zenon DEF NfsInv, NfsTypeOK, LoseMount, MountEnds
<1>2. losses' \in 0..MaxLosses
  BY MaxLossesNat DEF NfsInv, NfsTypeOK, LoseMount, MountEnds
<1>3. UNCHANGED <<service, serving, watch, hSvc>>
  BY DEF LoseMount, MountEnds
<1>4. QED
  BY <1>1, <1>2, <1>3 DEF NfsInv, NfsTypeOK, ServiceReported

\* A step of CheckNFSThread or RestartService.
LEMMA RestartInv == NfsInv /\ (CheckNFS \/ RestartService) => NfsInv'
<1> SUFFICES ASSUME NfsInv, CheckNFS \/ RestartService PROVE NfsInv'
  OBVIOUS
<1>0. hSvc \in {"null", "open", "closed"} /\ NfsTypeOK
  BY DEF NfsInv, NfsTypeOK
<1>1. ASSUME NEW at \in WatchAt, NEW h \in {"null", "open", "closed"}, WatchTo(at, h),
             startFailed' \in BOOLEAN, service' \in ServiceStates, serving' \in ServingAt,
             ServiceReported'
      PROVE  NfsInv'
  BY <1>0, <1>1, WatchToType, Zenon DEF NfsInv, NfsTypeOK
<1>2. ASSUME NEW at \in WatchAt, NEW h \in {"null", "open", "closed"}, WatchTo(at, h),
             UNCHANGED <<service, serving, startFailed>>
      PROVE  NfsInv'
  <2>1. startFailed' \in BOOLEAN
    BY <1>2, Zenon DEF NfsInv, NfsTypeOK
  <2>2. service' \in ServiceStates /\ serving' \in ServingAt /\ ServiceReported'
    BY <1>2 DEF NfsInv, NfsTypeOK, ServiceReported
  <2>3. QED
    BY <1>1, <1>2, <2>1, <2>2
<1>3. CASE CheckNFS
  BY <1>0, <1>2, <1>3 DEF CheckNFS, WatchAt
<1>4. CASE QueryService
  <2>1. WatchTo("stop", hSvc) \/ WatchTo("start", hSvc) \/ WatchTo("sleep", "closed")
    BY <1>4, Zenon DEF QueryService
  <2>2. QED
    BY <1>0, <1>2, <1>4, <2>1 DEF QueryService, WatchAt
<1>5. CASE StopService
  <2>1. CASE service = "running" /\ service' = "stopPending" /\ WatchTo("waitStop", hSvc)
    <3>1. service' \in ServiceStates /\ serving' \in ServingAt /\ ServiceReported'
      BY <1>5, <2>1 DEF StopService, NfsInv, NfsTypeOK, ServiceReported, ServiceStates
    <3>2. startFailed' \in BOOLEAN
      BY <1>5, Zenon DEF StopService, NfsInv, NfsTypeOK
    <3>3. QED
      BY <1>0, <1>1, <2>1, <3>1, <3>2 DEF WatchAt
  <2>2. CASE UNCHANGED service /\ WatchTo("sleep", "closed")
    BY <1>0, <1>2, <1>5, <2>2 DEF StopService, WatchAt
  <2>3. QED
    BY <1>5, <2>1, <2>2 DEF StopService
<1>6. CASE WaitStop
  BY <1>0, <1>2, <1>6 DEF WaitStop, WatchAt
<1>7. CASE StartService
  <2>1. CASE /\ service = "stopped" /\ service' = "startPending" /\ serving' = "main"
             /\ startFailed' = FALSE /\ WatchTo("waitStart", hSvc)
    <3>1. service' \in ServiceStates /\ serving' \in ServingAt /\ ServiceReported'
      BY <2>1 DEF ServiceReported, ServiceStates, ServingAt
    <3>2. startFailed' \in BOOLEAN
      BY <2>1, Zenon
    <3>3. QED
      BY <1>0, <1>1, <2>1, <3>1, <3>2 DEF WatchAt
  <2>2. CASE UNCHANGED <<service, serving, startFailed>> /\ WatchTo("sleep", "closed")
    BY <1>2, <2>2 DEF WatchAt
  <2>3. QED
    BY <1>7, <2>1, <2>2 DEF StartService
<1>8. CASE WaitStart
  BY <1>2, <1>8 DEF WaitStart, WatchAt
<1>9. QED
  BY <1>3, <1>4, <1>5, <1>6, <1>7, <1>8 DEF RestartService

\* Every step of the watchdog, of the service and of their surroundings.
LEMMA NextNfs == NfsInv /\ [DogNext]_dogvars => NfsInv'
<1> SUFFICES ASSUME NfsInv, [DogNext]_dogvars PROVE NfsInv'
  OBVIOUS
<1>1. ASSUME UNCHANGED nfsvars PROVE NfsInv'
  <2>1. mounting' \in BOOLEAN /\ mounted' \in BOOLEAN /\ startFailed' \in BOOLEAN
    BY <1>1, Zenon DEF nfsvars, NfsInv, NfsTypeOK
  <2>2. QED
    BY <1>1, <2>1 DEF nfsvars, NfsInv, NfsTypeOK, ServiceReported
<1>2. CASE \E s \in Sessions : Disconnect(s)
  BY <1>1, <1>2 DEF Disconnect
<1>3. CASE MonitorPass \/ MonitorStart
  BY <1>1, <1>3 DEF MonitorPass, MonitorStart
<1>4. CASE MonitorCrash
  <2>1. mounting' \in BOOLEAN /\ mounted' \in BOOLEAN /\ startFailed' \in BOOLEAN
    BY <1>4, Zenon DEF MonitorCrash, NfsInv, NfsTypeOK
  <2>2. QED
    BY <1>4, <2>1 DEF MonitorCrash, NfsInv, NfsTypeOK, ServiceReported, WatchAt
<1>5. CASE NfsService
  BY <1>5, ServiceStepInv DEF NfsService, Nfs
<1>6. CASE CheckNFSThread \/ Restarting
  BY <1>6, RestartInv DEF CheckNFSThread, Restarting, Nfs
<1>7. CASE Nfs(LoseMount) \/ \E ok \in BOOLEAN : Mounting(ok)
  BY <1>7, DriveInv DEF Mounting, Nfs
<1>8. CASE UNCHANGED dogvars
  BY <1>1, <1>8 DEF dogvars
<1>9. QED
  BY <1>2, <1>3, <1>4, <1>5, <1>6, <1>7, <1>8 DEF DogNext

\* The watchdog's own variables.
DogTyped ==
  up \in BOOLEAN /\ crashes \in 0..MaxCrashes /\ session \in [Sessions -> SessionStates] /\ count \in 0..2

\* Every step keeps them typed.
LEMMA NextDog == DogTyped /\ [DogNext]_dogvars => DogTyped'
<1> SUFFICES ASSUME DogTyped, [DogNext]_dogvars PROVE DogTyped'
  OBVIOUS
<1>1. ASSUME UNCHANGED <<up, crashes, session, count>> PROVE DogTyped'
  BY <1>1, Zenon DEF DogTyped
<1>2. ASSUME LogoffDisconnected \/ UNCHANGED session PROVE session' \in [Sessions -> SessionStates]
  BY <1>2 DEF LogoffDisconnected, SessionStates, DogTyped
<1>3. CASE \E s \in Sessions : Disconnect(s)
  <2>1. up' \in BOOLEAN
    BY <1>3, Zenon DEF Disconnect, DogTyped
  <2>2. QED
    BY <1>3, <2>1 DEF Disconnect, DogTyped, SessionStates
<1>4. CASE MonitorPass
  <2>1. up' \in BOOLEAN
    BY <1>4, Zenon DEF MonitorPass, DogTyped
  <2>2. count' \in 0..2 /\ crashes' \in 0..MaxCrashes
    BY <1>4 DEF MonitorPass, DogTyped
  <2>3. session' \in [Sessions -> SessionStates]
    BY <1>2, <1>4 DEF MonitorPass
  <2>4. QED
    BY <2>1, <2>2, <2>3 DEF DogTyped
<1>5. CASE MonitorCrash
  <2>1. up' \in BOOLEAN
    BY <1>5, Zenon DEF MonitorCrash
  <2>2. count' \in 0..2 /\ crashes' \in 0..MaxCrashes
    BY <1>5, CrashBound DEF MonitorCrash, DogTyped
  <2>3. session' \in [Sessions -> SessionStates]
    BY <1>2, <1>5 DEF MonitorCrash
  <2>4. QED
    BY <2>1, <2>2, <2>3 DEF DogTyped
<1>6. CASE MonitorStart
  <2>1. up' \in BOOLEAN
    BY <1>6, Zenon DEF MonitorStart
  <2>2. QED
    BY <1>6, <2>1 DEF MonitorStart, DogTyped
<1>7. CASE NfsService \/ CheckNFSThread \/ Restarting \/ Nfs(LoseMount) \/ \E ok \in BOOLEAN : Mounting(ok)
  BY <1>1, <1>7 DEF NfsService, CheckNFSThread, Restarting, Mounting, Nfs
<1>8. CASE UNCHANGED dogvars
  BY <1>1, <1>8 DEF dogvars
<1>9. QED
  BY <1>3, <1>4, <1>5, <1>6, <1>7, <1>8 DEF DogNext

-----------------------------------------------------------------------------
(* The theorems *)

(* Type correctness of the watchdog and of the service NFS, for any number   *)
(* of crashes and losses; MonitorSession's count of passes stays below 3,    *)
(* also when the look at the login rows fails.                               *)
THEOREM WatchdogTyped == DogSpec => []DogTypeOK
<1>1. DogInit => NfsInv /\ DogTyped
  <2> SUFFICES ASSUME DogInit PROVE NfsInv /\ DogTyped
    OBVIOUS
  <2>1. up \in BOOLEAN
    BY Zenon DEF DogInit
  <2>2. QED
    BY <2>1, InitNfs, CrashBound DEF DogInit, DogTyped, SessionStates
<1>2. NfsInv /\ DogTyped /\ [DogNext]_dogvars => (NfsInv /\ DogTyped)'
  BY NextNfs, NextDog
<1>3. NfsInv /\ DogTyped => DogTypeOK
  BY Zenon DEF NfsInv, DogTyped, DogTypeOK
<1>4. QED
  BY <1>1, <1>2, <1>3, PTL DEF DogSpec

(* However the watchdog's RestartService, its crashes and the service's own  *)
(* steps interleave, the service control manager's state agrees with where   *)
(* the service's process is (NFS.cpp, Handler and ServiceMain).              *)
THEOREM StateIsReported == DogSpec => []ServiceReported
<1>1. DogInit => NfsInv
  BY InitNfs DEF DogInit
<1>2. NfsInv => ServiceReported
  BY DEF NfsInv
<1>3. QED
  BY <1>1, <1>2, NextNfs, PTL DEF DogSpec
=============================================================================
