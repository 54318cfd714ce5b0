------------------------------ MODULE LoginLog ------------------------------
(***************************************************************************)
(* The database side of a session in OSCShell.dll: the access row of the   *)
(* OSC database, the login row of the audit database, and the one global   *)
(* handle p_shell.sqlHandle that openDBHandle, closeDBHandle and every     *)
(* statement in between share without a lock.                              *)
(*                                                                         *)
(* Three threads work: main (ShellRemoteControlServer, then heartbeats and *)
(* GetVistitime), the thread that runs ExitRemoteControlServer, and        *)
(* MonitorThread.  A thread's program is the sequence of the calls it has  *)
(* still to make; a call through a handle that is NULL, deleted or (OLE DB *)
(* only) not yet connected is undefined and ends the process.  A statement *)
(* for one database on a connection to the other one fails.                *)
(***************************************************************************)
EXTENDS Naturals, Sequences

CONSTANTS
  Faults,     \* connections and statements may fail
  Configs     \* the configurations considered

\* The kind of database (OLE: Oracle, DB2), and debugLevel = DEBUG_LEVEL, with
\* which RemoveMapInfo keeps the access row.
AllConfigs == [dbtype : {"MYSQL", "OLE"}, debug : BOOLEAN]

ASSUME LoginAssumption == Faults \in BOOLEAN /\ Configs \subseteq AllConfigs

VARIABLES
  config,     \* the configuration of this process; never changes
  prog,       \* prog[p]: the calls thread p has still to make
  proxyTime,  \* proxyTime[p]: a time was read into the local proxyTime of p
  sqlHandle,  \* the global handle: what it points to and for which database
  g_csA,      \* the owner of the critical section of DoLoginLog
  auth,       \* the row of pr_AuthAccessRes exists
  login,      \* the row of Pr_LoginLog: its status and its two times
  id,         \* p_loginlog.id is the key of the login row ("own") or empty
  pipeFlag,   \* MonitorThread's loop condition
  exitmsg,    \* the session is ending (SESSIONMANAGER)
  early,      \* GetVistitime took its early return (history variable)
  crashed     \* the process has ended by an undefined call or an exception

rows == <<auth, login>>
logVars == <<config, prog, proxyTime, sqlHandle, g_csA, rows, id, pipeFlag,
             exitmsg, early, crashed>>

Threads == {"main", "exit", "monitor"}

Handles == [st : {"NULL"}, conn : {"none"}]
             \cup [st : {"new", "open", "deleted"}, conn : {"osc", "audit"}]
NullHandle == [st |-> "NULL", conn |-> "none"]

Times == {"none", "time", "garbage"}

\* The calls made through the global handle while it is open ...
DoLoginLog(stmt) ==
  <<"enter", "open_osc", "qtime", "close", "null", "ctime", stmt, "leave">>
RemoveMapInfo ==
  IF config.debug THEN <<>> ELSE <<"open_osc", "delete", "close", "null">>

\* Mutant of ExitRemoteControlServer: the thread forgets to leave g_csA.
ExitWithoutLeave ==
  RemoveMapInfo \o <<"enter", "open_osc", "qtime", "close", "null", "ctime", "logout">>
    \o <<"pipe">>

\* ... and the programs made of them.
ExitRemoteControlServer == RemoveMapInfo \o DoLoginLog("logout") \o <<"pipe">>
ShellRemoteControlServer ==
  DoLoginLog("insert") \o <<"open_audit", "loginid", "video", "close", "null", "monitor">>

\* Mutant of GetVistitime: the second handle is not closed.
GetVistitimeLeaks ==
  <<"open_osc", "vtime", "close", "null", "ctime", "open_osc", "qauth", "policy">>

GetVistitime ==
  <<"open_osc", "vtime", "close", "null", "ctime", "open_osc", "qauth", "close", "null",
    "policy">>

Calls == {"enter", "leave", "open_osc", "open_audit", "connect", "qtime", "vtime", "qauth",
          "delete", "close", "null", "ctime", "insert", "logout", "beat", "loginid",
          "loginid_end", "video", "monitor", "policy", "pipe", "fail"}

(* Type correctness of the handle, the rows and the programs. *)
LoginTypeOK ==
  /\ config \in Configs
  /\ \A p \in Threads : prog[p] \in Seq(Calls) /\ Len(prog[p]) <= 16
  /\ proxyTime \in [Threads -> BOOLEAN]
  /\ sqlHandle \in Handles
  /\ g_csA \in Threads \cup {"none"}
  /\ auth \in BOOLEAN
  /\ login \in [status : {"none", "0", "1", "2"}, online : Times, out : Times]
  /\ id \in {"own", "empty"}
  /\ pipeFlag \in BOOLEAN
  /\ exitmsg \in BOOLEAN
  /\ early \in BOOLEAN
  /\ crashed \in BOOLEAN

LogInit ==
  /\ config \in Configs
  /\ prog = [p \in Threads |-> IF p = "main" THEN ShellRemoteControlServer ELSE <<>>]
  /\ proxyTime = [p \in Threads |-> FALSE]
  /\ sqlHandle = NullHandle
  /\ g_csA = "none"
  /\ auth = TRUE
  /\ login = [status |-> "none", online |-> "none", out |-> "none"]
  /\ id = "own"
  /\ pipeFlag = FALSE
  /\ exitmsg = FALSE
  /\ early = FALSE
  /\ crashed = FALSE

-----------------------------------------------------------------------------
\* p is about to make the call c.
Calling(p, c) == ~crashed /\ prog[p] # <<>> /\ Head(prog[p]) = c

Continue(p, code) == prog' = [prog EXCEPT ![p] = code]
Return(p) == Continue(p, Tail(prog[p]))

Crash ==
  /\ crashed' = TRUE
  /\ UNCHANGED <<config, prog, proxyTime, sqlHandle, g_csA, rows, id, pipeFlag,
                 exitmsg, early>>

\* A call through the global handle that cannot be made, and one that need not
\* end well: the deleted object may still look alive.
NoObject ==
  \/ sqlHandle.st = "NULL"
  \/ sqlHandle.st = "new" /\ config.dbtype = "OLE"
Undefined == NoObject \/ sqlHandle.st = "deleted"

\* A statement for the database conn succeeds only on an open connection to it.
Succeeds(conn) == sqlHandle = [st |-> "open", conn |-> conn]
Fails(conn) == ~NoObject /\ (Faults \/ ~Succeeds(conn))

-----------------------------------------------------------------------------
(* openDBHandle and closeDBHandle. *)

\* An open handle is taken as it is, for whichever database it was opened;
\* otherwise the new handle is published before it is connected.
OpenDBHandle(p, c, conn) ==
  /\ Calling(p, c)
  /\ IF sqlHandle.st # "NULL"
     THEN Return(p) /\ UNCHANGED sqlHandle
     ELSE /\ sqlHandle' = [st |-> "new", conn |-> conn]
          /\ Continue(p, <<"connect">> \o Tail(prog[p]))
  /\ UNCHANGED <<config, proxyTime, g_csA, rows, id, pipeFlag, exitmsg, early, crashed>>

\* conndb; when it fails the handle is closed and the guarded call skipped.
Connect(p) ==
  /\ Calling(p, "connect")
  /\ \/ Undefined /\ sqlHandle.st # "new" /\ Crash
     \/ /\ sqlHandle.st \in {"new", "open"}
        /\ \/ /\ sqlHandle' = [sqlHandle EXCEPT !.st = "open"]
              /\ Return(p)
           \/ /\ Faults
              /\ Continue(p, <<"close", "null">> \o Tail(Tail(prog[p])))
              /\ UNCHANGED sqlHandle
        /\ UNCHANGED <<config, proxyTime, g_csA, rows, id, pipeFlag, exitmsg,
                       early, crashed>>

\* closeDBHandle deletes the object - under the feet of a thread that is inside
\* DBQueryLoginlogId - and then clears the pointer.
CloseDBHandle(p) ==
  /\ Calling(p, "close")
  /\ \/ /\ \/ sqlHandle.st = "deleted"
           \/ sqlHandle.st # "NULL" /\ \E q \in Threads \ {p} : Calling(q, "loginid_end")
        /\ Crash
     \/ /\ sqlHandle.st = "NULL"
        /\ Continue(p, Tail(Tail(prog[p])))
        /\ UNCHANGED <<sqlHandle, crashed>>
     \/ /\ sqlHandle.st \in {"new", "open"}
        /\ sqlHandle' = [sqlHandle EXCEPT !.st = "deleted"]
        /\ Return(p)
        /\ UNCHANGED crashed
  /\ UNCHANGED <<config, proxyTime, g_csA, rows, id, pipeFlag, exitmsg, early>>

\* Mutant of ClearHandle: the pointer is cleared, the connection remembered.
ClearHandleKeepsConn(p) ==
  /\ Calling(p, "null")
  /\ sqlHandle' = [sqlHandle EXCEPT !.st = "NULL"]
  /\ Return(p)
  /\ UNCHANGED <<config, proxyTime, g_csA, rows, id, pipeFlag, exitmsg, early, crashed>>

ClearHandle(p) ==
  /\ Calling(p, "null")
  /\ sqlHandle' = NullHandle
  /\ Return(p)
  /\ UNCHANGED <<config, proxyTime, g_csA, rows, id, pipeFlag, exitmsg, early, crashed>>

-----------------------------------------------------------------------------
(* The statements made through the global handle. *)

\* DBQueryProxyHostTime: the time is found through the access row.
QueryProxyHostTime(p) ==
  /\ Calling(p, "qtime")
  /\ \/ Undefined /\ Crash
     \/ /\ \/ Succeeds("osc") /\ proxyTime' = [proxyTime EXCEPT ![p] = auth]
           \/ Fails("osc") /\ proxyTime' = [proxyTime EXCEPT ![p] = FALSE]
        /\ Return(p)
        /\ UNCHANGED <<config, sqlHandle, g_csA, rows, id, pipeFlag, exitmsg, early,
                       crashed>>

\* In GetVistitime MySQL's -1 (no row, or an error) leads to an early return that
\* leaves the handle open and makes the policy loop end the session.
QueryVisitTime(p) ==
  /\ Calling(p, "vtime")
  /\ \/ Undefined /\ Crash
     \/ /\ \/ Succeeds("osc") /\ proxyTime' = [proxyTime EXCEPT ![p] = auth]
           \/ Fails("osc") /\ proxyTime' = [proxyTime EXCEPT ![p] = FALSE]
        /\ early' = (early \/ (config.dbtype = "MYSQL" /\ ~proxyTime'[p]))
        /\ Continue(p, IF config.dbtype = "MYSQL" /\ ~proxyTime'[p] THEN <<"fail">> ELSE Tail(prog[p]))
        /\ UNCHANGED <<config, sqlHandle, g_csA, rows, id, pipeFlag, exitmsg, crashed>>

\* DBQueryTimeAuth changes local variables only.
QueryTimeAuth(p) ==
  /\ Calling(p, "qauth")
  /\ \/ Undefined /\ Crash
     \/ /\ Succeeds("osc") \/ Fails("osc")
        /\ Return(p)
        /\ UNCHANGED <<config, proxyTime, sqlHandle, g_csA, rows, id, pipeFlag,
                       exitmsg, early, crashed>>

\* DBExecAuthAccessRes(.., 1) deletes the access row.
DeleteAccess(p) ==
  /\ Calling(p, "delete")
  /\ \/ Undefined /\ Crash
     \/ /\ \/ Succeeds("osc") /\ auth' = FALSE
           \/ Fails("osc") /\ UNCHANGED auth
        /\ Return(p)
        /\ UNCHANGED <<config, proxyTime, sqlHandle, g_csA, login, id, pipeFlag,
                       exitmsg, early, crashed>>

\* DBQueryLoginlogId polls for the login row, for minutes if need be, and its result
\* replaces p_loginlog.id: an empty one when the row was not found.
QueryLoginlogId(p) ==
  /\ Calling(p, "loginid")
  /\ \/ Undefined /\ Crash
     \/ /\ ~Undefined
        /\ Continue(p, <<"loginid_end">> \o Tail(prog[p]))
        /\ UNCHANGED <<config, proxyTime, sqlHandle, g_csA, rows, id, pipeFlag,
                       exitmsg, early, crashed>>

LoginlogIdFound(p) ==
  /\ Calling(p, "loginid_end")
  /\ \/ Succeeds("audit") /\ id' = IF login.status = "none" THEN "empty" ELSE "own"
     \/ (Faults \/ ~Succeeds("audit")) /\ id' = "empty"
  /\ Return(p)
  /\ UNCHANGED <<config, proxyTime, sqlHandle, g_csA, rows, pipeFlag, exitmsg, early, crashed>>

\* DBExecUserActivityVideoLog, if a video is wanted: not guarded by the result of
\* openDBHandle.  The row it inserts is not tracked.
InsertVideo(p) ==
  /\ Calling(p, "video")
  /\ \/ Undefined /\ Crash
     \/ /\ Return(p)
        /\ UNCHANGED <<config, proxyTime, sqlHandle, g_csA, rows, id, pipeFlag, exitmsg, early,
                       crashed>>

-----------------------------------------------------------------------------
(* The rest of DoLoginLog: its lock, the time it computes and the statement it
   makes through an audit handle of its own. *)

Enter(p) ==
  /\ Calling(p, "enter")
  /\ g_csA = "none"
  /\ g_csA' = p
  /\ proxyTime' = [proxyTime EXCEPT ![p] = FALSE]
  /\ Return(p)
  /\ UNCHANGED <<config, sqlHandle, rows, id, pipeFlag, exitmsg, early, crashed>>

Leave(p) ==
  /\ Calling(p, "leave")
  /\ g_csA' = "none"
  /\ Return(p)
  /\ UNCHANGED <<config, proxyTime, sqlHandle, rows, id, pipeFlag, exitmsg, early, crashed>>

\* CTime of an empty string is the year 0: the constructor may throw.
MakeTime(p) ==
  /\ Calling(p, "ctime")
  /\ \/ ~proxyTime[p] /\ Crash
     \/ /\ Return(p)
        /\ UNCHANGED <<config, proxyTime, sqlHandle, g_csA, rows, id, pipeFlag,
                       exitmsg, early, crashed>>

TimeOf(p) == IF proxyTime[p] THEN "time" ELSE "garbage"

\* Mutant of RowAfter: a heartbeat marks the session as online.
RowAfterBeatOnline(p, c) ==
  CASE c = "insert" -> [status |-> "1", online |-> "time", out |-> "none"]
    [] c = "logout" -> [login EXCEPT !.status = "0", !.out = TimeOf(p)]
    [] c = "beat" -> [login EXCEPT !.status = "1", !.online = TimeOf(p)]

\* DBExecLoginLog: the row after flag 0, 1 and 2.
RowAfter(p, c) ==
  CASE c = "insert" -> [status |-> "1", online |-> "time", out |-> "none"]
    [] c = "logout" -> [login EXCEPT !.status = "0", !.out = TimeOf(p)]
    [] c = "beat" -> [login EXCEPT !.online = TimeOf(p)]

\* An update finds its row by p_loginlog.id.
Matches(c) == c = "insert" \/ (login.status # "none" /\ id = "own")

\* A failed connection is only logged; a failed statement makes the call return
\* an error, which matters for the insert alone.
ExecLoginLog(p, c) ==
  /\ Calling(p, c)
  /\ \/ /\ login' = IF Matches(c) THEN RowAfter(p, c) ELSE login
        /\ Return(p)
     \/ /\ Faults
        /\ \/ Return(p)
           \/ c = "insert" /\ Continue(p, <<"leave", "fail">>)
        /\ UNCHANGED login
  /\ UNCHANGED <<config, proxyTime, sqlHandle, g_csA, auth, id, pipeFlag,
                 exitmsg, early, crashed>>

-----------------------------------------------------------------------------
(* The threads. *)

\* The monitor process and MonitorThread start, or the call returns 2.
StartMonitor(p) ==
  /\ Calling(p, "monitor")
  /\ \/ pipeFlag' = TRUE /\ Return(p)
     \/ Continue(p, <<"fail">>) /\ UNCHANGED pipeFlag
  /\ UNCHANGED <<config, proxyTime, sqlHandle, g_csA, rows, id, exitmsg, early, crashed>>

\* An error of ShellRemoteControlServer or the end of the access time: main ends
\* the session, unless that has begun.
MainExits(p) ==
  /\ Calling(p, "fail")
  /\ exitmsg' = TRUE
  /\ Continue(p, IF exitmsg THEN <<>> ELSE ExitRemoteControlServer)
  /\ UNCHANGED <<config, proxyTime, sqlHandle, g_csA, rows, id, pipeFlag, early, crashed>>

PolicyDecides(p) ==
  /\ Calling(p, "policy")
  /\ Continue(p, <<>>) \/ Continue(p, <<"fail">>)
  /\ UNCHANGED <<config, proxyTime, sqlHandle, g_csA, rows, id, pipeFlag, exitmsg,
                 early, crashed>>

\* The last lines of ExitRemoteControlServer; the tool is killed (see Session).
ExitEnds(p) ==
  /\ Calling(p, "pipe")
  /\ pipeFlag' = FALSE
  /\ Return(p)
  /\ UNCHANGED <<config, proxyTime, sqlHandle, g_csA, rows, id, exitmsg, early, crashed>>

\* CheckTimePolicy, while (isLoop()): a heartbeat or a check of the time.
PolicyLoop ==
  /\ ~crashed
  /\ prog["main"] = <<>>
  /\ ~exitmsg
  /\ Continue("main", DoLoginLog("beat")) \/ Continue("main", GetVistitime)
  /\ UNCHANGED <<config, proxyTime, sqlHandle, g_csA, rows, id, pipeFlag, exitmsg,
                 early, crashed>>

\* Another thread ends the session (ExitOscShell).
StartExit ==
  /\ ~crashed
  /\ ~exitmsg
  /\ exitmsg' = TRUE
  /\ Continue("exit", ExitRemoteControlServer)
  /\ UNCHANGED <<config, proxyTime, sqlHandle, g_csA, rows, id, pipeFlag, early, crashed>>

\* MonitorThread reads STATUS:1 or STATUS:2: DBExecLoginLogStatus.
MonitorStatus ==
  /\ ~crashed
  /\ pipeFlag
  /\ prog["monitor"] = <<>>
  /\ login.status # "none" /\ id = "own"
  /\ \E s \in {"1", "2"} : login' = [login EXCEPT !.status = s]
  /\ UNCHANGED <<config, prog, proxyTime, sqlHandle, g_csA, auth, id, pipeFlag,
                 exitmsg, early, crashed>>

\* MonitorThread reads DISCONNECT: ExitRemoteControlServer(0), without exitmsg.
MonitorDisconnect ==
  /\ ~crashed
  /\ pipeFlag
  /\ prog["monitor"] = <<>>
  /\ Continue("monitor", ExitRemoteControlServer)
  /\ UNCHANGED <<config, proxyTime, sqlHandle, g_csA, rows, id, pipeFlag, exitmsg,
                 early, crashed>>

-----------------------------------------------------------------------------
Step(p) ==
  \/ OpenDBHandle(p, "open_osc", "osc")
  \/ OpenDBHandle(p, "open_audit", "audit")
  \/ Connect(p)
  \/ CloseDBHandle(p)
  \/ ClearHandle(p)
  \/ QueryProxyHostTime(p)
  \/ QueryVisitTime(p)
  \/ QueryTimeAuth(p)
  \/ DeleteAccess(p)
  \/ QueryLoginlogId(p)
  \/ LoginlogIdFound(p)
  \/ InsertVideo(p)
  \/ Enter(p)
  \/ Leave(p)
  \/ MakeTime(p)
  \/ \E c \in {"insert", "logout", "beat"} : ExecLoginLog(p, c)
  \/ StartMonitor(p)
  \/ MainExits(p)
  \/ PolicyDecides(p)
  \/ ExitEnds(p)

LogNext ==
  \/ \E p \in Threads : Step(p)
  \/ PolicyLoop
  \/ StartExit
  \/ MonitorStatus
  \/ MonitorDisconnect

LogSpec == LogInit /\ [][LogNext]_logVars

-----------------------------------------------------------------------------
(* Properties. *)

AtRest == \A p \in Threads : prog[p] = <<>>

(* However the threads interleave - opening twice, taking each other's handle,
   closing it under each other - the global handle is closed again whenever
   nobody is at work, unless GetVistitime took its early return. *)
HandleClosedAtRest ==
  AtRest /\ ~crashed => sqlHandle = NullHandle \/ early

(* A closed login row is opened again by a status message of the monitor only:
   never by a heartbeat that comes after the logout, nor by a late login. *)
ReopenedByMonitorOnly ==
  [][login.status = "0" /\ login'.status # "0" => MonitorStatus]_logVars

(* Whoever is in the critical section of DoLoginLog has its end still before it,
   without another entry on the way, whatever early return a failed query or
   statement takes: so ExitRemoteControlServer, which every end of the session
   goes through, never waits for a thread that has gone on to something else. *)
SectionLeft ==
  g_csA # "none" =>
    \E i \in DOMAIN prog[g_csA] :
      /\ prog[g_csA][i] = "leave"
      /\ \A j \in 1..(i - 1) : prog[g_csA][j] # "enter"
=============================================================================
