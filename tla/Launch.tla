------------------------------- MODULE Launch -------------------------------
(***************************************************************************)
(* OSCShellEx, run at the same time by the sessions of one terminal server.*)
(* A launch reads the access row, asks the proxy for a port, tells the     *)
(* tool about it - on the command line or through a file or registry key   *)
(* that all sessions share -, starts the tool and waits for its window.    *)
(* Toad is started under a named mutex of the whole machine.               *)
(*                                                                         *)
(* The more than twenty access types are grouped by what their branch does:*)
(*   "oracle"     SQLPLUS and PLSQL: an entry is appended to tnsnames.ora  *)
(*   "oracle_n"   their _N forms: the same without the proxy               *)
(*   "toad"       PLSQL with Toad.exe as its tool                          *)
(*   "sybase"     sql.ini is overwritten                                   *)
(*   "workbench"  MYSQL with MySQLWorkbench.exe: connections.xml is, too   *)
(*   "pgadmin"    PQSQL, PQSQL_N: so is pgadmin.reg                        *)
(*   "navicat"    MYSQL with navicat.exe: registry keys are made anew      *)
(*   "cmdline"    MSSQL, DB2, other MYSQL tools: the port is on the command*)
(*                line or typed into the tool's window                     *)
(*   "awaited"    XEN, IPMI, AS400: no port, but the window is needed      *)
(*   "library"    UNDEFINE, ZOS: a library starts the tool                 *)
(*   "radmin"     the window's edit fields are counted                     *)
(*   "plain"      the others: SSH, FTP, RDP, ... a command line            *)
(***************************************************************************)
EXTENDS Naturals, FiniteSets

CONSTANTS
  Sessions,   \* remote sessions in which an access is launched
  Names,      \* names of databases and servers in access rows
  Worlds,     \* which access row each session may have
  MaxSecond   \* bound of the clock

Kinds == {"oracle", "oracle_n", "toad", "sybase", "workbench", "pgadmin", "navicat",
          "cmdline", "awaited", "library", "radmin", "plain"}

\* What of an access row decides: the branch, a stored password (accountPwdNULL),
\* the name under which the tool looks up its server.
AccessRow == [kind : Kinds, pwd : BOOLEAN, name : Names]

ASSUME LaunchAssumption ==
  /\ Worlds \subseteq [Sessions -> AccessRow]
  /\ MaxSecond \in Nat \ {0}

VARIABLES
  row,      \* row[s]: the access row of session s; never changes
  pc,       \* pc[s]: where OSCShellEx is
  second,   \* the time, in seconds: the seed of rand()
  seeded,   \* seeded[s]: the second in which s made its name, 0 before
  target,   \* target[s]: the address that s's tool is to connect to
  files,    \* files[f]: the entries of a shared file or registry key
  base,     \* base[s]: what of the opened file precedes what s will write
  since,    \* since[s]: sessions that wrote their configuration after s did
  handles,  \* sessions with an open handle of Global\mutexForOSCToadAccess
  denied,   \* sessions whose CreateMutex failed
  tool,     \* tool[s]: the tool of s runs
  conn      \* conn[s]: the address that s's tool uses

launchVars == <<row, pc, second, seeded, target, files, base, since, handles, denied, tool, conn>>
shared == <<files, base, since>>
toad == <<handles, denied>>

Files == {"tnsnames.ora", "sql.ini", "connections.xml", "pgadmin.reg", "Servers"}

Oracle == {"oracle", "oracle_n", "toad"}
FileOf(k) ==
  CASE k \in Oracle -> "tnsnames.ora" [] k = "sybase" -> "sql.ini"
    [] k = "workbench" -> "connections.xml" [] k = "pgadmin" -> "pgadmin.reg"
    [] k = "navicat" -> "Servers"
Configured == Oracle \cup {"sybase", "workbench", "pgadmin", "navicat"}

\* Of whom an address is and how it is reached: by the port the proxy opened, by
\* port 0 if it did not, without the proxy, or not at all.
Address == [of : Sessions, via : {"proxy", "zero", "direct", "none"}]
Nowhere(s) == [of |-> s, via |-> "none"]

ToadPc == {"mutex", "close", "toadstart", "toadwindow"}
Launching == {"query", "port", "open", "write", "convert", "prepare", "start", "window"} \cup ToadPc
Returned == {"done", "failed"}
Entry == [name : Names \X (0..MaxSecond), addr : Address]

(* Type correctness; in particular only a launch of Toad has a handle of the *)
(* mutex, so nobody is kept waiting by a launch that is over.                *)
LaunchTypeOK ==
  /\ row \in Worlds
  /\ pc \in [Sessions -> Launching \cup Returned \cup {"hang", "gone"}]
  /\ second \in 1..MaxSecond
  /\ seeded \in [Sessions -> 0..MaxSecond]
  /\ target \in [Sessions -> Address]
  /\ files \in [Files -> SUBSET Entry]
  /\ base \in [Sessions -> SUBSET Entry]
  /\ since \in [Sessions -> SUBSET Sessions]
  /\ handles \subseteq {s \in Sessions : pc[s] \in ToadPc}
  /\ denied \subseteq Sessions
  /\ tool \in [Sessions -> BOOLEAN]
  /\ conn \in [Sessions -> Address]

LaunchInit ==
  /\ row \in Worlds
  /\ pc = [s \in Sessions |-> "query"]
  /\ second = 1
  /\ seeded = [s \in Sessions |-> 0]
  /\ target = [s \in Sessions |-> Nowhere(s)]
  /\ files = [f \in Files |-> {}]
  /\ base = [s \in Sessions |-> {}]
  /\ since = [s \in Sessions |-> {}]
  /\ handles = {}
  /\ denied = {}
  /\ tool = [s \in Sessions |-> FALSE]
  /\ conn = [s \in Sessions |-> Nowhere(s)]

Goto(s, l) == pc' = [pc EXCEPT ![s] = l]

-----------------------------------------------------------------------------
(* The row, the port and the configuration *)

\* The access row, its time, its type and its application; any may be missing.
Query(s) ==
  /\ pc[s] = "query"
  /\ \/ Goto(s, "failed")
     \/ Goto(s, IF row[s].kind \in Configured \cup {"cmdline"} THEN "port" ELSE "convert")
  /\ UNCHANGED <<row, second, seeded, target, shared, toad, tool, conn>>

\* An Oracle account without password, and the _N types, do without the proxy;
\* otherwise ConnectServer returns a port or 0.  Only Navicat minds a 0.
Via(r) ==
  CASE r.kind = "oracle_n" \/ (r.kind \in Oracle /\ ~r.pwd) -> {"direct"}
    [] r.kind = "pgadmin" -> {"proxy", "zero", "direct"}
    [] OTHER -> {"proxy", "zero"}

ConnectServer(s) ==
  /\ pc[s] = "port"
  /\ \E v \in Via(row[s]) :
       /\ target' = [target EXCEPT ![s] = [of |-> s, via |-> v]]
       /\ Goto(s, CASE row[s].kind = "cmdline" -> "convert"
                    [] row[s].kind = "navicat" /\ v = "zero" -> "failed"
                    [] OTHER -> "open")
  /\ UNCHANGED <<row, second, seeded, shared, toad, tool, conn>>

\* fopen: "a+" goes on behind the entries of the others, "w+" cuts the file off;
\* Navicat's keys are deleted.  A file that cannot be opened is only logged.
OpenFile(s) ==
  /\ pc[s] = "open"
  /\ LET f == FileOf(row[s].kind)
     IN  \/ /\ files' = [files EXCEPT ![f] = IF row[s].kind \in Oracle THEN @ ELSE {}]
            /\ base' = [base EXCEPT ![s] = files'[f]]
            /\ Goto(s, "write")
         \/ /\ f # "Servers"
            /\ Goto(s, "convert")
            /\ UNCHANGED <<files, base>>
  /\ seeded' = [seeded EXCEPT ![s] = second]
  /\ UNCHANGED <<row, second, target, since, toad, tool, conn>>

\* headInfo: the database's name and a number that rand() makes of the time in
\* seconds; the other tools use the plain name.
HeadPlain(s) == <<row[s].name, 0>>
HeadInfo(s) == IF row[s].kind \in Oracle THEN <<row[s].name, seeded[s]>> ELSE <<row[s].name, 0>>

\* A file is written from the place where it was opened; of the registry only the
\* key of this name changes, unless it cannot be made.
WriteFile(s) ==
  /\ pc[s] = "write"
  /\ LET f == FileOf(row[s].kind)
         e == [name |-> HeadInfo(s), addr |-> target[s]]
         kept == IF f = "Servers" THEN {x \in files[f] : x.name # e.name} ELSE base[s]
     IN  /\ files' = [files EXCEPT ![f] = kept \cup {e}]
         /\ since' = [t \in Sessions |-> IF t = s THEN {} ELSE since[t] \cup {s}]
  /\ base' = [base EXCEPT ![s] = {}]
  /\ \/ Goto(s, "convert")
     \/ row[s].kind = "navicat" /\ Goto(s, "failed")   \* the key cannot be opened again
  /\ UNCHANGED <<row, second, seeded, target, toad, tool, conn>>

KeyFails(s) ==
  /\ pc[s] = "write"
  /\ row[s].kind = "navicat"
  /\ Goto(s, "failed")
  /\ base' = [base EXCEPT ![s] = {}]
  /\ UNCHANGED <<row, second, seeded, target, files, since, toad, tool, conn>>

\* The command line, the mapped disk, the .rdp or .ws file: each may fail.
Convert(s) ==
  /\ pc[s] = "convert"
  /\ Goto(s, "prepare") \/ Goto(s, "failed")
  /\ UNCHANGED <<row, second, seeded, target, shared, toad, tool, conn>>

\* The login date, the video's directory, which is waited for but not insisted on,
\* and the file for the proxy's audit.
Prepare(s) ==
  /\ pc[s] = "prepare"
  /\ Goto(s, IF row[s].kind = "toad" THEN "mutex" ELSE "start")
  /\ UNCHANGED <<row, second, seeded, target, shared, toad, tool, conn>>

-----------------------------------------------------------------------------
(* The tool *)

\* CreateMutexA opens the mutex if somebody has a handle of it, and may fail for
\* another reason, which counts as having made it.
CreateMutex(s) ==
  /\ pc[s] = "mutex"
  /\ \/ /\ handles' = handles \cup {s}
        /\ Goto(s, IF handles = {} THEN "toadstart" ELSE "close")
        /\ UNCHANGED denied
     \/ /\ denied' = denied \cup {s}
        /\ Goto(s, "toadstart")
        /\ UNCHANGED handles
  /\ UNCHANGED <<row, second, seeded, target, shared, tool, conn>>

\* mutexWait: close the handle of the others' mutex, sleep, try again.
MutexWaitKeeps(s) ==
  /\ pc[s] = "close"
  /\ Goto(s, "mutex")
  /\ UNCHANGED <<row, second, seeded, target, shared, handles, denied, tool, conn>>

MutexWait(s) ==
  /\ pc[s] = "close"
  /\ handles' = handles \ {s}
  /\ Goto(s, "mutex")
  /\ UNCHANGED <<row, second, seeded, target, shared, denied, tool, conn>>

\* CreateProcess, whose result nobody looks at.
StartToadReleases(s) ==
  /\ pc[s] = "toadstart"
  /\ handles' = handles \ {s}
  /\ \E started \in BOOLEAN : tool' = [tool EXCEPT ![s] = started]
  /\ Goto(s, "toadwindow")
  /\ UNCHANGED <<row, second, seeded, target, shared, denied, conn>>

StartToad(s) ==
  /\ pc[s] = "toadstart"
  /\ \E started \in BOOLEAN : tool' = [tool EXCEPT ![s] = started]
  /\ Goto(s, "toadwindow")
  /\ UNCHANGED <<row, second, seeded, target, shared, toad, conn>>

\* Toad's window is there, or two minutes have passed.
ToadWindowKeeps(s) ==
  /\ pc[s] = "toadwindow"
  /\ Goto(s, "window")
  /\ UNCHANGED <<row, second, seeded, target, shared, toad, tool, conn>>

ToadWindow(s) ==
  /\ pc[s] = "toadwindow"
  /\ handles' = handles \ {s}
  /\ Goto(s, "window")
  /\ UNCHANGED <<row, second, seeded, target, shared, denied, tool, conn>>

StartTool(s) ==
  /\ pc[s] = "start"
  /\ \/ \E started \in BOOLEAN :
          /\ tool' = [tool EXCEPT ![s] = started]
          /\ Goto(s, "window")
     \/ /\ row[s].kind = "library"   \* no library, no function, or the tool is not found
        /\ \E started \in BOOLEAN : tool' = [tool EXCEPT ![s] = started]
        /\ Goto(s, "failed")
  /\ UNCHANGED <<row, second, seeded, target, shared, toad, conn>>

\* exitClear ends no tool that did not show its window: resProcess is set later.
\* The edit fields of Radmin's window are counted once, and waited for.  Whether
\* Sybase's and the command-line tools are waited for depends on the tool.
AwaitsWindow(r) ==
  r.kind \in {"cmdline", "awaited", "sybase"} \/ (r.kind = "navicat" /\ r.pwd)

Window(s) ==
  /\ pc[s] = "window"
  /\ \/ Goto(s, IF tool[s] THEN "done" ELSE "failed")
     \/ AwaitsWindow(row[s]) /\ Goto(s, "failed")
     \/ row[s].kind = "radmin" /\ tool[s] /\ Goto(s, "hang")
  /\ UNCHANGED <<row, second, seeded, target, shared, toad, tool, conn>>

-----------------------------------------------------------------------------
(* The rest of the machine *)

\* The tool looks its server up by name; the first or the last of two entries.
ToolConnects(s) ==
  /\ tool[s]
  /\ conn[s] = Nowhere(s)
  /\ IF row[s].kind \in Configured
       THEN \E e \in files[FileOf(row[s].kind)] :
              /\ e.name = HeadInfo(s)
              /\ conn' = [conn EXCEPT ![s] = e.addr]
       ELSE /\ row[s].kind = "cmdline"
            /\ conn' = [conn EXCEPT ![s] = target[s]]
  /\ UNCHANGED <<row, pc, second, seeded, target, shared, toad, tool>>

Tick ==
  /\ second < MaxSecond
  /\ second' = second + 1
  /\ UNCHANGED <<row, pc, seeded, target, shared, toad, tool, conn>>

\* The session ends: after the message box of a failed launch, with the tool, or
\* because it is logged off.  Windows closes its handles.
SessionEnds(s) ==
  /\ pc[s] # "gone"
  /\ Goto(s, "gone")
  /\ handles' = handles \ {s}
  /\ tool' = [tool EXCEPT ![s] = FALSE]
  /\ base' = [base EXCEPT ![s] = {}]
  /\ UNCHANGED <<row, second, seeded, target, files, since, denied, conn>>

LaunchStep(s) ==
  \/ Query(s) \/ ConnectServer(s) \/ OpenFile(s) \/ WriteFile(s) \/ KeyFails(s) \/ Convert(s)
  \/ Prepare(s) \/ CreateMutex(s) \/ MutexWait(s) \/ StartToad(s) \/ ToadWindow(s)
  \/ StartTool(s) \/ Window(s)

LaunchNext ==
  \/ \E s \in Sessions : LaunchStep(s) \/ ToolConnects(s) \/ SessionEnds(s)
  \/ Tick

LaunchSpec == LaunchInit /\ [][LaunchNext]_launchVars

\* Every process is scheduled, and each wait for a window has an end.
FairLaunchSpec == LaunchSpec /\ \A s \in Sessions : WF_launchVars(LaunchStep(s))

-----------------------------------------------------------------------------
(* A tool connects to another session's address only if both look up the same *)
(* name and, with Oracle, both launches made it in the same second (rand is   *)
(* seeded with the time, OSCShell.cpp:2472) or, with a file that is           *)
(* overwritten, the other one wrote it between the launch and the lookup.     *)
OwnServer ==
  \A s \in Sessions :
    LET t == conn[s].of
    IN  t # s =>
          /\ row[t].name = row[s].name
          /\ IF row[s].kind \in Oracle THEN seeded[t] = seeded[s] ELSE t \in since[s]

(* Two sessions are never both between the start of Toad and its window,      *)
(* unless CreateMutex failed for one of them (OSCShell.cpp:3971-4024).        *)
ToadAlone ==
  \A s, t \in Sessions :
    s # t /\ {pc[s], pc[t]} \subseteq {"toadstart", "toadwindow"} => {s, t} \cap denied # {}

(* A launch returns, but for Radmin's endless wait, once no other session is  *)
(* busy with Toad's mutex: the loop mutexWait keeps no handle that would make *)
(* it find its own mutex for ever.                                            *)
LaunchReturns ==
  \A s \in Sessions :
    (\A t \in Sessions \ {s} : <>[](pc[t] \notin ToadPc))
      => (pc[s] \in Launching ~> pc[s] \notin Launching)
=============================================================================
