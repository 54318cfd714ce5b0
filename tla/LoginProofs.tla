----------------------------- MODULE LoginProofs -----------------------------
(* Theorems about a login to a target: the launch of its tool among other   *)
(* launches (Launch), for any set of sessions, names and access rows and any *)
(* length of the clock, and its rows in the database (LoginLog), for any set *)
(* of configurations, with and without faults.  The two models share no     *)
(* variable; each theorem is about one of them.                              *)
EXTENDS Launch, LoginLog, TLAPS

-----------------------------------------------------------------------------
\* Launching (Launch)

(***************************************************************************)
(* Toad.  Who starts Toad has a handle of the mutex or was denied one; of  *)
(* those who have a handle at most one starts Toad, the others are about   *)
(* to close theirs.  A session that asks for the mutex has no handle: this *)
(* is what mutexWait's CloseHandle is for.                                 *)
(***************************************************************************)
StartsToad == {"toadstart", "toadwindow"}

HolderOrDenied ==
  \A s \in Sessions : pc[s] \in StartsToad => s \in handles \/ s \in denied

OneHolderStarts ==
  \A s, t \in handles : pc[s] \in StartsToad /\ pc[t] \in StartsToad => s = t

AskerHasNone == \A s \in Sessions : pc[s] = "mutex" => s \notin handles

ToadInv == HolderOrDenied /\ OneHolderStarts /\ AskerHasNone

(***************************************************************************)
(* Lookups.  An entry of a shared file was made by a session that is past  *)
(* opening it, under that session's name for its server; in a file that is *)
(* overwritten, an entry of another session under one's own name was       *)
(* written after one's own.  The tool is not up before it is started, so   *)
(* it looks nothing up before the file is written.                         *)
(***************************************************************************)
BeforeName == {"query", "port", "open"}
BeforeStart ==
  {"query", "port", "open", "write", "convert", "prepare", "mutex", "close", "toadstart", "start"}

\* e was written to file f by the session whose address it holds
Made(f, e) ==
  LET t == e.addr.of
  IN  /\ pc[t] \notin BeforeName
      /\ row[t].kind \in Configured
      /\ FileOf(row[t].kind) = f
      /\ e.name = HeadInfo(t)

EntriesMade == \A f \in Files : \A e \in files[f] : Made(f, e)

BaseMade ==
  \A s \in Sessions :
    base[s] # {} => /\ row[s].kind \in Oracle
                    /\ \A e \in base[s] : Made("tnsnames.ora", e)

OverwrittenSince ==
  \A f \in Files \ {"tnsnames.ora"} : \A e \in files[f] : \A s \in Sessions :
    row[s].kind \in Configured /\ FileOf(row[s].kind) = f /\ e.name = HeadInfo(s) /\ e.addr.of # s
      => e.addr.of \in since[s]

NoToolYet == \A s \in Sessions : pc[s] \in BeforeStart => ~tool[s] /\ conn[s] = Nowhere(s)

TargetOwn == \A s \in Sessions : target[s].of = s

ConnMade == \A s \in Sessions : conn[s].of # s => pc[conn[s].of] \notin BeforeName

ConfiguredPc ==
  \A s \in Sessions :
    /\ pc[s] \in {"open", "write"} => row[s].kind \in Configured
    /\ pc[s] = "port" => row[s].kind \in Configured \cup {"cmdline"}

LookupInv ==
  /\ EntriesMade
  /\ BaseMade
  /\ OverwrittenSince
  /\ NoToolYet
  /\ TargetOwn
  /\ ConnMade
  /\ ConfiguredPc
  /\ OwnServer

-----------------------------------------------------------------------------
(* Typing *)

\* What is known of an access row.
LEMMA RowOf ==
  ASSUME LaunchTypeOK, NEW s \in Sessions
  PROVE  row[s] \in AccessRow
BY LaunchAssumption DEF LaunchTypeOK

\* A configured tool has one of the shared files.
LEMMA FileOfConfigured ==
  ASSUME NEW k \in Configured
  PROVE  /\ FileOf(k) \in Files
         /\ FileOf(k) = "tnsnames.ora" <=> k \in Oracle
         /\ FileOf(k) = "Servers" <=> k = "navicat"
BY DEF FileOf, Files, Configured, Oracle

\* The name in an entry is a name of a row with the second of the launch, or 0.
LEMMA HeadInfoType ==
  ASSUME LaunchTypeOK, NEW s \in Sessions
  PROVE  HeadInfo(s) \in Names \X (0..MaxSecond)
<1>1. row[s].name \in Names
  BY RowOf DEF AccessRow
<1>2. 0 \in 0..MaxSecond /\ seeded[s] \in 0..MaxSecond
  BY LaunchAssumption DEF LaunchTypeOK
<1>3. QED
  BY <1>1, <1>2 DEF HeadInfo

\* The initial state has the types.
LEMMA InitType == LaunchInit => LaunchTypeOK
<1> SUFFICES ASSUME LaunchInit PROVE LaunchTypeOK
  OBVIOUS
<1>1. pc \in [Sessions -> Launching \cup Returned \cup {"hang", "gone"}]
  BY DEF LaunchInit, Launching
<1>2. second \in 1..MaxSecond /\ seeded \in [Sessions -> 0..MaxSecond]
  BY LaunchAssumption DEF LaunchInit
<1>3. target \in [Sessions -> Address] /\ conn \in [Sessions -> Address]
  BY DEF LaunchInit, Address, Nowhere
<1>4. tool \in [Sessions -> BOOLEAN]
  BY Zenon DEF LaunchInit
<1>5. QED
  BY <1>1, <1>2, <1>3, <1>4 DEF LaunchInit, LaunchTypeOK

\* Every step keeps the types.
LEMMA NextType == LaunchTypeOK /\ ConfiguredPc /\ [LaunchNext]_launchVars => LaunchTypeOK'
<1> SUFFICES ASSUME LaunchTypeOK, ConfiguredPc, [LaunchNext]_launchVars PROVE LaunchTypeOK'
  OBVIOUS
<1> USE DEF LaunchTypeOK, Goto, shared, toad
<1>1. ASSUME NEW s \in Sessions, Query(s) PROVE LaunchTypeOK'
  BY <1>1 DEF Query, Launching, Returned, ToadPc
<1>2. ASSUME NEW s \in Sessions, ConnectServer(s) PROVE LaunchTypeOK'
  <2>1. PICK v \in Via(row[s]) :
          /\ target' = [target EXCEPT ![s] = [of |-> s, via |-> v]]
          /\ pc' = [pc EXCEPT ![s] = CASE row[s].kind = "cmdline" -> "convert"
                                       [] row[s].kind = "navicat" /\ v = "zero" -> "failed"
                                       [] OTHER -> "open"]
    BY <1>2 DEF ConnectServer
  <2>2. [of |-> s, via |-> v] \in Address
    BY DEF Via, Address
  <2>3. target' \in [Sessions -> Address]
    BY <2>1, <2>2
  <2>4. QED
    BY <1>2, <2>1, <2>3 DEF ConnectServer, Launching, Returned, ToadPc
<1>3. ASSUME NEW s \in Sessions, OpenFile(s) PROVE LaunchTypeOK'
  <2>1. FileOf(row[s].kind) \in Files
    BY <1>3, FileOfConfigured DEF OpenFile, ConfiguredPc
  <2>2. files' \in [Files -> SUBSET Entry] /\ base' \in [Sessions -> SUBSET Entry]
    BY <1>3, <2>1 DEF OpenFile
  <2>3. seeded' \in [Sessions -> 0..MaxSecond]
    BY <1>3, LaunchAssumption DEF OpenFile
  <2>4. QED
    BY <1>3, <2>2, <2>3 DEF OpenFile, Launching, Returned, ToadPc
<1>4. ASSUME NEW s \in Sessions, WriteFile(s) PROVE LaunchTypeOK'
  <2> DEFINE f == FileOf(row[s].kind)
             e == [name |-> HeadInfo(s), addr |-> target[s]]
  <2>1. f \in Files
    BY <1>4, FileOfConfigured DEF WriteFile, ConfiguredPc
  <2>2. e \in Entry
    BY HeadInfoType DEF Entry
  <2>3. files' \in [Files -> SUBSET Entry]
    BY <1>4, <2>1, <2>2 DEF WriteFile
  <2>4. since' \in [Sessions -> SUBSET Sessions] /\ base' \in [Sessions -> SUBSET Entry]
    BY <1>4 DEF WriteFile
  <2>5. QED
    BY <1>4, <2>3, <2>4 DEF WriteFile, Launching, Returned, ToadPc
<1>5. ASSUME NEW s \in Sessions, KeyFails(s) PROVE LaunchTypeOK'
  BY <1>5 DEF KeyFails, Launching, Returned, ToadPc
<1>6. ASSUME NEW s \in Sessions, Convert(s) PROVE LaunchTypeOK'
  BY <1>6 DEF Convert, Launching, Returned, ToadPc
<1>7. ASSUME NEW s \in Sessions, Prepare(s) PROVE LaunchTypeOK'
  BY <1>7 DEF Prepare, Launching, Returned, ToadPc
<1>8. ASSUME NEW s \in Sessions, CreateMutex(s) PROVE LaunchTypeOK'
  BY <1>8 DEF CreateMutex, Launching, Returned, ToadPc
<1>9. ASSUME NEW s \in Sessions, MutexWait(s) PROVE LaunchTypeOK'
  BY <1>9 DEF MutexWait, Launching, Returned, ToadPc
<1>10. ASSUME NEW s \in Sessions, StartToad(s) PROVE LaunchTypeOK'
  <2>1. tool' \in [Sessions -> BOOLEAN]
    BY <1>10 DEF StartToad
  <2>2. QED
    BY <1>10, <2>1 DEF StartToad, Launching, Returned, ToadPc
<1>11. ASSUME NEW s \in Sessions, ToadWindow(s) PROVE LaunchTypeOK'
  BY <1>11 DEF ToadWindow, Launching, Returned, ToadPc
<1>12. ASSUME NEW s \in Sessions, StartTool(s) PROVE LaunchTypeOK'
  <2>1. tool' \in [Sessions -> BOOLEAN]
    BY <1>12 DEF StartTool
  <2>2. QED
    BY <1>12, <2>1 DEF StartTool, Launching, Returned, ToadPc
<1>13. ASSUME NEW s \in Sessions, Window(s) PROVE LaunchTypeOK'
  BY <1>13 DEF Window, Launching, Returned, ToadPc
<1>14. ASSUME NEW s \in Sessions, ToolConnects(s) PROVE LaunchTypeOK'
  <2>1. conn' \in [Sessions -> Address]
    <3>1. CASE row[s].kind \in Configured
      BY <1>14, <3>1, FileOfConfigured DEF ToolConnects, Entry
    <3>2. CASE row[s].kind \notin Configured
      BY <1>14, <3>2 DEF ToolConnects
    <3>3. QED
      BY <3>1, <3>2
  <2>2. QED
    BY <1>14, <2>1 DEF ToolConnects
<1>15. ASSUME NEW s \in Sessions, SessionEnds(s) PROVE LaunchTypeOK'
  <2>1. tool' \in [Sessions -> BOOLEAN]
    BY <1>15 DEF SessionEnds
  <2>2. QED
    BY <1>15, <2>1 DEF SessionEnds
<1>16. ASSUME Tick PROVE LaunchTypeOK'
  BY <1>16, LaunchAssumption DEF Tick
<1>17. ASSUME UNCHANGED launchVars PROVE LaunchTypeOK'
  BY <1>17 DEF launchVars
<1>18. QED
  BY <1>1, <1>2, <1>3, <1>4, <1>5, <1>6, <1>7, <1>8, <1>9, <1>10, <1>11, <1>12, <1>13, <1>14,
     <1>15, <1>16, <1>17 DEF LaunchNext, LaunchStep

-----------------------------------------------------------------------------
(* The mutex *)

\* Initially nobody has a handle and nobody starts Toad.
LEMMA InitToad == LaunchInit => ToadInv
BY DEF LaunchInit, ToadInv, HolderOrDenied, OneHolderStarts, AskerHasNone, StartsToad

\* Every step keeps the invariant of the mutex.
LEMMA NextToad == LaunchTypeOK /\ ToadInv /\ [LaunchNext]_launchVars => ToadInv'
<1> SUFFICES ASSUME LaunchTypeOK, ToadInv, [LaunchNext]_launchVars PROVE ToadInv'
  OBVIOUS
<1> USE DEF ToadInv, HolderOrDenied, OneHolderStarts, AskerHasNone, StartsToad, Goto, shared, toad
<1>0. /\ pc \in [Sessions -> Launching \cup Returned \cup {"hang", "gone"}]
      /\ \A s \in handles : s \in Sessions /\ pc[s] \in ToadPc
  BY DEF LaunchTypeOK
<1>1. ASSUME NEW s \in Sessions, CreateMutex(s) PROVE ToadInv'
  <2>1. CASE handles = {} /\ handles' = {s} /\ denied' = denied /\ pc' = [pc EXCEPT ![s] = "toadstart"]
    BY <1>0, <2>1
  <2>2. CASE handles # {} /\ handles' = handles \cup {s} /\ denied' = denied
              /\ pc' = [pc EXCEPT ![s] = "close"]
    BY <1>0, <2>2
  <2>3. CASE handles' = handles /\ denied' = denied \cup {s} /\ pc' = [pc EXCEPT ![s] = "toadstart"]
    BY <1>0, <1>1, <2>3 DEF CreateMutex
  <2>4. QED
    BY <1>1, <2>1, <2>2, <2>3 DEF CreateMutex
<1>2. ASSUME NEW s \in Sessions, MutexWait(s) PROVE ToadInv'
  BY <1>0, <1>2 DEF MutexWait
<1>3. ASSUME NEW s \in Sessions, StartToad(s) PROVE ToadInv'
  BY <1>0, <1>3 DEF StartToad
<1>4. ASSUME NEW s \in Sessions, ToadWindow(s) PROVE ToadInv'
  BY <1>0, <1>4 DEF ToadWindow
<1>5. ASSUME NEW s \in Sessions, SessionEnds(s) PROVE ToadInv'
  BY <1>0, <1>5 DEF SessionEnds
<1>6. ASSUME NEW s \in Sessions, pc[s] \notin ToadPc, NEW l,
             pc' = [pc EXCEPT ![s] = l], l \notin StartsToad, UNCHANGED toad
      PROVE  ToadInv'
  BY <1>0, <1>6
<1>7. ASSUME NEW s \in Sessions,
             \/ Query(s) \/ ConnectServer(s) \/ OpenFile(s) \/ WriteFile(s) \/ KeyFails(s)
             \/ Convert(s) \/ Prepare(s) \/ StartTool(s) \/ Window(s)
      PROVE  ToadInv'
  <2>1. UNCHANGED toad /\ pc[s] \notin ToadPc
    BY <1>7 DEF Query, ConnectServer, OpenFile, WriteFile, KeyFails, Convert, Prepare, StartTool,
                Window, ToadPc
  <2>2. \E l : pc' = [pc EXCEPT ![s] = l] /\ l \notin StartsToad
    <3>1. CASE ConnectServer(s)
      <4> DEFINE l(v) == CASE row[s].kind = "cmdline" -> "convert"
                           [] row[s].kind = "navicat" /\ v = "zero" -> "failed"
                           [] OTHER -> "open"
      <4>1. \A v : l(v) \in {"convert", "failed", "open"}
        BY Zenon
      <4>2. PICK v \in Via(row[s]) : pc' = [pc EXCEPT ![s] = l(v)]
        BY <3>1, Zenon DEF ConnectServer
      <4> HIDE DEF l
      <4>3. l(v) \notin StartsToad
        BY <4>1
      <4>4. QED
        BY <4>2, <4>3
    <3>2. CASE Query(s) \/ OpenFile(s) \/ WriteFile(s) \/ KeyFails(s)
      BY <3>2 DEF Query, OpenFile, WriteFile, KeyFails
    <3>3. CASE Convert(s) \/ Prepare(s) \/ StartTool(s) \/ Window(s)
      BY <3>3 DEF Convert, Prepare, StartTool, Window
    <3>4. QED
      BY <1>7, <3>1, <3>2, <3>3
  <2>3. QED
    BY <1>6, <2>1, <2>2
<1>8. ASSUME UNCHANGED <<pc, toad>> PROVE ToadInv'
  BY <1>8
<1>9. QED
  <2>1. ASSUME NEW s \in Sessions, ToolConnects(s) PROVE ToadInv'
    BY <1>8, <2>1 DEF ToolConnects
  <2>2. ASSUME Tick PROVE ToadInv'
    BY <1>8, <2>2 DEF Tick
  <2>3. ASSUME UNCHANGED launchVars PROVE ToadInv'
    BY <1>8, <2>3 DEF launchVars
  <2>4. QED
    BY <1>1, <1>2, <1>3, <1>4, <1>5, <1>7, <2>1, <2>2, <2>3 DEF LaunchNext, LaunchStep

-----------------------------------------------------------------------------
(* The lookup *)

\* What an entry says stays true while its writer keeps its row and its second
\* and does not return to before the file was opened.
LEMMA MadeStays ==
  ASSUME NEW f, NEW e, Made(f, e), row' = row,
         pc'[e.addr.of] \notin BeforeName, seeded'[e.addr.of] = seeded[e.addr.of]
  PROVE  Made(f, e)'
BY DEF Made, HeadInfo

\* The names that tools of non-Oracle kinds look up do not depend on the second.
LEMMA HeadInfoPlain ==
  ASSUME NEW s, row[s].kind \notin Oracle, row' = row
  PROVE  HeadInfo(s)' = HeadInfo(s) /\ HeadInfo(s) = <<row[s].name, 0>>
BY DEF HeadInfo

\* Whose address an entry or a tool holds is a session.
LEMMA WritersAreSessions ==
  ASSUME LaunchTypeOK
  PROVE  /\ \A f \in Files : \A e \in files[f] : e \in Entry /\ e.addr.of \in Sessions
         /\ \A s \in Sessions : \A e \in base[s] : e \in Entry /\ e.addr.of \in Sessions
         /\ \A s \in Sessions : conn[s].of \in Sessions
BY DEF LaunchTypeOK, Entry, Address

\* Initially no file has an entry and no tool is up.
LEMMA InitLookup == LaunchInit => LookupInv
<1> SUFFICES ASSUME LaunchInit PROVE LookupInv
  OBVIOUS
<1>1. EntriesMade /\ BaseMade /\ OverwrittenSince
  BY DEF LaunchInit, EntriesMade, BaseMade, OverwrittenSince
<1>2. NoToolYet /\ TargetOwn /\ ConnMade /\ OwnServer
  BY DEF LaunchInit, NoToolYet, TargetOwn, ConnMade, OwnServer, Nowhere
<1>3. ConfiguredPc
  BY DEF LaunchInit, ConfiguredPc
<1>4. QED
  BY <1>1, <1>2, <1>3 DEF LookupInv

\* A step that moves a session on, never back to before its tool was started, and
\* may start or end the tool or drop what was read of the file.
LEMMA MovesOn ==
  ASSUME LaunchTypeOK, LookupInv, NEW s \in Sessions, NEW l,
         pc' = [pc EXCEPT ![s] = l],
         pc[s] \in BeforeName \/ l \notin BeforeName,
         pc[s] \in BeforeStart \/ l \notin BeforeStart,
         l \in {"open", "write"} => row[s].kind \in Configured,
         l = "port" => row[s].kind \in Configured \cup {"cmdline"},
         base' = base \/ base' = [base EXCEPT ![s] = {}],
         tool' = tool \/ (l \notin BeforeStart /\ \E b : tool' = [tool EXCEPT ![s] = b]),
         TargetOwn',
         UNCHANGED <<row, seeded, files, since, conn>>
  PROVE  LookupInv'
<1> USE DEF LookupInv
<1>1. \A t \in Sessions : pc[t] \notin BeforeName => pc'[t] \notin BeforeName
  BY DEF LaunchTypeOK
<1>2. EntriesMade'
  BY <1>1, MadeStays, WritersAreSessions, Zenon DEF EntriesMade, Made
<1>3. BaseMade'
  <2> SUFFICES ASSUME NEW t \in Sessions, base'[t] # {}
               PROVE  row[t].kind \in Oracle /\ \A e \in base'[t] : Made("tnsnames.ora", e)'
    BY DEF BaseMade
  <2>1. base'[t] = base[t]
    BY DEF LaunchTypeOK
  <2>2. QED
    BY <1>1, <2>1, MadeStays, WritersAreSessions DEF BaseMade, Made
<1>4. OverwrittenSince'
  BY DEF OverwrittenSince, HeadInfo
<1>5. ConnMade' /\ OwnServer'
  BY <1>1, WritersAreSessions DEF ConnMade, OwnServer
<1>6. NoToolYet'
  <2> SUFFICES ASSUME NEW t \in Sessions, pc'[t] \in BeforeStart
               PROVE  tool'[t] = tool[t] /\ pc[t] \in BeforeStart
    BY DEF NoToolYet, Nowhere
  <2>1. QED
    BY DEF LaunchTypeOK
<1>7. ConfiguredPc'
  BY DEF ConfiguredPc, LaunchTypeOK
<1>8. QED
  BY <1>2, <1>3, <1>4, <1>5, <1>6, <1>7

\* Opening a file: the second that goes into the name is taken before the name is
\* in any file.
LEMMA OpenFileLookup ==
  ASSUME LaunchTypeOK, LookupInv, NEW s \in Sessions, OpenFile(s)
  PROVE  LookupInv'
<1> DEFINE f == FileOf(row[s].kind)
<1> USE DEF LookupInv
<1>1. /\ pc[s] = "open" /\ seeded' = [seeded EXCEPT ![s] = second]
      /\ UNCHANGED <<row, target, since, tool, conn>>
  BY DEF OpenFile
<1>2. PICK l \in {"write", "convert"} : pc' = [pc EXCEPT ![s] = l]
  BY DEF OpenFile, Goto
<1>3. f \in Files /\ row[s].kind \in Configured /\ (f = "tnsnames.ora" <=> row[s].kind \in Oracle)
  BY <1>1, FileOfConfigured DEF ConfiguredPc
<1>4. /\ \A g \in Files : files'[g] = files[g] \/ files'[g] = {}
      /\ \A t \in Sessions : base'[t] = base[t] \/ (t = s /\ base'[t] = files'[f])
      /\ row[s].kind \notin Oracle => base'[s] = base[s] \/ base'[s] = {}
  BY <1>3 DEF OpenFile, LaunchTypeOK
<1>5. \A g, e : Made(g, e) /\ e.addr.of \in Sessions => e.addr.of # s /\ Made(g, e)'
  <2> SUFFICES ASSUME NEW g, NEW e, Made(g, e), e.addr.of \in Sessions
               PROVE  e.addr.of # s /\ Made(g, e)'
    OBVIOUS
  <2>1. e.addr.of # s
    BY <1>1 DEF Made, BeforeName
  <2>2. pc'[e.addr.of] \notin BeforeName /\ seeded'[e.addr.of] = seeded[e.addr.of]
    BY <1>1, <1>2, <2>1 DEF Made, LaunchTypeOK
  <2>3. QED
    BY <1>1, <2>1, <2>2, MadeStays
<1>6. EntriesMade'
  BY <1>4, <1>5, WritersAreSessions DEF EntriesMade
<1>7. BaseMade'
  <2> SUFFICES ASSUME NEW t \in Sessions, base'[t] # {}
               PROVE  row[t].kind \in Oracle /\ \A e \in base'[t] : Made("tnsnames.ora", e)'
    BY <1>1 DEF BaseMade
  <2>1. CASE base'[t] = base[t]
    BY <1>5, <2>1, WritersAreSessions DEF BaseMade
  <2>2. CASE t = s /\ base'[t] = files'[f] /\ base'[t] # base[t]
    BY <1>3, <1>4, <1>5, <2>2, WritersAreSessions DEF EntriesMade
  <2>3. QED
    BY <1>4, <2>1, <2>2
<1>8. OverwrittenSince'
  <2> SUFFICES ASSUME NEW g \in Files \ {"tnsnames.ora"}, NEW e \in files'[g], NEW t \in Sessions,
                      row[t].kind \in Configured, FileOf(row[t].kind) = g,
                      e.name = HeadInfo(t)', e.addr.of # t
               PROVE  e.addr.of \in since[t]
    BY <1>1 DEF OverwrittenSince
  <2>1. HeadInfo(t)' = HeadInfo(t)
    BY <1>1, FileOfConfigured, HeadInfoPlain
  <2>2. QED
    BY <1>4, <2>1 DEF OverwrittenSince
<1>9. NoToolYet'
  BY <1>1, <1>2 DEF NoToolYet, BeforeStart, LaunchTypeOK
<1>10. TargetOwn'
  BY <1>1 DEF TargetOwn
<1>11. ConnMade' /\ OwnServer'
  <2>1. conn[s].of = s
    <3>1. conn[s] = Nowhere(s)
      BY <1>1 DEF NoToolYet, BeforeStart
    <3>2. QED
      BY <3>1 DEF Nowhere
  <2>2. \A t \in Sessions : conn[t].of # t => conn[t].of # s /\ conn[t].of \in Sessions
    BY <1>1, WritersAreSessions DEF ConnMade, BeforeName
  <2>3. QED
    BY <1>1, <1>2, <2>1, <2>2 DEF ConnMade, OwnServer, LaunchTypeOK
<1>12. ConfiguredPc'
  BY <1>1, <1>2, <1>3 DEF ConfiguredPc, LaunchTypeOK
<1>13. QED
  BY <1>6, <1>7, <1>8, <1>9, <1>10, <1>11, <1>12

\* Writing a file: what remains of the others is behind a different name, or in a
\* file that is appended to.
LEMMA WriteFileLookup ==
  ASSUME LaunchTypeOK, LookupInv, NEW s \in Sessions, WriteFile(s)
  PROVE  LookupInv'
<1> DEFINE f == FileOf(row[s].kind)
           e == [name |-> HeadInfo(s), addr |-> target[s]]
           kept == IF f = "Servers" THEN {x \in files[f] : x.name # e.name} ELSE base[s]
<1> USE DEF LookupInv
<1>1. /\ pc[s] = "write" /\ base' = [base EXCEPT ![s] = {}]
      /\ files' = [files EXCEPT ![f] = kept \cup {e}]
      /\ since' = [t \in Sessions |-> IF t = s THEN {} ELSE since[t] \cup {s}]
      /\ UNCHANGED <<row, seeded, target, tool, conn>>
  BY DEF WriteFile
<1>2. PICK l \in {"convert", "failed"} : pc' = [pc EXCEPT ![s] = l]
  BY DEF WriteFile, Goto
<1>3. f \in Files /\ row[s].kind \in Configured /\ (f = "tnsnames.ora" <=> row[s].kind \in Oracle)
  BY <1>1, FileOfConfigured DEF ConfiguredPc
<1>4. e.addr.of = s /\ e.name = HeadInfo(s)
  BY DEF TargetOwn
<1>5. pc'[s] \notin BeforeName /\ \A t \in Sessions \ {s} : pc'[t] = pc[t]
  BY <1>2 DEF LaunchTypeOK, BeforeName
<1>6. \A g, x : Made(g, x) /\ x.addr.of \in Sessions => Made(g, x)'
  BY <1>1, <1>5, MadeStays DEF Made
<1>7. \A g, x : g = f /\ x = e => Made(g, x)'
  BY <1>1, <1>3, <1>4, <1>5 DEF Made, HeadInfo
<1>8. /\ \A g \in Files \ {f} : files'[g] = files[g]
      /\ files'[f] = kept \cup {e}
  BY <1>1, <1>3 DEF LaunchTypeOK
<1> HIDE DEF e, f
<1>9. EntriesMade'
  <2> SUFFICES ASSUME NEW g \in Files, NEW x \in files'[g] PROVE Made(g, x)'
    BY DEF EntriesMade
  <2>1. CASE g # f \/ x \in files[f]
    BY <1>3, <1>6, <1>8, <2>1, WritersAreSessions DEF EntriesMade
  <2>2. CASE g = f /\ x = e
    BY <1>7, <2>2
  <2>3. CASE g = f /\ x \in base[s]
    BY <1>3, <1>6, <2>3, WritersAreSessions DEF BaseMade
  <2>4. QED
    BY <1>8, <2>1, <2>2, <2>3
<1>10. BaseMade'
  <2> SUFFICES ASSUME NEW t \in Sessions, base'[t] # {}
               PROVE  row[t].kind \in Oracle /\ \A x \in base'[t] : Made("tnsnames.ora", x)'
    BY <1>1 DEF BaseMade
  <2>1. base'[t] = base[t]
    BY <1>1 DEF LaunchTypeOK
  <2>2. QED
    BY <1>6, <2>1, WritersAreSessions DEF BaseMade
<1>11. OverwrittenSince'
  <2> SUFFICES ASSUME NEW g \in Files \ {"tnsnames.ora"}, NEW x \in files'[g], NEW t \in Sessions,
                      row[t].kind \in Configured, FileOf(row[t].kind) = g,
                      x.name = HeadInfo(t), x.addr.of # t
               PROVE  x.addr.of \in since'[t]
    BY <1>1 DEF OverwrittenSince, HeadInfo
  <2>1. CASE t = s
    <3>1. g = f
      BY <2>1 DEF f
    <3>2. (x \in files[f] /\ x.name # e.name) \/ x \in base[s] \/ x = e
      BY <1>8, <3>1
    <3>3. base[s] = {}
      BY <1>3, <3>1 DEF BaseMade
    <3>4. QED
      BY <1>4, <2>1, <3>2, <3>3
  <2>2. CASE t # s
    <3>1. since'[t] = since[t] \cup {s}
      BY <1>1, <2>2
    <3>2. CASE g = f /\ x = e
      BY <1>4, <3>1, <3>2
    <3>3. CASE x \in files[g]
      BY <3>1, <3>3 DEF OverwrittenSince
    <3>4. CASE g = f /\ x \in base[s]
      BY <1>3, <3>4 DEF BaseMade
    <3>5. QED
      BY <1>8, <3>2, <3>3, <3>4
  <2>3. QED
    BY <2>1, <2>2
<1>12. NoToolYet'
  BY <1>1, <1>2 DEF NoToolYet, BeforeStart, LaunchTypeOK
<1>13. TargetOwn'
  BY <1>1 DEF TargetOwn
<1>14. ConnMade' /\ OwnServer'
  <2>1. conn[s].of = s
    <3>1. conn[s] = Nowhere(s)
      BY <1>1 DEF NoToolYet, BeforeStart
    <3>2. QED
      BY <3>1 DEF Nowhere
  <2>2. \A t \in Sessions : t # s => since[t] \subseteq since'[t]
    BY <1>1
  <2>3. ConnMade'
    BY <1>1, <1>5, WritersAreSessions DEF ConnMade
  <2>4. OwnServer'
    BY <1>1, <2>1, <2>2, WritersAreSessions DEF OwnServer
  <2>5. QED
    BY <2>3, <2>4
<1>15. ConfiguredPc'
  BY <1>1, <1>2 DEF ConfiguredPc, LaunchTypeOK
<1>16. QED
  BY <1>9, <1>10, <1>11, <1>12, <1>13, <1>14, <1>15

\* Looking the server up: what the entry under one's own name says of its writer.
LEMMA ToolConnectsLookup ==
  ASSUME LaunchTypeOK, LookupInv, NEW s \in Sessions, ToolConnects(s)
  PROVE  LookupInv'
<1> USE DEF LookupInv
<1>1. tool[s] /\ UNCHANGED <<row, pc, seeded, target, files, base, since, tool>>
  BY DEF ToolConnects, shared
<1>2. EntriesMade' /\ BaseMade' /\ OverwrittenSince' /\ TargetOwn' /\ ConfiguredPc'
  BY <1>1 DEF EntriesMade, BaseMade, OverwrittenSince, TargetOwn, ConfiguredPc, Made, HeadInfo
<1>3. PICK a \in Address : /\ conn' = [conn EXCEPT ![s] = a]
                           /\ a.of # s => /\ pc[a.of] \notin BeforeName
                                          /\ row[a.of].name = row[s].name
                                          /\ IF row[s].kind \in Oracle
                                               THEN seeded[a.of] = seeded[s]
                                               ELSE a.of \in since[s]
  <2>1. CASE row[s].kind \in Configured
    <3> DEFINE f == FileOf(row[s].kind)
    <3>1. PICK e \in files[f] : e.name = HeadInfo(s) /\ conn' = [conn EXCEPT ![s] = e.addr]
      BY <2>1 DEF ToolConnects
    <3>2. f \in Files /\ (f = "tnsnames.ora" <=> row[s].kind \in Oracle)
      BY <2>1, FileOfConfigured
    <3>3. Made(f, e) /\ e.addr \in Address
      BY <3>2 DEF EntriesMade, LaunchTypeOK, Entry
    <3>4. row[e.addr.of].kind \in Oracle <=> row[s].kind \in Oracle
      BY <3>2, <3>3, FileOfConfigured DEF Made
    <3>5. /\ row[e.addr.of].name = row[s].name
          /\ row[s].kind \in Oracle => seeded[e.addr.of] = seeded[s]
      BY <3>1, <3>3, <3>4 DEF Made, HeadInfo
    <3>6. row[s].kind \notin Oracle /\ e.addr.of # s => e.addr.of \in since[s]
      BY <2>1, <3>1, <3>2 DEF OverwrittenSince
    <3>7. QED
      BY <3>1, <3>3, <3>5, <3>6 DEF Made
  <2>2. CASE row[s].kind \notin Configured
    BY <2>2 DEF ToolConnects, LaunchTypeOK, TargetOwn
  <2>3. QED
    BY <2>1, <2>2
<1>4. conn' \in [Sessions -> Address] /\ conn'[s] = a /\ \A t \in Sessions \ {s} : conn'[t] = conn[t]
  BY <1>3 DEF LaunchTypeOK
<1>5. NoToolYet'
  BY <1>1, <1>4 DEF NoToolYet
<1>6. ConnMade'
  BY <1>1, <1>3, <1>4 DEF ConnMade
<1>7. OwnServer'
  BY <1>1, <1>3, <1>4 DEF OwnServer
<1>8. QED
  BY <1>2, <1>5, <1>6, <1>7

\* Every step keeps the invariant of the lookups.
LEMMA NextLookup == LaunchTypeOK /\ LookupInv /\ [LaunchNext]_launchVars => LookupInv'
<1> SUFFICES ASSUME LaunchTypeOK, LookupInv, [LaunchNext]_launchVars PROVE LookupInv'
  OBVIOUS
<1> USE DEF Goto, shared, toad
<1>0. target' = target => TargetOwn'
  BY DEF LookupInv, TargetOwn
<1>1. ASSUME NEW s \in Sessions, Query(s) PROVE LookupInv'
  <2>1. PICK l \in {"failed", "port", "convert"} :
          pc' = [pc EXCEPT ![s] = l] /\ (l = "port" => row[s].kind \in Configured \cup {"cmdline"})
    BY <1>1 DEF Query
  <2>2. QED
    BY <1>0, <1>1, <2>1, MovesOn DEF Query, BeforeName, BeforeStart
<1>2. ASSUME NEW s \in Sessions, ConnectServer(s) PROVE LookupInv'
  <2> DEFINE l(v) == CASE row[s].kind = "cmdline" -> "convert"
                       [] row[s].kind = "navicat" /\ v = "zero" -> "failed"
                       [] OTHER -> "open"
  <2>1. \A v : /\ l(v) \in {"convert", "failed", "open"}
               /\ l(v) = "open" => row[s].kind # "cmdline"
    BY Zenon
  <2>2. PICK v \in Via(row[s]) : /\ pc' = [pc EXCEPT ![s] = l(v)]
                                 /\ target' = [target EXCEPT ![s] = [of |-> s, via |-> v]]
    BY <1>2, Zenon DEF ConnectServer
  <2> HIDE DEF l
  <2>3. TargetOwn'
    BY <2>2 DEF LookupInv, TargetOwn, LaunchTypeOK
  <2>4. l(v) = "open" => row[s].kind \in Configured
    BY <1>2, <2>1 DEF ConnectServer, LookupInv, ConfiguredPc
  <2>5. QED
    BY <1>2, <2>1, <2>2, <2>3, <2>4, MovesOn DEF ConnectServer, BeforeName, BeforeStart
<1>3. ASSUME NEW s \in Sessions, KeyFails(s) PROVE LookupInv'
  BY <1>0, <1>3, MovesOn DEF KeyFails, BeforeName, BeforeStart
<1>4. ASSUME NEW s \in Sessions, Convert(s) PROVE LookupInv'
  BY <1>0, <1>4, MovesOn DEF Convert, BeforeName, BeforeStart
<1>5. ASSUME NEW s \in Sessions, Prepare(s) PROVE LookupInv'
  BY <1>0, <1>5, MovesOn DEF Prepare, BeforeName, BeforeStart
<1>6. ASSUME NEW s \in Sessions, CreateMutex(s) PROVE LookupInv'
  BY <1>0, <1>6, MovesOn DEF CreateMutex, BeforeName, BeforeStart
<1>7. ASSUME NEW s \in Sessions, MutexWait(s) PROVE LookupInv'
  BY <1>0, <1>7, MovesOn DEF MutexWait, BeforeName, BeforeStart
<1>8. ASSUME NEW s \in Sessions, StartToad(s) PROVE LookupInv'
  BY <1>0, <1>8, MovesOn DEF StartToad, BeforeName, BeforeStart
<1>9. ASSUME NEW s \in Sessions, ToadWindow(s) PROVE LookupInv'
  BY <1>0, <1>9, MovesOn DEF ToadWindow, BeforeName, BeforeStart
<1>10. ASSUME NEW s \in Sessions, StartTool(s) PROVE LookupInv'
  BY <1>0, <1>10, MovesOn DEF StartTool, BeforeName, BeforeStart
<1>11. ASSUME NEW s \in Sessions, Window(s) PROVE LookupInv'
  <2>1. PICK l \in {"done", "failed", "hang"} : pc' = [pc EXCEPT ![s] = l]
    BY <1>11 DEF Window
  <2>2. QED
    BY <1>0, <1>11, <2>1, MovesOn DEF Window, BeforeName, BeforeStart
<1>12. ASSUME NEW s \in Sessions, SessionEnds(s) PROVE LookupInv'
  BY <1>0, <1>12, MovesOn DEF SessionEnds, BeforeName, BeforeStart
<1>13. ASSUME UNCHANGED <<row, pc, seeded, target, shared, tool, conn>> PROVE LookupInv'
  BY <1>13 DEF LookupInv, EntriesMade, BaseMade, OverwrittenSince, NoToolYet, TargetOwn, ConnMade,
               ConfiguredPc, OwnServer, Made, HeadInfo
<1>14. ASSUME Tick \/ UNCHANGED launchVars PROVE LookupInv'
  BY <1>13, <1>14 DEF Tick, launchVars
<1>15. QED
  BY <1>1, <1>2, <1>3, <1>4, <1>5, <1>6, <1>7, <1>8, <1>9, <1>10, <1>11, <1>12, <1>14,
     OpenFileLookup, WriteFileLookup, ToolConnectsLookup DEF LaunchNext, LaunchStep

-----------------------------------------------------------------------------
(* The theorems *)

\* The three parts of the invariant hold together in every reachable state.
LEMMA LaunchInvariant == LaunchSpec => [](LaunchTypeOK /\ ToadInv /\ LookupInv)
<1>1. LaunchInit => LaunchTypeOK /\ ToadInv /\ LookupInv
  BY InitType, InitToad, InitLookup
<1>2. LaunchTypeOK /\ ToadInv /\ LookupInv /\ [LaunchNext]_launchVars
        => (LaunchTypeOK /\ ToadInv /\ LookupInv)'
  BY NextType, NextToad, NextLookup DEF LookupInv
<1>3. QED
  BY <1>1, <1>2, PTL DEF LaunchSpec

(* Type correctness of OSCShellEx's launches: whatever rows the sessions     *)
(* have, a handle of Toad's mutex is open only inside the mutex's loop, so   *)
(* no launch that is over keeps the others waiting.                          *)
THEOREM LaunchTyped == LaunchSpec => []LaunchTypeOK
BY LaunchInvariant, PTL

(* The named mutex does what it is for with any number of sessions: two of   *)
(* them are between CreateProcess of Toad and its window only if CreateMutex *)
(* failed for one (OSCShell.cpp:3971-4024).                                  *)
THEOREM ToadStartsAlone == LaunchSpec => []ToadAlone
<1>1. ToadInv => ToadAlone
  <2> SUFFICES ASSUME ToadInv, NEW s \in Sessions, NEW t \in Sessions, s # t,
                      pc[s] \in StartsToad, pc[t] \in StartsToad
               PROVE  s \in denied \/ t \in denied
    BY DEF ToadAlone, StartsToad
  <2>1. QED
    BY DEF ToadInv, HolderOrDenied, OneHolderStarts
<1>2. QED
  BY <1>1, LaunchInvariant, PTL

(* Whose server a tool is led to, with any number of sessions and any names: *)
(* its own session's, or that of a session whose entry has the same name and *)
(* was made in the same second (tnsnames.ora) or after its own entry (the    *)
(* files that every launch overwrites).                                      *)
THEOREM LedToOwnServer == LaunchSpec => []OwnServer
<1>1. LookupInv => OwnServer
  BY DEF LookupInv
<1>2. QED
  BY <1>1, LaunchInvariant, PTL

-----------------------------------------------------------------------------
\* The database side of a session (LoginLog)

(***************************************************************************)
(* What the programs of the threads have in common, stated of neighbouring *)
(* calls so that it survives every early return.  A handle that is asked   *)
(* for is used and then closed; "close" and "null" belong together; an     *)
(* entry into the critical section has its end seven calls further on.     *)
(***************************************************************************)
Guarded == {"qtime", "vtime", "qauth", "delete", "loginid"}

Chained(s) ==
  \A i \in 1..Len(s) :
    /\ s[i] \in {"open_osc", "open_audit", "connect"} => i < Len(s) /\ s[i + 1] \in Guarded
    /\ s[i] \in {"qtime", "vtime", "qauth", "delete", "video"} => i < Len(s) /\ s[i + 1] = "close"
    /\ s[i] \in {"loginid", "loginid_end"} => i < Len(s) /\ s[i + 1] = "video"
    /\ s[i] = "close" => i < Len(s) /\ s[i + 1] = "null"
    /\ s[i] \in {"monitor", "policy", "fail"} => i = Len(s)

Sectioned(s) ==
  \A i \in 1..Len(s) :
    /\ s[i] = "enter" =>
         i + 7 <= Len(s) /\ s[i + 7] = "leave" /\ \A j \in (i + 1)..(i + 6) : s[j] # "enter"
    /\ s[i] = "vtime" => \A j \in 1..Len(s) : s[j] # "leave"

OneInsert(s) == \A i, j \in 1..Len(s) : s[i] = "insert" /\ s[j] = "insert" => i = j

Good(s) == s \in Seq(Calls) /\ Len(s) <= 16 /\ Chained(s) /\ Sectioned(s) /\ OneInsert(s)

\* The program s is inside the critical section: it comes to "leave" before "enter".
Inside(s) == \E i \in 1..Len(s) : s[i] = "leave" /\ \A j \in 1..(i - 1) : s[j] # "enter"

\* The program s is between asking for the global handle and clearing it.
InHandle ==
  {"connect", "qtime", "vtime", "qauth", "delete", "loginid", "loginid_end", "video", "close", "null"}
Holding(s) == s # <<>> /\ s[1] \in InHandle

Inserts(s) == \E i \in 1..Len(s) : s[i] = "insert"

(***************************************************************************)
(* The inductive invariant.  The row is inserted by main's first program   *)
(* alone; the exit thread has nothing to do before it is started; a handle *)
(* that is not NULL has a thread that will clear it.                       *)
(***************************************************************************)
ProgsGood == prog \in [Threads -> Seq(Calls)] /\ \A p \in Threads : Good(prog[p])
OwnerInside == g_csA # "none" => Inside(prog[g_csA])
InsertFirst == \A p \in Threads : Inserts(prog[p]) => p = "main" /\ login.status = "none"
ExitWaits == ~exitmsg => prog["exit"] = <<>>
HandleHeld ==
  sqlHandle # NullHandle => crashed \/ early \/ \E p \in Threads : Holding(prog[p])

\* The types of the other variables, without the programs.
StateTyped ==
  /\ sqlHandle \in Handles
  /\ g_csA \in Threads \cup {"none"}
  /\ login \in [status : {"none", "0", "1", "2"}, online : Times, out : Times]
  /\ id \in {"own", "empty"}

FlagsTyped ==
  /\ config \in Configs
  /\ proxyTime \in [Threads -> BOOLEAN]
  /\ auth \in BOOLEAN /\ pipeFlag \in BOOLEAN /\ exitmsg \in BOOLEAN
  /\ early \in BOOLEAN /\ crashed \in BOOLEAN

ProgInv == ProgsGood /\ OwnerInside /\ InsertFirst /\ ExitWaits /\ HandleHeld

LogInv == StateTyped /\ FlagsTyped /\ ProgInv

-----------------------------------------------------------------------------
(* The ways in which a program goes on, call by call *)

\* The call is made.
LEMMA TailCalls ==
  ASSUME NEW s \in Seq(Calls), s # <<>>
  PROVE  /\ Len(s) \in Nat \ {0} /\ Head(s) = s[1]
         /\ Tail(s) \in Seq(Calls) /\ Len(Tail(s)) = Len(s) - 1
         /\ \A i \in 1..(Len(s) - 1) : Tail(s)[i] = s[i + 1]
OBVIOUS

\* The call is followed by a second part c of itself.
LEMMA ReplaceHead ==
  ASSUME NEW s \in Seq(Calls), s # <<>>, NEW c \in Calls
  PROVE  LET t == <<c>> \o Tail(s)
         IN  t \in Seq(Calls) /\ Len(t) = Len(s) /\ t[1] = c /\ \A i \in 2..Len(s) : t[i] = s[i]
<1>1. <<c>> \in Seq(Calls) /\ Len(<<c>>) = 1 /\ <<c>>[1] = c
  OBVIOUS
<1>2. QED
  BY <1>1, TailCalls

\* The call and the next one are made.
LEMMA TailTailCalls ==
  ASSUME NEW s \in Seq(Calls), Len(s) >= 2
  PROVE  /\ Tail(Tail(s)) \in Seq(Calls) /\ Len(Tail(Tail(s))) = Len(s) - 2
         /\ \A i \in 1..(Len(s) - 2) : Tail(Tail(s))[i] = s[i + 2]
<1>1. s # <<>>
  OBVIOUS
<1> DEFINE u == Tail(s)
<1>2. /\ u \in Seq(Calls) /\ Len(u) = Len(s) - 1
      /\ \A i \in 1..(Len(s) - 1) : u[i] = s[i + 1]
  BY <1>1, TailCalls
<1> HIDE DEF u
<1>3. /\ u # <<>> /\ Tail(u) \in Seq(Calls) /\ Len(Tail(u)) = Len(s) - 2
      /\ \A i \in 1..(Len(s) - 2) : Tail(u)[i] = u[i + 1]
  BY <1>2, TailCalls
<1>4. \A i \in 1..(Len(s) - 2) : Tail(u)[i] = s[i + 2]
  BY <1>2, <1>3
<1>5. QED
  BY <1>3, <1>4 DEF u

\* The call and the next one are replaced by c and d.
LEMMA ReplaceTwo ==
  ASSUME NEW s \in Seq(Calls), Len(s) >= 2, NEW c \in Calls, NEW d \in Calls
  PROVE  LET t == <<c, d>> \o Tail(Tail(s))
         IN  /\ t \in Seq(Calls) /\ Len(t) = Len(s) /\ t[1] = c /\ t[2] = d
             /\ \A i \in 3..Len(s) : t[i] = s[i]
<1>1. <<c, d>> \in Seq(Calls) /\ Len(<<c, d>>) = 2 /\ <<c, d>>[1] = c /\ <<c, d>>[2] = d
  OBVIOUS
<1>2. QED
  BY <1>1, TailTailCalls

-----------------------------------------------------------------------------
(* What that does to a program's shape *)

\* Making k calls keeps the shape; the end of the section stays ahead unless it is
\* among them.
LEMMA ShiftGood ==
  ASSUME NEW s, NEW t \in Seq(Calls), Good(s), NEW k \in {1, 2}, Len(s) >= k,
         Len(t) = Len(s) - k, \A i \in 1..Len(t) : t[i] = s[i + k]
  PROVE  /\ Good(t)
         /\ Inside(s) /\ (\A i \in 1..k : s[i] # "leave") => Inside(t)
         /\ Inserts(t) => Inserts(s)
<1>0. Len(s) \in Nat /\ Len(t) \in Nat /\ s \in Seq(Calls)
  BY DEF Good
<1>1. Chained(t)
  <2> SUFFICES ASSUME NEW i \in 1..Len(t)
               PROVE
    /\ t[i] \in {"open_osc", "open_audit", "connect"} => i < Len(t) /\ t[i + 1] \in Guarded
    /\ t[i] \in {"qtime", "vtime", "qauth", "delete", "video"} => i < Len(t) /\ t[i + 1] = "close"
    /\ t[i] \in {"loginid", "loginid_end"} => i < Len(t) /\ t[i + 1] = "video"
    /\ t[i] = "close" => i < Len(t) /\ t[i + 1] = "null"
    /\ t[i] \in {"monitor", "policy", "fail"} => i = Len(t)
    BY DEF Chained
  <2>1. i + k \in 1..Len(s) /\ t[i] = s[i + k]
    BY <1>0
  <2>2. i + k < Len(s) => i < Len(t) /\ t[i + 1] = s[(i + k) + 1]
    BY <1>0
  <2>3. i + k = Len(s) => i = Len(t)
    BY <1>0
  <2>4. QED
    BY <2>1, <2>2, <2>3 DEF Good, Chained
<1>2. Sectioned(t)
  <2> SUFFICES ASSUME NEW i \in 1..Len(t)
               PROVE  /\ t[i] = "enter" => /\ i + 7 <= Len(t) /\ t[i + 7] = "leave"
                                           /\ \A j \in (i + 1)..(i + 6) : t[j] # "enter"
                      /\ t[i] = "vtime" => \A j \in 1..Len(t) : t[j] # "leave"
    BY DEF Sectioned
  <2>1. i + k \in 1..Len(s) /\ t[i] = s[i + k]
    BY <1>0
  <2>2. ASSUME t[i] = "enter"
        PROVE  /\ i + 7 <= Len(t) /\ t[i + 7] = "leave"
               /\ \A j \in (i + 1)..(i + 6) : t[j] # "enter"
    <3>1. /\ i + k + 7 <= Len(s) /\ s[i + k + 7] = "leave"
          /\ \A j \in (i + k + 1)..(i + k + 6) : s[j] # "enter"
      BY <2>1, <2>2 DEF Good, Sectioned
    <3>2. i + 7 \in 1..Len(t) /\ t[i + 7] = s[i + k + 7]
      BY <1>0, <3>1
    <3>3. ASSUME NEW j \in (i + 1)..(i + 6) PROVE t[j] # "enter"
      <4>1. j \in 1..Len(t) /\ j + k \in (i + k + 1)..(i + k + 6)
        BY <1>0, <3>1
      <4>2. QED
        BY <3>1, <4>1
    <3>4. QED
      BY <3>1, <3>2, <3>3
  <2>3. ASSUME t[i] = "vtime", NEW j \in 1..Len(t) PROVE t[j] # "leave"
    BY <1>0, <2>1, <2>3 DEF Good, Sectioned
  <2>4. QED
    BY <2>2, <2>3
<1>3. OneInsert(t)
  BY <1>0 DEF Good, OneInsert
<1>4. ASSUME Inside(s), \A i \in 1..k : s[i] # "leave" PROVE Inside(t)
  <2>1. PICK i \in 1..Len(s) : s[i] = "leave" /\ \A j \in 1..(i - 1) : s[j] # "enter"
    BY <1>4 DEF Inside
  <2>2. i - k \in 1..Len(t) /\ t[i - k] = "leave"
    BY <1>0, <1>4, <2>1
  <2>3. \A j \in 1..(i - k - 1) : t[j] # "enter"
    BY <1>0, <2>1, <2>2
  <2>4. QED
    BY <2>2, <2>3 DEF Inside
<1>5. Inserts(t) => Inserts(s)
  BY <1>0 DEF Inserts
<1>6. QED
  BY <1>0, <1>1, <1>2, <1>3, <1>4, <1>5 DEF Good

\* The calls that concern neither the section nor the row nor the end of a program.
Inner == InHandle \ {"vtime"}

\* Replacing the first k calls by others of the handle's keeps the shape, if the new
\* calls are chained.
LEMMA ReplaceGood ==
  ASSUME NEW s, NEW t \in Seq(Calls), Good(s), NEW k \in {1, 2}, Len(s) >= k,
         Len(t) = Len(s), \A i \in (k + 1)..Len(s) : t[i] = s[i],
         \A i \in 1..k : t[i] \in Inner /\ s[i] \notin {"enter", "leave"},
         \A i \in 1..k :
           /\ t[i] = "connect" => i < Len(t) /\ t[i + 1] \in Guarded
           /\ t[i] \in {"qtime", "qauth", "delete", "video"} => i < Len(t) /\ t[i + 1] = "close"
           /\ t[i] \in {"loginid", "loginid_end"} => i < Len(t) /\ t[i + 1] = "video"
           /\ t[i] = "close" => i < Len(t) /\ t[i + 1] = "null"
  PROVE  /\ Good(t)
         /\ Inside(s) => Inside(t)
         /\ Inserts(t) => Inserts(s)
<1>0. Len(s) \in Nat /\ s \in Seq(Calls)
  BY DEF Good
<1>1. \A i \in 1..Len(t) : i \in 1..k \/ i \in (k + 1)..Len(s)
  BY <1>0
<1>2. Chained(t)
  <2> SUFFICES ASSUME NEW i \in 1..Len(t)
               PROVE
    /\ t[i] \in {"open_osc", "open_audit", "connect"} => i < Len(t) /\ t[i + 1] \in Guarded
    /\ t[i] \in {"qtime", "vtime", "qauth", "delete", "video"} => i < Len(t) /\ t[i + 1] = "close"
    /\ t[i] \in {"loginid", "loginid_end"} => i < Len(t) /\ t[i + 1] = "video"
    /\ t[i] = "close" => i < Len(t) /\ t[i + 1] = "null"
    /\ t[i] \in {"monitor", "policy", "fail"} => i = Len(t)
    BY DEF Chained
  <2>1. CASE i \in 1..k
    BY <2>1 DEF Inner, InHandle
  <2>2. CASE i \in (k + 1)..Len(s)
    <3>1. t[i] = s[i] /\ (i < Len(t) => t[i + 1] = s[i + 1])
      BY <1>0, <2>2
    <3>2. QED
      BY <1>0, <2>2, <3>1 DEF Good, Chained
  <2>3. QED
    BY <1>1, <2>1, <2>2
<1>3. Sectioned(t)
  <2> SUFFICES ASSUME NEW i \in 1..Len(t)
               PROVE  /\ t[i] = "enter" => /\ i + 7 <= Len(t) /\ t[i + 7] = "leave"
                                           /\ \A j \in (i + 1)..(i + 6) : t[j] # "enter"
                      /\ t[i] = "vtime" => \A j \in 1..Len(t) : t[j] # "leave"
    BY DEF Sectioned
  <2>1. CASE i \in 1..k
    BY <2>1 DEF Inner, InHandle
  <2>2. CASE i \in (k + 1)..Len(s)
    <3>1. t[i] = s[i]
      BY <2>2
    <3>2. ASSUME t[i] = "enter"
          PROVE  /\ i + 7 <= Len(t) /\ t[i + 7] = "leave"
                 /\ \A j \in (i + 1)..(i + 6) : t[j] # "enter"
      <4>1. /\ i + 7 <= Len(s) /\ s[i + 7] = "leave"
            /\ \A j \in (i + 1)..(i + 6) : s[j] # "enter"
        BY <3>1, <3>2 DEF Good, Sectioned
      <4>2. \A j \in (i + 1)..(i + 7) : t[j] = s[j]
        BY <1>0, <2>2, <4>1
      <4>3. QED
        BY <1>0, <4>1, <4>2
    <3>3. ASSUME t[i] = "vtime", NEW j \in 1..Len(t) PROVE t[j] # "leave"
      <4>1. CASE j \in 1..k
        BY <4>1 DEF Inner, InHandle
      <4>2. CASE j \in (k + 1)..Len(s)
        BY <3>1, <3>3, <4>2 DEF Good, Sectioned
      <4>3. QED
        BY <1>1, <4>1, <4>2
    <3>4. QED
      BY <3>2, <3>3
  <2>3. QED
    BY <1>1, <2>1, <2>2
<1>4. \A i \in 1..Len(t) : t[i] = "insert" => s[i] = "insert"
  BY <1>1 DEF Inner, InHandle
<1>5. OneInsert(t)
  BY <1>4 DEF Good, OneInsert
<1>6. Inside(s) => Inside(t)
  <2> SUFFICES ASSUME Inside(s) PROVE Inside(t)
    OBVIOUS
  <2>1. PICK i \in 1..Len(s) : s[i] = "leave" /\ \A j \in 1..(i - 1) : s[j] # "enter"
    BY DEF Inside
  <2>2. i \in (k + 1)..Len(s)
    BY <1>1, <2>1
  <2>3. t[i] = "leave"
    BY <2>1, <2>2
  <2>4. ASSUME NEW j \in 1..(i - 1) PROVE t[j] # "enter"
    <3>1. CASE j \in 1..k
      BY <3>1 DEF Inner, InHandle
    <3>2. CASE j \in (k + 1)..Len(s)
      BY <2>1, <3>2
    <3>3. QED
      BY <1>0, <3>1, <3>2
  <2>5. QED
    BY <2>2, <2>3, <2>4 DEF Inside
<1>7. Inserts(t) => Inserts(s)
  BY <1>4 DEF Inserts
<1>8. QED
  BY <1>0, <1>2, <1>3, <1>5, <1>6, <1>7 DEF Good

-----------------------------------------------------------------------------
(* The programs *)

\* ExitRemoteControlServer, call by call, at the debug level and otherwise.
ExitDebug ==
  <<"enter", "open_osc", "qtime", "close", "null", "ctime", "logout", "leave", "pipe">>
ExitPlain ==
  <<"open_osc", "delete", "close", "null", "enter", "open_osc", "qtime", "close", "null", "ctime",
    "logout", "leave", "pipe">>

\* ShellRemoteControlServer, call by call.
Shell ==
  <<"enter", "open_osc", "qtime", "close", "null", "ctime", "insert", "leave",
    "open_audit", "loginid", "video", "close", "null", "monitor">>

\* One program after another.
LEMMA ConcatCalls ==
  ASSUME NEW u \in Seq(Calls), NEW v \in Seq(Calls)
  PROVE  /\ u \o v \in Seq(Calls) /\ Len(u \o v) = Len(u) + Len(v)
         /\ \A i \in 1..Len(u) : (u \o v)[i] = u[i]
         /\ \A i \in 1..Len(v) : (u \o v)[Len(u) + i] = v[i]
OBVIOUS

\* Programs with the same calls are the same.
LEMMA SameCalls ==
  ASSUME NEW s \in Seq(Calls), NEW t \in Seq(Calls), Len(s) = Len(t), \A i \in 1..Len(s) : s[i] = t[i]
  PROVE  s = t
OBVIOUS

\* A program that consists of two others.
LEMMA Joined ==
  ASSUME NEW u \in Seq(Calls), NEW v \in Seq(Calls), NEW w \in Seq(Calls),
         Len(w) = Len(u) + Len(v),
         \A i \in 1..Len(u) : w[i] = u[i],
         \A i \in 1..Len(v) : w[Len(u) + i] = v[i]
  PROVE  u \o v = w
<1> DEFINE x == u \o v
<1>1. /\ x \in Seq(Calls) /\ Len(x) = Len(u) + Len(v)
      /\ \A i \in 1..Len(u) : x[i] = u[i]
      /\ \A i \in 1..Len(v) : x[Len(u) + i] = v[i]
  BY ConcatCalls
<1> HIDE DEF x
<1>2. ASSUME NEW i \in 1..Len(x) PROVE x[i] = w[i]
  <2>1. CASE i \in 1..Len(u)
    BY <1>1, <2>1
  <2>2. CASE i - Len(u) \in 1..Len(v)
    <3>1. i = Len(u) + (i - Len(u))
      BY <1>1
    <3>2. QED
      BY <1>1, <2>2, <3>1
  <2>3. QED
    BY <1>1, <2>1, <2>2
<1>3. x = w
  BY <1>1, <1>2, SameCalls
<1>4. QED
  BY <1>3 DEF x

\* The programs are what their parts say.
LEMMA ShellProgram == ShellRemoteControlServer = Shell
<1> DEFINE u == DoLoginLog("insert")
           v == <<"open_audit", "loginid", "video", "close", "null", "monitor">>
<1>1. /\ u \in Seq(Calls) /\ Len(u) = 8
      /\ v \in Seq(Calls) /\ Len(v) = 6
      /\ Shell \in Seq(Calls) /\ Len(Shell) = 14
  BY DEF DoLoginLog, Calls, Shell
<1>2. /\ \A i \in 1..8 : Shell[i] = u[i]
      /\ \A i \in 1..6 : Shell[8 + i] = v[i]
  BY DEF DoLoginLog, Shell
<1> HIDE DEF u, v
<1>3. /\ Len(Shell) = Len(u) + Len(v)
      /\ \A i \in 1..Len(u) : Shell[i] = u[i]
      /\ \A i \in 1..Len(v) : Shell[Len(u) + i] = v[i]
  BY <1>1, <1>2
<1>4. u \o v = Shell
  BY <1>1, <1>3, Joined, Zenon
<1>5. QED
  BY <1>4, Zenon DEF ShellRemoteControlServer, u, v

\* The calls of ExitRemoteControlServer, one after the other.
LEMMA ExitProgram == ExitRemoteControlServer = IF config.debug THEN ExitDebug ELSE ExitPlain
<1> DEFINE u == DoLoginLog("logout")
           v == <<"pipe">>
           w == <<"open_osc", "delete", "close", "null">>
           wu == <<"open_osc", "delete", "close", "null", "enter", "open_osc", "qtime", "close",
                   "null", "ctime", "logout", "leave">>
           e == <<>>
<1>1. /\ u \in Seq(Calls) /\ Len(u) = 8
      /\ v \in Seq(Calls) /\ Len(v) = 1
      /\ w \in Seq(Calls) /\ Len(w) = 4
      /\ e \in Seq(Calls) /\ Len(e) = 0
      /\ wu \in Seq(Calls) /\ Len(wu) = 12
      /\ ExitDebug \in Seq(Calls) /\ Len(ExitDebug) = 9
      /\ ExitPlain \in Seq(Calls) /\ Len(ExitPlain) = 13
  BY DEF DoLoginLog, Calls, ExitDebug, ExitPlain
<1>2. /\ \A i \in 1..8 : ExitDebug[i] = u[i]
      /\ \A i \in 1..1 : ExitDebug[8 + i] = v[i]
  BY DEF DoLoginLog, ExitDebug
<1>3. /\ \A i \in 1..4 : wu[i] = w[i]
      /\ \A i \in 1..8 : wu[4 + i] = u[i]
  BY DEF DoLoginLog
<1>4. /\ \A i \in 1..12 : ExitPlain[i] = wu[i]
      /\ \A i \in 1..1 : ExitPlain[12 + i] = v[i]
  BY DEF ExitPlain
<1> HIDE DEF u, v, w, wu, e
<1>5. w \o u = wu /\ wu \o v = ExitPlain /\ u \o v = ExitDebug
  <2>1. /\ Len(wu) = Len(w) + Len(u)
        /\ \A i \in 1..Len(w) : wu[i] = w[i]
        /\ \A i \in 1..Len(u) : wu[Len(w) + i] = u[i]
    BY <1>1, <1>3
  <2>2. /\ Len(ExitPlain) = Len(wu) + Len(v)
        /\ \A i \in 1..Len(wu) : ExitPlain[i] = wu[i]
        /\ \A i \in 1..Len(v) : ExitPlain[Len(wu) + i] = v[i]
    BY <1>1, <1>4
  <2>3. /\ Len(ExitDebug) = Len(u) + Len(v)
        /\ \A i \in 1..Len(u) : ExitDebug[i] = u[i]
        /\ \A i \in 1..Len(v) : ExitDebug[Len(u) + i] = v[i]
    BY <1>1, <1>2
  <2>4. w \o u = wu
    BY <1>1, <2>1, Joined, Zenon
  <2>5. wu \o v = ExitPlain
    BY <1>1, <2>2, Joined, Zenon
  <2>6. u \o v = ExitDebug
    BY <1>1, <2>3, Joined, Zenon
  <2>7. QED
    BY <2>4, <2>5, <2>6
<1>6. e \o u = u
  <2>1. /\ Len(u) = Len(e) + Len(u)
        /\ \A i \in 1..Len(e) : u[i] = e[i]
    BY <1>1
  <2>2. ASSUME NEW i \in 1..Len(u) PROVE u[Len(e) + i] = u[i]
    <3>1. Len(e) + i = i
      BY <1>1
    <3>2. QED
      BY <3>1
  <2>3. QED
    BY <1>1, <2>1, <2>2, Joined, Zenon
<1>7. CASE config.debug
  BY <1>5, <1>6, <1>7 DEF ExitRemoteControlServer, RemoveMapInfo, e, u, v
<1>8. CASE ~config.debug
  BY <1>5, <1>8 DEF ExitRemoteControlServer, RemoveMapInfo, w, u, v
<1>9. QED
  BY <1>7, <1>8

\* The initial program has the shape.
LEMMA ShellGood == Good(Shell)
<1>1. Shell \in Seq(Calls) /\ Len(Shell) = 14
  BY DEF Shell, Calls
<1>2. Chained(Shell)
  BY <1>1 DEF Shell, Chained, Guarded
<1>3. Sectioned(Shell)
  BY <1>1 DEF Shell, Sectioned
<1>4. OneInsert(Shell)
  BY <1>1 DEF Shell, OneInsert
<1>5. QED
  BY <1>1, <1>2, <1>3, <1>4 DEF Good

\* So do the others, which insert nothing and are outside of the section.
LEMMA ExitGood ==
  Good(ExitRemoteControlServer) /\ ~Inserts(ExitRemoteControlServer)
<1>1. /\ ExitDebug \in Seq(Calls) /\ Len(ExitDebug) = 9
      /\ ExitPlain \in Seq(Calls) /\ Len(ExitPlain) = 13
  BY DEF ExitDebug, ExitPlain, Calls
<1>2. Chained(ExitDebug) /\ Chained(ExitPlain)
  BY <1>1 DEF ExitDebug, ExitPlain, Chained, Guarded
<1>3. Sectioned(ExitDebug) /\ Sectioned(ExitPlain)
  BY <1>1 DEF ExitDebug, ExitPlain, Sectioned
<1>4. ~Inserts(ExitDebug) /\ ~Inserts(ExitPlain)
  BY <1>1 DEF ExitDebug, ExitPlain, Inserts
<1>5. OneInsert(ExitDebug) /\ OneInsert(ExitPlain)
  BY <1>4 DEF Inserts, OneInsert
<1>6. Good(ExitDebug) /\ Good(ExitPlain)
  BY <1>1, <1>2, <1>3, <1>5 DEF Good
<1>7. ExitRemoteControlServer = ExitDebug \/ ExitRemoteControlServer = ExitPlain
  BY ExitProgram
<1>8. QED
  BY <1>4, <1>6, <1>7, Zenon

\* The programs of the session's loop have the shape, and insert no row.
LEMMA LoopGood ==
  /\ Good(DoLoginLog("beat")) /\ ~Inserts(DoLoginLog("beat"))
  /\ Good(GetVistitime) /\ ~Inserts(GetVistitime)
<1> DEFINE b == DoLoginLog("beat")
           g == GetVistitime
<1>1. b \in Seq(Calls) /\ Len(b) = 8 /\ g \in Seq(Calls) /\ Len(g) = 10
  BY DEF DoLoginLog, GetVistitime, Calls
<1>2. Chained(b) /\ Chained(g)
  BY <1>1 DEF DoLoginLog, GetVistitime, Chained, Guarded
<1>3. Sectioned(b) /\ Sectioned(g)
  BY <1>1 DEF DoLoginLog, GetVistitime, Sectioned
<1>4. ~Inserts(b) /\ ~Inserts(g)
  BY <1>1 DEF DoLoginLog, GetVistitime, Inserts
<1>5. OneInsert(b) /\ OneInsert(g)
  BY <1>4 DEF Inserts, OneInsert
<1> HIDE DEF b, g
<1>6. Good(b) /\ ~Inserts(b) /\ Good(g) /\ ~Inserts(g)
  BY <1>1, <1>2, <1>3, <1>4, <1>5 DEF Good
<1>7. QED
  BY <1>6, Zenon DEF b, g

\* So have the rests that a failed call leaves.
LEMMA ShortGood ==
  /\ Good(<<>>) /\ ~Inserts(<<>>)
  /\ Good(<<"fail">>) /\ ~Inserts(<<"fail">>)
  /\ Good(<<"leave", "fail">>) /\ ~Inserts(<<"leave", "fail">>) /\ Inside(<<"leave", "fail">>)
<1>1. Good(<<>>) /\ ~Inserts(<<>>)
  BY DEF Good, Chained, Sectioned, OneInsert, Inserts
<1>2. Good(<<"fail">>) /\ ~Inserts(<<"fail">>)
  BY DEF Good, Chained, Sectioned, OneInsert, Inserts, Calls
<1>3. Good(<<"leave", "fail">>) /\ ~Inserts(<<"leave", "fail">>)
  BY DEF Good, Chained, Sectioned, OneInsert, Inserts, Calls
<1>4. Inside(<<"leave", "fail">>)
  BY DEF Inside
<1>5. QED
  BY <1>1, <1>2, <1>3, <1>4

-----------------------------------------------------------------------------
(* The ways to go on, and the shape *)

\* t goes on from s: it has the shape, inserts nothing new and keeps the end of the
\* section ahead.
GoesOn(s, t) == Good(t) /\ (Inserts(t) => Inserts(s)) /\ (Inside(s) => Inside(t))

Opening == {"open_osc", "open_audit"}

\* The rest of a program after a call that returns normally.
LEMMA TailShape ==
  ASSUME NEW s, Good(s), s # <<>>
  PROVE  /\ s[1] # "leave" => GoesOn(s, Tail(s))
         /\ Good(Tail(s)) /\ (Inserts(Tail(s)) => Inserts(s))
         /\ s[1] \in (InHandle \ {"null"}) \cup Opening => Holding(Tail(s))
<1> DEFINE t == Tail(s)
<1>1. /\ s \in Seq(Calls) /\ Len(s) \in Nat \ {0} /\ t \in Seq(Calls) /\ Len(t) = Len(s) - 1
      /\ \A i \in 1..(Len(s) - 1) : t[i] = s[i + 1]
  BY TailCalls DEF Good
<1> HIDE DEF t
<1>2. /\ Good(t) /\ (Inserts(t) => Inserts(s))
      /\ Inside(s) /\ s[1] # "leave" => Inside(t)
  BY <1>1, ShiftGood
<1>3. ASSUME s[1] \in (InHandle \ {"null"}) \cup Opening PROVE Holding(t)
  <2>1. 1 \in 1..Len(s)
    BY <1>1
  <2>2. 1 < Len(s) /\ s[2] \in InHandle
    BY <1>3, <2>1 DEF Good, Chained, InHandle, Opening, Guarded
  <2>3. t # <<>> /\ t[1] = s[2]
    BY <1>1, <2>2
  <2>4. QED
    BY <2>2, <2>3 DEF Holding
<1>4. QED
  BY <1>2, <1>3 DEF t, GoesOn

\* The handle has been made: it is connected next, in the place of openDBHandle.
LEMMA ConnectShape ==
  ASSUME NEW s, Good(s), s # <<>>, s[1] \in Opening
  PROVE  LET t == <<"connect">> \o Tail(s) IN GoesOn(s, t) /\ Holding(t)
<1> DEFINE t == <<"connect">> \o Tail(s)
<1>1. "connect" \in Calls
  BY DEF Calls
<1>2. /\ s \in Seq(Calls) /\ Len(s) \in Nat \ {0} /\ t \in Seq(Calls) /\ Len(t) = Len(s)
      /\ t[1] = "connect" /\ \A i \in 2..Len(s) : t[i] = s[i]
  BY <1>1, TailCalls, ReplaceHead DEF Good
<1> HIDE DEF t
<1>3. 1 < Len(s) /\ s[2] \in Guarded
  <2>1. 1 \in 1..Len(s)
    BY <1>2
  <2>2. QED
    BY <2>1 DEF Good, Chained, Opening
<1>4. GoesOn(s, t)
  <2>1. \A i \in 1..1 : i = 1
    OBVIOUS
  <2>2. t[1] \in Inner /\ s[1] \notin {"enter", "leave"} /\ t[2] \in Guarded
    BY <1>2, <1>3 DEF Inner, InHandle, Opening
  <2>3. QED
    BY <1>2, <1>3, <2>1, <2>2, ReplaceGood DEF GoesOn
<1>5. Holding(t)
  BY <1>2 DEF Holding, InHandle
<1>6. QED
  BY <1>4, <1>5 DEF t

\* DBQueryLoginlogId has polled: its end is still to come, in its place.
LEMMA IdEndShape ==
  ASSUME NEW s, Good(s), s # <<>>, s[1] = "loginid"
  PROVE  LET t == <<"loginid_end">> \o Tail(s) IN GoesOn(s, t) /\ Holding(t)
<1> DEFINE t == <<"loginid_end">> \o Tail(s)
<1>1. "loginid_end" \in Calls
  BY DEF Calls
<1>2. /\ s \in Seq(Calls) /\ Len(s) \in Nat \ {0} /\ t \in Seq(Calls) /\ Len(t) = Len(s)
      /\ t[1] = "loginid_end" /\ \A i \in 2..Len(s) : t[i] = s[i]
  BY <1>1, TailCalls, ReplaceHead DEF Good
<1> HIDE DEF t
<1>3. 1 < Len(s) /\ s[2] = "video"
  <2>1. 1 \in 1..Len(s)
    BY <1>2
  <2>2. QED
    BY <2>1 DEF Good, Chained
<1>4. GoesOn(s, t)
  <2>1. \A i \in 1..1 : i = 1
    OBVIOUS
  <2>2. t[1] \in Inner /\ s[1] \notin {"enter", "leave"} /\ t[2] = "video"
    BY <1>2, <1>3 DEF Inner, InHandle
  <2>3. QED
    BY <1>2, <1>3, <2>1, <2>2, ReplaceGood DEF GoesOn
<1>5. Holding(t)
  BY <1>2 DEF Holding, InHandle
<1>6. QED
  BY <1>4, <1>5 DEF t

\* A failed connection: the guarded call is skipped, the handle closed instead.
LEMMA FailedShape ==
  ASSUME NEW s, Good(s), s # <<>>, s[1] = "connect"
  PROVE  LET t == <<"close", "null">> \o Tail(Tail(s)) IN GoesOn(s, t) /\ Holding(t)
<1> DEFINE t == <<"close", "null">> \o Tail(Tail(s))
<1>1. "close" \in Calls /\ "null" \in Calls
  BY DEF Calls
<1>2. s \in Seq(Calls) /\ Len(s) \in Nat \ {0}
  BY TailCalls DEF Good
<1>3. 1 < Len(s) /\ s[2] \in Guarded
  <2>1. 1 \in 1..Len(s)
    BY <1>2
  <2>2. QED
    BY <2>1 DEF Good, Chained
<1>4. /\ t \in Seq(Calls) /\ Len(t) = Len(s) /\ t[1] = "close" /\ t[2] = "null"
      /\ \A i \in 3..Len(s) : t[i] = s[i]
  BY <1>1, <1>2, <1>3, ReplaceTwo
<1> HIDE DEF t
<1>5. GoesOn(s, t)
  <2>1. \A i \in 1..2 : i = 1 \/ i = 2
    OBVIOUS
  <2>2. t[1] \in Inner /\ t[2] \in Inner /\ {s[1], s[2]} \cap {"enter", "leave"} = {}
    BY <1>3, <1>4 DEF Inner, InHandle, Guarded
  <2>3. \A i \in 1..2 : t[i] \in Inner /\ s[i] \notin {"enter", "leave"}
    BY <2>1, <2>2
  <2>4. \A i \in 1..2 :
          /\ t[i] = "connect" => i < Len(t) /\ t[i + 1] \in Guarded
          /\ t[i] \in {"qtime", "qauth", "delete", "video"} => i < Len(t) /\ t[i + 1] = "close"
          /\ t[i] \in {"loginid", "loginid_end"} => i < Len(t) /\ t[i + 1] = "video"
          /\ t[i] = "close" => i < Len(t) /\ t[i + 1] = "null"
    BY <1>2, <1>3, <1>4, <2>1
  <2>5. Len(s) >= 2 /\ 2 \in {1, 2} /\ \A i \in (2 + 1)..Len(s) : t[i] = s[i]
    BY <1>2, <1>3, <1>4
  <2>6. QED
    BY <1>4, <2>3, <2>4, <2>5, ReplaceGood, Zenon DEF GoesOn
<1>6. Holding(t)
  BY <1>2, <1>4 DEF Holding, InHandle
<1>7. QED
  BY <1>5, <1>6 DEF t

\* closeDBHandle finds no handle: the pointer need not be cleared.
LEMMA SkipShape ==
  ASSUME NEW s, Good(s), s # <<>>, s[1] = "close"
  PROVE  GoesOn(s, Tail(Tail(s)))
<1>2. s \in Seq(Calls) /\ Len(s) \in Nat \ {0}
  BY TailCalls DEF Good
<1>3. 1 < Len(s) /\ s[2] = "null"
  <2>1. 1 \in 1..Len(s)
    BY <1>2
  <2>2. QED
    BY <2>1 DEF Good, Chained
<1> DEFINE t == Tail(Tail(s))
<1>4. /\ t \in Seq(Calls) /\ Len(t) = Len(s) - 2
      /\ \A i \in 1..(Len(s) - 2) : t[i] = s[i + 2]
  BY <1>2, <1>3, TailTailCalls
<1> HIDE DEF t
<1>5. \A i \in 1..2 : s[i] # "leave"
  BY <1>3
<1>6. GoesOn(s, t)
  BY <1>2, <1>3, <1>4, <1>5, ShiftGood DEF GoesOn
<1>7. QED
  BY <1>6, Zenon DEF t

-----------------------------------------------------------------------------
(* The steps *)

\* What is known of a thread that is about to call c.
LEMMA CallingFacts ==
  ASSUME ProgInv, NEW p \in Threads, NEW c, Calling(p, c)
  PROVE  /\ prog[p] \in Seq(Calls) /\ prog[p] # <<>> /\ prog[p][1] = c /\ Good(prog[p])
         /\ Holding(prog[p]) <=> c \in InHandle
         /\ g_csA = p => Inside(prog[p])
<1>1. prog[p] \in Seq(Calls) /\ prog[p] # <<>> /\ Head(prog[p]) = c /\ Good(prog[p])
  BY DEF ProgInv, ProgsGood, Calling
<1>2. prog[p][1] = c
  BY <1>1, TailCalls
<1>3. g_csA = p => Inside(prog[p])
  BY DEF ProgInv, OwnerInside, Threads
<1>4. QED
  BY <1>1, <1>2, <1>3 DEF Holding

\* A thread goes on; the handle is as before, or held by this thread, or left open
\* by the early return.
LEMMA Proceed ==
  ASSUME ProgInv, g_csA \in Threads \cup {"none"},
         NEW p \in Threads, NEW code, prog' = [prog EXCEPT ![p] = code],
         Good(code), Inserts(code) => Inserts(prog[p]),
         g_csA' = p => Inside(code), g_csA' \in {g_csA, p, "none"},
         (login.status = "none" => login'.status = "none") \/ (p = "main" /\ ~Inserts(code)),
         exitmsg' = exitmsg \/ exitmsg', prog[p] # <<>> \/ p # "exit" \/ exitmsg',
         crashed' = crashed, early => early',
         sqlHandle' # NullHandle =>
           (sqlHandle # NullHandle /\ ~Holding(prog[p])) \/ Holding(code) \/ early'
  PROVE  ProgInv'
<1>0. prog \in [Threads -> Seq(Calls)] /\ code \in Seq(Calls)
  BY DEF ProgInv, ProgsGood, Good
<1>1. prog' \in [Threads -> Seq(Calls)] /\ prog'[p] = code /\ \A q \in Threads \ {p} : prog'[q] = prog[q]
  BY <1>0
<1>2. ProgsGood'
  BY <1>1 DEF ProgInv, ProgsGood
<1>3. OwnerInside'
  <2>1. CASE g_csA' = p \/ g_csA' = "none"
    BY <1>1, <2>1 DEF OwnerInside
  <2>2. CASE g_csA' = g_csA /\ g_csA \in Threads \ {p}
    BY <1>1, <2>2 DEF ProgInv, OwnerInside
  <2>3. QED
    BY <2>1, <2>2
<1>4. InsertFirst'
  BY <1>1 DEF ProgInv, InsertFirst
<1>5. ExitWaits'
  BY <1>1 DEF ProgInv, ExitWaits, Threads
<1>6. HandleHeld'
  <2> SUFFICES ASSUME sqlHandle' # NullHandle, ~crashed', ~early'
               PROVE  \E q \in Threads : Holding(prog'[q])
    BY DEF HandleHeld
  <2>1. CASE Holding(code)
    BY <1>1, <2>1
  <2>2. CASE sqlHandle # NullHandle /\ ~Holding(prog[p])
    <3>1. PICK q \in Threads : Holding(prog[q])
      BY <2>2 DEF ProgInv, HandleHeld
    <3>2. QED
      BY <1>1, <2>2, <3>1
  <2>3. QED
    BY <2>1, <2>2
<1>7. QED
  BY <1>2, <1>3, <1>4, <1>5, <1>6 DEF ProgInv

\* An undefined call ends the process and changes nothing else.
LEMMA CrashStep == ProgInv /\ Crash => ProgInv'
BY DEF Crash, rows, ProgInv, ProgsGood, OwnerInside, InsertFirst, ExitWaits, HandleHeld

\* A call that is made and neither opens nor clears the handle, nor enters or leaves
\* the section, nor inserts the row.
LEMMA PlainReturn ==
  ASSUME ProgInv, g_csA \in Threads \cup {"none"}, NEW p \in Threads, NEW c, Calling(p, c), Return(p),
         c \notin {"null", "leave"},
         g_csA' = g_csA, login.status = "none" => login'.status = "none",
         exitmsg' = exitmsg, crashed' = crashed, early => early',
         sqlHandle' # NullHandle => sqlHandle # NullHandle
  PROVE  ProgInv'
<1> DEFINE s == prog[p]
<1>1. /\ s \in Seq(Calls) /\ s # <<>> /\ s[1] = c /\ Good(s)
      /\ Holding(s) <=> c \in InHandle
      /\ g_csA = p => Inside(s)
  BY CallingFacts
<1>2. GoesOn(s, Tail(s)) /\ (c \in InHandle => Holding(Tail(s)))
  BY <1>1, TailShape
<1>3. prog' = [prog EXCEPT ![p] = Tail(s)]
  BY DEF Return, Continue
<1> DEFINE code == Tail(s)
<1> HIDE DEF s, code
<1>4. /\ prog' = [prog EXCEPT ![p] = code] /\ Good(code) /\ (Inserts(code) => Inserts(prog[p]))
      /\ g_csA' = p => Inside(code)
      /\ sqlHandle' # NullHandle =>
           (sqlHandle # NullHandle /\ ~Holding(prog[p])) \/ Holding(code) \/ early'
      /\ prog[p] # <<>>
  BY <1>1, <1>2, <1>3, Zenon DEF GoesOn, s, code
<1>5. QED
  BY <1>4, Proceed

\* A call after which the program is another one.
LEMMA Redirected ==
  ASSUME ProgInv, g_csA \in Threads \cup {"none"}, NEW p \in Threads, NEW code, Continue(p, code),
         prog[p] # <<>>, GoesOn(prog[p], code),
         g_csA' = g_csA, login' = login, exitmsg' = exitmsg \/ exitmsg', crashed' = crashed,
         early => early', Holding(code) \/ ~Holding(prog[p]) \/ early' \/ sqlHandle' = NullHandle,
         sqlHandle' # NullHandle => sqlHandle # NullHandle \/ Holding(code)
  PROVE  ProgInv'
<1>1. g_csA' = p => Inside(code)
  BY DEF ProgInv, OwnerInside, GoesOn, Threads
<1>2. QED
  BY <1>1, Proceed DEF Continue, GoesOn

\* Programs that are cut short are not inside the section, and an entry into it has
\* its end ahead.
LEMMA SectionShape ==
  ASSUME NEW s, Good(s), s # <<>>
  PROVE  /\ s[1] \in {"vtime", "monitor", "policy", "fail"} => ~Inside(s)
         /\ s[1] = "enter" => Inside(Tail(s))
<1> DEFINE t == Tail(s)
<1>1. /\ s \in Seq(Calls) /\ Len(s) \in Nat \ {0} /\ 1 \in 1..Len(s)
      /\ t \in Seq(Calls) /\ Len(t) = Len(s) - 1
      /\ \A i \in 1..(Len(s) - 1) : t[i] = s[i + 1]
  BY TailCalls DEF Good
<1> HIDE DEF t
<1>2. ASSUME s[1] = "vtime" PROVE ~Inside(s)
  BY <1>1, <1>2 DEF Good, Sectioned, Inside
<1>3. ASSUME s[1] \in {"monitor", "policy", "fail"} PROVE ~Inside(s)
  <2>1. Len(s) = 1
    BY <1>1, <1>3 DEF Good, Chained
  <2>2. \A i \in 1..1 : s[i] # "leave"
    BY <1>3
  <2>3. QED
    BY <2>1, <2>2 DEF Inside
<1>4. ASSUME s[1] = "enter" PROVE Inside(t)
  <2>1. 1 + 7 <= Len(s) /\ s[1 + 7] = "leave" /\ \A j \in (1 + 1)..(1 + 6) : s[j] # "enter"
    BY <1>1, <1>4 DEF Good, Sectioned
  <2>2. 7 \in 1..Len(t) /\ t[7] = "leave"
    BY <1>1, <2>1
  <2>3. ASSUME NEW j \in 1..(7 - 1) PROVE t[j] # "enter"
    <3>1. j \in 1..(Len(s) - 1) /\ j + 1 \in (1 + 1)..(1 + 6)
      BY <1>1, <2>1
    <3>2. QED
      BY <1>1, <2>1, <3>1
  <2>4. QED
    BY <2>2, <2>3 DEF Inside
<1>5. QED
  BY <1>2, <1>3, <1>4 DEF t

\* A thread without a program is not inside the section.
LEMMA EmptyOutside == ~Inside(<<>>) /\ ~Holding(<<>>)
BY DEF Inside, Holding

\* Statements through the handle and other calls that only return.
LEMMA QueryStep ==
  ASSUME ProgInv, g_csA \in Threads \cup {"none"}, NEW p \in Threads,
         \/ QueryProxyHostTime(p) \/ QueryTimeAuth(p) \/ DeleteAccess(p) \/ LoginlogIdFound(p)
         \/ InsertVideo(p) \/ MakeTime(p) \/ ExitEnds(p)
  PROVE  ProgInv'
<1>1. CASE Crash
  BY <1>1, CrashStep
<1>2. CASE ~Crash
  <2>1. /\ Return(p) /\ UNCHANGED <<sqlHandle, g_csA, login, exitmsg, early, crashed>>
        /\ \E c \in {"qtime", "qauth", "delete", "loginid_end", "video", "ctime", "pipe"} : Calling(p, c)
    BY <1>2 DEF QueryProxyHostTime, QueryTimeAuth, DeleteAccess, LoginlogIdFound, InsertVideo,
                MakeTime, ExitEnds, rows
  <2>2. QED
    BY <2>1, PlainReturn
<1>3. QED
  BY <1>1, <1>2

\* Opening, connecting, closing and clearing the handle.
LEMMA HandleStep ==
  ASSUME ProgInv, g_csA \in Threads \cup {"none"}, sqlHandle \in Handles, NEW p \in Threads,
         \/ OpenDBHandle(p, "open_osc", "osc") \/ OpenDBHandle(p, "open_audit", "audit")
         \/ Connect(p) \/ CloseDBHandle(p) \/ ClearHandle(p)
  PROVE  ProgInv'
<1>0. sqlHandle = NullHandle <=> sqlHandle.st = "NULL"
  BY DEF Handles, NullHandle
<1>1. ASSUME NEW c \in Opening, NEW dsn, OpenDBHandle(p, c, dsn) PROVE ProgInv'
  <2>0. /\ Calling(p, c) /\ UNCHANGED <<g_csA, login, exitmsg, early, crashed>>
    BY <1>1 DEF OpenDBHandle, rows
  <2>1. CASE Return(p) /\ UNCHANGED sqlHandle
    BY <2>0, <2>1, PlainReturn DEF Opening
  <2>2. CASE Continue(p, <<"connect">> \o Tail(prog[p]))
    <3>1. prog[p] # <<>> /\ Good(prog[p]) /\ prog[p][1] \in Opening
      BY <2>0, CallingFacts
    <3> DEFINE code == <<"connect">> \o Tail(prog[p])
    <3>2. GoesOn(prog[p], code) /\ Holding(code)
      BY <3>1, ConnectShape
    <3> HIDE DEF code
    <3>3. Continue(p, code)
      BY <2>2 DEF code
    <3>4. QED
      BY <2>0, <3>1, <3>2, <3>3, Redirected
  <2>3. QED
    BY <1>1, <2>1, <2>2 DEF OpenDBHandle
<1>2. CASE Connect(p)
  <2>1. CASE Crash
    BY <2>1, CrashStep
  <2>2. CASE ~Crash
    <3>0. /\ Calling(p, "connect") /\ UNCHANGED <<g_csA, login, exitmsg, early, crashed>>
          /\ sqlHandle # NullHandle
      BY <1>0, <1>2, <2>2 DEF Connect, rows
    <3>1. CASE Return(p)
      BY <3>0, <3>1, PlainReturn
    <3>2. CASE Continue(p, <<"close", "null">> \o Tail(Tail(prog[p])))
      <4>1. prog[p] # <<>> /\ Good(prog[p]) /\ prog[p][1] = "connect"
        BY <3>0, CallingFacts
      <4> DEFINE code == <<"close", "null">> \o Tail(Tail(prog[p]))
      <4>2. GoesOn(prog[p], code) /\ Holding(code)
        BY <4>1, FailedShape
      <4> HIDE DEF code
      <4>3. Continue(p, code)
        BY <3>2 DEF code
      <4>4. QED
        BY <3>0, <4>1, <4>2, <4>3, Redirected
    <3>3. QED
      BY <1>2, <2>2, <3>1, <3>2 DEF Connect
  <2>3. QED
    BY <2>1, <2>2
<1>3. CASE CloseDBHandle(p)
  <2>1. CASE Crash
    BY <2>1, CrashStep
  <2>2. CASE ~Crash
    <3>0. Calling(p, "close") /\ UNCHANGED <<g_csA, login, exitmsg, early, crashed>>
      BY <1>3, <2>2 DEF CloseDBHandle, rows
    <3>1. CASE Return(p) /\ sqlHandle.st \in {"new", "open"}
      BY <1>0, <3>0, <3>1, PlainReturn
    <3>2. CASE Continue(p, Tail(Tail(prog[p]))) /\ sqlHandle.st = "NULL" /\ UNCHANGED sqlHandle
      <4>1. prog[p] # <<>> /\ Good(prog[p]) /\ prog[p][1] = "close"
        BY <3>0, CallingFacts
      <4> DEFINE code == Tail(Tail(prog[p]))
      <4>2. GoesOn(prog[p], code)
        BY <4>1, SkipShape
      <4> HIDE DEF code
      <4>3. Continue(p, code)
        BY <3>2 DEF code
      <4>4. QED
        BY <1>0, <3>0, <3>2, <4>1, <4>2, <4>3, Redirected
    <3>3. QED
      BY <1>3, <2>2, <3>1, <3>2 DEF CloseDBHandle
  <2>3. QED
    BY <2>1, <2>2
<1>4. CASE ClearHandle(p)
  <2>0. /\ Calling(p, "null") /\ sqlHandle' = NullHandle
        /\ UNCHANGED <<g_csA, login, exitmsg, early, crashed>>
    BY <1>4 DEF ClearHandle, rows
  <2>1. prog[p] # <<>> /\ Good(prog[p]) /\ prog[p][1] = "null"
    BY <2>0, CallingFacts
  <2> DEFINE code == Tail(prog[p])
  <2>2. GoesOn(prog[p], code)
    BY <2>1, TailShape
  <2> HIDE DEF code
  <2>3. Continue(p, code)
    BY <1>4 DEF ClearHandle, Return, code
  <2>4. QED
    BY <2>0, <2>1, <2>2, <2>3, Redirected
<1>5. QED
  BY <1>1, <1>2, <1>3, <1>4 DEF Opening

\* The two long queries.
LEMMA LongQueryStep ==
  ASSUME ProgInv, g_csA \in Threads \cup {"none"}, NEW p \in Threads,
         QueryVisitTime(p) \/ QueryLoginlogId(p)
  PROVE  ProgInv'
<1>1. CASE Crash
  BY <1>1, CrashStep
<1>2. CASE QueryVisitTime(p) /\ ~Crash
  <2>0. /\ Calling(p, "vtime") /\ UNCHANGED <<sqlHandle, g_csA, login, exitmsg, crashed>>
        /\ early' = (early \/ (config.dbtype = "MYSQL" /\ ~proxyTime'[p]))
        /\ Continue(p, IF config.dbtype = "MYSQL" /\ ~proxyTime'[p] THEN <<"fail">> ELSE Tail(prog[p]))
    BY <1>2 DEF QueryVisitTime, rows
  <2>1. CASE config.dbtype = "MYSQL" /\ ~proxyTime'[p]
    <3>1. prog[p] # <<>> /\ Good(prog[p]) /\ prog[p][1] = "vtime"
      BY <2>0, CallingFacts
    <3>2. ~Inside(prog[p])
      BY <3>1, SectionShape
    <3>3. GoesOn(prog[p], <<"fail">>)
      BY <3>2, ShortGood DEF GoesOn
    <3>4. Continue(p, <<"fail">>) /\ early'
      BY <2>0, <2>1
    <3>5. QED
      BY <2>0, <3>1, <3>3, <3>4, Redirected
  <2>2. CASE ~(config.dbtype = "MYSQL" /\ ~proxyTime'[p])
    <3>1. Return(p)
      BY <2>0, <2>2 DEF Return
    <3>2. early => early'
      BY <2>0
    <3>3. QED
      BY <2>0, <3>1, <3>2, PlainReturn
  <2>3. QED
    BY <2>1, <2>2
<1>3. CASE QueryLoginlogId(p) /\ ~Crash
  <2>0. /\ Calling(p, "loginid") /\ UNCHANGED <<sqlHandle, g_csA, login, exitmsg, early, crashed>>
    BY <1>3 DEF QueryLoginlogId, rows
  <2>1. prog[p] # <<>> /\ Good(prog[p]) /\ prog[p][1] = "loginid"
    BY <2>0, CallingFacts
  <2> DEFINE code == <<"loginid_end">> \o Tail(prog[p])
  <2>2. GoesOn(prog[p], code) /\ Holding(code)
    BY <2>1, IdEndShape
  <2> HIDE DEF code
  <2>3. Continue(p, code)
    BY <1>3 DEF QueryLoginlogId, code
  <2>4. QED
    BY <2>0, <2>1, <2>2, <2>3, Redirected
<1>4. QED
  BY <1>1, <1>2, <1>3

\* The critical section.
LEMMA SectionStep ==
  ASSUME ProgInv, g_csA \in Threads \cup {"none"}, NEW p \in Threads, Enter(p) \/ Leave(p)
  PROVE  ProgInv'
<1> DEFINE code == Tail(prog[p])
<1>0. /\ UNCHANGED <<sqlHandle, login, exitmsg, early, crashed>>
      /\ prog' = [prog EXCEPT ![p] = code]
  BY DEF Enter, Leave, Return, Continue, rows
<1>1. PICK c \in {"enter", "leave"} : /\ Calling(p, c)
                                     /\ g_csA' = IF c = "enter" THEN p ELSE "none"
  BY DEF Enter, Leave
<1>2. prog[p] # <<>> /\ Good(prog[p]) /\ prog[p][1] = c /\ ~Holding(prog[p])
  BY <1>1, CallingFacts DEF InHandle
<1>3. /\ Good(code) /\ (Inserts(code) => Inserts(prog[p]))
      /\ c = "enter" => Inside(code)
  BY <1>2, TailShape, SectionShape
<1> HIDE DEF code
<1>4. g_csA' = p => Inside(code)
  BY <1>1, <1>3 DEF Threads
<1>5. g_csA' \in {g_csA, p, "none"}
  BY <1>1
<1>6. QED
  BY <1>0, <1>2, <1>3, <1>4, <1>5, Proceed

\* DBExecLoginLog.
LEMMA ExecStep ==
  ASSUME ProgInv, g_csA \in Threads \cup {"none"}, NEW p \in Threads,
         NEW c \in {"insert", "logout", "beat"}, ExecLoginLog(p, c)
  PROVE  ProgInv'
<1>0. /\ Calling(p, c) /\ UNCHANGED <<sqlHandle, g_csA, exitmsg, early, crashed>>
  BY DEF ExecLoginLog
<1>1. prog[p] # <<>> /\ Good(prog[p]) /\ prog[p][1] = c /\ ~Holding(prog[p])
      /\ prog[p] \in Seq(Calls) /\ (g_csA = p => Inside(prog[p]))
  BY <1>0, CallingFacts DEF InHandle
<1>2. CASE Return(p) /\ c # "insert"
  <2>1. login.status = "none" => login' = login
    BY <1>2 DEF ExecLoginLog, Matches
  <2>2. QED
    BY <1>0, <1>2, <2>1, PlainReturn
<1>3. CASE Return(p) /\ c = "insert"
  <2> DEFINE code == Tail(prog[p])
  <2>1. GoesOn(prog[p], code)
    BY <1>1, <1>3, TailShape
  <2>2. /\ 1 \in 1..Len(prog[p]) /\ Len(code) = Len(prog[p]) - 1 /\ Len(prog[p]) \in Nat
        /\ \A i \in 1..(Len(prog[p]) - 1) : code[i] = prog[p][i + 1]
    BY <1>1, TailCalls
  <2>3. prog' = [prog EXCEPT ![p] = code]
    BY <1>3 DEF Return, Continue
  <2> HIDE DEF code
  <2>4. Inserts(prog[p]) /\ p = "main"
    BY <1>1, <1>3, <2>2 DEF Inserts, ProgInv, InsertFirst
  <2>5. ~Inserts(code)
    <3> SUFFICES ASSUME NEW i \in 1..Len(code), code[i] = "insert" PROVE FALSE
      BY DEF Inserts
    <3>1. i + 1 \in 1..Len(prog[p]) /\ prog[p][i + 1] = "insert" /\ i + 1 # 1
      BY <2>2
    <3>2. QED
      BY <1>1, <1>3, <2>2, <3>1 DEF Good, OneInsert
  <2>6. g_csA' = p => Inside(code)
    BY <1>0, <1>1, <2>1 DEF GoesOn
  <2>7. QED
    BY <1>0, <1>1, <2>1, <2>3, <2>4, <2>5, <2>6, Proceed DEF GoesOn
<1>4. CASE c = "insert" /\ Continue(p, <<"leave", "fail">>) /\ UNCHANGED login
  <2>1. GoesOn(prog[p], <<"leave", "fail">>)
    BY ShortGood DEF GoesOn
  <2>2. QED
    BY <1>0, <1>1, <1>4, <2>1, Redirected
<1>5. QED
  BY <1>2, <1>3, <1>4 DEF ExecLoginLog

\* The calls at which a thread's program ends or another one begins.
LEMMA ProgramStep ==
  ASSUME ProgInv, g_csA \in Threads \cup {"none"}, NEW p \in Threads,
         StartMonitor(p) \/ MainExits(p) \/ PolicyDecides(p)
  PROVE  ProgInv'
<1>0. UNCHANGED <<sqlHandle, g_csA, login, early, crashed>> /\ (exitmsg' = exitmsg \/ exitmsg')
  BY DEF StartMonitor, MainExits, PolicyDecides, rows
<1>1. CASE StartMonitor(p) /\ Return(p)
  <2>1. Calling(p, "monitor") /\ exitmsg' = exitmsg
    BY <1>1 DEF StartMonitor
  <2>2. QED
    BY <1>0, <1>1, <2>1, PlainReturn
<1>2. CASE ~(StartMonitor(p) /\ Return(p))
  <2>1. PICK c \in {"monitor", "policy", "fail"} : Calling(p, c)
    BY DEF StartMonitor, MainExits, PolicyDecides
  <2>2. prog[p] # <<>> /\ Good(prog[p]) /\ prog[p][1] = c /\ ~Holding(prog[p])
    BY <2>1, CallingFacts DEF InHandle
  <2>3. ~Inside(prog[p])
    BY <2>2, SectionShape
  <2>4. PICK code : Continue(p, code) /\ Good(code) /\ ~Inserts(code)
    <3>1. CASE MainExits(p)
      BY <3>1, ExitGood, ShortGood, Zenon DEF MainExits
    <3>2. CASE StartMonitor(p) \/ PolicyDecides(p)
      BY <1>2, <3>2, ShortGood, Zenon DEF StartMonitor, PolicyDecides
    <3>3. QED
      BY <3>1, <3>2
  <2>5. GoesOn(prog[p], code)
    BY <2>3, <2>4 DEF GoesOn
  <2>6. QED
    BY <1>0, <2>2, <2>4, <2>5, Redirected
<1>3. QED
  BY <1>1, <1>2

\* A thread that has nothing to do begins a program.
LEMMA BeginStep ==
  ASSUME ProgInv, g_csA \in Threads \cup {"none"}, PolicyLoop \/ StartExit \/ MonitorDisconnect
  PROVE  ProgInv'
<1>0. UNCHANGED <<sqlHandle, g_csA, login, early, crashed>> /\ (exitmsg' = exitmsg \/ exitmsg')
  BY DEF PolicyLoop, StartExit, MonitorDisconnect, rows
<1>1. PICK p \in Threads : /\ prog[p] = <<>> /\ (p # "exit" \/ exitmsg')
                           /\ \E code : Continue(p, code) /\ Good(code) /\ ~Inserts(code)
  <2>1. CASE PolicyLoop
    BY <2>1, LoopGood, Zenon DEF PolicyLoop, Threads
  <2>2. CASE StartExit
    BY <2>2, ExitGood, Zenon DEF StartExit, Threads, ProgInv, ExitWaits
  <2>3. CASE MonitorDisconnect
    BY <2>3, ExitGood, Zenon DEF MonitorDisconnect, Threads
  <2>4. QED
    BY <2>1, <2>2, <2>3
<1>2. PICK code : Continue(p, code) /\ Good(code) /\ ~Inserts(code)
  BY <1>1
<1>3. g_csA' # p /\ ~Holding(prog[p])
  BY <1>0, <1>1, EmptyOutside DEF ProgInv, OwnerInside, Threads
<1>4. QED
  BY <1>0, <1>1, <1>2, <1>3, Proceed DEF Continue

\* Every step keeps what is known of the programs.
LEMMA NextProgs == ProgInv /\ StateTyped /\ [LogNext]_logVars => ProgInv'
<1> SUFFICES ASSUME ProgInv, StateTyped, [LogNext]_logVars PROVE ProgInv'
  OBVIOUS
<1>0. g_csA \in Threads \cup {"none"} /\ sqlHandle \in Handles
  BY DEF StateTyped
<1>1. ASSUME NEW p \in Threads, Step(p) PROVE ProgInv'
  BY <1>0, <1>1, HandleStep, QueryStep, LongQueryStep, SectionStep, ExecStep, ProgramStep DEF Step
<1>2. CASE PolicyLoop \/ StartExit \/ MonitorDisconnect
  BY <1>0, <1>2, BeginStep
<1>3. CASE MonitorStatus
  <2>1. UNCHANGED <<prog, sqlHandle, g_csA, exitmsg, early, crashed>> /\ login.status # "none"
    BY <1>3 DEF MonitorStatus
  <2>2. QED
    BY <2>1 DEF ProgInv, ProgsGood, OwnerInside, InsertFirst, ExitWaits, HandleHeld
<1>4. CASE UNCHANGED logVars
  BY <1>4 DEF logVars, rows, ProgInv, ProgsGood, OwnerInside, InsertFirst, ExitWaits, HandleHeld
<1>5. QED
  BY <1>1, <1>2, <1>3, <1>4 DEF LogNext

\* The handle and the login row stay typed.
LEMMA NextState == StateTyped /\ [LogNext]_logVars => StateTyped'
<1> SUFFICES ASSUME StateTyped, [LogNext]_logVars PROVE StateTyped'
  OBVIOUS
<1> USE DEF StateTyped, rows
<1>1. ASSUME UNCHANGED <<sqlHandle, g_csA, login, id>> PROVE StateTyped'
  BY <1>1
<1>2. ASSUME Crash PROVE StateTyped'
  BY <1>1, <1>2 DEF Crash
<1>3. ASSUME NEW p \in Threads, NEW c, NEW dsn \in {"osc", "audit"}, OpenDBHandle(p, c, dsn)
      PROVE  StateTyped'
  BY <1>3 DEF OpenDBHandle, Handles
<1>4. ASSUME NEW p \in Threads, Connect(p) \/ CloseDBHandle(p) \/ ClearHandle(p) PROVE StateTyped'
  BY <1>2, <1>4 DEF Connect, CloseDBHandle, ClearHandle, Handles, NullHandle
<1>5. ASSUME NEW p \in Threads,
             \/ QueryProxyHostTime(p) \/ QueryVisitTime(p) \/ QueryTimeAuth(p) \/ DeleteAccess(p)
             \/ QueryLoginlogId(p) \/ InsertVideo(p) \/ MakeTime(p)
      PROVE  StateTyped'
  BY <1>1, <1>2, <1>5 DEF QueryProxyHostTime, QueryVisitTime, QueryTimeAuth, DeleteAccess,
                          QueryLoginlogId, InsertVideo, MakeTime
<1>6. ASSUME NEW p \in Threads, LoginlogIdFound(p) \/ Enter(p) \/ Leave(p) PROVE StateTyped'
  BY <1>6 DEF LoginlogIdFound, Enter, Leave
<1>7. ASSUME NEW p \in Threads, NEW c \in {"insert", "logout", "beat"}, ExecLoginLog(p, c)
      PROVE  StateTyped'
  <2>1. TimeOf(p) \in Times
    BY DEF TimeOf, Times
  <2>2. RowAfter(p, c) \in [status : {"none", "0", "1", "2"}, online : Times, out : Times]
    <3>1. CASE c = "insert"
      BY <3>1 DEF RowAfter, Times
    <3>2. CASE c = "logout"
      BY <2>1, <3>2 DEF RowAfter
    <3>3. CASE c = "beat"
      BY <2>1, <3>3 DEF RowAfter
    <3>4. QED
      BY <3>1, <3>2, <3>3
  <2>3. QED
    BY <1>7, <2>2 DEF ExecLoginLog
<1>8. ASSUME NEW p \in Threads, StartMonitor(p) \/ MainExits(p) \/ PolicyDecides(p) \/ ExitEnds(p)
      PROVE  StateTyped'
  BY <1>1, <1>8 DEF StartMonitor, MainExits, PolicyDecides, ExitEnds
<1>9. CASE PolicyLoop \/ StartExit \/ MonitorDisconnect \/ UNCHANGED logVars
  BY <1>1, <1>9 DEF PolicyLoop, StartExit, MonitorDisconnect, logVars
<1>10. CASE MonitorStatus
  BY <1>10 DEF MonitorStatus
<1>11. QED
  BY <1>3, <1>4, <1>5, <1>6, <1>7, <1>8, <1>9, <1>10 DEF LogNext, Step

\* The flags stay Booleans and the configuration as it is.
LEMMA NextLogFlags == FlagsTyped /\ [LogNext]_logVars => FlagsTyped'
<1> SUFFICES ASSUME FlagsTyped, [LogNext]_logVars PROVE FlagsTyped'
  OBVIOUS
<1> USE DEF FlagsTyped, rows
<1>1. ASSUME UNCHANGED <<config, proxyTime, auth, pipeFlag, exitmsg, early>>,
             crashed' = crashed \/ crashed' = TRUE
      PROVE  FlagsTyped'
  BY <1>1, Zenon
<1>2. ASSUME Crash PROVE FlagsTyped'
  BY <1>1, <1>2, Zenon DEF Crash
<1>3. ASSUME NEW p \in Threads,
             \/ OpenDBHandle(p, "open_osc", "osc") \/ OpenDBHandle(p, "open_audit", "audit")
             \/ Connect(p) \/ CloseDBHandle(p) \/ ClearHandle(p) \/ QueryTimeAuth(p)
             \/ QueryLoginlogId(p) \/ LoginlogIdFound(p) \/ InsertVideo(p) \/ MakeTime(p)
             \/ \E c \in {"insert", "logout", "beat"} : ExecLoginLog(p, c)
             \/ PolicyDecides(p) \/ Leave(p)
      PROVE  FlagsTyped'
  BY <1>1, <1>2, <1>3, Zenon DEF OpenDBHandle, Connect, CloseDBHandle, ClearHandle, QueryTimeAuth,
       QueryLoginlogId, LoginlogIdFound, InsertVideo, MakeTime, ExecLoginLog, PolicyDecides, Leave
<1>4. ASSUME NEW p \in Threads, Enter(p) PROVE FlagsTyped'
  <2>1. proxyTime' \in [Threads -> BOOLEAN]
    BY <1>4 DEF Enter
  <2>2. QED
    BY <1>4, <2>1, Zenon DEF Enter
<1>5. ASSUME NEW p \in Threads, QueryProxyHostTime(p) PROVE FlagsTyped'
  <2>1. CASE ~Crash
    <3>1. proxyTime' \in [Threads -> BOOLEAN]
      BY <1>5, <2>1 DEF QueryProxyHostTime
    <3>2. QED
      BY <1>5, <2>1, <3>1, Zenon DEF QueryProxyHostTime
  <2>2. QED
    BY <1>2, <2>1
<1>6. ASSUME NEW p \in Threads, QueryVisitTime(p) PROVE FlagsTyped'
  <2>1. CASE ~Crash
    <3>1. proxyTime' \in [Threads -> BOOLEAN]
      BY <1>6, <2>1 DEF QueryVisitTime
    <3>2. early' \in BOOLEAN
      BY <1>6, <2>1, Zenon DEF QueryVisitTime
    <3>3. QED
      BY <1>6, <2>1, <3>1, <3>2, Zenon DEF QueryVisitTime
  <2>2. QED
    BY <1>2, <2>1
<1>7. ASSUME NEW p \in Threads, DeleteAccess(p) \/ StartMonitor(p) \/ MainExits(p) \/ ExitEnds(p)
      PROVE  FlagsTyped'
  BY <1>2, <1>7, Zenon DEF DeleteAccess, StartMonitor, MainExits, ExitEnds
<1>8. CASE PolicyLoop \/ StartExit \/ MonitorStatus \/ MonitorDisconnect \/ UNCHANGED logVars
  BY <1>8, Zenon DEF PolicyLoop, StartExit, MonitorStatus, MonitorDisconnect, logVars
<1>9. QED
  BY <1>3, <1>4, <1>5, <1>6, <1>7, <1>8 DEF LogNext, Step

\* The initial state satisfies the invariant.
LEMMA InitLog == LogInit => LogInv
<1> SUFFICES ASSUME LogInit PROVE LogInv
  OBVIOUS
<1>1. StateTyped
  BY DEF LogInit, StateTyped, Handles, NullHandle, Times
<1>2. FlagsTyped
  <2>1. proxyTime \in [Threads -> BOOLEAN]
    BY DEF LogInit
  <2>2. QED
    BY <2>1, Zenon DEF LogInit, FlagsTyped
<1>3. /\ prog \in [Threads -> Seq(Calls)]
      /\ \A p \in Threads : prog[p] = IF p = "main" THEN Shell ELSE <<>>
  <2>1. Shell \in Seq(Calls) /\ <<>> \in Seq(Calls)
    BY ShellGood, ShortGood DEF Good
  <2>2. prog = [p \in Threads |-> IF p = "main" THEN Shell ELSE <<>>]
    BY ShellProgram DEF LogInit
  <2>3. QED
    BY <2>1, <2>2
<1>4. ProgsGood
  BY <1>3, ShellGood, ShortGood DEF ProgsGood
<1>5. InsertFirst
  BY <1>3, ShortGood DEF InsertFirst, LogInit
<1>6. OwnerInside /\ ExitWaits /\ HandleHeld
  BY <1>3 DEF OwnerInside, ExitWaits, HandleHeld, LogInit, Threads
<1>7. QED
  BY <1>1, <1>2, <1>4, <1>5, <1>6 DEF LogInv, ProgInv

\* The invariant holds in every reachable state.
LEMMA LogInvariant == LogSpec => []LogInv
<1>1. LogInv /\ [LogNext]_logVars => LogInv'
  BY NextState, NextLogFlags, NextProgs DEF LogInv
<1>2. QED
  BY <1>1, InitLog, PTL DEF LogSpec

-----------------------------------------------------------------------------
(* The theorems *)

(* Type correctness of the handle, the rows and the threads' programs, which *)
(* no early return lets grow.                                                *)
THEOREM LoginTyped == LogSpec => []LoginTypeOK
<1>1. LogInv => LoginTypeOK
  <2> SUFFICES ASSUME LogInv PROVE LoginTypeOK
    OBVIOUS
  <2>1. \A p \in Threads : prog[p] \in Seq(Calls) /\ Len(prog[p]) <= 16
    BY DEF LogInv, ProgInv, ProgsGood, Good
  <2>2. QED
    BY <2>1, Zenon DEF LogInv, StateTyped, FlagsTyped, LoginTypeOK
<1>2. QED
  BY <1>1, LogInvariant, PTL

(* However openDBHandle, closeDBHandle and the statements of the three       *)
(* threads interleave, with or without faults, the shared handle is NULL     *)
(* again when all are done - but for GetVistitime's early return.            *)
THEOREM HandleIsClosed == LogSpec => []HandleClosedAtRest
<1>1. LogInv => HandleClosedAtRest
  BY DEF LogInv, ProgInv, HandleHeld, Holding, HandleClosedAtRest, AtRest
<1>2. QED
  BY <1>1, LogInvariant, PTL

(* The thread in DoLoginLog's critical section has LeaveCriticalSection      *)
(* ahead of it, with no second entry before, on every path through failed    *)
(* connections, queries and statements.                                      *)
THEOREM SectionIsLeft == LogSpec => []SectionLeft
<1>1. LogInv => SectionLeft
  <2> SUFFICES ASSUME LogInv, g_csA # "none"
               PROVE  \E i \in DOMAIN prog[g_csA] :
                        /\ prog[g_csA][i] = "leave"
                        /\ \A j \in 1..(i - 1) : prog[g_csA][j] # "enter"
    BY DEF SectionLeft
  <2>1. g_csA \in Threads /\ Inside(prog[g_csA])
    BY DEF LogInv, StateTyped, ProgInv, OwnerInside
  <2>2. DOMAIN prog[g_csA] = 1..Len(prog[g_csA])
    BY <2>1 DEF LogInv, ProgInv, ProgsGood
  <2>3. QED
    BY <2>1, <2>2 DEF Inside
<1>2. QED
  BY <1>1, LogInvariant, PTL

(* A closed login row is opened again by the monitor's status message alone: *)
(* the insert, which only main's first program holds, comes before every     *)
(* logout, and a heartbeat leaves the status alone.                          *)
THEOREM OnlyMonitorReopens == LogSpec => ReopenedByMonitorOnly
<1>1. LogInv /\ [LogNext]_logVars
        => [login.status = "0" /\ login'.status # "0" => MonitorStatus]_logVars
  <2> SUFFICES ASSUME LogInv, LogNext, login.status = "0", login'.status # "0" PROVE MonitorStatus
    OBVIOUS
  <2>0. login \in [status : {"none", "0", "1", "2"}, online : Times, out : Times]
    BY DEF LogInv, StateTyped
  <2>1. ASSUME NEW p \in Threads, NEW c \in {"insert", "logout", "beat"}, ExecLoginLog(p, c) PROVE FALSE
    <3>1. CASE c = "insert"
      <4>1. Calling(p, "insert")
        BY <2>1, <3>1 DEF ExecLoginLog
      <4>2. prog[p] \in Seq(Calls) /\ prog[p] # <<>> /\ prog[p][1] = "insert"
        BY <4>1, CallingFacts DEF LogInv
      <4>3. Inserts(prog[p])
        BY <4>2, TailCalls DEF Inserts
      <4>4. QED
        BY <4>3 DEF LogInv, ProgInv, InsertFirst
    <3>2. CASE c # "insert"
      BY <2>0, <2>1, <3>2 DEF ExecLoginLog, RowAfter
    <3>3. QED
      BY <3>1, <3>2
  <2>2. ASSUME login' = login PROVE FALSE
    BY <2>2
  <2> USE DEF rows
  <2>3. ASSUME NEW p \in Threads, Step(p) PROVE FALSE
    <3>1. ~Crash
      BY <2>2 DEF Crash
    <3>2. CASE \/ OpenDBHandle(p, "open_osc", "osc") \/ OpenDBHandle(p, "open_audit", "audit")
               \/ Connect(p) \/ CloseDBHandle(p) \/ ClearHandle(p)
      BY <2>2, <3>1, <3>2 DEF OpenDBHandle, Connect, CloseDBHandle, ClearHandle
    <3>3. CASE \/ QueryProxyHostTime(p) \/ QueryVisitTime(p) \/ QueryTimeAuth(p) \/ DeleteAccess(p)
               \/ QueryLoginlogId(p) \/ LoginlogIdFound(p) \/ InsertVideo(p)
      BY <2>2, <3>1, <3>3 DEF QueryProxyHostTime, QueryVisitTime, QueryTimeAuth, DeleteAccess,
                              QueryLoginlogId, LoginlogIdFound, InsertVideo
    <3>4. CASE \/ Enter(p) \/ Leave(p) \/ MakeTime(p) \/ StartMonitor(p) \/ MainExits(p)
               \/ PolicyDecides(p) \/ ExitEnds(p)
      BY <2>2, <3>1, <3>4 DEF Enter, Leave, MakeTime, StartMonitor, MainExits, PolicyDecides, ExitEnds
    <3>5. QED
      BY <2>1, <2>3, <3>2, <3>3, <3>4 DEF Step
  <2>4. ~PolicyLoop /\ ~StartExit /\ ~MonitorDisconnect
    BY <2>2 DEF PolicyLoop, StartExit, MonitorDisconnect
  <2>5. QED
    BY <2>3, <2>4 DEF LogNext
<1>2. QED
  BY <1>1, LogInvariant, PTL DEF LogSpec, ReopenedByMonitorOnly
=============================================================================
