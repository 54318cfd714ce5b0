---------------------------- MODULE AccessPolicy ----------------------------
(***************************************************************************)
(* DBRecord, the library that decides whether a connection of the database *)
(* proxy may be made.  GetConfig is called with one parameter, the key of  *)
(* an access ("id", GetConfigForID), or five, a user and an account        *)
(* ("user", GetConfigForUser); any other number is an error ("bad").       *)
(* GetAccessProtocol ("protocol") only reads a row.                        *)
(*                                                                         *)
(* GetJOINTable yields a row for each role of the user.  GetPolicy looks   *)
(* for the policy of each of them: for the resource itself, or - while no  *)
(* row had one of these - for a group of the resource, or for the nearest  *)
(* group above it.  The rights of the policies found are united; without   *)
(* any policy everything is permitted.  A query that fails counts as a row *)
(* without policy.                                                         *)
(*                                                                         *)
(* The connection to the database and the login row are the process's: a   *)
(* call holds one mutex from beginning to end.  InitMutex makes it in the  *)
(* first call, and protects itself with a flag that it sets before.        *)
(***************************************************************************)
EXTENDS Naturals

CONSTANTS
  Conns,      \* the connections, each of them a thread of the proxy
  MaxRows,    \* bound of table_count
  Groups,     \* the groups of resources
  Root,       \* the group "1000000000"
  Zero,       \* "0000000000", the parent of the root, which is no group
  None,       \* no policy, no group, no owner
  Databases,  \* the contents of the database considered
  Faults,     \* queries and connections may fail
  FirstAlone  \* no thread calls the library before its first call has made the mutex

\* The network, protocol and time lists of a policy; an empty list permits.
Kinds == {"ncl", "pcl", "tcl"}
Policies == [Kinds -> {"empty", "match", "nomatch"}]

Rows == 1..MaxRows
Places == Groups \cup {"resource", Zero}

\* n: the rows of GetJOINTable; item: the policy of a row's role for a place; default:
\* the policy of role '0' for the root; member: the groups of the resource; parent: the
\* group above, None if the table of groups has no such row.
Database ==
  [n : Rows, item : [Rows -> [Places -> Policies \cup {None}]],
   default : Policies \cup {None}, member : SUBSET Groups,
   parent : [Groups \cup {Zero} -> Groups \cup {Zero, None}]]

ASSUME AccessAssumption ==
  /\ MaxRows \in Nat \ {0}
  /\ Root \in Groups
  /\ Zero \notin Groups
  /\ None \notin Groups \cup Conns \cup Policies \cup {Zero}
  /\ Databases \subseteq Database
  /\ Faults \in BOOLEAN
  /\ FirstAlone \in BOOLEAN

VARIABLES
  db,          \* the database; never changes
  isMutex,     \* InitMutex has been called
  mutex,       \* the owner of the mutex
  connected,   \* _isconnected
  isLoginlog,  \* the process has its login row ...
  loginlog_id, \* ... and this is its key (the connection that created it)
  pc,          \* pc[c]: program counter of connection c
  call,        \* call[c]: the call it has made
  i,           \* i[c], findRes[c], isResource[c], findPolicy[c]: locals
  findRes,
  isResource,
  findPolicy,
  right,       \* right[c]: nclright, pclright and tclright, as the set of those that are 1
  group,       \* group[c]: the local groupid of GetPolicy
  cur,         \* cur[c]: the policy GetPolicy is about to load
  policy,      \* policy[c]: the policies found for the rows
  failed,      \* failed[c]: the rows for which a query has failed (history variable)
  result,      \* result[c]: "ok", "policy" (refused by policy) or "error"
  login        \* login[c]: pProxyInfo->loginlog_id

loop == <<i, findRes, isResource, findPolicy, right, policy, failed>>
locals == <<loop, group, cur>>
session == <<isLoginlog, loginlog_id, login>>
accVars == <<db, isMutex, mutex, connected, session, pc, call, locals, result>>

Calls == {"id", "user", "bad", "protocol"}
Lookup == {"resource", "group", "member", "parent", "ancestor", "items"}
\* Where a call uses the connection to the database.
Queries == {"auth", "join", "employee", "protocol", "login", "create"} \cup Lookup
Pc == {"idle", "init", "lock", "connect", "exit", "done"} \cup Queries
Results == {"none", "ok", "policy", "error"}

(* Type correctness of the process's globals and the locals of a call. *)
AccessTypeOK ==
  /\ db \in Databases
  /\ isMutex \in 0..1
  /\ mutex \in Conns \cup {None}
  /\ connected \in 0..1
  /\ isLoginlog \in 0..1
  /\ loginlog_id \in Conns \cup {None}
  /\ pc \in [Conns -> Pc]
  /\ call \in [Conns -> Calls \cup {"none"}]
  /\ i \in [Conns -> 1..(MaxRows + 1)]
  /\ findRes \in [Conns -> 0..1]
  /\ isResource \in [Conns -> 0..1]
  /\ findPolicy \in [Conns -> 0..1]
  /\ right \in [Conns -> SUBSET Kinds]
  /\ group \in [Conns -> Groups \cup {Zero, None}]
  /\ cur \in [Conns -> Policies \cup {None}]
  /\ policy \in [Conns -> [Rows -> Policies \cup {None}]]
  /\ failed \in [Conns -> SUBSET Rows]
  /\ result \in [Conns -> Results]
  /\ login \in [Conns -> Conns \cup {None}]

NoPolicy == [k \in Rows |-> None]

AccInit ==
  /\ db \in Databases
  /\ isMutex = 0
  /\ mutex = None
  /\ connected = 0
  /\ isLoginlog = 0
  /\ loginlog_id = None
  /\ pc = [c \in Conns |-> "idle"]
  /\ call = [c \in Conns |-> "none"]
  /\ i = [c \in Conns |-> 1]
  /\ findRes = [c \in Conns |-> 0]
  /\ isResource = [c \in Conns |-> 0]
  /\ findPolicy = [c \in Conns |-> 0]
  /\ right = [c \in Conns |-> {}]
  /\ group = [c \in Conns |-> None]
  /\ cur = [c \in Conns |-> None]
  /\ policy = [c \in Conns |-> NoPolicy]
  /\ failed = [c \in Conns |-> {}]
  /\ result = [c \in Conns |-> "none"]
  /\ login = [c \in Conns |-> None]

Goto(c, l) == pc' = [pc EXCEPT ![c] = l]

-----------------------------------------------------------------------------
(* GetConfig and GetAccessProtocol: the mutex and the connection. *)

\* A thread of the proxy calls the library; isMutex is tested and set.
Call(c) ==
  /\ pc[c] = "idle"
  /\ FirstAlone => \A d \in Conns : pc[d] # "init"
  /\ \E k \in Calls : call' = [call EXCEPT ![c] = k]
  /\ isMutex' = 1
  /\ Goto(c, IF isMutex = 0 THEN "init" ELSE "lock")
  /\ UNCHANGED <<db, mutex, connected, session, locals, result>>

\* pthread_mutex_init: the mutex is free, whoever holds it.
InitMutex(c) ==
  /\ pc[c] = "init"
  /\ mutex' = None
  /\ Goto(c, "lock")
  /\ UNCHANGED <<db, isMutex, connected, session, call, locals, result>>

\* Mutant of Lock: the calls do not exclude each other.
LockShared(c) ==
  /\ pc[c] = "lock"
  /\ mutex' = c
  /\ Goto(c, "connect")
  /\ UNCHANGED <<db, isMutex, connected, session, call, locals, result>>

Lock(c) ==
  /\ pc[c] = "lock"
  /\ mutex = None
  /\ mutex' = c
  /\ Goto(c, "connect")
  /\ UNCHANGED <<db, isMutex, connected, session, call, locals, result>>

\* Mutant of ConnectFails: the early return keeps the mutex.
ConnectKeepsMutex(c) ==
  /\ pc[c] = "connect"
  /\ Faults
  /\ result' = [result EXCEPT ![c] = "error"]
  /\ Goto(c, "done")
  /\ UNCHANGED <<db, isMutex, mutex, connected, session, call, locals>>

\* ConnectMysql fails: unlock and return.
ConnectFails(c) ==
  /\ pc[c] = "connect"
  /\ Faults
  /\ mutex' = None
  /\ result' = [result EXCEPT ![c] = "error"]
  /\ Goto(c, "done")
  /\ UNCHANGED <<db, isMutex, connected, session, call, locals>>

\* ConnectMysql and GetAESKey; what follows depends on the call.
Connect(c) ==
  /\ pc[c] = "connect"
  /\ connected' = 1
  /\ result' = [result EXCEPT ![c] = IF call[c] = "bad" THEN "error" ELSE "none"]
  /\ Goto(c, CASE call[c] = "id" -> "auth"
               [] call[c] = "user" -> "join"
               [] call[c] = "protocol" -> "protocol"
               [] OTHER -> "exit")
  /\ UNCHANGED <<db, isMutex, mutex, session, call, locals>>

\* CloseDB, unlock and return: the locals are gone.
Exit(c) ==
  /\ pc[c] = "exit"
  /\ connected' = 0
  /\ mutex' = None
  /\ Goto(c, "done")
  /\ i' = [i EXCEPT ![c] = 1]
  /\ findRes' = [findRes EXCEPT ![c] = 0]
  /\ isResource' = [isResource EXCEPT ![c] = 0]
  /\ findPolicy' = [findPolicy EXCEPT ![c] = 0]
  /\ right' = [right EXCEPT ![c] = {}]
  /\ group' = [group EXCEPT ![c] = None]
  /\ cur' = [cur EXCEPT ![c] = None]
  /\ policy' = [policy EXCEPT ![c] = NoPolicy]
  /\ failed' = [failed EXCEPT ![c] = {}]
  /\ UNCHANGED <<db, isMutex, session, call, result>>

\* goto exit with the result r.
Leave(c, r) ==
  /\ result' = [result EXCEPT ![c] = r]
  /\ Goto(c, "exit")

\* A row that the call needs is found, or is not and the call leaves.
Needs(c, l, next) ==
  /\ pc[c] = l
  /\ \/ Goto(c, next) /\ UNCHANGED result
     \/ Leave(c, "error")
  /\ UNCHANGED <<db, isMutex, mutex, connected, session, call, locals>>

\* The access, its user and the port of the resource.
GetAuth(c) == Needs(c, "auth", "join")
GetJOINTable(c) == Needs(c, "join", "resource")
\* The user, whose password must be the one given, the resource and the account.
GetEmployee(c) == Needs(c, "employee", "login")

GetPrAccessProtocol(c) ==
  /\ pc[c] = "protocol"
  /\ Leave(c, "ok") \/ Leave(c, "error")
  /\ UNCHANGED <<db, isMutex, mutex, connected, session, call, locals>>

-----------------------------------------------------------------------------
(* GetPolicy, for the row i[c]. *)

\* GetPolicy returns an error: the loop goes on with the next row.
NextRow(c) ==
  /\ i' = [i EXCEPT ![c] = i[c] + 1]
  /\ Goto(c, "resource")

\* The policy p is to be loaded.
Found(c, p) ==
  /\ cur' = [cur EXCEPT ![c] = p]
  /\ Goto(c, "items")
  /\ UNCHANGED i

\* Any query of GetPolicy fails.
QueryFails(c) ==
  /\ pc[c] \in Lookup
  /\ i[c] <= db.n
  /\ Faults
  /\ failed' = [failed EXCEPT ![c] = failed[c] \cup {i[c]}]
  /\ NextRow(c)
  /\ UNCHANGED <<db, isMutex, mutex, connected, session, call, findRes, isResource, findPolicy,
                 right, group, policy, cur, result>>

\* Mutant of QueryResource: a resource policy of an earlier row is forgotten.
QueryResourceForgets(c) ==
  /\ pc[c] = "resource"
  /\ i[c] <= db.n
  /\ LET p == db.item[i[c]]["resource"]
     IN  \/ /\ p # None
            /\ isResource' = [isResource EXCEPT ![c] = 1]
            /\ Found(c, p)
         \/ /\ p = None
            /\ isResource' = [isResource EXCEPT ![c] = 0]
            /\ Goto(c, "group")
            /\ UNCHANGED <<cur, i>>
  /\ UNCHANGED <<db, isMutex, mutex, connected, session, call, findRes, findPolicy, right,
                 group, policy, failed, result>>

\* A policy of the role for the resource itself; the groups are tried only while
\* no row had one (isResource is findRes when GetPolicy is called).
QueryResource(c) ==
  /\ pc[c] = "resource"
  /\ i[c] <= db.n
  /\ LET p == db.item[i[c]]["resource"]
     IN  \/ /\ p # None
            /\ isResource' = [isResource EXCEPT ![c] = 1]
            /\ Found(c, p)
         \/ /\ p = None
            /\ isResource' = [isResource EXCEPT ![c] = findRes[c]]
            /\ IF findRes[c] = 0 THEN Goto(c, "group") /\ UNCHANGED i ELSE NextRow(c)
            /\ UNCHANGED cur
  /\ UNCHANGED <<db, isMutex, mutex, connected, session, call, findRes, findPolicy, right,
                 group, policy, failed, result>>

Held(k) == {db.item[k][g] : g \in db.member} \ {None}

\* A policy of the role for one of the groups of the resource.
QueryGroup(c) ==
  /\ pc[c] = "group"
  /\ \/ \E p \in Held(i[c]) : Found(c, p)
     \/ Held(i[c]) = {} /\ Goto(c, "member") /\ UNCHANGED <<cur, i>>
  /\ UNCHANGED <<db, isMutex, mutex, connected, session, call, findRes, isResource, findPolicy,
                 right, group, policy, failed, result>>

\* A group of the resource: the first in the order the database returns them.
QueryMember(c) ==
  /\ pc[c] = "member"
  /\ \/ \E g \in db.member : /\ group' = [group EXCEPT ![c] = g]
                             /\ Goto(c, "parent")
                             /\ UNCHANGED i
     \/ db.member = {} /\ NextRow(c) /\ UNCHANGED group
  /\ UNCHANGED <<db, isMutex, mutex, connected, session, call, findRes, isResource, findPolicy,
                 right, policy, cur, failed, result>>

\* requery2: the group above it ...
QueryParent(c) ==
  /\ pc[c] = "parent"
  /\ IF db.parent[group[c]] = None
     THEN NextRow(c) /\ UNCHANGED group
     ELSE /\ group' = [group EXCEPT ![c] = db.parent[group[c]]]
          /\ Goto(c, "ancestor")
          /\ UNCHANGED i
  /\ UNCHANGED <<db, isMutex, mutex, connected, session, call, findRes, isResource, findPolicy,
                 right, policy, cur, failed, result>>

\* The policy for the group g: of the row's role, or for the root of role '0'.
GroupPolicy(k, g) == IF g = Root THEN db.default ELSE db.item[k][g]

\* ... and its policy; the walk ends at the root.
QueryAncestor(c) ==
  /\ pc[c] = "ancestor"
  /\ LET p == GroupPolicy(i[c], group[c])
     IN  \/ p # None /\ Found(c, p)
         \/ /\ p = None
            /\ IF group[c] \in {Root, Zero} THEN NextRow(c) ELSE Goto(c, "parent") /\ UNCHANGED i
            /\ UNCHANGED cur
  /\ UNCHANGED <<db, isMutex, mutex, connected, session, call, findRes, isResource, findPolicy,
                 right, group, policy, failed, result>>

-----------------------------------------------------------------------------
(* The loop of GetConfigForID and GetConfigForUser. *)

\* MatchNclItem, MatchPclItem, MatchTclItem
Permits(p) == {k \in Kinds : p[k] # "nomatch"}

\* Mutant of LoadItems: the policies are counted.
LoadItemsCounts(c) ==
  /\ pc[c] = "items"
  /\ policy' = [policy EXCEPT ![c][i[c]] = cur[c]]
  /\ findPolicy' = [findPolicy EXCEPT ![c] = findPolicy[c] + 1]
  /\ findRes' = [findRes EXCEPT ![c] = isResource[c]]
  /\ right' = [right EXCEPT ![c] = right[c] \cup Permits(cur[c])]
  /\ NextRow(c)
  /\ UNCHANGED <<db, isMutex, mutex, connected, session, call, isResource, group, cur, failed,
                 result>>

\* Mutant of LoadItems: the last policy decides.
LoadLastItems(c) ==
  /\ pc[c] = "items"
  /\ policy' = [policy EXCEPT ![c][i[c]] = cur[c]]
  /\ findPolicy' = [findPolicy EXCEPT ![c] = 1]
  /\ findRes' = [findRes EXCEPT ![c] = isResource[c]]
  /\ right' = [right EXCEPT ![c] = Permits(cur[c])]
  /\ NextRow(c)
  /\ UNCHANGED <<db, isMutex, mutex, connected, session, call, isResource, group, cur, failed,
                 result>>

\* GetPolicy reads the lists of the policy, the loop matches them.  (isResource is at
\* least findRes, so the break of the loop is never taken.)
LoadItems(c) ==
  /\ pc[c] = "items"
  /\ policy' = [policy EXCEPT ![c][i[c]] = cur[c]]
  /\ findPolicy' = [findPolicy EXCEPT ![c] = 1]
  /\ findRes' = [findRes EXCEPT ![c] = isResource[c]]
  /\ right' = [right EXCEPT ![c] = right[c] \cup Permits(cur[c])]
  /\ NextRow(c)
  /\ UNCHANGED <<db, isMutex, mutex, connected, session, call, isResource, group, cur, failed,
                 result>>

\* The rows are done: every list must permit in some policy found.
Decide(c) ==
  /\ pc[c] = "resource"
  /\ i[c] > db.n
  /\ IF right[c] # Kinds /\ findPolicy[c] = 1
     THEN Leave(c, "policy")
     ELSE Goto(c, IF call[c] = "user" THEN "employee" ELSE "login") /\ UNCHANGED result
  /\ UNCHANGED <<db, isMutex, mutex, connected, session, call, locals>>

-----------------------------------------------------------------------------
(* The login row of the process. *)

\* GetLeveCmd; the process has a login row, or CreateLoginlog inserts one.  The key is
\* taken even if the insert fails.
CreateLoginlog(c) ==
  /\ pc[c] = "login"
  /\ \/ /\ isLoginlog = 0
        /\ login' = [login EXCEPT ![c] = c]
        /\ Goto(c, "create")
        /\ UNCHANGED result
     \/ /\ isLoginlog = 1
        /\ login' = [login EXCEPT ![c] = loginlog_id]
        /\ Leave(c, "ok")
  /\ UNCHANGED <<db, isMutex, mutex, connected, isLoginlog, loginlog_id, call, locals>>

\* Mutant of SetLoginlogId: isLoginlog is not set.
SetLoginlogIdOnly(c) ==
  /\ pc[c] = "create"
  /\ loginlog_id' = login[c]
  /\ Leave(c, "ok")
  /\ UNCHANGED <<db, isMutex, mutex, connected, isLoginlog, login, call, locals>>

\* The key is kept for the connections to come.
SetLoginlogId(c) ==
  /\ pc[c] = "create"
  /\ loginlog_id' = login[c]
  /\ isLoginlog' = 1
  /\ Leave(c, "ok")
  /\ UNCHANGED <<db, isMutex, mutex, connected, login, call, locals>>

-----------------------------------------------------------------------------
Statement(c) ==
  \/ InitMutex(c)
  \/ ConnectFails(c)
  \/ Connect(c)
  \/ GetAuth(c)
  \/ GetJOINTable(c)
  \/ QueryFails(c)
  \/ QueryResource(c)
  \/ QueryGroup(c)
  \/ QueryMember(c)
  \/ QueryParent(c)
  \/ QueryAncestor(c)
  \/ LoadItems(c)
  \/ Decide(c)
  \/ GetEmployee(c)
  \/ GetPrAccessProtocol(c)
  \/ CreateLoginlog(c)
  \/ SetLoginlogId(c)
  \/ Exit(c)

AccNext == \E c \in Conns : Call(c) \/ Lock(c) \/ Statement(c)

AccSpec == AccInit /\ [][AccNext]_accVars

\* A query returns; a thread that waits for the mutex gets it if it is free again and
\* again (each connection makes one call).
FairAccSpec ==
  /\ AccSpec
  /\ \A c \in Conns : WF_accVars(Statement(c)) /\ SF_accVars(Lock(c))

-----------------------------------------------------------------------------
(* Properties. *)

(* The queries of a call run on an open connection that no other call uses: GetConfig and
   GetAccessProtocol share mysql_sock, and CloseDB of one would take it from another. *)
QueriesAlone ==
  \A c \in Conns : pc[c] \in Queries =>
    /\ connected = 1
    /\ \A d \in Conns \ {c} : pc[d] \in {"idle", "lock", "done"}

\* The walk of requery2 comes from the group a to the group b: b is in every set that has
\* a, and has with a group other than the root its parent.
Above(a, b) ==
  \A S \in SUBSET (Groups \cup {Zero}) :
    (/\ a \in S
     /\ \A g \in S \ {Root, Zero} : db.parent[g] \in S \cup {None}) => b \in S

\* The policy of the nearest group above the group g that has one, for the row k.
Inherited(k, g) ==
  LET has == {a \in Groups \cup {Zero} : /\ db.parent[g] # None
                                        /\ Above(db.parent[g], a)
                                        /\ GroupPolicy(k, a) # None}
      nearest == {a \in has : \A b \in has : Above(a, b)}
  IN  IF has = {} THEN {None} ELSE {GroupPolicy(k, a) : a \in nearest}

\* The policies that the row k may get in the call of c.
RowPolicies(c, k) ==
  LET p == db.item[k]["resource"]
      before == \E j \in 1..(k - 1) \ failed[c] : db.item[j]["resource"] # None
  IN  CASE k \in failed[c] -> {None}
        [] k \notin failed[c] /\ p # None -> {p}
        [] k \notin failed[c] /\ p = None /\ before -> {None}
        [] OTHER -> IF Held(k) # {} THEN Held(k)
                    ELSE IF db.member = {} THEN {None}
                    ELSE UNION {Inherited(k, g) : g \in db.member}

(* When the rows are done each of them has the policy its role, the resource and the
   hierarchy of groups call for: GetPolicy, whose result depends on the rows before, on
   what failed and on a walk up the groups, finds the nearest one and no other. *)
PolicyOfRow ==
  \A c \in Conns : i[c] > db.n => \A k \in 1..db.n : policy[c][k] \in RowPolicies(c, k)

(* A call passes the decision of GetConfigForID or GetConfigForUser only if every list
   permits in one of the policies found, or none was found; one it refuses has a list that
   permits in none of them. *)
UnitedRights ==
  \A c \in Conns :
    LET found == {policy[c][k] : k \in Rows} \ {None}
        all == UNION {Permits(p) : p \in found} = Kinds
    IN  /\ pc[c] \in {"employee", "login", "create"} => found = {} \/ all
        /\ pc[c] = "exit" /\ result[c] = "policy" => found # {} /\ ~all

(* The connections of a process that were admitted share one login row, and it is that of
   a connection that was admitted itself: isLoginlog and loginlog_id of GetConfig. *)
OneLogin ==
  \A c \in Conns : result[c] = "ok" /\ call[c] \in {"id", "user"} =>
    /\ login[c] = loginlog_id
    /\ result[loginlog_id] = "ok"

(* Every call returns: no return of GetConfig or GetAccessProtocol keeps the mutex, and
   the walk up the groups ends (where no group is above itself). *)
Returns == \A c \in Conns : pc[c] # "idle" ~> pc[c] = "done"
=============================================================================
