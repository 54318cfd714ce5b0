------------------------- MODULE AccessPolicyProofs -------------------------
(* Theorems about DBRecord's calls, for any number of connections, any database and any
   faults, where the first call makes the mutex alone. *)
EXTENDS AccessPolicy, TLAPS

\* The types of what the calls share and of what a call keeps of it.
SharedType ==
  /\ isMutex \in 0..1
  /\ isLoginlog \in 0..1
  /\ connected \in 0..1
  /\ pc \in [Conns -> Pc]
  /\ call \in [Conns -> Calls \cup {"none"}]
  /\ result \in [Conns -> Results]
  /\ login \in [Conns -> Conns \cup {None}]

\* A call has the mutex from Lock to its return, and the connection from Connect to Exit.
Inside == Queries \cup {"connect", "exit"}
Excluded ==
  /\ \A c \in Conns : pc[c] \in Inside => mutex = c
  /\ \A c \in Conns : pc[c] \in Queries \cup {"exit"} => connected = 1

\* The mutex is made by the first call, before any other begins.
MadeAlone ==
  /\ isMutex = 0 => \A c \in Conns : pc[c] = "idle"
  /\ \A c \in Conns : pc[c] = "init" => \A d \in Conns \ {c} : pc[d] = "idle"

\* No result before the exit; an admitted connection has the key that is kept.
LoginKept ==
  /\ \A c \in Conns : pc[c] \notin {"exit", "done"} => result[c] = "none"
  /\ \A c \in Conns : pc[c] = "protocol" => call[c] = "protocol"
  /\ \A c \in Conns : pc[c] = "create" => isLoginlog = 0 /\ login[c] = c
  /\ isLoginlog = 1 => loginlog_id \in Conns /\ result[loginlog_id] = "ok"
  /\ \A c \in Conns : result[c] = "ok" /\ call[c] \in {"id", "user"} =>
       isLoginlog = 1 /\ login[c] = loginlog_id

AccInv == SharedType /\ Excluded /\ MadeAlone /\ LoginKept

-----------------------------------------------------------------------------
\* A query of the connection c, other than those of the login row, touches neither what
\* the calls share nor another call; c goes on with another query or leaves.
Quiet(c) ==
  /\ pc[c] \in Queries \ {"login", "create"}
  /\ \E l \in (Queries \ {"create", "protocol"}) \cup {"exit"} :
       /\ pc' = [pc EXCEPT ![c] = l]
       /\ \/ result' = result /\ l # "exit"
          \/ \E r \in {"policy", "error"} : result' = [result EXCEPT ![c] = r] /\ l = "exit"
          \/ result' = [result EXCEPT ![c] = "ok"] /\ pc[c] = "protocol" /\ l = "exit"
  /\ UNCHANGED <<isMutex, mutex, connected, isLoginlog, loginlog_id, login, call>>

\* The steps between Connect and the login row are of this kind.
LEMMA QuietSteps ==
  ASSUME NEW c \in Conns,
         \/ GetAuth(c) \/ GetJOINTable(c) \/ GetEmployee(c) \/ GetPrAccessProtocol(c)
         \/ QueryFails(c) \/ QueryResource(c) \/ QueryGroup(c) \/ QueryMember(c)
         \/ QueryParent(c) \/ QueryAncestor(c) \/ LoadItems(c) \/ Decide(c)
  PROVE  Quiet(c)
<1> USE DEF Quiet, Queries, Lookup, Goto, session
<1>1. CASE GetAuth(c)
  BY <1>1 DEF GetAuth, Needs, Leave
<1>2. CASE GetJOINTable(c)
  BY <1>2 DEF GetJOINTable, Needs, Leave
<1>3. CASE GetEmployee(c)
  BY <1>3 DEF GetEmployee, Needs, Leave
<1>4. CASE GetPrAccessProtocol(c)
  BY <1>4 DEF GetPrAccessProtocol, Leave
<1>5. CASE QueryFails(c)
  <2>1. /\ pc[c] \in Lookup
        /\ pc' = [pc EXCEPT ![c] = "resource"]
        /\ UNCHANGED <<isMutex, mutex, connected, isLoginlog, loginlog_id, login, call, result>>
    BY <1>5, Zenon DEF QueryFails, NextRow
  <2>2. "resource" \in (Queries \ {"create", "protocol"}) \cup {"exit"} /\ "resource" # "exit"
    OBVIOUS
  <2>3. pc[c] \in Queries \ {"login", "create"}
    BY <2>1
  <2>4. QED
    BY <2>1, <2>2, <2>3, Zenon
<1>6. CASE QueryResource(c)
  BY <1>6 DEF QueryResource, Found, NextRow
<1>7. CASE QueryGroup(c)
  BY <1>7 DEF QueryGroup, Found
<1>8. CASE QueryMember(c)
  BY <1>8 DEF QueryMember, NextRow
<1>9. CASE QueryParent(c)
  BY <1>9 DEF QueryParent, NextRow
<1>10. CASE QueryAncestor(c)
  BY <1>10 DEF QueryAncestor, Found, NextRow
<1>11. CASE LoadItems(c)
  <2>1. /\ pc[c] = "items"
        /\ pc' = [pc EXCEPT ![c] = "resource"]
        /\ UNCHANGED <<isMutex, mutex, connected, isLoginlog, loginlog_id, login, call, result>>
    BY <1>11, Zenon DEF LoadItems, NextRow
  <2>2. "resource" \in (Queries \ {"create", "protocol"}) \cup {"exit"} /\ "resource" # "exit"
    OBVIOUS
  <2>3. pc[c] \in Queries \ {"login", "create"}
    BY <2>1
  <2>4. QED
    BY <2>1, <2>2, <2>3, Zenon
<1>12. CASE Decide(c)
  BY <1>12 DEF Decide, Leave
<1>13. QED
  BY <1>1, <1>2, <1>3, <1>4, <1>5, <1>6, <1>7, <1>8, <1>9, <1>10, <1>11, <1>12

\* The initial state satisfies the invariant.
LEMMA InitAccInv == AccInit => AccInv
BY DEF AccInit, AccInv, SharedType, Excluded, MadeAlone, LoginKept, Pc, Queries, Lookup, Inside,
       Calls, Results

\* Every step preserves it, if the first call makes the mutex alone.
LEMMA NextAccInv ==
  ASSUME FirstAlone, AccInv, [AccNext]_accVars
  PROVE  AccInv'
<1> USE AccessAssumption
    DEF AccInv, Pc, Queries, Lookup, Inside, Calls, Results, Goto, session
<1>1. ASSUME NEW c \in Conns, Call(c) PROVE AccInv'
  <2> USE <1>1 DEF Call
  <2>1. SharedType'
    BY DEF SharedType
  <2>2. Excluded' /\ MadeAlone'
    BY DEF SharedType, Excluded, MadeAlone
  <2>3. LoginKept'
    BY DEF SharedType, LoginKept
  <2>4. QED
    BY <2>1, <2>2, <2>3
<1>2. ASSUME NEW c \in Conns, InitMutex(c) PROVE AccInv'
  <2> USE <1>2 DEF InitMutex
  <2>1. SharedType'
    BY DEF SharedType
  <2>2. Excluded' /\ MadeAlone'
    BY DEF SharedType, Excluded, MadeAlone
  <2>3. LoginKept'
    BY DEF SharedType, LoginKept
  <2>4. QED
    BY <2>1, <2>2, <2>3
<1>3. ASSUME NEW c \in Conns, Lock(c) PROVE AccInv'
  <2> USE <1>3 DEF Lock
  <2>1. SharedType'
    BY DEF SharedType
  <2>2. Excluded' /\ MadeAlone'
    BY DEF SharedType, Excluded, MadeAlone
  <2>3. LoginKept'
    BY DEF SharedType, LoginKept
  <2>4. QED
    BY <2>1, <2>2, <2>3
<1>4. ASSUME NEW c \in Conns, ConnectFails(c) PROVE AccInv'
  <2> USE <1>4 DEF ConnectFails
  <2>1. SharedType'
    BY DEF SharedType
  <2>2. Excluded' /\ MadeAlone'
    BY DEF SharedType, Excluded, MadeAlone
  <2>3. LoginKept'
    BY DEF SharedType, LoginKept
  <2>4. QED
    BY <2>1, <2>2, <2>3
<1>5. ASSUME NEW c \in Conns, Connect(c) PROVE AccInv'
  <2> USE <1>5 DEF Connect
  <2>1. SharedType'
    BY DEF SharedType
  <2>2. Excluded' /\ MadeAlone'
    BY DEF SharedType, Excluded, MadeAlone
  <2>3. LoginKept'
    BY DEF SharedType, LoginKept
  <2>4. QED
    BY <2>1, <2>2, <2>3
<1>6. ASSUME NEW c \in Conns, Quiet(c) PROVE AccInv'
  <2> USE <1>6 DEF Quiet
  <2>1. SharedType'
    BY DEF SharedType
  <2>2. Excluded' /\ MadeAlone'
    BY DEF SharedType, Excluded, MadeAlone
  <2>3. LoginKept'
    BY DEF SharedType, LoginKept
  <2>4. QED
    BY <2>1, <2>2, <2>3
<1>7. ASSUME NEW c \in Conns, CreateLoginlog(c) PROVE AccInv'
  <2> USE <1>7 DEF CreateLoginlog, Leave
  <2>1. SharedType'
    BY DEF SharedType, LoginKept
  <2>2. Excluded' /\ MadeAlone'
    BY DEF SharedType, Excluded, MadeAlone
  <2>3. LoginKept'
    BY DEF SharedType, LoginKept, Excluded
  <2>4. QED
    BY <2>1, <2>2, <2>3
<1>8. ASSUME NEW c \in Conns, SetLoginlogId(c) PROVE AccInv'
  <2> USE <1>8 DEF SetLoginlogId, Leave
  <2>1. SharedType'
    BY DEF SharedType
  <2>2. Excluded' /\ MadeAlone'
    BY DEF SharedType, Excluded, MadeAlone
  <2>3. LoginKept'
    BY DEF SharedType, LoginKept, Excluded
  <2>4. QED
    BY <2>1, <2>2, <2>3
<1>9. ASSUME NEW c \in Conns, Exit(c) PROVE AccInv'
  <2> USE <1>9 DEF Exit
  <2>1. SharedType'
    BY DEF SharedType
  <2>2. Excluded' /\ MadeAlone'
    BY DEF SharedType, Excluded, MadeAlone
  <2>3. LoginKept'
    BY DEF SharedType, LoginKept
  <2>4. QED
    BY <2>1, <2>2, <2>3
<1>10. CASE UNCHANGED accVars
  BY <1>10 DEF accVars, SharedType, Excluded, MadeAlone, LoginKept
<1>11. QED
  BY <1>1, <1>2, <1>3, <1>4, <1>5, <1>6, <1>7, <1>8, <1>9, <1>10, QuietSteps
     DEF AccNext, Statement

-----------------------------------------------------------------------------
(* No two calls are in the database at once, and none without a connection: the mutex
   that GetConfig and GetAccessProtocol share guards mysql_sock. *)
THEOREM DatabaseExclusive ==
  ASSUME FirstAlone
  PROVE  AccSpec => []QueriesAlone
<1>1. AccInv => QueriesAlone
  BY AccessAssumption DEF AccInv, SharedType, Excluded, MadeAlone, QueriesAlone, Pc, Queries, Lookup, Inside
<1>2. AccInv /\ [AccNext]_accVars => AccInv'
  BY NextAccInv
<1>3. QED
  BY <1>1, <1>2, InitAccInv, PTL DEF AccSpec

(* All admitted connections write to one login row, that of an admitted connection. *)
THEOREM LoginUnique ==
  ASSUME FirstAlone
  PROVE  AccSpec => []OneLogin
<1>1. AccInv => OneLogin
  BY DEF AccInv, LoginKept, OneLogin
<1>2. AccInv /\ [AccNext]_accVars => AccInv'
  BY NextAccInv
<1>3. QED
  BY <1>1, <1>2, InitAccInv, PTL DEF AccSpec

-----------------------------------------------------------------------------
(* The loop over the rows. *)

\* GetPolicy is at a row; what it has found is a policy, what it walks on is a group.
InLoop ==
  /\ \A c \in Conns : i[c] <= db.n + 1
  /\ \A c \in Conns : pc[c] \in Lookup \ {"resource"} => i[c] <= db.n
  /\ \A c \in Conns : pc[c] \in {"parent", "ancestor"} => group[c] \in Groups \cup {Zero}
  /\ \A c \in Conns : pc[c] = "items" => cur[c] \in Policies

TypeInv == AccessTypeOK /\ InLoop

\* What the assumption says of a database.
LEMMA DatabaseType ==
  ASSUME db \in Databases
  PROVE  /\ db.n \in Nat /\ 1 <= db.n /\ db.n <= MaxRows
         /\ \A k \in Rows, g \in Places : db.item[k][g] \in Policies \cup {None}
         /\ db.default \in Policies \cup {None}
         /\ db.member \in SUBSET Groups
         /\ \A g \in Groups \cup {Zero} : db.parent[g] \in Groups \cup {Zero, None}
<1>1. db \in Database
  BY AccessAssumption
<1>2. QED
  BY <1>1, AccessAssumption DEF Database, Rows

\* The initial state is well typed.
LEMMA InitType == AccInit => TypeInv
<1> SUFFICES ASSUME AccInit PROVE TypeInv
  OBVIOUS
<1>1. db \in Databases
  BY DEF AccInit
<1>2. NoPolicy \in [Rows -> Policies \cup {None}]
  BY DEF NoPolicy
<1>3. AccessTypeOK
  BY <1>1, <1>2, AccessAssumption DEF AccInit, AccessTypeOK, Pc, Results
<1>4. InLoop
  BY <1>1, DatabaseType DEF AccInit, InLoop, Lookup
<1>5. QED
  BY <1>3, <1>4 DEF TypeInv

\* A step of GetPolicy to l, with the locals i, group and cur at n, g and p.
Walk(c, l, n, g, p) ==
  /\ pc' = [pc EXCEPT ![c] = l]
  /\ i' = [i EXCEPT ![c] = n]
  /\ group' = [group EXCEPT ![c] = g]
  /\ cur' = [cur EXCEPT ![c] = p]
  /\ UNCHANGED <<db, isMutex, mutex, connected, isLoginlog, loginlog_id, login, call, findRes,
                 findPolicy, right, policy, failed, result>>

\* It keeps the types if its row, its group and its policy are what l needs.
LEMMA WalkType ==
  ASSUME TypeInv, NEW c \in Conns, NEW l \in Lookup, NEW n \in 1..(db.n + 1), NEW g, NEW p,
         Walk(c, l, n, g, p),
         isResource' \in [Conns -> 0..1],
         l # "resource" => n <= db.n,
         g \in Groups \cup {Zero, None}, l \in {"parent", "ancestor"} => g # None,
         p \in Policies \cup {None}, l = "items" => p # None
  PROVE  TypeInv'
<1> USE AccessAssumption DEF Walk
<1>1. db.n \in Nat /\ db.n <= MaxRows
  BY DatabaseType DEF TypeInv, AccessTypeOK
<1>2. AccessTypeOK'
  <2>1. pc' \in [Conns -> Pc]
    BY DEF TypeInv, AccessTypeOK, Pc, Queries
  <2>2. i' \in [Conns -> 1..(MaxRows + 1)]
    BY <1>1 DEF TypeInv, AccessTypeOK
  <2>3. group' \in [Conns -> Groups \cup {Zero, None}] /\ cur' \in [Conns -> Policies \cup {None}]
    BY DEF TypeInv, AccessTypeOK
  <2>4. QED
    BY <2>1, <2>2, <2>3 DEF TypeInv, AccessTypeOK
<1>3. InLoop'
  BY <1>1 DEF TypeInv, AccessTypeOK, InLoop, Lookup
<1>4. QED
  BY <1>2, <1>3 DEF TypeInv

\* The queries of GetPolicy are such steps.
LEMMA WalkSteps ==
  ASSUME TypeInv, NEW c \in Conns,
         QueryResource(c) \/ QueryGroup(c) \/ QueryMember(c) \/ QueryParent(c) \/ QueryAncestor(c)
  PROVE  TypeInv'
<1>0. /\ db.n \in Nat /\ 1 <= db.n /\ db.n <= MaxRows
      /\ \A k \in Rows, g \in Places : db.item[k][g] \in Policies \cup {None}
      /\ db.default \in Policies \cup {None}
      /\ db.member \in SUBSET Groups
      /\ \A g \in Groups \cup {Zero} : db.parent[g] \in Groups \cup {Zero, None}
  BY DatabaseType DEF TypeInv, AccessTypeOK
<1>a. /\ pc \in [Conns -> Pc] /\ i \in [Conns -> 1..(MaxRows + 1)]
      /\ group \in [Conns -> Groups \cup {Zero, None}] /\ cur \in [Conns -> Policies \cup {None}]
      /\ findRes \in [Conns -> 0..1] /\ isResource \in [Conns -> 0..1]
  BY DEF TypeInv, AccessTypeOK
<1>b. /\ i[c] \in 1..(db.n + 1)
      /\ pc[c] \in Lookup \ {"resource"} => i[c] <= db.n
      /\ pc[c] \in {"parent", "ancestor"} => group[c] \in Groups \cup {Zero}
  BY <1>0, <1>a DEF TypeInv, InLoop
<1> USE <1>0, <1>a, <1>b, AccessAssumption DEF Goto, session, Lookup
<1>1. CASE QueryResource(c)
  <2> DEFINE p == db.item[i[c]]["resource"]
  <2>1. p \in Policies \cup {None} /\ i[c] \in 1..(db.n + 1) /\ i[c] <= db.n
    BY <1>1 DEF QueryResource, Rows, Places
  <2>2. isResource' \in [Conns -> 0..1]
    BY <1>1 DEF QueryResource
  <2>3. CASE p # None
    <3>1. Walk(c, "items", i[c], group[c], p)
      BY <1>1, <2>3 DEF QueryResource, Found, Walk
    <3>2. QED
      BY <2>1, <2>2, <2>3, <3>1, WalkType
  <2>4. CASE p = None /\ findRes[c] = 0
    <3>1. Walk(c, "group", i[c], group[c], cur[c])
      BY <1>1, <2>4 DEF QueryResource, Walk
    <3>2. QED
      BY <2>1, <2>2, <3>1, WalkType
  <2>5. CASE p = None /\ findRes[c] # 0
    <3>1. Walk(c, "resource", i[c] + 1, group[c], cur[c])
      BY <1>1, <2>5 DEF QueryResource, NextRow, Walk
    <3>2. i[c] + 1 \in 1..(db.n + 1)
      BY <2>1
    <3>3. QED
      BY <2>1, <2>2, <3>1, <3>2, WalkType
  <2>6. QED
    BY <2>3, <2>4, <2>5
<1>2. CASE QueryGroup(c)
  <2>1. i[c] \in 1..(db.n + 1) /\ i[c] <= db.n /\ i[c] \in Rows
    BY <1>2 DEF QueryGroup, Rows
  <2>2. isResource' \in [Conns -> 0..1]
    BY <1>2 DEF QueryGroup
  <2>3. ASSUME NEW p \in Held(i[c]), Found(c, p) PROVE TypeInv'
    <3>1. p \in Policies
      BY <2>1 DEF Held, Places
    <3>2. Walk(c, "items", i[c], group[c], p)
      BY <1>2, <2>3 DEF QueryGroup, Found, Walk
    <3>3. QED
      BY <2>1, <2>2, <3>1, <3>2, WalkType
  <2>4. CASE Goto(c, "member") /\ UNCHANGED <<cur, i>>
    <3>1. Walk(c, "member", i[c], group[c], cur[c])
      BY <1>2, <2>4 DEF QueryGroup, Walk
    <3>2. QED
      BY <2>1, <2>2, <3>1, WalkType
  <2>5. QED
    BY <1>2, <2>3, <2>4 DEF QueryGroup
<1>3. CASE QueryMember(c)
  <2>1. i[c] \in 1..(db.n + 1) /\ i[c] <= db.n /\ i[c] + 1 \in 1..(db.n + 1)
    BY <1>3 DEF QueryMember
  <2>2. isResource' \in [Conns -> 0..1]
    BY <1>3 DEF QueryMember
  <2>3. ASSUME NEW g \in db.member, group' = [group EXCEPT ![c] = g], Goto(c, "parent"),
               UNCHANGED i
        PROVE  TypeInv'
    <3>1. g \in Groups
      BY <1>0
    <3>2. Walk(c, "parent", i[c], g, cur[c])
      BY <1>3, <2>3 DEF QueryMember, Walk
    <3>3. QED
      BY <2>1, <2>2, <3>1, <3>2, WalkType
  <2>4. CASE NextRow(c) /\ UNCHANGED group
    <3>1. Walk(c, "resource", i[c] + 1, group[c], cur[c])
      BY <1>3, <2>4 DEF QueryMember, NextRow, Walk
    <3>2. QED
      BY <2>1, <2>2, <3>1, WalkType
  <2>5. QED
    BY <1>3, <2>3, <2>4 DEF QueryMember
<1>4. CASE QueryParent(c)
  <2>1. i[c] \in 1..(db.n + 1) /\ i[c] <= db.n /\ i[c] + 1 \in 1..(db.n + 1)
    BY <1>4 DEF QueryParent
  <2>2. isResource' \in [Conns -> 0..1]
    BY <1>4 DEF QueryParent
  <2>3. CASE db.parent[group[c]] = None
    <3>1. Walk(c, "resource", i[c] + 1, group[c], cur[c])
      BY <1>4, <2>3 DEF QueryParent, NextRow, Walk
    <3>2. QED
      BY <2>1, <2>2, <3>1, WalkType
  <2>4. CASE db.parent[group[c]] # None
    <3>1. db.parent[group[c]] \in Groups \cup {Zero}
      BY <1>4, <2>4 DEF QueryParent
    <3>2. Walk(c, "ancestor", i[c], db.parent[group[c]], cur[c])
      BY <1>4, <2>4 DEF QueryParent, Walk
    <3>3. QED
      BY <2>1, <2>2, <3>1, <3>2, WalkType
  <2>5. QED
    BY <2>3, <2>4
<1>5. CASE QueryAncestor(c)
  <2> DEFINE p == GroupPolicy(i[c], group[c])
  <2>1. i[c] \in 1..(db.n + 1) /\ i[c] <= db.n /\ i[c] + 1 \in 1..(db.n + 1) /\ i[c] \in Rows
    BY <1>5 DEF QueryAncestor, Rows
  <2>2. isResource' \in [Conns -> 0..1]
    BY <1>5 DEF QueryAncestor
  <2>3. group[c] \in Groups \cup {Zero}
    BY <1>5 DEF QueryAncestor
  <2>4. p \in Policies \cup {None}
    BY <2>1, <2>3 DEF GroupPolicy, Places
  <2>5. CASE p # None
    <3>1. Walk(c, "items", i[c], group[c], p)
      BY <1>5, <2>5 DEF QueryAncestor, Found, Walk
    <3>2. QED
      BY <2>1, <2>2, <2>4, <2>5, <3>1, WalkType
  <2>6. CASE p = None /\ group[c] \in {Root, Zero}
    <3>1. Walk(c, "resource", i[c] + 1, group[c], cur[c])
      BY <1>5, <2>6 DEF QueryAncestor, NextRow, Walk
    <3>2. QED
      BY <2>1, <2>2, <3>1, WalkType
  <2>7. CASE p = None /\ group[c] \notin {Root, Zero}
    <3>1. Walk(c, "parent", i[c], group[c], cur[c])
      BY <1>5, <2>7 DEF QueryAncestor, Walk
    <3>2. QED
      BY <2>1, <2>2, <2>3, <3>1, WalkType
  <2>8. QED
    BY <2>5, <2>6, <2>7
<1>6. QED
  BY <1>1, <1>2, <1>3, <1>4, <1>5

\* Every step keeps the types.
LEMMA NextType ==
  ASSUME TypeInv, [AccNext]_accVars
  PROVE  TypeInv'
<1> USE AccessAssumption
    DEF TypeInv, AccessTypeOK, InLoop, Pc, Queries, Lookup, Calls, Results, Goto, session, locals, loop
<1>0. db \in Databases
  OBVIOUS
<1>1. ASSUME NEW c \in Conns, Call(c) PROVE TypeInv'
  BY <1>1 DEF Call
<1>2. ASSUME NEW c \in Conns, InitMutex(c) PROVE TypeInv'
  BY <1>2 DEF InitMutex
<1>3. ASSUME NEW c \in Conns, Lock(c) PROVE TypeInv'
  BY <1>3 DEF Lock
<1>4. ASSUME NEW c \in Conns, ConnectFails(c) PROVE TypeInv'
  BY <1>4 DEF ConnectFails
<1>5. ASSUME NEW c \in Conns, Connect(c) PROVE TypeInv'
  BY <1>5 DEF Connect
<1>6. ASSUME NEW c \in Conns, GetAuth(c) \/ GetJOINTable(c) \/ GetEmployee(c) PROVE TypeInv'
  <2>1. PICK l \in {"join", "resource", "login", "exit"} : pc' = [pc EXCEPT ![c] = l]
    BY <1>6 DEF GetAuth, GetJOINTable, GetEmployee, Needs, Leave
  <2>2. result' = result \/ result' = [result EXCEPT ![c] = "error"]
    BY <1>6 DEF GetAuth, GetJOINTable, GetEmployee, Needs, Leave
  <2>3. UNCHANGED <<db, isMutex, mutex, connected, session, call, locals>>
    BY <1>6, Zenon DEF GetAuth, GetJOINTable, GetEmployee, Needs
  <2>4. pc' \in [Conns -> Pc] /\ result' \in [Conns -> Results]
    BY <2>1, <2>2
  <2>5. QED
    BY <2>1, <2>3, <2>4
<1>7. ASSUME NEW c \in Conns, GetPrAccessProtocol(c) PROVE TypeInv'
  BY <1>7 DEF GetPrAccessProtocol, Leave
<1>8. ASSUME NEW c \in Conns, QueryFails(c) PROVE TypeInv'
  BY <1>0, <1>8, DatabaseType DEF QueryFails, NextRow, Rows
<1>9. ASSUME NEW c \in Conns,
             QueryResource(c) \/ QueryGroup(c) \/ QueryMember(c) \/ QueryParent(c)
             \/ QueryAncestor(c)
      PROVE  TypeInv'
  BY <1>9, WalkSteps
<1>10. ASSUME NEW c \in Conns, LoadItems(c) PROVE TypeInv'
  BY <1>0, <1>10, DatabaseType DEF LoadItems, Permits, NextRow, Rows
<1>11. ASSUME NEW c \in Conns, Decide(c) PROVE TypeInv'
  <2>1. PICK l \in {"employee", "login", "exit"} : pc' = [pc EXCEPT ![c] = l]
    BY <1>11 DEF Decide, Leave
  <2>2. result' = result \/ result' = [result EXCEPT ![c] = "policy"]
    BY <1>11, Zenon DEF Decide, Leave
  <2>3. UNCHANGED <<db, isMutex, mutex, connected, session, call, locals>>
    BY <1>11, Zenon DEF Decide
  <2>4. pc' \in [Conns -> Pc] /\ result' \in [Conns -> Results]
    BY <2>1, <2>2
  <2>5. QED
    BY <2>1, <2>3, <2>4
<1>12. ASSUME NEW c \in Conns, CreateLoginlog(c) PROVE TypeInv'
  <2>1. PICK l \in {"create", "exit"} : pc' = [pc EXCEPT ![c] = l]
    BY <1>12 DEF CreateLoginlog, Leave
  <2>2. PICK k \in Conns \cup {None} : login' = [login EXCEPT ![c] = k]
    BY <1>12 DEF CreateLoginlog
  <2>3. result' = result \/ result' = [result EXCEPT ![c] = "ok"]
    BY <1>12, Zenon DEF CreateLoginlog, Leave
  <2>4. UNCHANGED <<db, isMutex, mutex, connected, isLoginlog, loginlog_id, call, locals>>
    BY <1>12, Zenon DEF CreateLoginlog
  <2>5. pc' \in [Conns -> Pc] /\ result' \in [Conns -> Results]
        /\ login' \in [Conns -> Conns \cup {None}]
    BY <2>1, <2>2, <2>3
  <2>6. QED
    BY <2>1, <2>4, <2>5
<1>13. ASSUME NEW c \in Conns, SetLoginlogId(c) PROVE TypeInv'
  BY <1>13 DEF SetLoginlogId, Leave
<1>14. ASSUME NEW c \in Conns, Exit(c) PROVE TypeInv'
  BY <1>0, <1>14, DatabaseType DEF Exit, NoPolicy
<1>15. CASE UNCHANGED accVars
  BY <1>15 DEF accVars
<1>16. QED
  BY <1>1, <1>2, <1>3, <1>4, <1>5, <1>6, <1>7, <1>8, <1>9, <1>10,
     <1>11, <1>12, <1>13, <1>14, <1>15 DEF AccNext, Statement

(* Type correctness, for every database. *)
THEOREM AccessTypes == AccSpec => []AccessTypeOK
<1>1. TypeInv /\ [AccNext]_accVars => TypeInv'
  BY NextType
<1>2. TypeInv => AccessTypeOK
  BY DEF TypeInv
<1>3. QED
  BY <1>1, <1>2, InitType, PTL DEF AccSpec

-----------------------------------------------------------------------------
(* The decision. *)

\* The rights are those of the policies found so far, none of them for a row still to
\* come; what has been decided agrees with them.
RightsOf(c) ==
  /\ \A x \in Kinds : x \in right[c] <=>
       \E k \in Rows : policy[c][k] # None /\ x \in Permits(policy[c][k])
  /\ findPolicy[c] = 1 <=> \E k \in Rows : policy[c][k] # None
  /\ \A k \in Rows : k >= i[c] => policy[c][k] = None

Decided(c) ==
  /\ pc[c] \in {"employee", "login", "create"} => right[c] = Kinds \/ findPolicy[c] = 0
  /\ pc[c] = "exit" /\ result[c] = "policy" => right[c] # Kinds /\ findPolicy[c] = 1

RightsInv == TypeInv /\ \A c \in Conns : RightsOf(c) /\ Decided(c)

\* The initial state satisfies it.
LEMMA InitRights == AccInit => RightsInv
<1> SUFFICES ASSUME AccInit, NEW c \in Conns PROVE RightsOf(c) /\ Decided(c)
  BY InitType DEF RightsInv
<1>1. QED
  BY DEF AccInit, NoPolicy, RightsOf, Decided

\* A step of c outside the loop: only the decision may be touched.
Outer(c) ==
  /\ \E l \in Pc : /\ pc' = [pc EXCEPT ![c] = l]
                   /\ l \in {"employee", "login", "create"} =>
                        \/ pc[c] \in {"employee", "login", "create"}
                        \/ right[c] = Kinds \/ findPolicy[c] = 0
                   /\ l = "exit" /\ result'[c] = "policy" => right[c] # Kinds /\ findPolicy[c] = 1
  /\ \E r \in Results : result' = [result EXCEPT ![c] = r]
  /\ UNCHANGED <<i, findPolicy, right, policy>>

\* The steps that keep the locals of the loop are of this kind.
LEMMA OuterSteps ==
  ASSUME TypeInv, NEW c \in Conns,
         \/ Call(c) \/ InitMutex(c) \/ Lock(c) \/ ConnectFails(c) \/ Connect(c) \/ GetAuth(c)
         \/ GetJOINTable(c) \/ GetEmployee(c) \/ GetPrAccessProtocol(c) \/ Decide(c)
         \/ CreateLoginlog(c) \/ SetLoginlogId(c)
  PROVE  Outer(c)
<1>0. /\ pc \in [Conns -> Pc] /\ result \in [Conns -> Results] /\ right \in [Conns -> SUBSET Kinds]
      /\ findPolicy \in [Conns -> 0..1]
  BY DEF TypeInv, AccessTypeOK
<1> USE <1>0 DEF Outer, Goto, locals, loop, Pc, Queries, Lookup, Results
<1>1. CASE Call(c)
  <2>1. PICK l \in {"init", "lock"} : pc' = [pc EXCEPT ![c] = l]
    BY <1>1 DEF Call
  <2>2. result' = [result EXCEPT ![c] = result[c]] /\ UNCHANGED <<i, findPolicy, right, policy>>
    BY <1>1 DEF Call
  <2>3. QED
    BY <2>1, <2>2
<1>2. CASE InitMutex(c)
  BY <1>2 DEF InitMutex
<1>3. CASE Lock(c)
  BY <1>3 DEF Lock
<1>4. CASE ConnectFails(c)
  BY <1>4 DEF ConnectFails
<1>5. CASE Connect(c)
  BY <1>5 DEF Connect
<1>6. CASE GetAuth(c)
  BY <1>6 DEF GetAuth, Needs, Leave
<1>7. CASE GetJOINTable(c)
  BY <1>7 DEF GetJOINTable, Needs, Leave
<1>8. CASE GetEmployee(c)
  BY <1>8 DEF GetEmployee, Needs, Leave
<1>9. CASE GetPrAccessProtocol(c)
  BY <1>9 DEF GetPrAccessProtocol, Leave
<1>10. CASE Decide(c)
  BY <1>10 DEF Decide, Leave
<1>11. CASE CreateLoginlog(c)
  BY <1>11 DEF CreateLoginlog, Leave
<1>12. CASE SetLoginlogId(c)
  BY <1>12 DEF SetLoginlogId, Leave
<1>13. QED
  BY <1>1, <1>2, <1>3, <1>4, <1>5, <1>6, <1>7, <1>8, <1>9, <1>10, <1>11, <1>12

\* A query of GetPolicy: the row stays or is left behind without a policy.
Passing(c) ==
  /\ \E l \in Lookup : pc' = [pc EXCEPT ![c] = l]
  /\ i' = i \/ i' = [i EXCEPT ![c] = i[c] + 1]
  /\ UNCHANGED <<findPolicy, right, policy, result>>

\* The queries are of this kind.
LEMMA PassingSteps ==
  ASSUME NEW c \in Conns,
         \/ QueryFails(c) \/ QueryResource(c) \/ QueryGroup(c) \/ QueryMember(c)
         \/ QueryParent(c) \/ QueryAncestor(c)
  PROVE  Passing(c)
<1> USE DEF Passing, Goto, Lookup
<1>1. CASE QueryFails(c)
  BY <1>1 DEF QueryFails, NextRow
<1>2. CASE QueryResource(c)
  BY <1>2 DEF QueryResource, Found, NextRow
<1>3. CASE QueryGroup(c)
  BY <1>3 DEF QueryGroup, Found
<1>4. CASE QueryMember(c)
  BY <1>4 DEF QueryMember, NextRow
<1>5. CASE QueryParent(c)
  BY <1>5 DEF QueryParent, NextRow
<1>6. CASE QueryAncestor(c)
  BY <1>6 DEF QueryAncestor, Found, NextRow
<1>7. QED
  BY <1>1, <1>2, <1>3, <1>4, <1>5, <1>6

\* Every step preserves it.
LEMMA NextRights ==
  ASSUME RightsInv, [AccNext]_accVars
  PROVE  RightsInv'
<1>0. TypeInv'
  BY NextType DEF RightsInv
<1>a. /\ TypeInv
      /\ pc \in [Conns -> Pc] /\ result \in [Conns -> Results] /\ i \in [Conns -> 1..(MaxRows + 1)]
      /\ right \in [Conns -> SUBSET Kinds] /\ findPolicy \in [Conns -> 0..1]
      /\ policy \in [Conns -> [Rows -> Policies \cup {None}]]
  BY DEF RightsInv, TypeInv, AccessTypeOK
<1>b. \A d \in Conns : RightsOf(d) /\ Decided(d)
  BY DEF RightsInv
<1>c. SUFFICES \A d \in Conns : RightsOf(d)' /\ Decided(d)'
  BY <1>0 DEF RightsInv
<1>1. ASSUME NEW c \in Conns, Outer(c) PROVE \A d \in Conns : RightsOf(d)' /\ Decided(d)'
  <2> SUFFICES ASSUME NEW d \in Conns PROVE RightsOf(d)' /\ Decided(d)'
    OBVIOUS
  <2>1. RightsOf(d)'
    BY <1>b, <1>1 DEF Outer, RightsOf
  <2>2. Decided(d)'
    BY <1>a, <1>b, <1>1 DEF Outer, Decided
  <2>3. QED
    BY <2>1, <2>2
<1>2. ASSUME NEW c \in Conns, Passing(c) PROVE \A d \in Conns : RightsOf(d)' /\ Decided(d)'
  <2> SUFFICES ASSUME NEW d \in Conns PROVE RightsOf(d)' /\ Decided(d)'
    OBVIOUS
  <2>1. i'[d] = i[d] \/ i'[d] = i[d] + 1
    BY <1>a, <1>2 DEF Passing
  <2>2. RightsOf(d)'
    BY <1>a, <1>b, <1>2, <2>1 DEF Passing, RightsOf, Rows
  <2>3. Decided(d)'
    BY <1>a, <1>b, <1>2 DEF Passing, Decided, Lookup
  <2>4. QED
    BY <2>2, <2>3
<1>3. ASSUME NEW c \in Conns, LoadItems(c) PROVE \A d \in Conns : RightsOf(d)' /\ Decided(d)'
  <2> SUFFICES ASSUME NEW d \in Conns PROVE RightsOf(d)' /\ Decided(d)'
    OBVIOUS
  <2>1. pc[c] = "items" /\ i[c] \in Rows /\ cur[c] # None
    BY <1>a, <1>3, AccessAssumption, DatabaseType
       DEF LoadItems, TypeInv, AccessTypeOK, InLoop, Lookup, Rows
  <2>2. /\ policy' = [policy EXCEPT ![c] = [policy[c] EXCEPT ![i[c]] = cur[c]]]
        /\ findPolicy' = [findPolicy EXCEPT ![c] = 1]
        /\ right' = [right EXCEPT ![c] = right[c] \cup Permits(cur[c])]
        /\ i' = [i EXCEPT ![c] = i[c] + 1]
        /\ pc' = [pc EXCEPT ![c] = "resource"]
        /\ result' = result
    BY <1>3 DEF LoadItems, NextRow, Goto
  <2>3. CASE d # c
    BY <1>a, <1>b, <2>2, <2>3 DEF RightsOf, Decided
  <2>4. CASE d = c
    <3>1. \A k \in Rows : policy'[c][k] = IF k = i[c] THEN cur[c] ELSE policy[c][k]
      BY <1>a, <2>1, <2>2
    <3>2. policy[c][i[c]] = None
      BY <1>a, <1>b, <2>1 DEF RightsOf, Rows
    <3>3. ASSUME NEW x \in Kinds
          PROVE  x \in right'[c] <=>
                   \E k \in Rows : policy'[c][k] # None /\ x \in Permits(policy'[c][k])
      <4>1. x \in right'[c] <=> x \in right[c] \/ x \in Permits(cur[c])
        BY <1>a, <2>2
      <4>2. x \in right[c] <=> \E k \in Rows : policy[c][k] # None /\ x \in Permits(policy[c][k])
        BY <1>b DEF RightsOf
      <4>3. QED
        BY <2>1, <3>1, <3>2, <4>1, <4>2, Zenon
    <3>4. findPolicy'[c] = 1 <=> \E k \in Rows : policy'[c][k] # None
      BY <1>a, <2>1, <2>2, <3>1
    <3>5. \A k \in Rows : k >= i'[c] => policy'[c][k] = None
      BY <1>a, <1>b, <2>1, <2>2, <3>1 DEF RightsOf, Rows
    <3>6. Decided(c)'
      BY <1>a, <2>2 DEF Decided
    <3>7. QED
      BY <2>4, <3>3, <3>4, <3>5, <3>6 DEF RightsOf
  <2>5. QED
    BY <2>3, <2>4
<1>4. ASSUME NEW c \in Conns, Exit(c) PROVE \A d \in Conns : RightsOf(d)' /\ Decided(d)'
  BY <1>a, <1>b, <1>4 DEF Exit, Goto, NoPolicy, RightsOf, Decided
<1>5. CASE UNCHANGED accVars
  BY <1>b, <1>5 DEF accVars, locals, loop, RightsOf, Decided
<1>6. QED
  BY <1>a, <1>1, <1>2, <1>3, <1>4, <1>5, OuterSteps, PassingSteps DEF AccNext, Statement

(* The decision is the union of the rights of the policies found for the rows, whatever
   their number and order and whatever queries fail. *)
THEOREM DecisionUnited == AccSpec => []UnitedRights
<1>1. RightsInv => UnitedRights
  <2> SUFFICES ASSUME RightsInv, NEW c \in Conns
               PROVE  LET found == {policy[c][k] : k \in Rows} \ {None}
                          all == UNION {Permits(p) : p \in found} = Kinds
                      IN  /\ pc[c] \in {"employee", "login", "create"} => found = {} \/ all
                          /\ pc[c] = "exit" /\ result[c] = "policy" => found # {} /\ ~all
    BY DEF UnitedRights
  <2> DEFINE found == {policy[c][k] : k \in Rows} \ {None}
             rights == UNION {Permits(p) : p \in found}
  <2>1. RightsOf(c) /\ Decided(c) /\ right[c] \in SUBSET Kinds /\ findPolicy[c] \in 0..1
    BY DEF RightsInv, TypeInv, AccessTypeOK
  <2>2. findPolicy[c] = 1 <=> found # {}
    BY <2>1 DEF RightsOf
  <2>3. rights = right[c]
    <3>1. rights \subseteq Kinds
      BY DEF Permits
    <3>2. \A x \in Kinds : x \in rights <=>
            \E k \in Rows : policy[c][k] # None /\ x \in Permits(policy[c][k])
      OBVIOUS
    <3>3. QED
      BY <2>1, <3>1, <3>2 DEF RightsOf
  <2>4. /\ pc[c] \in {"employee", "login", "create"} => found = {} \/ rights = Kinds
        /\ pc[c] = "exit" /\ result[c] = "policy" => found # {} /\ rights # Kinds
    <3> HIDE DEF found, rights
    <3>1. QED
      BY <2>1, <2>2, <2>3 DEF Decided
  <2>5. QED
    BY <2>4, Zenon
<1>2. RightsInv /\ [AccNext]_accVars => RightsInv'
  BY NextRights
<1>3. QED
  BY <1>1, <1>2, InitRights, PTL DEF AccSpec

-----------------------------------------------------------------------------
(* The policy of a row. *)

\* An earlier row of the call had a policy for the resource itself.
HadResource(c, n) == \E j \in 1..(n - 1) \ failed[c] : db.item[j]["resource"] # None

\* The walk that began at the group g has come to x: whatever has a policy for the row k
\* above g is still ahead.
OnWay(k, g, x) ==
  /\ db.parent[g] # None /\ Above(db.parent[g], x)
  /\ \A a \in Groups \cup {Zero} :
       Above(db.parent[g], a) /\ GroupPolicy(k, a) # None => Above(x, a)

\* The rows before the present one have the policies they call for; findRes tells whether
\* one of them had a policy for the resource.
RowsDone(c) ==
  /\ \A k \in failed[c] : k < i[c]
  /\ findRes[c] = 1 <=> HadResource(c, i[c])
  /\ \A k \in 1..(i[c] - 1) : policy[c][k] \in RowPolicies(c, k)

\* The groups are asked only if neither this row nor an earlier one had such a policy,
AtGroups(c) ==
  pc[c] \in {"group", "member", "parent", "ancestor"} =>
    findRes[c] = 0 /\ isResource[c] = 0 /\ db.item[i[c]]["resource"] = None

\* the groups above only if no group of the resource has one, and nothing is passed over;
AtWalk(c) ==
  /\ pc[c] \in {"member", "parent", "ancestor"} => Held(i[c]) = {}
  /\ pc[c] = "parent" =>
       \E g \in db.member : \/ group[c] = g
                            \/ /\ OnWay(i[c], g, group[c])
                               /\ group[c] \notin {Root, Zero}
                               /\ GroupPolicy(i[c], group[c]) = None
  /\ pc[c] = "ancestor" => \E g \in db.member : OnWay(i[c], g, group[c])

\* what is loaded is the policy the row calls for.
AtItems(c) ==
  pc[c] = "items" =>
    /\ cur[c] \in RowPolicies(c, i[c])
    /\ isResource[c] = 1 <=> findRes[c] = 1 \/ db.item[i[c]]["resource"] # None

FoundIn(c) == RowsDone(c) /\ AtGroups(c) /\ AtWalk(c) /\ AtItems(c)

FoundInv == RightsInv /\ \A c \in Conns : FoundIn(c)

\* A group is above itself.
LEMMA AboveSelf ==
  ASSUME NEW x
  PROVE  Above(x, x)
BY DEF Above

\* The parent of a group above which the walk goes on is above whatever the group is above.
LEMMA AboveNext ==
  ASSUME NEW a, NEW x \in Groups, x # Root, x # Zero, db.parent[x] # None, Above(a, x)
  PROVE  Above(a, db.parent[x])
<1> SUFFICES ASSUME NEW S \in SUBSET (Groups \cup {Zero}), a \in S,
                    \A g \in S \ {Root, Zero} : db.parent[g] \in S \cup {None}
             PROVE  db.parent[x] \in S
  BY DEF Above
<1>1. x \in S
  BY DEF Above
<1>2. QED
  BY <1>1

\* What is above x, and is not x, is above the parent of x.
LEMMA AboveRest ==
  ASSUME NEW x \in Groups \cup {Zero}, NEW a, Above(x, a), a # x, db.parent[x] # None
  PROVE  Above(db.parent[x], a)
<1> SUFFICES ASSUME NEW S \in SUBSET (Groups \cup {Zero}), db.parent[x] \in S,
                    \A g \in S \ {Root, Zero} : db.parent[g] \in S \cup {None}
             PROVE  a \in S
  BY DEF Above
<1>1. S \cup {x} \in SUBSET (Groups \cup {Zero})
  OBVIOUS
<1>2. \A g \in (S \cup {x}) \ {Root, Zero} : db.parent[g] \in (S \cup {x}) \cup {None}
  OBVIOUS
<1>3. a \in S \cup {x}
  BY <1>1, <1>2 DEF Above
<1>4. QED
  BY <1>3

\* Nothing else is above the group at which the walk ends.
LEMMA AboveLast ==
  ASSUME NEW x \in Groups \cup {Zero}, NEW a, Above(x, a),
         x \in {Root, Zero} \/ db.parent[x] = None
  PROVE  a = x
<1>1. {x} \in SUBSET (Groups \cup {Zero})
  OBVIOUS
<1>2. \A g \in {x} \ {Root, Zero} : db.parent[g] \in {x} \cup {None}
  OBVIOUS
<1>3. a \in {x}
  BY <1>1, <1>2 DEF Above
<1>4. QED
  BY <1>3

\* The walk goes on from a group without policy.
LEMMA WayOn ==
  ASSUME NEW k, NEW g, NEW x \in Groups, x # Root, x # Zero, OnWay(k, g, x),
         GroupPolicy(k, x) = None, db.parent[x] # None
  PROVE  OnWay(k, g, db.parent[x])
<1>1. Above(db.parent[g], db.parent[x])
  BY AboveNext DEF OnWay
<1>2. ASSUME NEW a \in Groups \cup {Zero}, Above(db.parent[g], a), GroupPolicy(k, a) # None
      PROVE  Above(db.parent[x], a)
  <2>1. Above(x, a) /\ a # x
    BY <1>2 DEF OnWay
  <2>2. QED
    BY <2>1, AboveRest
<1>3. QED
  BY <1>1, <1>2 DEF OnWay

\* The walk ends without a policy: there is none above the group g.
LEMMA WayEnds ==
  ASSUME NEW k, NEW g, NEW x \in Groups \cup {Zero}, OnWay(k, g, x), GroupPolicy(k, x) = None,
         x \in {Root, Zero} \/ db.parent[x] = None
  PROVE  Inherited(k, g) = {None}
<1>1. ASSUME NEW a \in Groups \cup {Zero}, Above(db.parent[g], a), GroupPolicy(k, a) # None
      PROVE  FALSE
  <2>1. Above(x, a)
    BY <1>1 DEF OnWay
  <2>2. a = x
    BY <2>1, AboveLast
  <2>3. QED
    BY <1>1, <2>2
<1>2. QED
  BY <1>1, Zenon DEF Inherited

\* It ends at a group with a policy: this is the nearest one.
LEMMA WayFinds ==
  ASSUME NEW k, NEW g, NEW x \in Groups \cup {Zero}, OnWay(k, g, x), GroupPolicy(k, x) # None
  PROVE  GroupPolicy(k, x) \in Inherited(k, g)
<1> DEFINE has == {a \in Groups \cup {Zero} : /\ db.parent[g] # None
                                             /\ Above(db.parent[g], a)
                                             /\ GroupPolicy(k, a) # None}
           nearest == {a \in has : \A b \in has : Above(a, b)}
<1>1. x \in has
  BY DEF OnWay
<1>2. x \in nearest
  BY <1>1 DEF OnWay
<1>3. Inherited(k, g) = IF has = {} THEN {None} ELSE {GroupPolicy(k, a) : a \in nearest}
  BY DEF Inherited
<1>4. QED
  <2> HIDE DEF has, nearest
  <2>1. QED
    BY <1>1, <1>2, <1>3

\* The policies a row calls for, by the cases of GetPolicy: that for the resource.
LEMMA RowOfResource ==
  ASSUME NEW c, NEW k, k \notin failed[c], db.item[k]["resource"] # None
  PROVE  RowPolicies(c, k) = {db.item[k]["resource"]}
BY DEF RowPolicies

\* None after a row that had one for the resource, nor for a resource in no group.
LEMMA RowOfNone ==
  ASSUME NEW c, NEW k, k \notin failed[c], db.item[k]["resource"] = None,
         HadResource(c, k) \/ (Held(k) = {} /\ db.member = {})
  PROVE  RowPolicies(c, k) = {None}
BY DEF RowPolicies, HadResource

\* Those of the groups of the resource.
LEMMA RowOfGroup ==
  ASSUME NEW c, NEW k, k \notin failed[c], db.item[k]["resource"] = None, ~HadResource(c, k),
         Held(k) # {}
  PROVE  RowPolicies(c, k) = Held(k)
BY DEF RowPolicies, HadResource

\* Those of the groups above a group of the resource.
LEMMA RowInherits ==
  ASSUME NEW c, NEW k, k \notin failed[c], db.item[k]["resource"] = None, ~HadResource(c, k),
         Held(k) = {}, NEW g \in db.member
  PROVE  Inherited(k, g) \subseteq RowPolicies(c, k)
<1>1. RowPolicies(c, k) = UNION {Inherited(k, h) : h \in db.member}
  BY DEF RowPolicies, HadResource
<1>2. QED
  BY <1>1

\* What depends on the database alone stays.
LEMMA SameDatabase ==
  ASSUME db' = db
  PROVE  /\ \A a, b : Above(a, b)' <=> Above(a, b)
         /\ \A k, g : GroupPolicy(k, g)' = GroupPolicy(k, g)
         /\ \A k : Held(k)' = Held(k)
         /\ \A k, g : Inherited(k, g)' = Inherited(k, g)
         /\ \A k, g, x : OnWay(k, g, x)' <=> OnWay(k, g, x)
<1>1. ASSUME NEW a, NEW b PROVE Above(a, b)' <=> Above(a, b)
  BY DEF Above
<1>2. ASSUME NEW k, NEW g PROVE GroupPolicy(k, g)' = GroupPolicy(k, g)
  BY DEF GroupPolicy
<1>3. ASSUME NEW k PROVE Held(k)' = Held(k)
  BY DEF Held
<1>4. ASSUME NEW k, NEW g PROVE Inherited(k, g)' = Inherited(k, g)
  <2> DEFINE has == {a \in Groups \cup {Zero} : /\ db.parent[g] # None
                                               /\ Above(db.parent[g], a)
                                               /\ GroupPolicy(k, a) # None}
             nearest == {a \in has : \A b \in has : Above(a, b)}
             policies == {GroupPolicy(k, a) : a \in nearest}
  <2>1. has' = has
    BY <1>1, <1>2
  <2>2. nearest' = nearest
    BY <1>1, <2>1
  <2>3. policies' = policies
    BY <1>2, <2>2
  <2>4. Inherited(k, g) = IF has = {} THEN {None} ELSE policies
    BY DEF Inherited
  <2>5. Inherited(k, g)' = IF has' = {} THEN {None} ELSE policies'
    BY DEF Inherited
  <2>6. QED
    <3> HIDE DEF has, policies
    <3>1. QED
      BY <2>1, <2>3, <2>4, <2>5
<1>5. ASSUME NEW k, NEW g, NEW x PROVE OnWay(k, g, x)' <=> OnWay(k, g, x)
  BY <1>1, <1>2 DEF OnWay
<1>6. QED
  BY <1>1, <1>2, <1>3, <1>4, <1>5

\* A row before the present one keeps its policies, whether or not the present one fails.
LEMMA SameRow ==
  ASSUME NEW c, NEW n \in Nat, db' = db, failed'[c] = failed[c] \/ failed'[c] = failed[c] \cup {n},
         NEW k \in 1..n, k = n => failed'[c] = failed[c]
  PROVE  RowPolicies(c, k)' = RowPolicies(c, k) /\ (HadResource(c, k)' <=> HadResource(c, k))
<1>1. k \in failed'[c] <=> k \in failed[c]
  OBVIOUS
<1>2. 1..(k - 1) \ failed'[c] = 1..(k - 1) \ failed[c]
  OBVIOUS
<1>3. HadResource(c, k)' <=> HadResource(c, k)
  BY <1>2 DEF HadResource
<1>4. RowPolicies(c, k)' = RowPolicies(c, k)
  <2> DEFINE above == {Inherited(k, g) : g \in db.member}
  <2>1. above' = above
    BY SameDatabase
  <2>2. Held(k)' = Held(k)
    BY SameDatabase
  <2>3. RowPolicies(c, k) =
          CASE k \in failed[c] -> {None}
            [] k \notin failed[c] /\ db.item[k]["resource"] # None -> {db.item[k]["resource"]}
            [] k \notin failed[c] /\ db.item[k]["resource"] = None /\ HadResource(c, k) -> {None}
            [] OTHER -> IF Held(k) # {} THEN Held(k)
                        ELSE IF db.member = {} THEN {None} ELSE UNION above
    BY DEF RowPolicies, HadResource
  <2>4. RowPolicies(c, k)' =
          CASE k \in failed'[c] -> {None}
            [] k \notin failed'[c] /\ db'.item[k]["resource"] # None -> {db'.item[k]["resource"]}
            [] k \notin failed'[c] /\ db'.item[k]["resource"] = None /\ HadResource(c, k)' -> {None}
            [] OTHER -> IF Held(k)' # {} THEN Held(k)'
                        ELSE IF db'.member = {} THEN {None} ELSE UNION above'
    BY DEF RowPolicies, HadResource
  <2>5. QED
    <3> HIDE DEF above
    <3>1. QED
      BY <1>1, <1>3, <2>1, <2>2, <2>3, <2>4
<1>5. QED
  BY <1>3, <1>4

\* The row n is done and the next one begins.
LEMMA RowIsDone ==
  ASSUME NEW c, NEW n \in Nat \ {0}, RowsDone(c), i[c] = n, db' = db, i'[c] = n + 1,
         failed[c] \subseteq Nat,
         failed'[c] = failed[c] \/ failed'[c] = failed[c] \cup {n},
         \A k \in 1..(n - 1) : policy'[c][k] = policy[c][k],
         policy'[c][n] \in RowPolicies(c, n)',
         findRes'[c] = 1 <=>
           findRes[c] = 1 \/ (n \notin failed'[c] /\ db.item[n]["resource"] # None)
  PROVE  RowsDone(c)'
<1>1. \A k \in failed'[c] : k < i'[c]
  BY DEF RowsDone
<1>2. findRes'[c] = 1 <=> HadResource(c, n + 1)'
  <2>1. HadResource(c, n)' <=> HadResource(c, n)
    <3>1. 1..(n - 1) \ failed'[c] = 1..(n - 1) \ failed[c]
      OBVIOUS
    <3>2. QED
      BY <3>1 DEF HadResource
  <2>2. HadResource(c, n + 1)' <=>
          HadResource(c, n)' \/ (n \notin failed'[c] /\ db.item[n]["resource"] # None)
    <3>1. 1..((n + 1) - 1) = 1..(n - 1) \cup {n}
      OBVIOUS
    <3>2. QED
      BY <3>1 DEF HadResource
  <2>3. findRes[c] = 1 <=> HadResource(c, n)
    BY DEF RowsDone
  <2>4. QED
    BY <2>1, <2>2, <2>3
<1>3. ASSUME NEW k \in 1..n PROVE policy'[c][k] \in RowPolicies(c, k)'
  <2>1. CASE k = n
    BY <2>1
  <2>2. CASE k # n
    <3>1. k \in 1..(n - 1)
      BY <2>2
    <3>2. RowPolicies(c, k)' = RowPolicies(c, k)
      BY <2>2, SameRow
    <3>3. QED
      BY <3>1, <3>2 DEF RowsDone
  <2>3. QED
    BY <2>1, <2>2
<1>4. QED
  BY <1>1, <1>2, <1>3 DEF RowsDone

\* The present row stays, the rows before it too.
LEMMA RowsStay ==
  ASSUME NEW c, NEW n \in Nat \ {0}, RowsDone(c), i[c] = n, db' = db, i'[c] = n,
         failed'[c] = failed[c], policy'[c] = policy[c], findRes'[c] = findRes[c]
  PROVE  /\ RowsDone(c)'
         /\ RowPolicies(c, n)' = RowPolicies(c, n)
         /\ HadResource(c, n)' <=> HadResource(c, n)
<1>1. \A k \in 1..n : RowPolicies(c, k)' = RowPolicies(c, k)
  BY SameRow
<1>2. HadResource(c, n)' <=> HadResource(c, n)
  BY DEF HadResource
<1>3. QED
  BY <1>1, <1>2 DEF RowsDone

\* A call that does not move in the loop keeps what holds in it.
Still(c) ==
  /\ db' = db /\ i'[c] = i[c] /\ findRes'[c] = findRes[c] /\ isResource'[c] = isResource[c]
  /\ group'[c] = group[c] /\ cur'[c] = cur[c] /\ policy'[c] = policy[c] /\ failed'[c] = failed[c]
  /\ \/ pc'[c] = pc[c]
     \/ pc'[c] \notin {"group", "member", "parent", "ancestor", "items"}

\* The call is where it was or out of the loop.
LEMMA StillFound ==
  ASSUME NEW c, FoundIn(c), i[c] \in Nat \ {0}, Still(c)
  PROVE  FoundIn(c)'
<1>0. PICK n \in Nat \ {0}, x \in {group[c]} : n = i[c] /\ x = group[c]
  OBVIOUS
<1>1. RowsDone(c)' /\ RowPolicies(c, n)' = RowPolicies(c, n)
  BY <1>0, RowsStay DEF FoundIn, Still
<1>2. AtGroups(c)'
  BY DEF FoundIn, Still, AtGroups
<1>3. AtWalk(c)'
  <2>1. /\ Held(n)' = Held(n)
        /\ \A g : OnWay(n, g, x)' <=> OnWay(n, g, x)
        /\ GroupPolicy(n, x)' = GroupPolicy(n, x)
    BY SameDatabase DEF Still
  <2>2. i'[c] = n /\ group'[c] = x /\ db'.member = db.member
    BY <1>0 DEF Still
  <2>3. QED
    BY <1>0, <2>1, <2>2 DEF FoundIn, Still, AtWalk
<1>4. AtItems(c)'
  BY <1>0, <1>1 DEF FoundIn, Still, AtItems
<1>5. QED
  BY <1>1, <1>2, <1>3, <1>4 DEF FoundIn

\* At the beginning nothing has been looked up.
LEMMA InitFound == AccInit => FoundInv
<1> SUFFICES ASSUME AccInit, NEW c \in Conns PROVE FoundIn(c)
  BY InitRights DEF FoundInv
<1>1. pc[c] = "idle" /\ i[c] = 1 /\ failed[c] = {} /\ findRes[c] = 0
  BY DEF AccInit
<1>2. RowsDone(c)
  BY <1>1 DEF RowsDone, HadResource
<1>3. QED
  BY <1>1, <1>2 DEF FoundIn, AtGroups, AtWalk, AtItems

\* GetPolicy returns without a policy for the row n: right, if the row calls for none.
LEMMA RowWithout ==
  ASSUME NEW c \in Conns, NEW n \in Nat \ {0}, FoundIn(c), RightsOf(c), n \in Rows,
         i[c] = n, failed[c] \subseteq Nat, db' = db, i'[c] = n + 1, pc'[c] = "resource",
         policy'[c] = policy[c], findRes'[c] = findRes[c], failed'[c] = failed[c],
         None \in RowPolicies(c, n), db.item[n]["resource"] = None
  PROVE  FoundIn(c)'
<1>1. policy'[c][n] = None
  BY DEF RightsOf, Rows
<1>2. RowPolicies(c, n)' = RowPolicies(c, n)
  <2>1. n \in Nat /\ n \in 1..n
    OBVIOUS
  <2>2. QED
    BY <2>1, SameRow
<1>3. RowsDone(c)'
  BY <1>1, <1>2, RowIsDone DEF FoundIn
<1>4. QED
  BY <1>3 DEF FoundIn, AtGroups, AtWalk, AtItems

\* A policy for the row n is found.
LEMMA RowWith ==
  ASSUME NEW c \in Conns, NEW n \in Nat \ {0}, NEW p, FoundIn(c), i[c] = n, db' = db,
         i'[c] = n, pc'[c] = "items", policy'[c] = policy[c], findRes'[c] = findRes[c],
         failed'[c] = failed[c], cur'[c] = p, p \in RowPolicies(c, n),
         isResource'[c] = 1 <=> findRes[c] = 1 \/ db.item[n]["resource"] # None
  PROVE  FoundIn(c)'
<1>1. RowsDone(c)' /\ RowPolicies(c, n)' = RowPolicies(c, n)
  BY RowsStay DEF FoundIn
<1>2. AtItems(c)'
  BY <1>1 DEF AtItems
<1>3. QED
  BY <1>1, <1>2 DEF FoundIn, AtGroups, AtWalk

\* What a query of c leaves alone.
LEMMA QueryOf ==
  ASSUME TypeInv, NEW c \in Conns,
         \/ QueryFails(c) \/ QueryResource(c) \/ QueryGroup(c) \/ QueryMember(c)
         \/ QueryParent(c) \/ QueryAncestor(c)
  PROVE  /\ UNCHANGED <<db, findRes, policy>>
         /\ \A d \in Conns \ {c} : Still(d)
<1>0. /\ pc \in [Conns -> Pc] /\ i \in [Conns -> 1..(MaxRows + 1)]
      /\ group \in [Conns -> Groups \cup {Zero, None}] /\ cur \in [Conns -> Policies \cup {None}]
      /\ isResource \in [Conns -> 0..1] /\ failed \in [Conns -> SUBSET Rows]
  BY DEF TypeInv, AccessTypeOK
<1> USE <1>0 DEF Goto, Still
<1>1. CASE QueryFails(c)
  BY <1>1 DEF QueryFails, NextRow
<1>2. CASE QueryResource(c)
  BY <1>2 DEF QueryResource, Found, NextRow
<1>3. CASE QueryGroup(c)
  BY <1>3 DEF QueryGroup, Found
<1>4. CASE QueryMember(c)
  BY <1>4 DEF QueryMember, NextRow
<1>5. CASE QueryParent(c)
  BY <1>5 DEF QueryParent, NextRow
<1>6. CASE QueryAncestor(c)
  BY <1>6 DEF QueryAncestor, Found, NextRow
<1>7. QED
  BY <1>1, <1>2, <1>3, <1>4, <1>5, <1>6

\* A query keeps the invariant of its own call.
LEMMA QueryFound ==
  ASSUME TypeInv, NEW c \in Conns, FoundIn(c), RightsOf(c),
         \/ QueryFails(c) \/ QueryResource(c) \/ QueryGroup(c) \/ QueryMember(c)
         \/ QueryParent(c) \/ QueryAncestor(c)
  PROVE  FoundIn(c)'
<1>0. /\ pc \in [Conns -> Pc] /\ i \in [Conns -> 1..(MaxRows + 1)]
      /\ group \in [Conns -> Groups \cup {Zero, None}] /\ cur \in [Conns -> Policies \cup {None}]
      /\ isResource \in [Conns -> 0..1] /\ failed \in [Conns -> SUBSET Rows]
      /\ findRes \in [Conns -> 0..1]
  BY DEF TypeInv, AccessTypeOK
<1>a. db.n \in Nat /\ db.n <= MaxRows /\ MaxRows \in Nat
  BY DatabaseType, AccessAssumption DEF TypeInv, AccessTypeOK
<1>b. i[c] <= db.n
  BY DEF TypeInv, InLoop, Lookup, QueryFails, QueryResource, QueryGroup, QueryMember, QueryParent,
         QueryAncestor
<1>c. PICK n \in Nat \ {0} : n = i[c]
  BY <1>0
<1>d. n \in Rows /\ failed[c] \subseteq Nat /\ i[c] = n
  BY <1>0, <1>a, <1>b, <1>c DEF Rows
<1>e. db' = db /\ findRes' = findRes /\ policy' = policy
  BY QueryOf
<1>f. n \notin failed[c] /\ (findRes[c] = 1 <=> HadResource(c, n))
  BY <1>d DEF FoundIn, RowsDone
<1> USE <1>0, <1>d, <1>e, <1>f DEF Goto
<1>1. CASE QueryFails(c)
  <2>1. i'[c] = n + 1 /\ pc'[c] = "resource" /\ failed'[c] = failed[c] \cup {n}
    BY <1>1 DEF QueryFails, NextRow
  <2>2. RowPolicies(c, n)' = {None}
    BY <2>1 DEF RowPolicies
  <2>3. policy'[c][n] = None
    BY DEF RightsOf, Rows
  <2>4. RowsDone(c)'
    BY <2>1, <2>2, <2>3, RowIsDone DEF FoundIn
  <2>5. QED
    BY <2>1, <2>4 DEF FoundIn, AtGroups, AtWalk, AtItems
<1>2. CASE QueryResource(c)
  <2> DEFINE p == db.item[n]["resource"]
  <2>1. failed' = failed
    BY <1>2 DEF QueryResource
  <2>2. CASE p # None
    <3>1. i'[c] = n /\ pc'[c] = "items" /\ cur'[c] = p /\ isResource'[c] = 1
      BY <1>2, <2>2 DEF QueryResource, Found
    <3>2. p \in RowPolicies(c, n)
      BY <2>2, RowOfResource
    <3>3. QED
      BY <2>1, <2>2, <3>1, <3>2, RowWith
  <2>3. CASE p = None /\ findRes[c] = 0
    <3>1. i'[c] = n /\ pc'[c] = "group" /\ isResource'[c] = 0
      BY <1>2, <2>3 DEF QueryResource
    <3>2. RowsDone(c)'
      BY <2>1, <3>1, RowsStay DEF FoundIn
    <3>3. QED
      BY <2>3, <3>1, <3>2 DEF FoundIn, AtGroups, AtWalk, AtItems
  <2>4. CASE p = None /\ findRes[c] # 0
    <3>1. i'[c] = n + 1 /\ pc'[c] = "resource"
      BY <1>2, <2>4 DEF QueryResource, NextRow
    <3>2. findRes[c] = 1
      BY <2>4
    <3>3. None \in RowPolicies(c, n)
      BY <2>4, <3>2, RowOfNone
    <3>4. QED
      BY <2>1, <2>4, <3>1, <3>3, RowWithout
  <2>5. QED
    BY <2>2, <2>3, <2>4
<1>3. CASE QueryGroup(c)
  <2>1. failed' = failed /\ isResource' = isResource /\ pc[c] = "group"
    BY <1>3 DEF QueryGroup
  <2>2. findRes[c] = 0 /\ isResource[c] = 0 /\ db.item[n]["resource"] = None
    BY <2>1 DEF FoundIn, AtGroups
  <2>3. ASSUME NEW p \in Held(n), Found(c, p) PROVE FoundIn(c)'
    <3>1. i'[c] = n /\ pc'[c] = "items" /\ cur'[c] = p
      BY <2>3 DEF Found
    <3>2. p \in RowPolicies(c, n)
      BY <2>2, <2>3, RowOfGroup
    <3>3. QED
      BY <2>1, <2>2, <3>1, <3>2, RowWith
  <2>4. CASE Held(n) = {} /\ Goto(c, "member") /\ UNCHANGED <<cur, i>>
    <3>1. i'[c] = n /\ pc'[c] = "member"
      BY <2>4
    <3>2. RowsDone(c)'
      BY <2>1, <3>1, RowsStay DEF FoundIn
    <3>3. Held(n)' = {}
      BY <2>4, SameDatabase
    <3>4. QED
      BY <2>1, <2>2, <3>1, <3>2, <3>3 DEF FoundIn, AtGroups, AtWalk, AtItems
  <2>5. QED
    BY <1>3, <2>3, <2>4 DEF QueryGroup
<1>4. CASE QueryMember(c)
  <2>1. failed' = failed /\ isResource' = isResource /\ pc[c] = "member"
    BY <1>4 DEF QueryMember
  <2>2. /\ findRes[c] = 0 /\ isResource[c] = 0 /\ db.item[n]["resource"] = None
        /\ Held(n) = {}
    BY <2>1 DEF FoundIn, AtGroups, AtWalk
  <2>3. ASSUME NEW g \in db.member, group' = [group EXCEPT ![c] = g], Goto(c, "parent"),
               UNCHANGED i
        PROVE  FoundIn(c)'
    <3>1. i'[c] = n /\ pc'[c] = "parent" /\ group'[c] = g
      BY <2>3
    <3>2. RowsDone(c)'
      BY <2>1, <3>1, RowsStay DEF FoundIn
    <3>3. Held(n)' = {}
      BY <2>2, SameDatabase
    <3>4. QED
      BY <2>1, <2>2, <3>1, <3>2, <3>3 DEF FoundIn, AtGroups, AtWalk, AtItems
  <2>4. CASE db.member = {} /\ NextRow(c) /\ UNCHANGED group
    <3>1. i'[c] = n + 1 /\ pc'[c] = "resource"
      BY <2>4 DEF NextRow
    <3>2. None \in RowPolicies(c, n)
      BY <2>2, <2>4, RowOfNone
    <3>3. QED
      BY <2>1, <2>2, <3>1, <3>2, RowWithout
  <2>5. QED
    BY <1>4, <2>3, <2>4 DEF QueryMember
<1>5. CASE QueryParent(c)
  <2>1. failed' = failed /\ isResource' = isResource /\ pc[c] = "parent"
    BY <1>5 DEF QueryParent
  <2>2. /\ findRes[c] = 0 /\ isResource[c] = 0 /\ db.item[n]["resource"] = None
        /\ Held(n) = {}
    BY <2>1 DEF FoundIn, AtGroups, AtWalk
  <2>3. PICK x \in Groups \cup {Zero} : x = group[c]
    BY <2>1 DEF TypeInv, InLoop
  <2>4. PICK g \in db.member : \/ x = g
                               \/ /\ OnWay(n, g, x)
                                  /\ x \notin {Root, Zero}
                                  /\ GroupPolicy(n, x) = None
    BY <2>1, <2>3 DEF FoundIn, AtWalk
  <2>5. CASE db.parent[x] = None
    <3>1. i'[c] = n + 1 /\ pc'[c] = "resource"
      BY <1>5, <2>3, <2>5 DEF QueryParent, NextRow
    <3>2. Inherited(n, g) = {None}
      <4>1. CASE x = g
        BY <2>5, <4>1, Zenon DEF Inherited
      <4>2. CASE x # g
        BY <2>4, <2>5, <4>2, WayEnds
      <4>3. QED
        BY <4>1, <4>2
    <3>3. None \in RowPolicies(c, n)
      BY <2>2, <3>2, RowInherits
    <3>4. QED
      BY <2>1, <2>2, <3>1, <3>3, RowWithout
  <2>6. CASE db.parent[x] # None
    <3>1. i'[c] = n /\ pc'[c] = "ancestor" /\ group'[c] = db.parent[x]
      BY <1>5, <2>3, <2>6 DEF QueryParent
    <3>2. PICK y : y = db.parent[x]
      OBVIOUS
    <3>3. OnWay(n, g, y)
      <4>1. CASE x = g
        BY <2>6, <3>2, <4>1, AboveSelf DEF OnWay
      <4>2. CASE x # g
        BY <2>3, <2>4, <2>6, <3>2, <4>2, WayOn
      <4>3. QED
        BY <4>1, <4>2
    <3>4. Held(n)' = {} /\ OnWay(n, g, y)'
      BY <2>2, <3>3, SameDatabase
    <3>5. RowsDone(c)'
      BY <2>1, <3>1, RowsStay DEF FoundIn
    <3>6. QED
      BY <2>1, <2>2, <3>1, <3>2, <3>4, <3>5 DEF FoundIn, AtGroups, AtWalk, AtItems
  <2>7. QED
    BY <2>5, <2>6
<1>6. CASE QueryAncestor(c)
  <2>1. failed' = failed /\ isResource' = isResource /\ group' = group /\ pc[c] = "ancestor"
    BY <1>6 DEF QueryAncestor
  <2>2. /\ findRes[c] = 0 /\ isResource[c] = 0 /\ db.item[n]["resource"] = None
        /\ Held(n) = {}
    BY <2>1 DEF FoundIn, AtGroups, AtWalk
  <2>3. PICK x \in Groups \cup {Zero} : x = group[c]
    BY <2>1 DEF TypeInv, InLoop
  <2>4. PICK g \in db.member : OnWay(n, g, x)
    BY <2>1, <2>3 DEF FoundIn, AtWalk
  <2>5. CASE GroupPolicy(n, x) # None
    <3>1. i'[c] = n /\ pc'[c] = "items" /\ cur'[c] = GroupPolicy(n, x)
      BY <1>6, <2>3, <2>5 DEF QueryAncestor, Found
    <3>2. GroupPolicy(n, x) \in RowPolicies(c, n)
      BY <2>2, <2>4, <2>5, WayFinds, RowInherits
    <3>3. QED
      BY <2>1, <2>2, <3>1, <3>2, RowWith
  <2>6. CASE GroupPolicy(n, x) = None /\ x \in {Root, Zero}
    <3>1. i'[c] = n + 1 /\ pc'[c] = "resource"
      BY <1>6, <2>3, <2>6 DEF QueryAncestor, NextRow
    <3>2. Inherited(n, g) = {None}
      BY <2>4, <2>6, WayEnds
    <3>3. None \in RowPolicies(c, n)
      BY <2>2, <3>2, RowInherits
    <3>4. QED
      BY <2>1, <2>2, <3>1, <3>3, RowWithout
  <2>7. CASE GroupPolicy(n, x) = None /\ x \notin {Root, Zero}
    <3>1. i'[c] = n /\ pc'[c] = "parent" /\ group'[c] = x
      BY <1>6, <2>1, <2>3, <2>7 DEF QueryAncestor
    <3>2. Held(n)' = {} /\ OnWay(n, g, x)' /\ GroupPolicy(n, x)' = None
      BY <2>2, <2>4, <2>7, SameDatabase
    <3>3. RowsDone(c)'
      BY <2>1, <3>1, RowsStay DEF FoundIn
    <3>4. QED
      BY <2>1, <2>2, <2>7, <3>1, <3>2, <3>3 DEF FoundIn, AtGroups, AtWalk, AtItems
  <2>8. QED
    BY <2>5, <2>6, <2>7
<1>7. QED
  BY <1>1, <1>2, <1>3, <1>4, <1>5, <1>6

\* Outside the loop nothing of it is touched.
LEMMA OuterStill ==
  ASSUME TypeInv, NEW c \in Conns,
         \/ Call(c) \/ InitMutex(c) \/ Lock(c) \/ ConnectFails(c) \/ Connect(c) \/ GetAuth(c)
         \/ GetJOINTable(c) \/ GetEmployee(c) \/ GetPrAccessProtocol(c) \/ Decide(c)
         \/ CreateLoginlog(c) \/ SetLoginlogId(c)
  PROVE  \A d \in Conns : Still(d)
<1>0. pc \in [Conns -> Pc]
  BY DEF TypeInv, AccessTypeOK
<1>1. UNCHANGED <<db, locals>>
  BY Zenon DEF Call, InitMutex, Lock, ConnectFails, Connect, GetAuth, GetJOINTable, GetEmployee,
     GetPrAccessProtocol, Decide, CreateLoginlog, SetLoginlogId, Needs
<1> DEFINE away == {"init", "lock", "connect", "exit", "done", "auth", "join", "employee",
                    "protocol", "login", "create", "resource"}
<1>2. \E l \in away : pc' = [pc EXCEPT ![c] = l]
  <2> USE DEF Goto, Leave
  <2>1. CASE Call(c) \/ InitMutex(c) \/ Lock(c) \/ ConnectFails(c)
    BY <2>1 DEF Call, InitMutex, Lock, ConnectFails
  <2>2. CASE Connect(c)
    BY <2>2 DEF Connect
  <2>3. CASE GetAuth(c) \/ GetJOINTable(c) \/ GetEmployee(c)
    BY <2>3 DEF GetAuth, GetJOINTable, GetEmployee, Needs
  <2>4. CASE GetPrAccessProtocol(c) \/ Decide(c)
    BY <2>4 DEF GetPrAccessProtocol, Decide
  <2>5. CASE CreateLoginlog(c) \/ SetLoginlogId(c)
    BY <2>5 DEF CreateLoginlog, SetLoginlogId
  <2>6. QED
    BY <2>1, <2>2, <2>3, <2>4, <2>5
<1>3. QED
  BY <1>0, <1>1, <1>2 DEF Still, locals, loop

\* Every step preserves it.
LEMMA NextFound ==
  ASSUME FoundInv, [AccNext]_accVars
  PROVE  FoundInv'
<1>0. RightsInv'
  BY NextRights DEF FoundInv
<1>a. TypeInv /\ \A d \in Conns : FoundIn(d) /\ RightsOf(d)
  BY DEF FoundInv, RightsInv
<1>b. /\ i \in [Conns -> 1..(MaxRows + 1)] /\ failed \in [Conns -> SUBSET Rows]
      /\ policy \in [Conns -> [Rows -> Policies \cup {None}]] /\ pc \in [Conns -> Pc]
      /\ findRes \in [Conns -> 0..1] /\ isResource \in [Conns -> 0..1]
      /\ MaxRows \in Nat
  BY <1>a, AccessAssumption DEF TypeInv, AccessTypeOK
<1>c. ASSUME NEW d \in Conns, Still(d) PROVE FoundIn(d)'
  <2>1. i[d] \in Nat \ {0}
    BY <1>b
  <2>2. QED
    BY <1>a, <1>c, <2>1, StillFound
<1>d. SUFFICES \A d \in Conns : FoundIn(d)'
  BY <1>0 DEF FoundInv
<1>1. ASSUME NEW c \in Conns,
             \/ Call(c) \/ InitMutex(c) \/ Lock(c) \/ ConnectFails(c) \/ Connect(c) \/ GetAuth(c)
             \/ GetJOINTable(c) \/ GetEmployee(c) \/ GetPrAccessProtocol(c) \/ Decide(c)
             \/ CreateLoginlog(c) \/ SetLoginlogId(c)
      PROVE  \A d \in Conns : FoundIn(d)'
  BY <1>a, <1>c, <1>1, OuterStill
<1>2. ASSUME NEW c \in Conns,
             \/ QueryFails(c) \/ QueryResource(c) \/ QueryGroup(c) \/ QueryMember(c)
             \/ QueryParent(c) \/ QueryAncestor(c)
      PROVE  \A d \in Conns : FoundIn(d)'
  <2>1. FoundIn(c)'
    BY <1>a, <1>2, QueryFound
  <2>2. \A d \in Conns \ {c} : Still(d)
    BY <1>a, <1>2, QueryOf
  <2>3. QED
    BY <1>c, <2>1, <2>2
<1>3. ASSUME NEW c \in Conns, LoadItems(c) PROVE \A d \in Conns : FoundIn(d)'
  <2>1. /\ policy' = [policy EXCEPT ![c] = [policy[c] EXCEPT ![i[c]] = cur[c]]]
        /\ findRes' = [findRes EXCEPT ![c] = isResource[c]]
        /\ i' = [i EXCEPT ![c] = i[c] + 1]
        /\ pc' = [pc EXCEPT ![c] = "resource"]
        /\ UNCHANGED <<db, isResource, group, cur, failed>>
        /\ pc[c] = "items"
    BY <1>3 DEF LoadItems, NextRow, Goto
  <2>2. \A d \in Conns \ {c} : Still(d)
    BY <1>b, <2>1 DEF Still
  <2>3. PICK n \in Nat \ {0} : n = i[c] /\ n \in Rows
    <3>1. db.n \in Nat /\ db.n <= MaxRows
      BY <1>a, DatabaseType DEF TypeInv, AccessTypeOK
    <3>2. i[c] <= db.n
      BY <1>a, <2>1 DEF TypeInv, InLoop, Lookup
    <3>3. i[c] \in Nat \ {0} /\ i[c] \in Rows
      BY <1>b, <3>1, <3>2 DEF Rows
    <3>4. QED
      BY <3>3
  <2>4. /\ cur[c] \in RowPolicies(c, n)
        /\ isResource[c] = 1 <=> findRes[c] = 1 \/ db.item[n]["resource"] # None
        /\ n \notin failed[c] /\ RowsDone(c)
    BY <1>a, <2>1, <2>3 DEF FoundIn, AtItems, RowsDone
  <2>5. RowPolicies(c, n)' = RowPolicies(c, n)
    <3>1. n \in Nat /\ n \in 1..n /\ db' = db /\ failed'[c] = failed[c]
      BY <2>1
    <3>2. QED
      BY <3>1, SameRow
  <2>6. /\ i'[c] = n + 1 /\ failed'[c] = failed[c] /\ findRes'[c] = isResource[c]
        /\ policy'[c][n] = cur[c] /\ \A k \in 1..(n - 1) : policy'[c][k] = policy[c][k]
        /\ pc'[c] = "resource" /\ failed[c] \subseteq Nat
    BY <1>b, <2>1, <2>3 DEF Rows
  <2>7. RowsDone(c)'
    BY <2>1, <2>3, <2>4, <2>5, <2>6, RowIsDone
  <2>8. FoundIn(c)'
    BY <2>6, <2>7 DEF FoundIn, AtGroups, AtWalk, AtItems
  <2>9. QED
    BY <1>c, <2>2, <2>8
<1>4. ASSUME NEW c \in Conns, Exit(c) PROVE \A d \in Conns : FoundIn(d)'
  <2>1. \A d \in Conns \ {c} : Still(d)
    BY <1>4 DEF Exit, Goto, Still
  <2>2. i'[c] = 1 /\ findRes'[c] = 0 /\ failed'[c] = {} /\ pc'[c] = "done"
    BY <1>b, <1>4 DEF Exit, Goto
  <2>3. RowsDone(c)'
    BY <2>2 DEF RowsDone, HadResource
  <2>4. FoundIn(c)'
    BY <2>2, <2>3 DEF FoundIn, AtGroups, AtWalk, AtItems
  <2>5. QED
    BY <1>c, <2>1, <2>4
<1>5. CASE UNCHANGED accVars
  <2>1. \A d \in Conns : Still(d)
    BY <1>5 DEF accVars, locals, loop, Still
  <2>2. QED
    BY <1>c, <2>1
<1>6. QED
  BY <1>1, <1>2, <1>3, <1>4, <1>5 DEF AccNext, Statement

(* Each row gets the policy its role, the resource and the hierarchy of groups call for,
   whatever the hierarchy (also one with a cycle), the order in which the database returns
   the groups, the queries that fail and the other connections' calls. *)
THEOREM RowsGetTheirPolicies == AccSpec => []PolicyOfRow
<1>1. FoundInv => PolicyOfRow
  <2> SUFFICES ASSUME FoundInv, NEW c \in Conns, i[c] > db.n, NEW k \in 1..db.n
               PROVE  policy[c][k] \in RowPolicies(c, k)
    BY DEF PolicyOfRow
  <2>1. i[c] \in Nat /\ db.n \in Nat
    BY DatabaseType, AccessAssumption DEF FoundInv, RightsInv, TypeInv, AccessTypeOK
  <2>2. k \in 1..(i[c] - 1)
    BY <2>1
  <2>3. QED
    BY <2>2 DEF FoundInv, FoundIn, RowsDone
<1>2. FoundInv /\ [AccNext]_accVars => FoundInv'
  BY NextFound
<1>3. QED
  BY <1>1, <1>2, InitFound, PTL DEF AccSpec

=============================================================================
