---------------------------- MODULE OracleFilter ----------------------------
(***************************************************************************)
(* The filter of the Oracle proxy (oraclefilter.c) and the audit rows that *)
(* DBRecord writes for it.  OracleFitler is called with every packet of    *)
(* every connection, each of them a thread of the proxy; what it knows     *)
(* about the server and the client, and the result text it gathers, are    *)
(* globals that all connections share.                                     *)
(*                                                                         *)
(* Packets are TTC calls with piggybacked calls before them.  A statement  *)
(* is found at a place that depends on the versions.  There it stands      *)
(* alone ("plain" servers) or behind a byte with its length; statements    *)
(* in chunks ("long") are found by their mark.                             *)
(***************************************************************************)
EXTENDS CommandPolicy

CONSTANTS
  Conns,      \* the connections
  MaxStmts,   \* bound: statements the clients send
  Worlds      \* the servers, clients, policies and statements considered

Tools == {"toad", "plsql", "other"}
Stmts == 1..MaxStmts
Piggybacks == {"1169", "fixed", "unknown"}

World ==
  [version : {9, 10, 11}, bits : {32, 64}, plain : BOOLEAN, tool : [Conns -> Tools],
   lists : Seq(Seq(Items)), cmdFlag : 1..2, audit : BOOLEAN, text : Seq(Seq(Words))]

ASSUME FilterAssumption ==
  /\ MaxStmts \in Nat
  /\ Worlds \subseteq World
  /\ \A w \in Worlds : Len(w.text) <= MaxStmts

VARIABLES
  world,       \* never changes
  iversion, bitversion, istoad, isplsql, oracleFlag,  \* globals of the filter
  sql_reslut,  \* the pieces of result rows in the result buffer
  phase,       \* phase[c] of the connection
  userlog_id,  \* userlog_id[c]: the audit row of its last statement
  serving,     \* serving[c]: the statement whose rows the server sends, 0 if none
  inRow,       \* inRow[c]: its thread is between printing a row and storing it
  sender,      \* sender[k]: the connection of statement k, in the order they are sent
  seen,        \* seen[k]: the filter has examined statement k ...
  read,        \* ... and this is what it has read ...
  refused,     \* ... and it has spoilt the packet
  known,       \* known[k]: what makes the filter read statement k held when it was sent
  outlog       \* the last result row stored

flags == <<iversion, bitversion, istoad, isplsql, oracleFlag>>
stmtvars == <<sender, seen, read, refused, known>>
filtervars == <<world, flags, sql_reslut, phase, userlog_id, serving, inRow, stmtvars, outlog>>

Kinds == {"whole", "cut", "late", "unseen"}
Pieces == [stmt : Stmts, kind : Kinds]
NoRow == [ual |-> 0, pieces |-> {}, crossed |-> FALSE]

Sent == Len(sender)
\* The last statement of connection c, 0 before the first.
LastOf(c) ==
  LET own == {k \in 1..Sent : sender[k] = c}
  IN  IF own = {} THEN 0 ELSE CHOOSE k \in own : \A j \in own : j <= k

FilterInit ==
  /\ world \in Worlds
  /\ iversion = 0 /\ bitversion = 32 /\ istoad = 0 /\ isplsql = 0 /\ oracleFlag = 0
  /\ sql_reslut = {}
  /\ phase = [c \in Conns |-> "new"]
  /\ userlog_id = [c \in Conns |-> 0]
  /\ serving = [c \in Conns |-> 0]
  /\ inRow = [c \in Conns |-> FALSE]
  /\ sender = <<>> /\ seen = <<>> /\ read = <<>> /\ refused = <<>> /\ known = <<>>
  /\ outlog = NoRow

\* Mutant: plsqldev is taken for Toad.
ConnectToad(c) ==
  /\ phase[c] = "new"
  /\ phase' = [phase EXCEPT ![c] = "open"]
  /\ istoad' = IF world.tool[c] # "other" THEN 1 ELSE istoad
  /\ UNCHANGED <<world, iversion, bitversion, isplsql, oracleFlag, sql_reslut, userlog_id,
                 serving, inRow, stmtvars, outlog>>

\* TNS_TYPE_CONNECT names the client's program.
Connect(c) ==
  /\ phase[c] = "new"
  /\ phase' = [phase EXCEPT ![c] = "open"]
  /\ istoad' = IF world.tool[c] = "toad" THEN 1 ELSE istoad
  /\ isplsql' = IF world.tool[c] = "plsql" THEN 1 ELSE isplsql
  /\ UNCHANGED <<world, iversion, bitversion, oracleFlag, sql_reslut, userlog_id, serving,
                 inRow, stmtvars, outlog>>

\* Mutant: the flag counts the banners.
BannerCounts(c) ==
  /\ phase[c] = "open" /\ serving[c] = 0
  /\ iversion' = world.version
  /\ bitversion' = IF world.bits = 64 THEN 64 ELSE bitversion
  /\ oracleFlag' = IF world.plain THEN oracleFlag + 1 ELSE oracleFlag
  /\ UNCHANGED <<world, istoad, isplsql, sql_reslut, phase, userlog_id, serving, inRow,
                 stmtvars, outlog>>

\* The server's version, if a client asks for it (0x08).
Banner(c) ==
  /\ phase[c] = "open" /\ serving[c] = 0
  /\ iversion' = world.version
  /\ bitversion' = IF world.bits = 64 THEN 64 ELSE bitversion
  /\ oracleFlag' = IF world.plain THEN 1 ELSE oracleFlag
  /\ UNCHANGED <<world, istoad, isplsql, sql_reslut, phase, userlog_id, serving, inRow,
                 stmtvars, outlog>>

\* Where DecodeTnsData035e looks for the statement: the offset, and for versions 9 and
\* 10 what is added to the length of the header it skips.
Place(version, bits, toad, plsql) ==
  [offset |->
     CASE bits = 64 -> CASE version = 9  -> 48
                         [] version = 10 -> 31
                         [] version = 11 -> 26   \* after the first five zeros
                         [] OTHER        -> 54
       [] version = 9 -> 81
       [] version = 11 /\ toad = 1 -> 113
       [] OTHER -> 93,
   header |->
     CASE version = 10 -> IF toad = 1 THEN "toad" ELSE IF plsql = 1 THEN "3" ELSE "4"
       [] version = 9  -> IF toad = 1 \/ plsql = 1 THEN "0" ELSE "1"
       [] OTHER -> "none"]

RightPlace(c) ==
  Place(world.version, world.bits, IF world.tool[c] = "toad" THEN 1 ELSE 0,
        IF world.tool[c] = "plsql" THEN 1 ELSE 0)

Butlast(s) == SubSeq(s, 1, Len(s) - 1)
Without(s, k) == SubSeq(s, 1, k - 1) \o SubSeq(s, k + 1, Len(s))

\* What may be read of statement text s of connection c: a set of [ok, text], ok if there
\* is something to examine.  Behind the length byte the last character is lost, and so is
\* the word it ends; the chunks of a long statement may cut a word, and it ends after
\* 4096 characters.  At a wrong place there is anything or nothing.
ParseStrbyLen(c, s, form) ==
  CASE form = "long" ->
         {[ok |-> TRUE, text |-> t] :
            t \in {s} \cup {Without(s, k) : k \in DOMAIN s} \cup {SubSeq(s, 1, k) : k \in DOMAIN s}}
    [] form = "short" /\ Place(iversion, bitversion, istoad, isplsql) # RightPlace(c) ->
         {[ok |-> b, text |-> <<>>] : b \in BOOLEAN}
    [] OTHER ->
         IF oracleFlag = 1 THEN {[ok |-> TRUE, text |-> s]}
         ELSE {[ok |-> b, text |-> IF b THEN Butlast(s) ELSE <<>>] :
                 b \in IF world.plain THEN BOOLEAN ELSE {TRUE}}

\* DecodeTnsData goes from call to call of a client's packet and ends at one it does not
\* know; 0x1169 jumps to a statement of kind 0x035e.
DecodeTnsData(before, call) ==
  \E k \in 1..(Len(before) + 1) :
    /\ \A j \in 1..(k - 1) : before[j] # "unknown"
    /\ k > Len(before) \/ (before[k] = "1169" /\ call = "035e")

\* A result row names the last statement of c; nothing is stored without audit.
InsertUseractivityoutlog(c, pieces) ==
  outlog' = IF world.audit
              THEN [ual |-> userlog_id[c], pieces |-> pieces,
                    crossed |-> \E d \in Conns \ {c} : inRow[d]]
              ELSE outlog

\* The buffer, or a message, is stored and the buffer cleared.
DBOracleReslut(c, pieces) == InsertUseractivityoutlog(c, pieces) /\ sql_reslut' = {}

\* The buffer is stored if it holds something.
FlushResults(c) ==
  IF sql_reslut # {} THEN DBOracleReslut(c, sql_reslut)
                     ELSE UNCHANGED <<sql_reslut, outlog>>

\* InsertUseractivitylog: one policy that forbids the text is enough (level = 1).
Refuses(text) == \E p \in DOMAIN world.lists : MatchCclItem(world.lists[p], text, world.cmdFlag)

\* Everything that lets the filter read a statement: the version is known, no client of
\* another kind has come, the text is short and plain and behind no unknown call.
Readable(c, before, form) ==
  /\ iversion # 0 /\ world.plain
  /\ \A d \in Conns : phase[d] # "new" => world.tool[d] = world.tool[c]
  /\ form = "short"
  /\ \A k \in DOMAIN before : before[k] # "unknown"

\* The statement leaves the client, and its answer may come.
Send(c, before, form, ok, text, spoilt) ==
  /\ sender' = Append(sender, c)
  /\ seen' = Append(seen, ok)
  /\ read' = Append(read, text)
  /\ refused' = Append(refused, spoilt)
  /\ known' = Append(known, Readable(c, before, form))
  /\ serving' = [serving EXCEPT ![c] = Sent + 1]

\* The audit row of the statement c sends now.
SetUseractivitylog(c) ==
  userlog_id' = IF world.audit THEN [userlog_id EXCEPT ![c] = Sent + 1] ELSE userlog_id

\* Mutant: the old results are stored after the new audit row.
ExamineFirst(c, before, form, r) ==
  /\ Send(c, before, form, TRUE, r.text, Refuses(r.text))
  /\ SetUseractivitylog(c)
  /\ IF sql_reslut # {} /\ world.audit
       THEN /\ outlog' = [ual |-> userlog_id'[c], pieces |-> sql_reslut,
                          crossed |-> \E d \in Conns \ {c} : inRow[d]]
            /\ sql_reslut' = {}
       ELSE UNCHANGED <<sql_reslut, outlog>>

\* DecodeTnsData035e and DBOracleOperate.
Examine(c, before, form, r) ==
  /\ FlushResults(c)
  /\ SetUseractivitylog(c)
  /\ Send(c, before, form, TRUE, r.text, Refuses(r.text))

\* A client's packet with a statement.
Statement(c, before, call, form) ==
  /\ phase[c] = "open" /\ serving[c] = 0 /\ Sent < Len(world.text)
  /\ IF DecodeTnsData(before, call)
       THEN \E r \in ParseStrbyLen(c, world.text[Sent + 1], form) :
              IF r.ok THEN Examine(c, before, form, r)
              ELSE Send(c, before, form, FALSE, <<>>, FALSE)
                   /\ UNCHANGED <<sql_reslut, outlog, userlog_id>>
       ELSE Send(c, before, form, FALSE, <<>>, FALSE)
            /\ UNCHANGED <<sql_reslut, outlog, userlog_id>>
  /\ UNCHANGED <<world, flags, phase, inRow>>

\* A call the filter does not know: more rows of an open cursor.
Fetch(c, k) ==
  /\ phase[c] = "open" /\ serving[c] = 0
  /\ k \in 1..Sent /\ sender[k] = c
  /\ serving' = [serving EXCEPT ![c] = k]
  /\ UNCHANGED <<world, flags, sql_reslut, phase, userlog_id, inRow, stmtvars, outlog>>

Piece(c, cut) ==
  [stmt |-> serving[c],
   kind |-> CASE ~seen[serving[c]] -> "unseen"
              [] serving[c] # LastOf(c) -> "late"
              [] OTHER -> IF cut THEN "cut" ELSE "whole"]

\* A row of the server is printed to the buffer.  Packets are not put together: one that
\* ends inside the row leaves its beginning in the buffer.
PrintRow(c, cut) ==
  /\ serving[c] # 0 /\ ~inRow[c]
  /\ sql_reslut' = sql_reslut \cup {Piece(c, cut)}
  /\ inRow' = [inRow EXCEPT ![c] = ~cut]
  /\ UNCHANGED <<world, flags, phase, userlog_id, serving, stmtvars, outlog>>

\* The end of a row.
StoreRow(c) ==
  /\ inRow[c]
  /\ inRow' = [inRow EXCEPT ![c] = FALSE]
  /\ FlushResults(c)
  /\ UNCHANGED <<world, flags, phase, userlog_id, serving, stmtvars>>

\* What DecodeTnsData0401 finds: no message ("none"), or one.
Messages == {"none", "ORA-01403", "text"}

\* The end of the answer (0x0401, 0x0402, 0x0405): without a message nothing is stored;
\* else the buffer, or the message itself unless it is ORA-01403.
AnswerEnds(c, message) ==
  /\ serving[c] # 0 /\ ~inRow[c]
  /\ serving' = [serving EXCEPT ![c] = 0]
  /\ CASE message = "none" -> UNCHANGED <<sql_reslut, outlog>>
       [] message # "none" /\ sql_reslut # {} -> DBOracleReslut(c, sql_reslut)
       [] message = "ORA-01403" /\ sql_reslut = {} -> UNCHANGED <<sql_reslut, outlog>>
       [] OTHER -> DBOracleReslut(c, {Piece(c, FALSE)})
  /\ UNCHANGED <<world, flags, phase, userlog_id, inRow, stmtvars>>

\* The client logs off (0x0309).
Close(c) ==
  /\ phase[c] = "open" /\ serving[c] = 0
  /\ phase' = [phase EXCEPT ![c] = "closed"]
  /\ FlushResults(c)
  /\ UNCHANGED <<world, flags, userlog_id, serving, inRow, stmtvars>>

Packets == UNION {[1..n -> Piggybacks] : n \in 0..2}

FilterNext ==
  \E c \in Conns :
    \/ Connect(c) \/ Banner(c) \/ Close(c) \/ StoreRow(c)
    \/ \E before \in Packets, call \in {"035e", "0347"}, form \in {"short", "long"} :
         Statement(c, before, call, form)
    \/ \E k \in Stmts : Fetch(c, k)
    \/ \E cut \in BOOLEAN : PrintRow(c, cut)
    \/ \E message \in Messages : AnswerEnds(c, message)

FilterSpec == FilterInit /\ [][FilterNext]_filtervars

(* Type correctness of the filter's globals and the connections. *)
FilterTypeOK ==
  /\ world \in Worlds
  /\ iversion \in {0, 9, 10, 11} /\ bitversion \in {32, 64}
  /\ {istoad, isplsql, oracleFlag} \subseteq 0..1
  /\ sql_reslut \subseteq Pieces
  /\ phase \in [Conns -> {"new", "open", "closed"}]
  /\ userlog_id \in [Conns -> 0..Sent] /\ serving \in [Conns -> 0..Sent]
  /\ inRow \in [Conns -> BOOLEAN]
  /\ Sent <= MaxStmts
  /\ \A k \in 1..Sent : read[k] = <<>> \/ seen[k]
  /\ outlog.pieces \subseteq Pieces

(***************************************************************************)
(* A statement is examined, with all its words, when the filter knows the  *)
(* server and all clients are of one kind: every connection's setting up   *)
(* and the calls before the statement taken together, the place that       *)
(* DecodeTnsData035e computes from the globals is the one where it stands. *)
(***************************************************************************)
StatementsSeen == \A k \in 1..Sent : known[k] => seen[k] /\ read[k] = world.text[k]

(***************************************************************************)
(* What is refused is what some list of the policies forbids, by the       *)
(* meaning of the lists' items and not by the parts of strsplit; and       *)
(* nothing passes only because another connection has been refused.        *)
(***************************************************************************)
RefusedIffForbidden ==
  \A k \in 1..Sent :
     seen[k] => (refused[k] <=> \E p \in DOMAIN world.lists :
                                   ForbiddenBy(world.lists[p], read[k], world.cmdFlag))

(***************************************************************************)
(* Result rows are stored with the examined statement they answer,         *)
(* although the buffer is one for all connections: a whole row unless the  *)
(* threads of two connections handle rows at the same time; a row that was *)
(* cut off unless another connection comes first and stores it.            *)
(***************************************************************************)
ResultsOfStatement ==
  LET foreign(k) == outlog.ual = 0 \/ sender[k] # sender[outlog.ual]
  IN  \A p \in outlog.pieces :
        /\ p.kind = "whole" => p.stmt = outlog.ual \/ outlog.crossed
        /\ p.kind = "cut" => p.stmt = outlog.ual \/ foreign(p.stmt)
=============================================================================
