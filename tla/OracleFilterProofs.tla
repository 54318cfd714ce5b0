------------------------- MODULE OracleFilterProofs -------------------------
(* Theorems about the filter of the Oracle proxy, for any connections, any  *)
(* servers, clients, policies and statements and any number of statements.  *)
EXTENDS OracleFilter, SequenceTheorems, WellFoundedInduction, TLAPS

(***************************************************************************)
(* What the filter knows.  The globals are set by connections of their own *)
(* accord; together they are what the world is like once a version is      *)
(* known, and name a tool as soon as one connection uses it.               *)
(***************************************************************************)
FlagsTyped ==
  /\ world \in Worlds
  /\ iversion \in {0, 9, 10, 11} /\ bitversion \in {32, 64}
  /\ istoad \in 0..1 /\ isplsql \in 0..1 /\ oracleFlag \in 0..1
  /\ phase \in [Conns -> {"new", "open", "closed"}]

FlagsRight ==
  /\ bitversion = 64 => world.bits = 64
  /\ iversion # 0 => /\ iversion = world.version /\ bitversion = world.bits
                     /\ world.plain => oracleFlag = 1
  /\ istoad = 1 <=> \E c \in Conns : phase[c] # "new" /\ world.tool[c] = "toad"
  /\ isplsql = 1 <=> \E c \in Conns : phase[c] # "new" /\ world.tool[c] = "plsql"

\* The histories grow together, a statement at a time.
HistoryTyped ==
  /\ sender \in Seq(Conns) /\ seen \in Seq(BOOLEAN) /\ read \in Seq(Seq(Words))
  /\ known \in Seq(BOOLEAN)
  /\ Len(seen) = Sent /\ Len(read) = Sent /\ Len(known) = Sent
  /\ Sent <= Len(world.text)

SeenRight ==
  /\ \A k \in 1..Sent : read[k] = <<>> \/ seen[k]
  /\ StatementsSeen

(***************************************************************************)
(* Whose results.  userlog_id names the last statement of a connection     *)
(* that has been examined, and a piece of the buffer that is neither late  *)
(* nor of an unseen statement is of that one: the next one is examined     *)
(* only after the buffer has been stored.                                  *)
(***************************************************************************)
BufferTyped ==
  /\ sql_reslut \subseteq Pieces
  /\ userlog_id \in [Conns -> 0..Sent] /\ serving \in [Conns -> 0..Sent]
  /\ inRow \in [Conns -> BOOLEAN]
  /\ \A p \in sql_reslut : p.stmt \in 1..Sent

ServedOwn ==
  /\ \A c \in Conns : serving[c] # 0 => sender[serving[c]] = c
  /\ \A c \in Conns : inRow[c] => serving[c] # 0

\* There is a last statement.
LastExists ==
  \A c \in Conns, k \in 1..Sent :
    sender[k] = c => \E m \in 1..Sent : sender[m] = c /\ \A j \in 1..Sent : sender[j] = c => j <= m

AuditedLast ==
  world.audit =>
    \A c \in Conns : /\ userlog_id[c] # 0 => sender[userlog_id[c]] = c
                     /\ \A k \in 1..Sent : sender[k] = c /\ seen[k] => k <= userlog_id[c]

BufferOwn ==
  world.audit =>
    \A p \in sql_reslut :
      /\ p.kind \in {"whole", "cut"} => p.stmt = userlog_id[sender[p.stmt]]
      /\ p.kind = "whole" => inRow[sender[p.stmt]]

\* A stored row is as ResultsOfStatement says.
RowGood(o) ==
  /\ o \in [ual : 0..Sent, pieces : SUBSET Pieces, crossed : BOOLEAN]
  /\ \A p \in o.pieces :
       /\ p.stmt \in 1..Sent
       /\ p.kind = "whole" => p.stmt = o.ual \/ o.crossed
       /\ p.kind = "cut" => p.stmt = o.ual \/ o.ual = 0 \/ sender[p.stmt] # sender[o.ual]

FlagInv == FlagsTyped /\ FlagsRight
SeenInv == HistoryTyped /\ SeenRight
RowInv == BufferTyped /\ ServedOwn /\ LastExists /\ AuditedLast /\ BufferOwn /\ RowGood(outlog)
FilterInv == FlagInv /\ SeenInv /\ RowInv

-----------------------------------------------------------------------------
\* What the assumption says of a world.
LEMMA WorldType ==
  ASSUME world \in Worlds
  PROVE  /\ world.version \in {9, 10, 11} /\ world.bits \in {32, 64}
         /\ world.plain \in BOOLEAN /\ world.audit \in BOOLEAN
         /\ world.tool \in [Conns -> Tools]
         /\ world.text \in Seq(Seq(Words)) /\ Len(world.text) <= MaxStmts /\ MaxStmts \in Nat
<1>1. world \in World /\ Len(world.text) <= MaxStmts /\ MaxStmts \in Nat
  BY FilterAssumption
<1>2. QED
  BY <1>1 DEF World

(***************************************************************************)
(* What the filter knows.                                                  *)
(***************************************************************************)
\* Before any connection the filter knows nothing.
LEMMA InitFlags == FilterInit => FlagInv
<1> SUFFICES ASSUME FilterInit PROVE FlagInv
  OBVIOUS
<1>1. FlagsTyped
  BY DEF FilterInit, FlagsTyped
<1>2. FlagsRight
  BY DEF FilterInit, FlagsRight
<1>3. QED
  BY <1>1, <1>2 DEF FlagInv

\* A client connects: its tool is noted.
LEMMA ConnectFlags == ASSUME FlagInv, NEW c \in Conns, Connect(c) PROVE FlagInv'
<1>1. /\ world' = world /\ iversion' = iversion /\ bitversion' = bitversion
      /\ oracleFlag' = oracleFlag
      /\ istoad' = IF world.tool[c] = "toad" THEN 1 ELSE istoad
      /\ isplsql' = IF world.tool[c] = "plsql" THEN 1 ELSE isplsql
      /\ phase[c] = "new" /\ phase' = [phase EXCEPT ![c] = "open"]
  BY DEF Connect
<1>2. phase \in [Conns -> {"new", "open", "closed"}]
  BY DEF FlagInv, FlagsTyped
<1>3. /\ phase'[c] # "new" /\ phase' \in [Conns -> {"new", "open", "closed"}]
      /\ \A d \in Conns : d # c => phase'[d] = phase[d]
  BY <1>1, <1>2
<1>4. FlagsTyped'
  BY <1>1, <1>3 DEF FlagInv, FlagsTyped
<1>5. FlagsRight'
  <2>1. istoad' = 1 <=> \E d \in Conns : phase'[d] # "new" /\ world.tool[d] = "toad"
    BY <1>1, <1>3 DEF FlagInv, FlagsRight
  <2>2. isplsql' = 1 <=> \E d \in Conns : phase'[d] # "new" /\ world.tool[d] = "plsql"
    BY <1>1, <1>3 DEF FlagInv, FlagsRight
  <2>3. QED
    BY <1>1, <2>1, <2>2 DEF FlagInv, FlagsRight
<1>6. QED
  BY <1>4, <1>5 DEF FlagInv

\* A banner: the server is the same for all connections.
LEMMA BannerFlags == ASSUME FlagInv, NEW c \in Conns, Banner(c) PROVE FlagInv'
<1>1. /\ world' = world /\ iversion' = world.version
      /\ bitversion' = IF world.bits = 64 THEN 64 ELSE bitversion
      /\ oracleFlag' = IF world.plain THEN 1 ELSE oracleFlag
      /\ istoad' = istoad /\ isplsql' = isplsql /\ phase' = phase
  BY DEF Banner
<1>2. world.version \in {9, 10, 11} /\ world.bits \in {32, 64} /\ world.plain \in BOOLEAN
  BY WorldType DEF FlagInv, FlagsTyped
<1>3. FlagsTyped'
  BY <1>1, <1>2 DEF FlagInv, FlagsTyped
<1>4. bitversion' = world.bits
  BY <1>1, <1>2 DEF FlagInv, FlagsTyped, FlagsRight
<1>5. FlagsRight'
  BY <1>1, <1>2, <1>4 DEF FlagInv, FlagsRight
<1>6. QED
  BY <1>3, <1>5 DEF FlagInv

\* A client that logs off has been there: what it made known stays known.
LEMMA CloseFlags == ASSUME FlagInv, NEW c \in Conns, Close(c) PROVE FlagInv'
<1>1. /\ phase[c] = "open" /\ phase' = [phase EXCEPT ![c] = "closed"]
      /\ world' = world /\ iversion' = iversion /\ bitversion' = bitversion
      /\ istoad' = istoad /\ isplsql' = isplsql /\ oracleFlag' = oracleFlag
  BY DEF Close, flags
<1>2. phase \in [Conns -> {"new", "open", "closed"}]
  BY DEF FlagInv, FlagsTyped
<1>3. /\ phase' \in [Conns -> {"new", "open", "closed"}]
      /\ \A d \in Conns : phase'[d] # "new" <=> phase[d] # "new"
  BY <1>1, <1>2
<1>4. FlagsTyped'
  BY <1>1, <1>3 DEF FlagInv, FlagsTyped
<1>5. FlagsRight'
  BY <1>1, <1>3 DEF FlagInv, FlagsRight
<1>6. QED
  BY <1>4, <1>5 DEF FlagInv

\* Every step preserves what the filter knows.
LEMMA NextFlags == FlagInv /\ [FilterNext]_filtervars => FlagInv'
<1> SUFFICES ASSUME FlagInv, [FilterNext]_filtervars PROVE FlagInv'
  OBVIOUS
<1>1. CASE UNCHANGED <<world, flags, phase>>
  BY <1>1 DEF FlagInv, FlagsTyped, FlagsRight, flags
<1>2. ASSUME NEW c \in Conns, Connect(c) \/ Banner(c) \/ Close(c) PROVE FlagInv'
  BY <1>2, ConnectFlags, BannerFlags, CloseFlags
<1>3. QED
  BY <1>1, <1>2, Zenon DEF FilterNext, filtervars, StoreRow, Statement, Fetch, PrintRow, AnswerEnds
(***************************************************************************)
(* What the filter reads.                                                  *)
(***************************************************************************)
\* A part of a statement is a sequence of words.
LEMMA PartOf ==
  ASSUME NEW s \in Seq(Words), NEW k \in Int, NEW m \in Int, k >= 1, m <= Len(s)
  PROVE  SubSeq(s, k, m) \in Seq(Words)
<1>1. \A i \in k..m : s[i] \in Words
  OBVIOUS
<1>2. QED
  BY <1>1, SubSeqProperties

\* Whatever is read of a statement is a sequence of words.
LEMMA ReadWords ==
  ASSUME NEW c, NEW s \in Seq(Words), NEW form, NEW r \in ParseStrbyLen(c, s, form)
  PROVE  r.ok \in BOOLEAN /\ r.text \in Seq(Words)
<1> DEFINE Parts == {s} \cup {Without(s, k) : k \in DOMAIN s} \cup {SubSeq(s, 1, k) : k \in DOMAIN s}
           Long == {[ok |-> TRUE, text |-> t] : t \in Parts}
           Wrong == {[ok |-> b, text |-> <<>>] : b \in BOOLEAN}
           Plain == {[ok |-> TRUE, text |-> s]}
           Behind(B) == {[ok |-> b, text |-> IF b THEN Butlast(s) ELSE <<>>] : b \in B}
           B0 == IF world.plain THEN BOOLEAN ELSE {TRUE}
<1>1. /\ form = "long" => r \in Long
      /\ form # "long" => r \in Wrong \/ r \in (IF oracleFlag = 1 THEN Plain ELSE Behind(B0))
  BY Zenon DEF ParseStrbyLen
<1>2. \A k \in DOMAIN s : k \in Nat /\ k >= 1 /\ k <= Len(s)
  OBVIOUS
<1>3. \A t \in Parts : t \in Seq(Words)
  <2>1. ASSUME NEW k \in DOMAIN s PROVE SubSeq(s, 1, k) \in Seq(Words)
    BY <1>2, PartOf
  <2>2. ASSUME NEW k \in DOMAIN s PROVE Without(s, k) \in Seq(Words)
    <3>1. SubSeq(s, 1, k - 1) \in Seq(Words)
      BY <1>2, PartOf
    <3>2. SubSeq(s, k + 1, Len(s)) \in Seq(Words)
      BY <1>2, PartOf
    <3>3. QED
      BY <3>1, <3>2, ConcatProperties DEF Without
  <2>3. QED
    BY <2>1, <2>2
<1>4. Butlast(s) \in Seq(Words) /\ <<>> \in Seq(Words)
  <2>1. Len(s) - 1 \in Int /\ Len(s) - 1 <= Len(s)
    OBVIOUS
  <2>2. QED
    BY <2>1, PartOf DEF Butlast
<1>5. B0 \subseteq BOOLEAN
  OBVIOUS
<1> HIDE DEF Parts, B0
<1>6. CASE r \in Long
  <2>1. PICK t \in Parts : r = [ok |-> TRUE, text |-> t]
    BY <1>6
  <2>2. r.ok = TRUE /\ r.text = t
    BY <2>1
  <2>3. QED
    BY <1>3, <2>2, Zenon
<1>7. CASE r \in Wrong
  <2>1. PICK b \in BOOLEAN : r = [ok |-> b, text |-> <<>>]
    BY <1>7
  <2>2. QED
    BY <1>4, <2>1
<1>8. CASE r \in Plain
  <2>1. r.ok = TRUE /\ r.text = s
    BY <1>8
  <2>2. QED
    BY <2>1, Zenon
<1>9. CASE r \in Behind(B0)
  <2>1. PICK b \in B0 : r = [ok |-> b, text |-> IF b THEN Butlast(s) ELSE <<>>]
    BY <1>9
  <2>2. QED
    BY <1>4, <1>5, <2>1
<1>10. QED
  BY <1>1, <1>6, <1>7, <1>8, <1>9, Zenon

\* Once a version is known, and while all clients are of one kind, the statement is looked
\* for where it is.
LEMMA PlaceRight ==
  ASSUME FlagInv, NEW c \in Conns, phase[c] = "open", iversion # 0,
         \A d \in Conns : phase[d] # "new" => world.tool[d] = world.tool[c]
  PROVE  Place(iversion, bitversion, istoad, isplsql) = RightPlace(c)
<1>1. iversion = world.version /\ bitversion = world.bits
  BY DEF FlagInv, FlagsRight
<1>2. istoad = IF world.tool[c] = "toad" THEN 1 ELSE 0
  BY DEF FlagInv, FlagsTyped, FlagsRight
<1>3. isplsql = IF world.tool[c] = "plsql" THEN 1 ELSE 0
  BY DEF FlagInv, FlagsTyped, FlagsRight
<1>4. QED
  BY <1>1, <1>2, <1>3, Zenon DEF RightPlace

\* A readable statement is reached, and read with all its words.
LEMMA ReadableRead ==
  ASSUME FlagInv, NEW c \in Conns, phase[c] = "open", NEW before \in Packets, NEW call,
         NEW form \in {"short", "long"}, Readable(c, before, form), NEW s
  PROVE  /\ DecodeTnsData(before, call)
         /\ \A r \in ParseStrbyLen(c, s, form) : r = [ok |-> TRUE, text |-> s]
<1>1. DecodeTnsData(before, call)
  <2>1. PICK n \in 0..2 : before \in [1..n -> Piggybacks]
    BY DEF Packets
  <2>2. Len(before) = n /\ DOMAIN before = 1..n
    BY <2>1
  <2>3. \A k \in 1..n : before[k] # "unknown"
    BY <2>2 DEF Readable
  <2>4. QED
    BY <2>1, <2>2, <2>3 DEF DecodeTnsData
<1>2. /\ form = "short" /\ iversion # 0
      /\ \A d \in Conns : phase[d] # "new" => world.tool[d] = world.tool[c]
  BY DEF Readable
<1>3. form # "long"
  BY <1>2
<1>4. oracleFlag = 1
  BY <1>2 DEF Readable, FlagInv, FlagsRight
<1>5. Place(iversion, bitversion, istoad, isplsql) = RightPlace(c)
  BY <1>2, PlaceRight
<1>6. ParseStrbyLen(c, s, form) = {[ok |-> TRUE, text |-> s]}
  BY <1>3, <1>4, <1>5, Zenon DEF ParseStrbyLen
<1>7. QED
  BY <1>1, <1>6

\* What a packet with a statement does: the statement is examined, or it is not.
LEMMA StatementEffect ==
  ASSUME FlagInv, HistoryTyped, NEW c \in Conns, NEW before \in Packets, NEW call,
         NEW form \in {"short", "long"}, Statement(c, before, call, form)
  PROVE  \E ok \in BOOLEAN, text \in Seq(Words), kn \in BOOLEAN :
           /\ sender' = Append(sender, c) /\ seen' = Append(seen, ok)
           /\ read' = Append(read, text) /\ known' = Append(known, kn)
           /\ serving' = [serving EXCEPT ![c] = Sent + 1]
           /\ ok \/ text = <<>>
           /\ kn => ok /\ text = world.text[Sent + 1]
           /\ \/ ok /\ FlushResults(c) /\ SetUseractivitylog(c)
              \/ ~ok /\ UNCHANGED <<sql_reslut, outlog, userlog_id>>
<1> DEFINE s == world.text[Sent + 1]
           kn == Readable(c, before, form)
<1>1. phase[c] = "open" /\ Sent < Len(world.text)
  BY DEF Statement
<1>2. s \in Seq(Words)
  BY <1>1, WorldType DEF HistoryTyped, Sent, FlagInv, FlagsTyped
<1>3. kn \in BOOLEAN
  BY DEF Readable
<1>4. kn => DecodeTnsData(before, call)
            /\ \A r \in ParseStrbyLen(c, s, form) : r = [ok |-> TRUE, text |-> s]
  BY <1>1, ReadableRead
<1> HIDE DEF s, kn
<1>5. ASSUME NEW r \in ParseStrbyLen(c, s, form), r.ok, Examine(c, before, form, r)
      PROVE  /\ sender' = Append(sender, c) /\ seen' = Append(seen, TRUE)
             /\ read' = Append(read, r.text) /\ known' = Append(known, kn)
             /\ serving' = [serving EXCEPT ![c] = Sent + 1]
             /\ r.text \in Seq(Words) /\ (kn => r.text = s)
             /\ FlushResults(c) /\ SetUseractivitylog(c)
  <2>1. r.text \in Seq(Words)
    BY <1>2, ReadWords
  <2>2. kn => r.text = s
    BY <1>4
  <2>3. QED
    BY <1>5, <2>1, <2>2, Zenon DEF Examine, Send, kn
<1>6. ASSUME Send(c, before, form, FALSE, <<>>, FALSE),
             UNCHANGED <<sql_reslut, outlog, userlog_id>>
      PROVE  /\ sender' = Append(sender, c) /\ seen' = Append(seen, FALSE)
             /\ read' = Append(read, <<>>) /\ known' = Append(known, kn)
             /\ serving' = [serving EXCEPT ![c] = Sent + 1]
             /\ UNCHANGED <<sql_reslut, outlog, userlog_id>>
  BY <1>6, Zenon DEF Send, kn
<1>7. \/ \E r \in ParseStrbyLen(c, s, form) : r.ok /\ Examine(c, before, form, r)
      \/ /\ Send(c, before, form, FALSE, <<>>, FALSE)
         /\ UNCHANGED <<sql_reslut, outlog, userlog_id>>
         /\ ~kn
  <2>1. CASE DecodeTnsData(before, call)
    <3>1. PICK r \in ParseStrbyLen(c, s, form) :
                 IF r.ok THEN Examine(c, before, form, r)
                 ELSE Send(c, before, form, FALSE, <<>>, FALSE)
                      /\ UNCHANGED <<sql_reslut, outlog, userlog_id>>
      BY <2>1, Zenon DEF Statement, s
    <3>2. CASE r.ok
      BY <3>1, <3>2
    <3>3. CASE ~r.ok
      <4>1. ~kn
        BY <1>4, <3>3
      <4>2. QED
        BY <3>1, <3>3, <4>1
    <3>4. QED
      BY <3>2, <3>3
  <2>2. CASE ~DecodeTnsData(before, call)
    BY <1>4, <2>2, Zenon DEF Statement
  <2>3. QED
    BY <2>1, <2>2
<1>8. CASE \E r \in ParseStrbyLen(c, s, form) : r.ok /\ Examine(c, before, form, r)
  <2>1. PICK r \in ParseStrbyLen(c, s, form) : r.ok /\ Examine(c, before, form, r)
    BY <1>8
  <2> WITNESS TRUE \in BOOLEAN
  <2>2. r.text \in Seq(Words)
    BY <1>5, <2>1
  <2> WITNESS r.text \in Seq(Words)
  <2> WITNESS kn \in BOOLEAN
  <2>3. QED
    BY <1>5, <2>1, Zenon DEF s
<1>9. CASE /\ Send(c, before, form, FALSE, <<>>, FALSE)
           /\ UNCHANGED <<sql_reslut, outlog, userlog_id>>
           /\ ~kn
  <2> WITNESS FALSE \in BOOLEAN
  <2> WITNESS <<>> \in Seq(Words)
  <2> WITNESS kn \in BOOLEAN
  <2>1. QED
    BY <1>6, <1>9, Zenon
<1>10. QED
  BY <1>7, <1>8, <1>9
\* The histories are empty at first.
LEMMA InitSeen == FilterInit => SeenInv
<1> SUFFICES ASSUME FilterInit PROVE SeenInv
  OBVIOUS
<1>1. Len(world.text) \in Nat
  BY WorldType DEF FilterInit
<1>2. HistoryTyped
  BY <1>1 DEF FilterInit, HistoryTyped, Sent
<1>3. SeenRight
  BY DEF FilterInit, SeenRight, StatementsSeen, Sent
<1>4. QED
  BY <1>2, <1>3 DEF SeenInv

\* The history of the senders grows by c.
LEMMA Grown ==
  ASSUME HistoryTyped, NEW c \in Conns, sender' = Append(sender, c)
  PROVE  /\ Sent' = Sent + 1 /\ Sent \in Nat /\ sender' \in Seq(Conns)
         /\ sender'[Sent + 1] = c /\ \A k \in 1..Sent : sender'[k] = sender[k]
<1>1. sender \in Seq(Conns) /\ Sent \in Nat
  BY DEF HistoryTyped, Sent
<1>2. QED
  BY <1>1, AppendProperties DEF Sent

\* Every step preserves the histories.
LEMMA NextSeen == FlagInv /\ SeenInv /\ [FilterNext]_filtervars => SeenInv'
<1> SUFFICES ASSUME FlagInv, SeenInv, [FilterNext]_filtervars PROVE SeenInv'
  OBVIOUS
<1>1. CASE UNCHANGED <<world, stmtvars>>
  BY <1>1 DEF SeenInv, HistoryTyped, SeenRight, StatementsSeen, Sent, stmtvars
<1>2. ASSUME NEW c \in Conns, NEW before \in Packets, NEW call,
             NEW form \in {"short", "long"}, Statement(c, before, call, form)
      PROVE  SeenInv'
  <2>1. PICK ok \in BOOLEAN, text \in Seq(Words), kn \in BOOLEAN :
          /\ sender' = Append(sender, c) /\ seen' = Append(seen, ok)
          /\ read' = Append(read, text) /\ known' = Append(known, kn)
          /\ ok \/ text = <<>>
          /\ kn => ok /\ text = world.text[Sent + 1]
    BY <1>2, StatementEffect DEF SeenInv
  <2>2. world' = world /\ Sent < Len(world.text)
    BY <1>2 DEF Statement
  <2>3. Len(world.text) \in Nat
    BY WorldType DEF FlagInv, FlagsTyped
  <2>4. Sent' = Sent + 1 /\ Sent \in Nat /\ sender' \in Seq(Conns)
    BY <2>1, Grown DEF SeenInv
  <2>5. /\ seen' \in Seq(BOOLEAN) /\ Len(seen') = Sent + 1
        /\ seen'[Sent + 1] = ok /\ \A k \in 1..Sent : seen'[k] = seen[k]
    BY <2>1, AppendProperties DEF SeenInv, HistoryTyped
  <2>6. /\ read' \in Seq(Seq(Words)) /\ Len(read') = Sent + 1
        /\ read'[Sent + 1] = text /\ \A k \in 1..Sent : read'[k] = read[k]
    BY <2>1, AppendProperties DEF SeenInv, HistoryTyped
  <2>7. /\ known' \in Seq(BOOLEAN) /\ Len(known') = Sent + 1
        /\ known'[Sent + 1] = kn /\ \A k \in 1..Sent : known'[k] = known[k]
    BY <2>1, AppendProperties DEF SeenInv, HistoryTyped
  <2>8. HistoryTyped'
    BY <2>2, <2>3, <2>4, <2>5, <2>6, <2>7 DEF HistoryTyped
  <2>9. SeenRight'
    <3>1. SUFFICES ASSUME NEW k \in 1..(Sent + 1)
                   PROVE  /\ read'[k] = <<>> \/ seen'[k]
                          /\ known'[k] => seen'[k] /\ read'[k] = world.text[k]
      BY <2>2, <2>4 DEF SeenRight, StatementsSeen
    <3>2. CASE k = Sent + 1
      BY <2>1, <2>5, <2>6, <2>7, <3>2
    <3>3. CASE k \in 1..Sent
      BY <2>5, <2>6, <2>7, <3>3 DEF SeenInv, SeenRight, StatementsSeen
    <3>4. QED
      BY <2>4, <3>2, <3>3
  <2>10. QED
    BY <2>8, <2>9 DEF SeenInv
<1>3. QED
  BY <1>1, <1>2, Zenon
     DEF FilterNext, filtervars, Connect, Banner, Close, StoreRow, Fetch, PrintRow, AnswerEnds

(***************************************************************************)
(* Whose results.                                                          *)
(***************************************************************************)
\* Nothing is in the buffer at first.
LEMMA InitRows == FilterInit => RowInv
<1> SUFFICES ASSUME FilterInit PROVE RowInv
  OBVIOUS
<1>1. Sent = 0
  BY DEF FilterInit, Sent
<1>2. BufferTyped
  BY <1>1 DEF FilterInit, BufferTyped
<1>3. ServedOwn /\ LastExists /\ AuditedLast /\ BufferOwn
  BY <1>1 DEF FilterInit, ServedOwn, LastExists, AuditedLast, BufferOwn
<1>4. RowGood(outlog)
  <2>1. NoRow.pieces = {} /\ NoRow \in [ual : 0..0, pieces : SUBSET Pieces, crossed : BOOLEAN]
    BY DEF NoRow
  <2>2. QED
    BY <1>1, <2>1 DEF FilterInit, RowGood
<1>5. QED
  BY <1>2, <1>3, <1>4 DEF RowInv

\* The buffer, stored by c.
LEMMA BufferGood ==
  ASSUME HistoryTyped, RowInv, world.audit, NEW c \in Conns, NEW x \in BOOLEAN,
         \A d \in Conns \ {c} : inRow[d] => x
  PROVE  RowGood([ual |-> userlog_id[c], pieces |-> sql_reslut, crossed |-> x])
<1> DEFINE o == [ual |-> userlog_id[c], pieces |-> sql_reslut, crossed |-> x]
<1>1. o \in [ual : 0..Sent, pieces : SUBSET Pieces, crossed : BOOLEAN]
  BY DEF RowInv, BufferTyped
<1>2. o.ual = userlog_id[c] /\ o.pieces = sql_reslut /\ o.crossed = x
  OBVIOUS
<1> HIDE DEF o
<1>3. ASSUME NEW p \in sql_reslut
      PROVE  /\ p.stmt \in 1..Sent
             /\ p.kind = "whole" => p.stmt = userlog_id[c] \/ x
             /\ p.kind = "cut" => \/ p.stmt = userlog_id[c] \/ userlog_id[c] = 0
                                 \/ sender[p.stmt] # sender[userlog_id[c]]
  <2>1. p.stmt \in 1..Sent
    BY DEF RowInv, BufferTyped
  <2>2. sender[p.stmt] \in Conns
    BY <2>1 DEF HistoryTyped, Sent
  <2>3. /\ p.kind \in {"whole", "cut"} => p.stmt = userlog_id[sender[p.stmt]]
        /\ p.kind = "whole" => inRow[sender[p.stmt]]
    BY DEF RowInv, BufferOwn
  <2>4. userlog_id[c] # 0 => sender[userlog_id[c]] = c
    BY DEF RowInv, AuditedLast
  <2>5. QED
    BY <2>1, <2>2, <2>3, <2>4
<1>4. QED
  BY <1>1, <1>2, <1>3 DEF RowGood, o

\* A piece that c prints.
LEMMA PieceFacts ==
  ASSUME FlagInv, HistoryTyped, RowInv, NEW c \in Conns, NEW cut \in BOOLEAN, serving[c] # 0
  PROVE  /\ Piece(c, cut) \in Pieces /\ Piece(c, cut).stmt = serving[c]
         /\ serving[c] \in 1..Sent /\ sender[serving[c]] = c
         /\ world.audit /\ Piece(c, cut).kind \in {"whole", "cut"} => serving[c] = userlog_id[c]
         /\ Piece(c, cut).kind = "whole" => ~cut
<1>1. Sent \in Nat /\ Sent <= Len(world.text) /\ Len(world.text) <= MaxStmts /\ MaxStmts \in Nat
      /\ Len(world.text) \in Nat
  BY WorldType DEF HistoryTyped, Sent, FlagInv, FlagsTyped
<1>2. serving[c] \in 1..Sent /\ sender[serving[c]] = c /\ serving[c] \in Stmts
  BY <1>1 DEF RowInv, BufferTyped, ServedOwn, Stmts
<1> DEFINE kind == CASE ~seen[serving[c]] -> "unseen"
                     [] serving[c] # LastOf(c) -> "late"
                     [] OTHER -> IF cut THEN "cut" ELSE "whole"
<1>3. Piece(c, cut) = [stmt |-> serving[c], kind |-> kind]
  BY Zenon DEF Piece
<1>4. /\ seen[serving[c]] /\ serving[c] = LastOf(c) => kind = IF cut THEN "cut" ELSE "whole"
      /\ ~seen[serving[c]] /\ serving[c] = LastOf(c) => kind = "unseen"
      /\ seen[serving[c]] /\ serving[c] # LastOf(c) => kind = "late"
      /\ ~seen[serving[c]] /\ serving[c] # LastOf(c) => kind \in {"unseen", "late"}
  OBVIOUS
<1> HIDE DEF kind
<1>5. /\ kind \in Kinds /\ (kind = "whole" => ~cut)
      /\ kind \in {"whole", "cut"} => seen[serving[c]] /\ serving[c] = LastOf(c)
  BY <1>4 DEF Kinds
<1>6. ASSUME world.audit, seen[serving[c]], serving[c] = LastOf(c)
      PROVE  serving[c] = userlog_id[c]
  <2> DEFINE own == {k \in 1..Sent : sender[k] = c}
             Top(k) == \A j \in own : j <= k
  <2>1. LastOf(c) = IF own = {} THEN 0 ELSE CHOOSE k \in own : Top(k)
    BY Zenon DEF LastOf
  <2>2. serving[c] \in own
    BY <1>2
  <2>3. \E k \in own : Top(k)
    BY <1>2 DEF RowInv, LastExists
  <2>4. Top(LastOf(c))
    BY <2>1, <2>2, <2>3
  <2>5. serving[c] <= userlog_id[c] /\ userlog_id[c] \in 0..Sent
    BY <1>2, <1>6 DEF RowInv, AuditedLast, BufferTyped
  <2>6. userlog_id[c] \in own
    <3>1. userlog_id[c] # 0 => sender[userlog_id[c]] = c
      BY <1>6 DEF RowInv, AuditedLast
    <3>2. userlog_id[c] \in 1..Sent
      BY <1>1, <1>2, <2>5
    <3>3. QED
      BY <3>1, <3>2
  <2>7. userlog_id[c] <= serving[c]
    BY <1>6, <2>4, <2>6
  <2>8. QED
    BY <1>1, <1>2, <2>5, <2>7
<1>7. Piece(c, cut) \in Pieces
  BY <1>2, <1>3, <1>5 DEF Pieces
<1>8. QED
  BY <1>2, <1>3, <1>5, <1>6, <1>7
\* A row that is stored, or not, leaves the last one good.
LEMMA StoredGood ==
  ASSUME RowInv, NEW c \in Conns, NEW pieces, InsertUseractivityoutlog(c, pieces),
         ASSUME NEW x \in BOOLEAN, world.audit, \A d \in Conns \ {c} : inRow[d] => x
         PROVE  RowGood([ual |-> userlog_id[c], pieces |-> pieces, crossed |-> x])
  PROVE  RowGood(outlog')
<1> DEFINE x == \E d \in Conns \ {c} : inRow[d]
<1>1. outlog' = IF world.audit THEN [ual |-> userlog_id[c], pieces |-> pieces, crossed |-> x]
                ELSE outlog
  BY Zenon DEF InsertUseractivityoutlog
<1>2. x \in BOOLEAN /\ \A d \in Conns \ {c} : inRow[d] => x
  OBVIOUS
<1> HIDE DEF x
<1>3. CASE world.audit
  <2>1. RowGood([ual |-> userlog_id[c], pieces |-> pieces, crossed |-> x])
    BY <1>2, <1>3
  <2>2. QED
    BY <1>1, <1>3, <2>1, Zenon
<1>4. CASE ~world.audit
  <2>1. outlog' = outlog
    BY <1>1, <1>4, Zenon
  <2>2. QED
    BY <2>1, Zenon DEF RowInv
<1>5. QED
  BY <1>3, <1>4

\* The buffer is empty after FlushResults.
LEMMA Flushed ==
  ASSUME HistoryTyped, RowInv, NEW c \in Conns, FlushResults(c)
  PROVE  sql_reslut' = {} /\ RowGood(outlog')
<1>1. CASE sql_reslut # {}
  <2>1. InsertUseractivityoutlog(c, sql_reslut) /\ sql_reslut' = {}
    BY <1>1 DEF FlushResults, DBOracleReslut
  <2>2. RowGood(outlog')
    BY <2>1, StoredGood, BufferGood
  <2>3. QED
    BY <2>1, <2>2
<1>2. CASE sql_reslut = {}
  <2>1. sql_reslut' = {} /\ outlog' = outlog
    BY <1>2 DEF FlushResults
  <2>2. QED
    BY <2>1, Zenon DEF RowInv
<1>3. QED
  BY <1>1, <1>2

\* A good row stays good while the senders are the same, or are more.
LEMMA GoodStays ==
  ASSUME RowGood(outlog'), Sent \in Nat, Sent' \in Nat, Sent <= Sent',
         \A k \in 1..Sent : sender'[k] = sender[k]
  PROVE  RowGood(outlog)'
<1>1. outlog' \in [ual : 0..Sent, pieces : SUBSET Pieces, crossed : BOOLEAN]
  BY DEF RowGood
<1>2. outlog'.ual \in 0..Sent
  BY <1>1
<1>3. outlog' \in [ual : 0..Sent', pieces : SUBSET Pieces, crossed : BOOLEAN]
  BY <1>1
<1>4. QED
  BY <1>2, <1>3 DEF RowGood

\* A step of the rows: no statement is sent and no audit row made.
LEMMA SameSenders ==
  ASSUME HistoryTyped, RowInv, UNCHANGED <<world, userlog_id, stmtvars>>,
         BufferTyped', ServedOwn', BufferOwn', RowGood(outlog')
  PROVE  RowInv'
<1>1. Sent' = Sent /\ Sent \in Nat /\ sender' = sender /\ seen' = seen
  BY DEF HistoryTyped, Sent, stmtvars
<1>2. LastExists' /\ AuditedLast'
  BY <1>1 DEF RowInv, LastExists, AuditedLast
<1>3. RowGood(outlog)'
  BY <1>1, GoodStays
<1>4. QED
  BY <1>2, <1>3 DEF RowInv

\* A row is printed to the buffer.
LEMMA PrintRowRows ==
  ASSUME FlagInv, HistoryTyped, RowInv, NEW c \in Conns, NEW cut \in BOOLEAN, PrintRow(c, cut)
  PROVE  RowInv'
<1> DEFINE new == Piece(c, cut)
<1>1. /\ serving[c] # 0 /\ ~inRow[c] /\ sql_reslut' = sql_reslut \cup {new}
      /\ inRow' = [inRow EXCEPT ![c] = ~cut]
      /\ UNCHANGED <<world, userlog_id, serving, stmtvars, outlog>>
  BY DEF PrintRow
<1>2. /\ new \in Pieces /\ new.stmt = serving[c] /\ serving[c] \in 1..Sent
      /\ sender[serving[c]] = c
      /\ world.audit /\ new.kind \in {"whole", "cut"} => serving[c] = userlog_id[c]
      /\ new.kind = "whole" => ~cut
  BY <1>1, PieceFacts
<1> HIDE DEF new
<1>3. Sent' = Sent /\ sender' = sender
  BY <1>1 DEF Sent, stmtvars
<1>4. /\ inRow' \in [Conns -> BOOLEAN] /\ (~cut => inRow'[c])
      /\ \A d \in Conns : d # c => inRow'[d] = inRow[d]
  BY <1>1 DEF RowInv, BufferTyped
<1>5. BufferTyped'
  BY <1>1, <1>2, <1>3, <1>4 DEF RowInv, BufferTyped
<1>6. ServedOwn'
  BY <1>1, <1>3, <1>4 DEF RowInv, ServedOwn
<1>7. BufferOwn'
  <2> SUFFICES ASSUME world.audit, NEW p \in sql_reslut'
               PROVE  /\ p.kind \in {"whole", "cut"} => p.stmt = userlog_id[sender[p.stmt]]
                      /\ p.kind = "whole" => inRow'[sender[p.stmt]]
    BY <1>1, <1>3 DEF BufferOwn
  <2>1. CASE p = new
    BY <1>2, <1>4, <2>1
  <2>2. CASE p \in sql_reslut
    <3>1. sender[p.stmt] \in Conns
      BY <2>2 DEF RowInv, BufferTyped, HistoryTyped, Sent
    <3>2. QED
      BY <1>1, <1>4, <2>2, <3>1 DEF RowInv, BufferOwn
  <2>3. QED
    BY <1>1, <2>1, <2>2
<1>8. RowGood(outlog')
  <2>1. outlog' = outlog
    BY <1>1
  <2>2. QED
    BY <2>1, Zenon DEF RowInv
<1>9. QED
  BY <1>1, <1>5, <1>6, <1>7, <1>8, SameSenders

\* A step after which the buffer is empty.
LEMMA EmptyBuffer ==
  ASSUME HistoryTyped, RowInv, UNCHANGED <<world, userlog_id, stmtvars>>, sql_reslut' = {},
         serving' \in [Conns -> 0..Sent], inRow' \in [Conns -> BOOLEAN],
         \A c \in Conns : serving'[c] # 0 => serving'[c] = serving[c],
         \A c \in Conns : inRow'[c] => inRow[c] /\ serving'[c] = serving[c],
         RowGood(outlog')
  PROVE  RowInv'
<1>1. Sent' = Sent /\ sender' = sender
  BY DEF Sent, stmtvars
<1>2. BufferTyped'
  BY <1>1 DEF RowInv, BufferTyped
<1>3. ServedOwn'
  BY <1>1 DEF RowInv, ServedOwn
<1>4. BufferOwn'
  BY DEF BufferOwn
<1>5. QED
  BY <1>2, <1>3, <1>4, SameSenders

\* The end of a row, and the end of a connection.
LEMMA StoreRows ==
  ASSUME HistoryTyped, RowInv, NEW c \in Conns, StoreRow(c) \/ Close(c)
  PROVE  RowInv'
<1>1. FlushResults(c) /\ serving' = serving /\ UNCHANGED <<world, userlog_id, stmtvars>>
  BY DEF StoreRow, Close
<1>2. sql_reslut' = {} /\ RowGood(outlog')
  BY <1>1, Flushed
<1>3. inRow' = [inRow EXCEPT ![c] = FALSE] \/ inRow' = inRow
  BY DEF StoreRow, Close
<1>4. inRow' \in [Conns -> BOOLEAN] /\ \A d \in Conns : inRow'[d] => inRow[d]
  BY <1>3 DEF RowInv, BufferTyped
<1>5. serving' \in [Conns -> 0..Sent]
  BY <1>1 DEF RowInv, BufferTyped
<1>6. QED
  BY <1>1, <1>2, <1>4, <1>5, EmptyBuffer

\* A message that is stored alone.
LEMMA MessageGood ==
  ASSUME FlagInv, HistoryTyped, RowInv, world.audit, NEW c \in Conns, serving[c] # 0,
         NEW x \in BOOLEAN
  PROVE  RowGood([ual |-> userlog_id[c], pieces |-> {Piece(c, FALSE)}, crossed |-> x])
<1> DEFINE new == Piece(c, FALSE)
           o == [ual |-> userlog_id[c], pieces |-> {new}, crossed |-> x]
<1>1. /\ new \in Pieces /\ new.stmt = serving[c] /\ serving[c] \in 1..Sent
      /\ new.kind \in {"whole", "cut"} => serving[c] = userlog_id[c]
  BY PieceFacts
<1> HIDE DEF new
<1>2. o \in [ual : 0..Sent, pieces : SUBSET Pieces, crossed : BOOLEAN]
  BY <1>1 DEF RowInv, BufferTyped
<1>3. o.ual = userlog_id[c] /\ o.pieces = {new}
  OBVIOUS
<1> HIDE DEF o
<1>4. RowGood(o)
  BY <1>1, <1>2, <1>3 DEF RowGood
<1>5. QED
  BY <1>4 DEF o, new

\* The end of an answer.
LEMMA AnswerRows ==
  ASSUME FlagInv, HistoryTyped, RowInv, NEW c \in Conns, NEW message, AnswerEnds(c, message)
  PROVE  RowInv'
<1>1. /\ serving[c] # 0 /\ ~inRow[c] /\ serving' = [serving EXCEPT ![c] = 0]
      /\ UNCHANGED <<world, userlog_id, inRow, stmtvars>>
  BY DEF AnswerEnds
<1>2. /\ serving' \in [Conns -> 0..Sent] /\ serving'[c] = 0
      /\ \A d \in Conns : d # c => serving'[d] = serving[d]
  BY <1>1 DEF RowInv, BufferTyped, HistoryTyped, Sent
<1>3. inRow' \in [Conns -> BOOLEAN]
  BY <1>1 DEF RowInv, BufferTyped
<1>4. CASE UNCHANGED <<sql_reslut, outlog>>
  <2>1. Sent' = Sent /\ sender' = sender
    BY <1>1 DEF Sent, stmtvars
  <2>2. BufferTyped'
    BY <1>1, <1>2, <1>3, <1>4, <2>1 DEF RowInv, BufferTyped
  <2>3. ServedOwn'
    BY <1>1, <1>2, <2>1 DEF RowInv, ServedOwn
  <2>4. BufferOwn'
    BY <1>1, <1>4, <2>1 DEF RowInv, BufferOwn
  <2>5. RowGood(outlog')
    <3>1. outlog' = outlog
      BY <1>4
    <3>2. QED
      BY <3>1, Zenon DEF RowInv
  <2>6. QED
    BY <1>1, <2>2, <2>3, <2>4, <2>5, SameSenders
<1>5. CASE DBOracleReslut(c, sql_reslut) \/ DBOracleReslut(c, {Piece(c, FALSE)})
  <2>1. sql_reslut' = {}
    BY <1>5 DEF DBOracleReslut
  <2>2. RowGood(outlog')
    <3>1. CASE InsertUseractivityoutlog(c, sql_reslut)
      BY <3>1, StoredGood, BufferGood
    <3>2. CASE InsertUseractivityoutlog(c, {Piece(c, FALSE)})
      BY <1>1, <3>2, StoredGood, MessageGood
    <3>3. QED
      BY <1>5, <3>1, <3>2 DEF DBOracleReslut
  <2>3. \A d \in Conns : /\ serving'[d] # 0 => serving'[d] = serving[d]
                         /\ inRow'[d] => inRow[d] /\ serving'[d] = serving[d]
    BY <1>1, <1>2
  <2>4. QED
    BY <1>1, <1>2, <1>3, <2>1, <2>2, <2>3, EmptyBuffer
<1>6. \/ UNCHANGED <<sql_reslut, outlog>>
      \/ DBOracleReslut(c, sql_reslut) \/ DBOracleReslut(c, {Piece(c, FALSE)})
  BY Zenon DEF AnswerEnds
<1>7. QED
  BY <1>4, <1>5, <1>6
\* More rows of an open cursor.
LEMMA FetchRows ==
  ASSUME HistoryTyped, RowInv, NEW c \in Conns, NEW k, Fetch(c, k)
  PROVE  RowInv'
<1>1. /\ k \in 1..Sent /\ sender[k] = c /\ serving' = [serving EXCEPT ![c] = k]
      /\ UNCHANGED <<world, userlog_id, inRow, stmtvars, sql_reslut, outlog>>
  BY DEF Fetch
<1>2. Sent' = Sent /\ sender' = sender /\ Sent \in Nat
  BY <1>1 DEF HistoryTyped, Sent, stmtvars
<1>3. /\ serving' \in [Conns -> 0..Sent] /\ serving'[c] = k /\ k # 0
      /\ \A d \in Conns : d # c => serving'[d] = serving[d]
  BY <1>1, <1>2 DEF RowInv, BufferTyped
<1>4. BufferTyped'
  BY <1>1, <1>2, <1>3 DEF RowInv, BufferTyped
<1>5. ServedOwn'
  BY <1>1, <1>2, <1>3 DEF RowInv, ServedOwn
<1>6. BufferOwn'
  BY <1>1, <1>2 DEF RowInv, BufferOwn
<1>7. RowGood(outlog')
  <2>1. outlog' = outlog
    BY <1>1
  <2>2. QED
    BY <2>1, Zenon DEF RowInv
<1>8. QED
  BY <1>1, <1>4, <1>5, <1>6, <1>7, SameSenders

\* A statement: the results of the one before are stored before its audit row is made.
LEMMA StatementRows ==
  ASSUME FlagInv, HistoryTyped, RowInv, NEW c \in Conns, NEW before \in Packets, NEW call,
         NEW form \in {"short", "long"}, Statement(c, before, call, form)
  PROVE  RowInv'
<1>1. PICK ok \in BOOLEAN :
        /\ sender' = Append(sender, c) /\ seen' = Append(seen, ok)
        /\ serving' = [serving EXCEPT ![c] = Sent + 1]
        /\ \/ ok /\ FlushResults(c) /\ SetUseractivitylog(c)
           \/ ~ok /\ UNCHANGED <<sql_reslut, outlog, userlog_id>>
  BY StatementEffect
<1>2. world' = world /\ inRow' = inRow
  BY DEF Statement
<1>3. /\ Sent' = Sent + 1 /\ Sent \in Nat /\ sender' \in Seq(Conns)
      /\ sender'[Sent + 1] = c /\ \A k \in 1..Sent : sender'[k] = sender[k]
  BY <1>1, Grown
<1>4. seen'[Sent + 1] = ok /\ \A k \in 1..Sent : seen'[k] = seen[k]
  BY <1>1, AppendProperties DEF HistoryTyped
<1>5. /\ serving' \in [Conns -> 0..(Sent + 1)] /\ serving'[c] = Sent + 1
      /\ \A d \in Conns : d # c => serving'[d] = serving[d]
  BY <1>1, <1>3 DEF RowInv, BufferTyped
<1>6. ServedOwn'
  <2> SUFFICES ASSUME NEW d \in Conns
               PROVE  /\ serving'[d] # 0 => sender'[serving'[d]] = d
                      /\ inRow'[d] => serving'[d] # 0
    BY DEF ServedOwn
  <2>1. CASE d = c
    BY <1>3, <1>5, <2>1
  <2>2. CASE d # c
    <3>1. serving[d] \in 0..Sent
      BY DEF RowInv, BufferTyped
    <3>2. QED
      BY <1>2, <1>3, <1>5, <2>2, <3>1 DEF RowInv, ServedOwn
  <2>3. QED
    BY <2>1, <2>2
<1>7. LastExists'
  <2> SUFFICES ASSUME NEW d \in Conns, NEW k \in 1..(Sent + 1), sender'[k] = d
               PROVE  \E m \in 1..(Sent + 1) :
                        /\ sender'[m] = d
                        /\ \A j \in 1..(Sent + 1) : sender'[j] = d => j <= m
    BY <1>3 DEF LastExists
  <2>1. CASE d = c
    BY <1>3, <2>1
  <2>2. CASE d # c
    <3>1. k \in 1..Sent /\ sender[k] = d
      BY <1>3, <2>2
    <3>2. PICK m \in 1..Sent : sender[m] = d /\ \A j \in 1..Sent : sender[j] = d => j <= m
      BY <3>1 DEF RowInv, LastExists
    <3>3. m \in 1..(Sent + 1) /\ sender'[m] = d
      BY <1>3, <3>2
    <3>4. ASSUME NEW j \in 1..(Sent + 1), sender'[j] = d PROVE j <= m
      <4>1. j \in 1..Sent
        BY <1>3, <2>2, <3>4
      <4>2. QED
        BY <1>3, <3>2, <3>4, <4>1
    <3>5. QED
      BY <3>3, <3>4
  <2>3. QED
    BY <2>1, <2>2
<1>8. CASE ok /\ FlushResults(c) /\ SetUseractivitylog(c)
  <2>1. sql_reslut' = {} /\ RowGood(outlog')
    BY <1>8, Flushed
  <2>2. RowGood(outlog)'
    BY <1>3, <2>1, GoodStays
  <2>3. userlog_id' = IF world.audit THEN [userlog_id EXCEPT ![c] = Sent + 1] ELSE userlog_id
    BY <1>8 DEF SetUseractivitylog
  <2>4. userlog_id' \in [Conns -> 0..(Sent + 1)]
    BY <1>3, <2>3 DEF RowInv, BufferTyped
  <2>5. BufferTyped'
    BY <1>2, <1>3, <1>5, <2>1, <2>4 DEF RowInv, BufferTyped
  <2>6. BufferOwn'
    BY <2>1 DEF BufferOwn
  <2>7. AuditedLast'
    <3> SUFFICES ASSUME world.audit, NEW d \in Conns
                 PROVE  /\ userlog_id'[d] # 0 => sender'[userlog_id'[d]] = d
                        /\ \A k \in 1..(Sent + 1) :
                             sender'[k] = d /\ seen'[k] => k <= userlog_id'[d]
      BY <1>2, <1>3 DEF AuditedLast
    <3>1. CASE d = c
      <4>1. userlog_id'[c] = Sent + 1
        BY <2>3 DEF RowInv, BufferTyped
      <4>2. QED
        BY <1>3, <3>1, <4>1
    <3>2. CASE d # c
      <4>1. userlog_id'[d] = userlog_id[d] /\ userlog_id[d] \in 0..Sent
        BY <2>3, <3>2 DEF RowInv, BufferTyped
      <4>2. /\ userlog_id[d] # 0 => sender[userlog_id[d]] = d
            /\ \A k \in 1..Sent : sender[k] = d /\ seen[k] => k <= userlog_id[d]
        BY DEF RowInv, AuditedLast
      <4>3. QED
        BY <1>3, <1>4, <3>2, <4>1, <4>2
    <3>3. QED
      BY <3>1, <3>2
  <2>8. QED
    BY <1>6, <1>7, <2>2, <2>5, <2>6, <2>7 DEF RowInv
<1>9. CASE ~ok /\ UNCHANGED <<sql_reslut, outlog, userlog_id>>
  <2>1. RowGood(outlog)'
    <3>1. outlog' = outlog
      BY <1>9
    <3>2. RowGood(outlog')
      BY <3>1, Zenon DEF RowInv
    <3>3. QED
      BY <1>3, <3>2, GoodStays
  <2>2. BufferTyped'
    <3>1. userlog_id' \in [Conns -> 0..(Sent + 1)]
      BY <1>3, <1>9 DEF RowInv, BufferTyped
    <3>2. \A p \in sql_reslut : p.stmt \in 1..(Sent + 1)
      BY <1>3 DEF RowInv, BufferTyped
    <3>3. QED
      BY <1>2, <1>3, <1>5, <1>9, <3>1, <3>2 DEF RowInv, BufferTyped
  <2>3. BufferOwn'
    <3>1. \A p \in sql_reslut : sender'[p.stmt] = sender[p.stmt]
      BY <1>3 DEF RowInv, BufferTyped
    <3>2. QED
      BY <1>2, <1>9, <3>1 DEF RowInv, BufferOwn
  <2>4. AuditedLast'
    <3> SUFFICES ASSUME world.audit, NEW d \in Conns
                 PROVE  /\ userlog_id[d] # 0 => sender'[userlog_id[d]] = d
                        /\ \A k \in 1..(Sent + 1) :
                             sender'[k] = d /\ seen'[k] => k <= userlog_id[d]
      BY <1>2, <1>3, <1>9 DEF AuditedLast
    <3>1. userlog_id[d] \in 0..Sent
      BY DEF RowInv, BufferTyped
    <3>2. /\ userlog_id[d] # 0 => sender[userlog_id[d]] = d
          /\ \A k \in 1..Sent : sender[k] = d /\ seen[k] => k <= userlog_id[d]
      BY DEF RowInv, AuditedLast
    <3>3. ~seen'[Sent + 1]
      BY <1>4, <1>9
    <3>4. QED
      BY <1>3, <1>4, <3>1, <3>2, <3>3
  <2>5. QED
    BY <1>6, <1>7, <2>1, <2>2, <2>3, <2>4 DEF RowInv
<1>10. QED
  BY <1>1, <1>8, <1>9

\* Every step preserves the rows.
LEMMA NextRows ==
  ASSUME FlagInv, SeenInv, RowInv, [FilterNext]_filtervars
  PROVE  RowInv'
<1>0. HistoryTyped
  BY DEF SeenInv
<1>1. CASE UNCHANGED <<world, sql_reslut, userlog_id, serving, inRow, stmtvars, outlog>>
  <2>1. UNCHANGED <<world, userlog_id, stmtvars>> /\ outlog' = outlog
    BY <1>1
  <2>2. Sent' = Sent /\ sender' = sender
    BY <1>1 DEF Sent, stmtvars
  <2>3. BufferTyped' /\ ServedOwn' /\ BufferOwn'
    BY <1>1, <2>2 DEF RowInv, BufferTyped, ServedOwn, BufferOwn
  <2>4. RowGood(outlog')
    BY <2>1, Zenon DEF RowInv
  <2>5. QED
    BY <1>0, <2>1, <2>3, <2>4, SameSenders
<1>2. ASSUME NEW c \in Conns, StoreRow(c) \/ Close(c) PROVE RowInv'
  BY <1>0, <1>2, StoreRows
<1>3. ASSUME NEW c \in Conns, NEW before \in Packets, NEW call,
             NEW form \in {"short", "long"}, Statement(c, before, call, form)
      PROVE  RowInv'
  BY <1>0, <1>3, StatementRows
<1>4. ASSUME NEW c \in Conns, NEW k, Fetch(c, k) PROVE RowInv'
  BY <1>0, <1>4, FetchRows
<1>5. ASSUME NEW c \in Conns, NEW cut \in BOOLEAN, PrintRow(c, cut) PROVE RowInv'
  BY <1>0, <1>5, PrintRowRows
<1>6. ASSUME NEW c \in Conns, NEW message, AnswerEnds(c, message) PROVE RowInv'
  BY <1>0, <1>6, AnswerRows
<1>7. ASSUME NEW c \in Conns, Connect(c) \/ Banner(c) PROVE RowInv'
  BY <1>1, <1>7 DEF Connect, Banner
<1>8. QED
  BY <1>1, <1>2, <1>3, <1>4, <1>5, <1>6, <1>7, Zenon DEF FilterNext, filtervars

-----------------------------------------------------------------------------
(* Induction over data, from the library's theorem that the natural numbers are well
   ordered. *)

\* A set of natural numbers has a least member.
LEMMA Least ==
  ASSUME NEW T, T \subseteq Nat, T # {}
  PROVE  \E x \in T : \A y \in T : x <= y
<1> DEFINE R == {ss \in Nat \X Nat : ss[1] < ss[2]}
<1>1. IsWellFoundedOn(R, Nat)
  BY NatLessThanWellFounded DEF OpToRel
<1>2. \E x \in T : \A y \in T : ~(<<y, x>> \in R)
  <2> HIDE DEF R
  <2>1. QED
    BY <1>1, WFMin
<1>3. ASSUME NEW x \in Nat, NEW y \in Nat, ~(<<y, x>> \in R) PROVE x <= y
  BY <1>3
<1>4. QED
  BY <1>2, <1>3

\* A set that has 0, and with a number the next one, has all natural numbers.
LEMMA Induct ==
  ASSUME NEW S, 0 \in S, \A n \in Nat : n \in S => n + 1 \in S
  PROVE  \A n \in Nat : n \in S
<1> DEFINE T == {n \in Nat : n \notin S}
<1>1. ASSUME T # {} PROVE FALSE
  <2>1. PICK x \in T : \A y \in T : x <= y
    BY <1>1, Least
  <2>2. x # 0 /\ x - 1 \in Nat /\ x - 1 \notin T
    BY <2>1
  <2>3. (x - 1) + 1 \in S
    BY <2>2
  <2>4. QED
    BY <2>1, <2>3
<1>2. QED
  BY <1>1

-----------------------------------------------------------------------------
(* The parts of a statement. *)

\* Front finds the first verb from the place b on.
LEMMA FrontFirst ==
  ASSUME NEW s \in Seq(Words), NEW b \in 1..(Len(s) + 1)
  PROVE  /\ Front(s, b) \in b..(Len(s) + 1)
         /\ \A k \in b..(Front(s, b) - 1) : s[k] \notin Verbs
         /\ Front(s, b) <= Len(s) => s[Front(s, b)] \in Verbs
<1> DEFINE at == {k \in b..Len(s) : s[k] \in Verbs}
<1>1. CASE at = {}
  <2>1. Front(s, b) = Len(s) + 1
    BY <1>1 DEF Front
  <2>2. QED
    BY <1>1, <2>1
<1>2. CASE at # {}
  <2>1. at \subseteq Nat
    OBVIOUS
  <2>2. \E k \in at : \A j \in at : k <= j
    BY <1>2, <2>1, Least
  <2>3. Front(s, b) = CHOOSE k \in at : \A j \in at : k <= j
    BY <1>2 DEF Front
  <2>4. Front(s, b) \in at /\ \A j \in at : Front(s, b) <= j
    <3> HIDE DEF at
    <3>1. QED
      BY <2>2, <2>3
  <2>5. QED
    BY <2>4
<1>3. QED
  BY <1>1, <1>2

\* strsplit's loop at the place b, with the parts from a later place on in f.
SplitAt(s, f, b) ==
  IF b > Len(s) THEN <<>>
  ELSE LET e == Front(s, b)
       IN  (IF e > b THEN <<SubSeq(s, b, e - 1)>> ELSE <<>>)
           \o (IF e > Len(s) THEN <<<<>>>> ELSE <<<<s[e]>>>> \o f[e + 1])

\* It looks at later places only.
LEMMA SplitLater ==
  ASSUME NEW s \in Seq(Words), NEW b \in 1..(Len(s) + 1), NEW f, NEW g,
         \A e \in (b + 1)..(Len(s) + 1) : f[e] = g[e]
  PROVE  SplitAt(s, f, b) = SplitAt(s, g, b)
<1>1. CASE b > Len(s)
  BY <1>1 DEF SplitAt
<1>2. CASE ~(b > Len(s))
  <2>1. Front(s, b) <= Len(s) => f[Front(s, b) + 1] = g[Front(s, b) + 1]
    BY FrontFirst
  <2>2. ~(Front(s, b) > Len(s)) => Front(s, b) <= Len(s)
    BY FrontFirst
  <2>3. QED
    BY <1>2, <2>1, <2>2, Zenon DEF SplitAt
<1>3. QED
  BY <1>1, <1>2

\* So there are functions that satisfy its equation,
LEMMA SplitExists ==
  ASSUME NEW s \in Seq(Words)
  PROVE  \E f : f = [b \in 1..(Len(s) + 1) |-> SplitAt(s, f, b)]
<1> DEFINE L == Len(s)
           Solves(f, m) == f = [b \in (L + 1 - m)..(L + 1) |-> SplitAt(s, f, b)]
           S == {m \in Nat : m <= L => \E f : Solves(f, m)}
<1>0. L \in Nat
  OBVIOUS
<1>1. 0 \in S
  <2> DEFINE f == [b \in (L + 1 - 0)..(L + 1) |-> <<>>]
  <2>1. \A b \in (L + 1 - 0)..(L + 1) : SplitAt(s, f, b) = <<>>
    BY DEF SplitAt
  <2>2. Solves(f, 0)
    BY <2>1
  <2>3. QED
    BY <2>2, Zenon
<1>2. ASSUME NEW m \in Nat, m \in S PROVE m + 1 \in S
  <2> SUFFICES ASSUME m + 1 <= L PROVE \E f : Solves(f, m + 1)
    OBVIOUS
  <2>1. PICK f : Solves(f, m)
    BY <1>0, <1>2
  <2> DEFINE D == (L + 1 - (m + 1))..(L + 1)
             g == [b \in D |-> IF b = L - m THEN SplitAt(s, f, b) ELSE f[b]]
  <2>2. \A b \in D : b \in 1..(L + 1) /\ (b = L - m \/ b \in (L + 1 - m)..(L + 1))
    BY <1>0
  <2>3. \A b \in D : b # L - m => g[b] = f[b]
    OBVIOUS
  <2>4. ASSUME NEW b \in D PROVE g[b] = SplitAt(s, g, b)
    <3>1. g[b] = SplitAt(s, f, b)
      <4>1. CASE b = L - m
        BY <4>1
      <4>2. CASE b # L - m
        BY <2>1, <2>2, <4>2, Zenon
      <4>3. QED
        BY <4>1, <4>2
    <3>2. \A e \in (b + 1)..(Len(s) + 1) : f[e] = g[e]
      BY <1>0, <2>3
    <3>3. QED
      <4> HIDE DEF g
      <4>1. QED
        BY <2>2, <3>1, <3>2, SplitLater
  <2>5. Solves(g, m + 1)
    BY <2>4, Zenon
  <2>6. QED
    BY <2>5, Zenon
<1>3. L \in S
  <2> HIDE DEF S
  <2>1. QED
    BY <1>0, <1>1, <1>2, Induct
<1>4. PICK f : Solves(f, L)
  BY <1>0, <1>3
<1>5. (L + 1 - L)..(L + 1) = 1..(L + 1)
  BY <1>0
<1>6. QED
  BY <1>4, <1>5, Zenon

\* and strsplit is the value of one of them.
LEMMA SplitSolves ==
  ASSUME NEW s \in Seq(Words)
  PROVE  \E f : /\ \A b \in 1..(Len(s) + 1) : f[b] = SplitAt(s, f, b)
                /\ strsplit(s) = f[1]
<1> DEFINE F == CHOOSE f : f = [b \in 1..(Len(s) + 1) |-> SplitAt(s, f, b)]
<1>1. F = [b \in 1..(Len(s) + 1) |-> SplitAt(s, F, b)]
  BY SplitExists, Zenon
<1>2. strsplit(s) = F[1]
  BY Zenon DEF strsplit, SplitAt
<1>3. \A b \in 1..(Len(s) + 1) : F[b] = SplitAt(s, F, b)
  BY <1>1, Zenon
<1>4. QED
  BY <1>2, <1>3, Zenon

\* The command in one part, the table in the next.
Pairs(p, cmd, t) == \E i \in 1..(Len(p) - 1) : Has(p[i], cmd) /\ Has(p[i + 1], t)

\* One more part in front.
LEMMA PairCons ==
  ASSUME NEW x \in Seq(Words), NEW R \in Seq(Seq(Words)), NEW cmd, NEW t
  PROVE  LET p == <<x>> \o R
         IN  /\ p \in Seq(Seq(Words)) /\ p # <<>> /\ p[1] = x
             /\ Pairs(p, cmd, t) <=> \/ R # <<>> /\ Has(x, cmd) /\ Has(R[1], t)
                                     \/ Pairs(R, cmd, t)
<1> DEFINE p == <<x>> \o R
<1>1. <<x>> \in Seq(Seq(Words)) /\ Len(<<x>>) = 1 /\ <<x>>[1] = x
  OBVIOUS
<1>2. /\ p \in Seq(Seq(Words)) /\ Len(p) = Len(R) + 1 /\ p[1] = x
      /\ \A j \in 1..Len(R) : p[j + 1] = R[j]
  <2>1. /\ p \in Seq(Seq(Words)) /\ Len(p) = Len(<<x>>) + Len(R)
        /\ \A i \in 1..(Len(<<x>>) + Len(R)) :
             p[i] = IF i <= Len(<<x>>) THEN <<x>>[i] ELSE R[i - Len(<<x>>)]
    BY <1>1, ConcatProperties, Zenon
  <2> HIDE DEF p
  <2>2. Len(R) \in Nat
    OBVIOUS
  <2>3. QED
    BY <1>1, <2>1, <2>2
<1> HIDE DEF p
<1>3. Len(R) \in Nat /\ (R # <<>> <=> Len(R) >= 1)
  OBVIOUS
<1>31. Len(p) - 1 = Len(R)
  BY <1>2, <1>3
<1>4. ASSUME Pairs(p, cmd, t)
      PROVE  (R # <<>> /\ Has(x, cmd) /\ Has(R[1], t)) \/ Pairs(R, cmd, t)
  <2>1. PICK i \in 1..Len(R) : Has(p[i], cmd) /\ Has(p[i + 1], t)
    BY <1>4, <1>31, Zenon DEF Pairs
  <2>2. CASE i = 1
    BY <1>2, <1>3, <2>1, <2>2
  <2>3. CASE i # 1
    <3>0. i - 1 \in 1..Len(R)
      BY <1>3, <2>3
    <3>2. (i - 1) + 1 = i /\ i - 1 \in 1..(Len(R) - 1)
      BY <1>3, <2>3
    <3>1. p[(i - 1) + 1] = R[i - 1] /\ p[i + 1] = R[i]
      BY <1>2, <3>0, Zenon
    <3>3. p[i] = R[i - 1] /\ R[i] = R[(i - 1) + 1]
      BY <3>1, <3>2
    <3>4. Has(R[i - 1], cmd) /\ Has(R[(i - 1) + 1], t)
      BY <2>1, <3>1, <3>3
    <3>5. QED
      BY <3>2, <3>4, Zenon DEF Pairs
  <2>4. QED
    BY <2>2, <2>3
<1>5. ASSUME R # <<>>, Has(x, cmd), Has(R[1], t) PROVE Pairs(p, cmd, t)
  <2>1. 1 \in 1..(Len(p) - 1) /\ p[1] = x /\ p[1 + 1] = R[1]
    BY <1>2, <1>3, <1>5
  <2>2. QED
    BY <1>5, <2>1, Zenon DEF Pairs
<1>6. ASSUME Pairs(R, cmd, t) PROVE Pairs(p, cmd, t)
  <2>1. PICK i \in 1..(Len(R) - 1) : Has(R[i], cmd) /\ Has(R[i + 1], t)
    BY <1>6 DEF Pairs
  <2>2. i + 1 \in 1..(Len(p) - 1) /\ p[i + 1] = R[i] /\ p[(i + 1) + 1] = R[i + 1]
    BY <1>2, <1>3
  <2>3. QED
    BY <2>1, <2>2, Zenon DEF Pairs
<1>7. QED
  BY <1>2, <1>3, <1>4, <1>5, <1>6 DEF p

\* A verb and a table after it before the next verb, from the place b on.
Follows(s, b, cmd, t) ==
  \E v, k \in b..Len(s) : /\ v < k /\ s[v] = cmd /\ s[k] = t
                          /\ \A j \in (v + 1)..k : s[j] \notin Verbs

\* What the parts from the place b on say of the command and the table.
PartsGood(s, f, b, cmd, t) ==
  /\ f[b] \in Seq(Seq(Words))
  /\ Pairs(f[b], cmd, t) <=> cmd \in Verbs /\ Follows(s, b, cmd, t)
  /\ b > Len(s) => f[b] = <<>>
  /\ b <= Len(s) => /\ f[b] # <<>>
                    /\ Has(f[b][1], t) <=> \E k \in b..(Front(s, b) - 1) : s[k] = t

\* The parts from the first verb on.
LEMMA TailGood ==
  ASSUME NEW s \in Seq(Words), NEW b \in 1..Len(s), NEW f,
         NEW cmd \in Verbs \cup Others, NEW t \in Tables,
         \A e \in (b + 1)..(Len(s) + 1) : PartsGood(s, f, e, cmd, t)
  PROVE  LET e == Front(s, b)
             T == IF e > Len(s) THEN <<<<>>>> ELSE <<<<s[e]>>>> \o f[e + 1]
         IN  /\ T \in Seq(Seq(Words)) /\ T # <<>> /\ ~Has(T[1], t)
             /\ Pairs(T, cmd, t) <=> cmd \in Verbs /\ Follows(s, b, cmd, t)
<1> DEFINE e == Front(s, b)
           T == IF e > Len(s) THEN <<<<>>>> ELSE <<<<s[e]>>>> \o f[e + 1]
<1>1. /\ e \in b..(Len(s) + 1)
      /\ \A k \in b..(e - 1) : s[k] \notin Verbs
      /\ e <= Len(s) => s[e] \in Verbs
  BY FrontFirst
<1>2. Len(s) \in Nat /\ \A k \in 1..Len(s) : s[k] \in Words
  OBVIOUS
<1> HIDE DEF e
<1>3. CASE e > Len(s)
  <2>1. T = <<<<>>>>
    BY <1>3, Zenon
  <2>2. T \in Seq(Seq(Words)) /\ Len(T) = 1 /\ T[1] = <<>> /\ T # <<>>
    <3> DEFINE y == <<>>
    <3>1. y \in Seq(Words) /\ y = <<>>
      OBVIOUS
    <3> HIDE DEF y, T
    <3>2. T = <<y>>
      BY <2>1 DEF y
    <3>3. QED
      BY <3>1, <3>2
  <2>3. ~Has(T[1], t) /\ ~Pairs(T, cmd, t)
    BY <2>2 DEF Has, Pairs
  <2>4. ~(cmd \in Verbs /\ Follows(s, b, cmd, t))
    BY <1>1, <1>2, <1>3 DEF Follows
  <2>5. QED
    BY <2>2, <2>3, <2>4 DEF e
<1>4. CASE ~(e > Len(s))
  <2> DEFINE R == f[e + 1]
             x == <<s[e]>>
             T1 == <<x>> \o R
  <2>1. T = T1
    BY <1>4, Zenon
  <2>2. e \in 1..Len(s) /\ e >= b /\ e + 1 \in (b + 1)..(Len(s) + 1) /\ s[e] \in Verbs
    BY <1>1, <1>2, <1>4
  <2>3. PartsGood(s, f, e + 1, cmd, t)
    BY <2>2
  <2>4. x \in Seq(Words) /\ (\A y : Has(x, y) <=> s[e] = y)
    <3>1. s[e] \in Words
      BY <2>2
    <3>2. QED
      BY <3>1 DEF Has
  <2>5. R \in Seq(Seq(Words))
    BY <2>3 DEF PartsGood
  <2>6. /\ T1 \in Seq(Seq(Words)) /\ T1 # <<>> /\ T1[1] = x
        /\ Pairs(T1, cmd, t) <=> (R # <<>> /\ Has(x, cmd) /\ Has(R[1], t)) \/ Pairs(R, cmd, t)
    <3> HIDE DEF x, R
    <3>1. QED
      BY <2>4, <2>5, PairCons
  <2>7. ~Has(T1[1], t)
    BY <2>2, <2>4, <2>6, WordsDisjoint
  <2>8. Pairs(R, cmd, t) <=> cmd \in Verbs /\ Follows(s, e + 1, cmd, t)
    BY <2>3 DEF PartsGood
  <2>9. R # <<>> /\ Has(R[1], t) <=>
          e + 1 <= Len(s) /\ \E k \in (e + 1)..(Front(s, e + 1) - 1) : s[k] = t
    BY <1>2, <2>2, <2>3 DEF PartsGood
  <2> DEFINE g == Front(s, e + 1)
  <2>10. /\ g \in (e + 1)..(Len(s) + 1)
         /\ \A k \in (e + 1)..(g - 1) : s[k] \notin Verbs
         /\ g <= Len(s) => s[g] \in Verbs
    BY <1>2, <2>2, FrontFirst
  <2> HIDE DEF g, R, x, T1, T
  <2>11. ASSUME cmd \in Verbs, Follows(s, b, cmd, t)
         PROVE  (R # <<>> /\ Has(x, cmd) /\ Has(R[1], t)) \/ Pairs(R, cmd, t)
    <3>1. PICK v \in b..Len(s), k \in b..Len(s) :
                 /\ v < k /\ s[v] = cmd /\ s[k] = t
                 /\ \A j \in (v + 1)..k : s[j] \notin Verbs
      BY <2>11 DEF Follows
    <3>2. v >= e
      BY <1>1, <1>2, <2>2, <2>11, <3>1
    <3>3. CASE v = e
      <4>1. k <= g - 1
        BY <1>2, <2>2, <2>10, <3>1, <3>3
      <4>2. e + 1 <= Len(s) /\ k \in (e + 1)..(g - 1)
        BY <1>2, <2>2, <2>10, <3>1, <3>3, <4>1
      <4>3. R # <<>> /\ Has(R[1], t)
        BY <2>9, <3>1, <4>2 DEF g
      <4>4. QED
        BY <2>4, <3>1, <3>3, <4>3
    <3>4. CASE v > e
      <4>1. v \in (e + 1)..Len(s) /\ k \in (e + 1)..Len(s)
        BY <1>2, <2>2, <3>1, <3>4
      <4>2. Follows(s, e + 1, cmd, t)
        BY <3>1, <4>1 DEF Follows
      <4>3. QED
        BY <2>8, <2>11, <4>2
    <3>5. QED
      BY <1>2, <2>2, <3>1, <3>2, <3>3, <3>4
  <2>12. ASSUME R # <<>>, Has(x, cmd), Has(R[1], t)
         PROVE  cmd \in Verbs /\ Follows(s, b, cmd, t)
    <3>1. s[e] = cmd /\ cmd \in Verbs
      BY <2>2, <2>4, <2>12
    <3>2. PICK k \in (e + 1)..(g - 1) : s[k] = t
      BY <2>9, <2>12 DEF g
    <3>3. /\ e \in b..Len(s) /\ k \in b..Len(s) /\ e < k
          /\ \A j \in (e + 1)..k : s[j] \notin Verbs
      BY <1>2, <2>2, <2>10, <3>2
    <3>4. QED
      BY <3>1, <3>2, <3>3 DEF Follows
  <2>13. ASSUME Pairs(R, cmd, t) PROVE cmd \in Verbs /\ Follows(s, b, cmd, t)
    <3>1. cmd \in Verbs /\ Follows(s, e + 1, cmd, t)
      BY <2>8, <2>13
    <3>2. PICK v \in (e + 1)..Len(s), k \in (e + 1)..Len(s) :
                 /\ v < k /\ s[v] = cmd /\ s[k] = t
                 /\ \A j \in (v + 1)..k : s[j] \notin Verbs
      BY <3>1 DEF Follows
    <3>3. v \in b..Len(s) /\ k \in b..Len(s)
      BY <1>2, <2>2, <3>2
    <3>4. QED
      BY <3>1, <3>2, <3>3 DEF Follows
  <2>14. Pairs(T, cmd, t) <=> cmd \in Verbs /\ Follows(s, b, cmd, t)
    BY <2>1, <2>6, <2>11, <2>12, <2>13
  <2>15. T \in Seq(Seq(Words)) /\ T # <<>> /\ ~Has(T[1], t)
    BY <2>1, <2>6, <2>7
  <2>16. QED
    BY <2>14, <2>15 DEF T, e
<1>5. QED
  BY <1>3, <1>4

\* The parts from the place b on.
LEMMA StepGood ==
  ASSUME NEW s \in Seq(Words), NEW b \in 1..(Len(s) + 1), NEW f, f[b] = SplitAt(s, f, b),
         NEW cmd \in Verbs \cup Others, NEW t \in Tables,
         \A e \in (b + 1)..(Len(s) + 1) : PartsGood(s, f, e, cmd, t)
  PROVE  PartsGood(s, f, b, cmd, t)
<1>0. Len(s) \in Nat
  OBVIOUS
<1>1. CASE b > Len(s)
  <2>1. f[b] = <<>>
    BY <1>1 DEF SplitAt
  <2>2. ~Pairs(f[b], cmd, t)
    BY <2>1 DEF Pairs
  <2>3. ~Follows(s, b, cmd, t)
    BY <1>0, <1>1 DEF Follows
  <2>4. f[b] \in Seq(Seq(Words))
    BY <2>1
  <2>5. ~(b <= Len(s))
    BY <1>0, <1>1
  <2>6. QED
    BY <2>1, <2>2, <2>3, <2>4, <2>5 DEF PartsGood
<1>2. CASE ~(b > Len(s))
  <2> DEFINE e == Front(s, b)
             T == IF e > Len(s) THEN <<<<>>>> ELSE <<<<s[e]>>>> \o f[e + 1]
             x == SubSeq(s, b, e - 1)
  <2>1. b \in 1..Len(s) /\ e \in b..(Len(s) + 1)
    BY <1>0, <1>2, FrontFirst
  <2>2. /\ T \in Seq(Seq(Words)) /\ T # <<>> /\ ~Has(T[1], t)
        /\ Pairs(T, cmd, t) <=> cmd \in Verbs /\ Follows(s, b, cmd, t)
    BY <2>1, TailGood, Zenon
  <2>3. f[b] = (IF e > b THEN <<x>> ELSE <<>>) \o T
    BY <1>2, Zenon DEF SplitAt
  <2> HIDE DEF T
  <2>4. CASE e > b
    <3>1. f[b] = <<x>> \o T
      BY <2>3, <2>4, Zenon
    <3>2. /\ x \in Seq(Words) /\ Len(x) = e - b
          /\ \A k \in 1..(e - b) : x[k] = s[b + k - 1]
      <4>1. b \in Int /\ e - 1 \in Int /\ \A k \in b..(e - 1) : s[k] \in Words
        BY <1>0, <2>1
      <4>2. x \in Seq(Words)
        <5> HIDE DEF e
        <5>1. QED
          BY <4>1, SubSeqProperties
      <4>3. /\ Len(x) = IF b <= e - 1 THEN (e - 1) - b + 1 ELSE 0
            /\ \A k \in 1..((e - 1) - b + 1) : x[k] = s[b + k - 1]
        <5> HIDE DEF e
        <5>1. QED
          BY <4>1, SubSeqProperties
      <4>4. (e - 1) - b + 1 = e - b /\ b <= e - 1
        BY <2>1, <2>4, <4>1
      <4>5. QED
        BY <4>2, <4>3, <4>4
    <3>3. Has(x, t) <=> \E k \in b..(e - 1) : s[k] = t
      <4> HIDE DEF x, e
      <4>1. DOMAIN x = 1..(e - b)
        BY <3>2
      <4>2. \A k \in 1..(e - b) : b + k - 1 \in b..(e - 1)
        BY <2>1
      <4>3. ASSUME NEW k \in b..(e - 1) PROVE k - b + 1 \in 1..(e - b) /\ x[k - b + 1] = s[k]
        <5>1. k - b + 1 \in 1..(e - b) /\ b + (k - b + 1) - 1 = k
          BY <2>1
        <5>2. QED
          BY <3>2, <5>1
      <4>4. QED
        BY <3>2, <4>1, <4>2, <4>3 DEF Has
    <3>4. /\ f[b] \in Seq(Seq(Words)) /\ f[b] # <<>> /\ f[b][1] = x
          /\ Pairs(f[b], cmd, t) <=> (T # <<>> /\ Has(x, cmd) /\ Has(T[1], t)) \/ Pairs(T, cmd, t)
      <4> HIDE DEF x
      <4>1. QED
        BY <2>2, <3>1, <3>2, PairCons
    <3> HIDE DEF x
    <3>5. QED
      BY <1>2, <2>2, <3>3, <3>4, Zenon DEF PartsGood, e
  <2>5. CASE ~(e > b)
    <3>1. f[b] = <<>> \o T
      BY <2>3, <2>5, Zenon
    <3>2. f[b] = T
      BY <2>2, <3>1, ConcatEmptySeq
    <3>3. ~\E k \in b..(e - 1) : s[k] = t
      BY <2>1, <2>5
    <3>4. QED
      BY <1>2, <2>2, <3>2, <3>3, Zenon DEF PartsGood, e
  <2>6. QED
    BY <2>4, <2>5
<1>3. QED
  BY <1>1, <1>2

\* The parts of strsplit have the command in one and the table in the next one exactly if
\* the command is a verb that the table follows before the next verb.
LEMMA SplitGood ==
  ASSUME NEW s \in Seq(Words), NEW cmd \in Verbs \cup Others, NEW t \in Tables
  PROVE  Pairs(strsplit(s), cmd, t) <=> cmd \in Verbs /\ Follows(s, 1, cmd, t)
<1>1. PICK f : /\ \A b \in 1..(Len(s) + 1) : f[b] = SplitAt(s, f, b)
               /\ strsplit(s) = f[1]
  BY SplitSolves
<1> DEFINE L == Len(s)
           S == {m \in Nat : \A b \in (L + 1 - m)..(L + 1) : b >= 1 => PartsGood(s, f, b, cmd, t)}
<1>2. L \in Nat
  OBVIOUS
<1>3. 0 \in S
  <2> SUFFICES ASSUME NEW b \in (L + 1 - 0)..(L + 1) PROVE PartsGood(s, f, b, cmd, t)
    OBVIOUS
  <2>1. b \in 1..(L + 1) /\ (b + 1)..(L + 1) = {}
    BY <1>2
  <2>2. QED
    BY <1>1, <2>1, StepGood
<1>4. ASSUME NEW m \in Nat, m \in S PROVE m + 1 \in S
  <2> SUFFICES ASSUME NEW b \in (L + 1 - (m + 1))..(L + 1), b >= 1
               PROVE  PartsGood(s, f, b, cmd, t)
    OBVIOUS
  <2>1. b \in 1..(L + 1) /\ \A e \in (b + 1)..(L + 1) : e \in (L + 1 - m)..(L + 1) /\ e >= 1
    BY <1>2
  <2>2. \A e \in (b + 1)..(L + 1) : PartsGood(s, f, e, cmd, t)
    BY <1>4, <2>1
  <2>3. QED
    BY <1>1, <2>1, <2>2, StepGood
<1>5. L \in S
  <2> HIDE DEF S
  <2>1. QED
    BY <1>2, <1>3, <1>4, Induct
<1>6. PartsGood(s, f, 1, cmd, t)
  BY <1>2, <1>5
<1>7. QED
  BY <1>1, <1>6 DEF PartsGood

\* FindDBTable finds what an item with one table means.
LEMMA FindMeans ==
  ASSUME NEW s \in Seq(Words), NEW cmd \in Verbs \cup Others, NEW t \in Tables
  PROVE  FindDBTable(s, cmd, t) <=>
           \/ cmd \in Verbs /\ Follows(s, 1, cmd, t)
           \/ /\ cmd \notin Verbs /\ \A j \in DOMAIN s : s[j] \notin Verbs
              /\ Has(s, cmd) /\ Has(s, t)
<1>0. DOMAIN s = 1..Len(s)
  OBVIOUS
<1>1. CASE \E k \in DOMAIN s : s[k] \in Verbs
  <2>1. FindDBTable(s, cmd, t) <=> Pairs(strsplit(s), cmd, t)
    BY <1>1, Zenon DEF FindDBTable, Pairs
  <2>2. QED
    BY <1>1, <2>1, SplitGood
<1>2. CASE ~\E k \in DOMAIN s : s[k] \in Verbs
  <2>1. FindDBTable(s, cmd, t) <=> Has(s, cmd) /\ Has(s, t)
    BY <1>2, Zenon DEF FindDBTable
  <2>2. cmd \in Verbs => ~Has(s, cmd) /\ ~Follows(s, 1, cmd, t)
    BY <1>0, <1>2 DEF Has, Follows
  <2>3. QED
    BY <1>2, <2>1, <2>2, Zenon
<1>3. QED
  BY <1>1, <1>2

\* So does MatchCclItem for an item,
LEMMA ItemMeans ==
  ASSUME NEW s \in Seq(Words), NEW item \in Items, item.tables # {}
  PROVE  (\E t \in item.tables : FindDBTable(s, item.command, t)) <=> Names(item, s)
<1>1. item.command \in Verbs \cup Others /\ \A t \in item.tables : t \in Tables
  BY DEF Items
<1>2. \A t \in item.tables :
        FindDBTable(s, item.command, t) <=>
           \/ item.command \in Verbs /\ Follows(s, 1, item.command, t)
           \/ /\ item.command \notin Verbs /\ \A j \in DOMAIN s : s[j] \notin Verbs
              /\ Has(s, item.command) /\ Has(s, t)
  BY <1>1, FindMeans
<1>3. DOMAIN s = 1..Len(s)
  OBVIOUS
<1>4. CASE item.command \in Verbs
  <2>1. Names(item, s) <=> \E t \in item.tables : Follows(s, 1, item.command, t)
    <3>1. Names(item, s) <=> \E v, k \in DOMAIN s :
                               /\ v < k /\ s[v] = item.command /\ s[k] \in item.tables
                               /\ \A j \in (v + 1)..k : s[j] \notin Verbs
      BY <1>4 DEF Names
    <3>2. QED
      BY <1>3, <3>1, Zenon DEF Follows
  <2>2. QED
    BY <1>2, <1>4, <2>1, Zenon
<1>5. CASE item.command \notin Verbs
  <2>1. Names(item, s) <=> /\ \A j \in DOMAIN s : s[j] \notin Verbs
                           /\ Has(s, item.command) /\ \E t \in item.tables : Has(s, t)
    BY <1>5 DEF Names
  <2>2. QED
    BY <1>2, <1>5, <2>1, Zenon
<1>6. QED
  BY <1>4, <1>5

\* and for a list.
LEMMA MatchMeans ==
  ASSUME NEW s \in Seq(Words), NEW items \in Seq(Items), NEW flag
  PROVE  MatchCclItem(items, s, flag) <=> ForbiddenBy(items, s, flag)
<1> DEFINE item(i) == IF items[i].tables = {} THEN Has(s, items[i].command)
                      ELSE \E t \in items[i].tables : FindDBTable(s, items[i].command, t)
<1>1. ASSUME NEW i \in DOMAIN items PROVE item(i) <=> Names(items[i], s)
  <2>1. items[i] \in Items
    OBVIOUS
  <2>2. CASE items[i].tables = {}
    BY <2>2, Zenon DEF Names
  <2>3. CASE items[i].tables # {}
    BY <2>1, <2>3, ItemMeans, Zenon
  <2>4. QED
    BY <2>2, <2>3
<1>2. MatchCclItem(items, s, flag) <=>
        items # <<>> /\ IF flag = 2 THEN ~\E i \in DOMAIN items : item(i)
                                    ELSE \E i \in DOMAIN items : item(i)
  BY Zenon DEF MatchCclItem
<1>3. items # <<>> <=> Len(items) > 0
  OBVIOUS
<1> HIDE DEF item
<1>4. QED
  BY <1>1, <1>2, <1>3, Zenon DEF ForbiddenBy

-----------------------------------------------------------------------------
(* What the filter refuses. *)

\* Every statement sent has been refused or let pass, as the lists mean.
RefusedInv == refused \in Seq(BOOLEAN) /\ Len(refused) = Sent /\ RefusedIffForbidden

\* An examined text is refused if and only if a list forbids it.
LEMMA RefusesMeans ==
  ASSUME world \in Worlds, NEW text \in Seq(Words)
  PROVE  Refuses(text) <=> \E p \in DOMAIN world.lists :
                              ForbiddenBy(world.lists[p], text, world.cmdFlag)
<1>1. world.lists \in Seq(Seq(Items))
  BY FilterAssumption DEF World
<1>2. \A p \in DOMAIN world.lists : world.lists[p] \in Seq(Items)
  BY <1>1
<1>3. QED
  BY <1>2, MatchMeans DEF Refuses

\* What a packet with a statement does to it.
LEMMA StatementRefuses ==
  ASSUME FlagInv, HistoryTyped, NEW c \in Conns, NEW before \in Packets, NEW call,
         NEW form \in {"short", "long"}, Statement(c, before, call, form)
  PROVE  \E ok \in BOOLEAN, text \in Seq(Words), spoilt \in BOOLEAN :
           /\ sender' = Append(sender, c) /\ seen' = Append(seen, ok)
           /\ read' = Append(read, text) /\ refused' = Append(refused, spoilt)
           /\ ok => (spoilt <=> Refuses(text))
<1> DEFINE s == world.text[Sent + 1]
<1>1. Sent < Len(world.text)
  BY DEF Statement
<1>2. s \in Seq(Words)
  BY <1>1, WorldType DEF HistoryTyped, Sent, FlagInv, FlagsTyped
<1> HIDE DEF s
<1>3. \/ \E r \in ParseStrbyLen(c, s, form) : Examine(c, before, form, r)
      \/ Send(c, before, form, FALSE, <<>>, FALSE)
  BY Zenon DEF Statement, s
<1>4. ASSUME NEW r \in ParseStrbyLen(c, s, form), Examine(c, before, form, r)
      PROVE  /\ sender' = Append(sender, c) /\ seen' = Append(seen, TRUE)
             /\ read' = Append(read, r.text) /\ refused' = Append(refused, Refuses(r.text))
             /\ r.text \in Seq(Words) /\ Refuses(r.text) \in BOOLEAN
  <2>1. r.text \in Seq(Words)
    BY <1>2, ReadWords
  <2>2. Refuses(r.text) \in BOOLEAN
    BY DEF Refuses
  <2>3. QED
    BY <1>4, <2>1, <2>2, Zenon DEF Examine, Send
<1>5. CASE \E r \in ParseStrbyLen(c, s, form) : Examine(c, before, form, r)
  BY <1>4, <1>5, Zenon
<1>6. CASE Send(c, before, form, FALSE, <<>>, FALSE)
  <2>1. <<>> \in Seq(Words)
    OBVIOUS
  <2>2. QED
    BY <1>6, <2>1, Zenon DEF Send
<1>7. QED
  BY <1>3, <1>5, <1>6

\* Every step keeps what has been refused, and refuses what is meant.
LEMMA NextRefused ==
  ASSUME FilterInv, RefusedInv, [FilterNext]_filtervars
  PROVE  RefusedInv'
<1>0. FlagInv /\ HistoryTyped
  BY DEF FilterInv, SeenInv
<1>1. CASE UNCHANGED <<world, stmtvars>>
  BY <1>1 DEF RefusedInv, RefusedIffForbidden, Sent, stmtvars
<1>2. ASSUME NEW c \in Conns, NEW before \in Packets, NEW call,
             NEW form \in {"short", "long"}, Statement(c, before, call, form)
      PROVE  RefusedInv'
  <2>1. PICK ok \in BOOLEAN, text \in Seq(Words), spoilt \in BOOLEAN :
               /\ sender' = Append(sender, c) /\ seen' = Append(seen, ok)
               /\ read' = Append(read, text) /\ refused' = Append(refused, spoilt)
               /\ ok => (spoilt <=> Refuses(text))
    BY <1>0, <1>2, StatementRefuses
  <2>2. world' = world
    BY <1>2 DEF Statement
  <2>3. /\ Sent' = Sent + 1 /\ Sent \in Nat
        /\ refused' \in Seq(BOOLEAN) /\ Len(refused') = Sent + 1
        /\ refused'[Sent + 1] = spoilt /\ \A k \in 1..Sent : refused'[k] = refused[k]
    BY <1>0, <2>1, AppendProperties DEF RefusedInv, HistoryTyped, Sent
  <2>4. /\ seen'[Sent + 1] = ok /\ \A k \in 1..Sent : seen'[k] = seen[k]
        /\ read'[Sent + 1] = text /\ \A k \in 1..Sent : read'[k] = read[k]
    BY <1>0, <2>1, AppendProperties DEF HistoryTyped, Sent
  <2>5. ok => (spoilt <=> \E p \in DOMAIN world.lists :
                             ForbiddenBy(world.lists[p], text, world.cmdFlag))
    BY <1>0, <2>1, RefusesMeans DEF FlagInv, FlagsTyped
  <2>6. \A k \in 1..(Sent + 1) : k = Sent + 1 \/ k \in 1..Sent
    BY <2>3
  <2>7. ASSUME NEW k \in 1..(Sent + 1), seen'[k]
        PROVE  refused'[k] <=> \E p \in DOMAIN world.lists :
                                  ForbiddenBy(world.lists[p], read'[k], world.cmdFlag)
    <3>1. CASE k = Sent + 1
      BY <2>3, <2>4, <2>5, <2>7, <3>1, Zenon
    <3>2. CASE k \in 1..Sent
      BY <2>3, <2>4, <2>7, <3>2, Zenon DEF RefusedInv, RefusedIffForbidden
    <3>3. QED
      BY <2>6, <3>1, <3>2
  <2>8. RefusedIffForbidden'
    BY <2>2, <2>3, <2>7, Zenon DEF RefusedIffForbidden
  <2>9. QED
    BY <2>3, <2>8 DEF RefusedInv
<1>3. QED
  BY <1>1, <1>2, Zenon
     DEF FilterNext, filtervars, Connect, Banner, Close, StoreRow, Fetch, PrintRow, AnswerEnds

-----------------------------------------------------------------------------
\* The invariant.
LEMMA FilterInvariant == FilterSpec => []FilterInv
<1>1. FilterInit => FilterInv
  BY InitFlags, InitSeen, InitRows DEF FilterInv
<1>2. FilterInv /\ [FilterNext]_filtervars => FilterInv'
  BY NextFlags, NextSeen, NextRows DEF FilterInv
<1>3. QED
  BY <1>1, <1>2, PTL DEF FilterSpec

\* The filter's globals, the connections and the audit rows keep their types.
THEOREM FilterTyped == FilterSpec => []FilterTypeOK
<1>1. FilterInv => FilterTypeOK
  <2> SUFFICES ASSUME FilterInv PROVE FilterTypeOK
    OBVIOUS
  <2>1. Sent <= MaxStmts
    BY WorldType DEF FilterInv, FlagInv, FlagsTyped, SeenInv, HistoryTyped, Sent
  <2>2. outlog.pieces \subseteq Pieces
    BY DEF FilterInv, RowInv, RowGood
  <2>3. QED
    BY <2>1, <2>2
       DEF FilterInv, FlagInv, FlagsTyped, SeenInv, SeenRight, RowInv, BufferTyped, FilterTypeOK
<1>2. QED
  BY <1>1, FilterInvariant, PTL

\* Whatever connections come, in whatever order, and whatever they set in the globals that
\* all of them share: a statement sent when the version is known and all clients are of
\* one kind is found by DecodeTnsData035e and read with all its words.
THEOREM ReadableIsSeen == FilterSpec => []StatementsSeen
<1>1. FilterInv => StatementsSeen
  BY DEF FilterInv, SeenInv, SeenRight
<1>2. QED
  BY <1>1, FilterInvariant, PTL

\* Although the connections share one buffer, a whole result row is stored with the
\* statement it answers unless two threads handle rows at the same time, and a row that was
\* cut off unless another connection stores it.
THEOREM ResultsAreOwn == FilterSpec => []ResultsOfStatement
<1>1. FilterInv => ResultsOfStatement
  BY DEF FilterInv, RowInv, RowGood, ResultsOfStatement
<1>2. QED
  BY <1>1, FilterInvariant, PTL

\* What strsplit, FindDBTable and MatchCclItem make of an examined statement is what the
\* lists mean: it is refused exactly if one of its verbs is followed, before the next verb,
\* by a table that is forbidden for it (or as the item says for commands without a table),
\* whatever the lists, the statement and the other connections are.
THEOREM RefusedAsMeant == FilterSpec => []RefusedIffForbidden
<1>1. FilterInit => RefusedInv
  BY DEF FilterInit, RefusedInv, RefusedIffForbidden, Sent
<1>2. FilterInv /\ RefusedInv /\ [FilterNext]_filtervars => RefusedInv'
  BY NextRefused
<1>3. RefusedInv => RefusedIffForbidden
  BY DEF RefusedInv
<1>4. QED
  BY <1>1, <1>2, <1>3, FilterInvariant, PTL DEF FilterSpec
=============================================================================
