----------------------------- MODULE OracleRows -----------------------------
(***************************************************************************)
(* How the Oracle proxy reads result rows (DecodeTnsData0600, 0601, 0602,  *)
(* 0602_64 and 061a in oraclefilter.c).  A packet brings rows; a row comes *)
(* whole ("full", after the byte 0x07) or as the columns that differ from  *)
(* the row before ("delta", after 0x15 with their number and a bit for     *)
(* each column).  The row before, the columns it had and two column counts *)
(* are globals that the connections' threads share.  A "partial" packet    *)
(* (0600) begins with a row that is relative to the packet before, a       *)
(* "bare" one with no row.                                                 *)
(*                                                                         *)
(* The code that reads the columns' types is commented out: every column   *)
(* is text or NULL.  Decoder "64" stands for 0602_64 and 061a.  The forms  *)
(* of 0601 that only Toad with version 11 uses are left out.               *)
(***************************************************************************)
EXTENDS Naturals, Sequences, FiniteSets

CONSTANTS
  Conns,
  MaxCols,   \* bound: columns of a result (64 in the code)
  Texts,     \* the texts in the columns
  NULL,      \* no text
  MaxRows,   \* bound: rows in a behaviour
  Clients    \* the <<istoad, iversion>> considered

Cols == 1..MaxCols
Values == Texts \cup {NULL}
ResultRows == UNION {[1..n -> Values] : n \in Cols}
Decoders == {"0600", "0601", "0602", "64"}

ASSUME RowsAssumption ==
  /\ MaxCols \in Nat \ {0} /\ MaxRows \in Nat
  /\ NULL \notin Texts
  /\ Clients \subseteq (0..1) \X {0, 9, 10, 11}

VARIABLES
  istoad, iversion,                      \* never change here
  nMaxColNum, nGlobMaxColNum,            \* the column counts
  pszRowStr, szOldCol,                   \* the row before and the columns it had
  ncols,     \* ncols[c]: the columns of c's result, 0 before a statement
  prev,      \* prev[c]: the last row of it that the server has sent
  packet,    \* packet[c]: the locals of the decoder
  clean,     \* clean[c]: nothing the decoders cannot follow has come (history variable)
  last,      \* the last row sent, and what has been stored for it
  rows       \* rows sent so far

globals == <<nMaxColNum, nGlobMaxColNum, pszRowStr, szOldCol>>
rowvars == <<istoad, iversion, globals, ncols, prev, packet, clean, last, rows>>

NoPacket == [dec |-> "none", uColNum |-> 0, bits |-> FALSE, szCol |-> {}, open |-> FALSE]
Ended(p) == [NoPacket EXCEPT !.dec = p.dec]
NoLast == [clean |-> FALSE, want |-> <<>>, got |-> <<>>, decoded |-> FALSE]
Blank == [k \in Cols |-> NULL]

RowsInit ==
  /\ \E client \in Clients : istoad = client[1] /\ iversion = client[2]
  /\ nMaxColNum = 0 /\ nGlobMaxColNum = 0
  /\ pszRowStr = Blank /\ szOldCol = {}
  /\ ncols = [c \in Conns |-> 0]
  /\ prev = [c \in Conns |-> <<>>]
  /\ packet = [c \in Conns |-> NoPacket]
  /\ clean = [c \in Conns |-> FALSE]
  /\ last = NoLast /\ rows = 0

\* What changes the globals under the feet of the other connections.
Disturb(c, own) == clean' = [d \in Conns |-> IF d = c THEN own ELSE FALSE]

\* A statement with a result of n columns (DecodeTnsData035e).
Execute(c, n) ==
  /\ ~packet[c].open
  /\ nGlobMaxColNum' = 0
  /\ ncols' = [ncols EXCEPT ![c] = n]
  /\ prev' = [prev EXCEPT ![c] = <<>>]
  /\ Disturb(c, TRUE)
  /\ UNCHANGED <<istoad, iversion, nMaxColNum, pszRowStr, szOldCol, packet, last, rows>>

\* The columns of row r that differ from the row before, and their values in order.
Changed(c, r) == {k \in DOMAIN r : r[k] # prev[c][k]}
Wire(r, bits) ==
  LET from[k \in 0..Len(r)] ==
        IF k = 0 THEN <<>> ELSE IF k \in bits THEN Append(from[k - 1], r[k]) ELSE from[k - 1]
  IN  from[Len(r)]

\* Mutant: the counts are added up.
CountSum(n) == nMaxColNum + n

CountOf(n) == IF nMaxColNum < n THEN n ELSE nMaxColNum

\* The loop over the columns, for u values of the stream in wire: columns whose bit is
\* not set are taken from the row before.  ok: as many values were read as had been sent.
Columns(p, wire, row, old, count) ==
  LET col[k \in 0..count] ==
        IF k = 0 THEN [got |-> <<>>, used |-> 0, row |-> row, old |-> old, done |-> FALSE]
        ELSE LET b == col[k - 1]
             IN CASE b.done -> b
                  [] ~b.done /\ p.bits /\ k \notin p.szCol ->
                       [b EXCEPT !.got = Append(@, IF k \in old THEN row[k] ELSE NULL)]
                  [] ~b.done /\ ~(p.bits /\ k \notin p.szCol)
                       /\ (b.used >= p.uColNum \/ b.used >= Len(wire)) ->
                       [b EXCEPT !.done = TRUE]
                  [] OTHER -> [b EXCEPT !.got = Append(@, wire[b.used + 1]), !.used = @ + 1,
                                        !.row[k] = wire[b.used + 1], !.old = @ \cup {k}]
  IN  [got |-> col[count].got, row |-> col[count].row, old |-> col[count].old,
       ok |-> col[count].used = Len(wire)]

\* 0602 has no bits: it shows the values that come, up to the mark of the next row; in
\* the first row of a packet they are the last columns.
Columns0602(p, wire, row, old, count, first) ==
  LET n == IF p.uColNum < Len(wire) THEN p.uColNum ELSE Len(wire)
      shift == IF first /\ nMaxColNum >= p.uColNum THEN count - p.uColNum ELSE 0
      set == {k \in Cols : k > shift /\ k <= shift + n}
  IN  [got |-> SubSeq(wire, 1, n),
       row |-> [k \in Cols |-> IF k \in set THEN wire[k - shift] ELSE row[k]],
       old |-> old \cup set,
       ok |-> n = Len(wire) /\ wire # <<>>]

\* Mutant: the row before is kept, but not the columns it had.
DecodeForgets(c, p, r, wire, row, old, first, own) ==
  LET count == CountOf(p.uColNum)
      d == IF p.dec = "0602" THEN Columns0602(p, wire, row, old, count, first)
           ELSE Columns(p, wire, row, old, count)
  IN  /\ nMaxColNum' = count
      /\ pszRowStr' = d.row /\ szOldCol' = old
      /\ prev' = [prev EXCEPT ![c] = r]
      /\ packet' = [packet EXCEPT ![c] = IF d.ok THEN p ELSE Ended(p)]
      /\ Disturb(c, own)
      /\ last' = [clean |-> own, want |-> IF p.dec = "0602" THEN wire ELSE r,
                  got |-> d.got, decoded |-> TRUE]
      /\ rows' = rows + 1
      /\ UNCHANGED <<istoad, iversion, ncols>>

\* A row is read by the locals p, stored, and leaves the globals for the next one; after
\* a wrong number of values the rest of the packet is not understood.
Decode(c, p, r, wire, row, old, first, own) ==
  LET count == CountOf(p.uColNum)
      d == IF p.dec = "0602" THEN Columns0602(p, wire, row, old, count, first)
           ELSE Columns(p, wire, row, old, count)
  IN  /\ nMaxColNum' = count
      /\ pszRowStr' = d.row /\ szOldCol' = d.old
      /\ prev' = [prev EXCEPT ![c] = r]
      /\ packet' = [packet EXCEPT ![c] = IF d.ok THEN p ELSE Ended(p)]
      /\ Disturb(c, own)
      /\ last' = [clean |-> own, want |-> IF p.dec = "0602" THEN wire ELSE r,
                  got |-> d.got, decoded |-> TRUE]
      /\ rows' = rows + 1
      /\ UNCHANGED <<istoad, iversion, ncols>>

\* A row that is sent but not read.
Miss(c, r, own) ==
  /\ prev' = [prev EXCEPT ![c] = r]
  /\ packet' = [packet EXCEPT ![c] = Ended(@)]
  /\ clean' = [clean EXCEPT ![c] = own]
  /\ last' = [clean |-> own, want |-> r, got |-> <<>>, decoded |-> FALSE]
  /\ rows' = rows + 1
  /\ UNCHANGED <<istoad, iversion, globals, ncols>>

Row(c, r) == rows < MaxRows /\ ncols[c] # 0 /\ Len(r) = ncols[c]

Packet(dec, n, bits, szCol) ==
  [dec |-> dec, uColNum |-> n, bits |-> bits, szCol |-> szCol, open |-> TRUE]

\* The first packet after a statement tells the number of columns.
Glob(n) == IF nGlobMaxColNum = 0 THEN n ELSE nGlobMaxColNum

\* A packet of 0601, 0602 or 64 that begins with a whole row.
FullPacket(c, dec, r) ==
  /\ Row(c, r) /\ ~packet[c].open /\ dec # "0600"
  /\ nGlobMaxColNum' = Glob(Len(r))
  /\ Decode(c, Packet(dec, Len(r), FALSE, {}), r, r, Blank, {}, TRUE, clean[c])

\* One of 0600; with fewer columns than the result has it is taken for a partial one,
\* with bits that are not there.
FullPacket0600(c, r) ==
  /\ Row(c, r) /\ ~packet[c].open
  /\ nGlobMaxColNum' = Glob(Len(r))
  /\ IF Len(r) < nGlobMaxColNum
       THEN \E bits \in SUBSET Cols :
              Decode(c, Packet("0600", Len(r), TRUE, bits), r, r, pszRowStr, szOldCol, TRUE, FALSE)
       ELSE Decode(c, Packet("0600", Len(r), FALSE, {}), r, r, Blank, {}, TRUE, clean[c])

\* A packet of 0600 that begins with a row relative to the packet before.
PartialPacket(c, r) ==
  /\ Row(c, r) /\ ~packet[c].open /\ prev[c] # <<>>
  /\ LET bits == Changed(c, r)
         n == Cardinality(bits)
         part == n < Glob(n)
     IN  /\ nGlobMaxColNum' = Glob(n)
         /\ Decode(c, Packet("0600", n, part, IF part THEN bits ELSE {}), r, Wire(r, bits),
                   IF part THEN pszRowStr ELSE Blank, IF part THEN szOldCol ELSE {},
                   TRUE, clean[c] /\ packet[c].dec # "0602")

\* A packet of 0602 or 64 without a row of its own: the row before is forgotten.
BarePacket(c, dec) ==
  /\ ncols[c] # 0 /\ ~packet[c].open /\ dec \in {"0602", "64"} /\ prev[c] # <<>>
  /\ pszRowStr' = Blank /\ szOldCol' = {}
  /\ packet' = [packet EXCEPT ![c] = Packet(dec, 0, dec = "64", {})]
  /\ Disturb(c, FALSE)
  /\ UNCHANGED <<istoad, iversion, nMaxColNum, nGlobMaxColNum, ncols, prev, last, rows>>

\* A delta row.  0602 skips its bits and keeps the number of columns.
DeltaRow(c, r) ==
  /\ Row(c, r) /\ packet[c].open /\ prev[c] # <<>>
  /\ LET p == packet[c]
         bits == Changed(c, r)
         n == Cardinality(bits)
     IN  IF n > nGlobMaxColNum THEN Miss(c, r, clean[c])
         ELSE /\ Decode(c, IF p.dec = "0602" THEN p
                           ELSE [p EXCEPT !.uColNum = IF n = 0 THEN @ ELSE n,
                                          !.bits = TRUE, !.szCol = bits],
                        r, Wire(r, bits), pszRowStr, szOldCol, FALSE,
                        clean[c] /\ (p.dec = "0602" => n > 0))
              /\ UNCHANGED nGlobMaxColNum

\* A whole row after another row.  Toad's 64 reads it by the number of columns and the
\* bits of the row before ...
FullRow64(c, r) ==
  /\ Row(c, r) /\ packet[c].open /\ prev[c] # <<>>
  /\ packet[c].dec = "64" /\ istoad = 1
  /\ Decode(c, packet[c], r, r, pszRowStr, szOldCol, FALSE, clean[c] /\ ~packet[c].bits)
  /\ UNCHANGED nGlobMaxColNum

\* ... and version 10's 0601 by the number of columns of the row before;
FullRow0601(c, r) ==
  /\ Row(c, r) /\ packet[c].open /\ prev[c] # <<>>
  /\ packet[c].dec = "0601" /\ iversion = 10 /\ istoad = 0
  /\ Decode(c, [packet[c] EXCEPT !.bits = FALSE], r, r, pszRowStr, szOldCol, FALSE,
            clean[c] /\ packet[c].uColNum = Len(r))
  /\ UNCHANGED nGlobMaxColNum

\* for the others the packet ends there.
FullRowMissed(c, r) ==
  /\ Row(c, r) /\ packet[c].open /\ prev[c] # <<>>
  /\ ~(packet[c].dec = "64" /\ istoad = 1)
  /\ ~(packet[c].dec = "0601" /\ iversion = 10 /\ istoad = 0)
  /\ Miss(c, r, FALSE)

PacketEnds(c) ==
  /\ packet[c].open
  /\ packet' = [packet EXCEPT ![c] = Ended(@)]
  /\ UNCHANGED <<istoad, iversion, globals, ncols, prev, clean, last, rows>>

RowsNext ==
  \E c \in Conns :
    \/ \E n \in Cols : Execute(c, n)
    \/ PacketEnds(c)
    \/ \E dec \in Decoders : BarePacket(c, dec)
    \/ \E r \in ResultRows :
         \/ \E dec \in Decoders : FullPacket(c, dec, r)
         \/ FullPacket0600(c, r) \/ PartialPacket(c, r) \/ DeltaRow(c, r)
         \/ FullRow64(c, r) \/ FullRow0601(c, r) \/ FullRowMissed(c, r)

RowsSpec == RowsInit /\ [][RowsNext]_rowvars

(* Type correctness of the decoders' globals and locals. *)
RowsTypeOK ==
  /\ nMaxColNum \in 0..MaxCols /\ nGlobMaxColNum \in 0..MaxCols
  /\ pszRowStr \in [Cols -> Values] /\ szOldCol \subseteq Cols
  /\ ncols \in [Conns -> 0..MaxCols]
  /\ \A c \in Conns : Len(prev[c]) \in {0, ncols[c]}
  /\ packet \in [Conns -> [dec : Decoders \cup {"none"}, uColNum : 0..MaxCols, bits : BOOLEAN,
                           szCol : SUBSET Cols, open : BOOLEAN]]
  /\ clean \in [Conns -> BOOLEAN]
  /\ rows \in 0..MaxRows

(***************************************************************************)
(* A row is stored as the server means it, over any sequence of packets,   *)
(* delta rows and whole rows, of results with different numbers of         *)
(* columns: its columns in order, and NULL for the columns that only an    *)
(* earlier, wider result had (nMaxColNum is never reset).  Not so when     *)
(* another connection has used the globals since the statement, and when a *)
(* whole row follows a delta row.  0602 stores what differs, which a       *)
(* partial packet of 0600 then takes for the row before.                   *)
(***************************************************************************)
RowsRight ==
  last.clean =>
    /\ last.decoded
    /\ Len(last.got) >= Len(last.want)
    /\ \A k \in DOMAIN last.got :
         last.got[k] = IF k <= Len(last.want) THEN last.want[k] ELSE NULL
=============================================================================
