-------------------------- MODULE OracleRowsProofs --------------------------
(***************************************************************************)
(* Theorems about the decoders of result rows, for any number of           *)
(* connections, columns, texts and rows.                                   *)
(***************************************************************************)
EXTENDS OracleRows, FiniteSetTheorems, SequenceTheorems, WellFoundedInduction, TLAPS

(***************************************************************************)
(* The inductive invariant.  A connection is clean from its statement on   *)
(* until another connection touches the globals or something comes that    *)
(* the decoders cannot follow; so one connection is clean at a time, and   *)
(* the globals are then its own.  From its first row on they have its      *)
(* number of columns, and what is remembered is the row that the server    *)
(* has sent last, NULL in the columns it does not have - except after      *)
(* 0602, which knows no bits and remembers in the wrong places.  Where     *)
(* the columns are not counted by bits, the packet has the number of them. *)
(***************************************************************************)
PacketType ==
  [dec : Decoders \cup {"none"}, uColNum : 0..MaxCols, bits : BOOLEAN, szCol : SUBSET Cols,
   open : BOOLEAN]

RowsTyped == RowsTypeOK /\ prev \in [Conns -> Seq(Values)]

\* Column k of row r, NULL beyond its end, and as it is remembered.
ColumnOf(r, k) == IF k <= Len(r) THEN r[k] ELSE NULL
Kept(row, old, k) == IF k \in old THEN row[k] ELSE NULL

Remembers(row, old, r) == \A k \in Cols : Kept(row, old, k) = ColumnOf(r, k)
Shows(got, want) ==
  Len(got) >= Len(want) /\ \A k \in DOMAIN got : got[k] = ColumnOf(want, k)

\* Only the columns of a row that was sent by bits are not all there.
Counted(p, n) == p.open /\ (p.dec = "0602" \/ ~p.bits) => p.uColNum = n

CleanAt(c) ==
  /\ \A d \in Conns : clean[d] => d = c
  /\ prev[c] = <<>> => nGlobMaxColNum = 0 /\ ~packet[c].open
  /\ prev[c] # <<>> =>
       /\ nGlobMaxColNum = ncols[c] /\ nMaxColNum >= ncols[c]
       /\ packet[c].dec # "0602" => Remembers(pszRowStr, szOldCol, prev[c])
  /\ Counted(packet[c], ncols[c])

CleanRows == \A c \in Conns : clean[c] => CleanAt(c)

RowsInv == RowsTyped /\ CleanRows /\ RowsRight

-----------------------------------------------------------------------------
(* Induction, from the library's theorem that the natural numbers are well ordered. *)

\* A set that has 0, and with a number the next one, has all natural numbers.
LEMMA Induct ==
  ASSUME NEW S, 0 \in S, \A n \in Nat : n \in S => n + 1 \in S
  PROVE  \A n \in Nat : n \in S
<1> DEFINE R == {ss \in Nat \X Nat : ss[1] < ss[2]}
           T == {n \in Nat : n \notin S}
<1>1. IsWellFoundedOn(R, Nat)
  BY NatLessThanWellFounded DEF OpToRel
<1>2. ASSUME T # {} PROVE FALSE
  <2>1. T \subseteq Nat
    OBVIOUS
  <2>2. PICK x \in T : \A y \in T : ~(<<y, x>> \in R)
    <3> HIDE DEF R, T
    <3>1. QED
      BY <1>1, <1>2, <2>1, WFMin
  <2>3. x # 0 /\ x - 1 \in Nat /\ x - 1 < x
    BY <2>2
  <2>4. x - 1 \notin T
    BY <2>2, <2>3
  <2>5. (x - 1) + 1 \in S
    BY <2>3, <2>4
  <2>6. QED
    BY <2>2, <2>3, <2>5
<1>3. QED
  BY <1>2

-----------------------------------------------------------------------------
(* What a row looks like on the wire. *)

\* How many of the bits are among the first k.
Below(bits, k) == Cardinality(bits \cap 1..k)

\* The numbers of bits.
LEMMA BelowCounts ==
  ASSUME NEW bits, NEW k \in Nat
  PROVE  /\ Below(bits, k) \in Nat /\ Below(bits, 0) = 0
         /\ Below(bits, k + 1) = IF k + 1 \in bits THEN Below(bits, k) + 1 ELSE Below(bits, k)
<1>1. IsFiniteSet(1..k)
  BY FS_Interval
<1>2. IsFiniteSet(bits \cap 1..k) /\ Below(bits, k) \in Nat
  BY <1>1, FS_Intersection, FS_CardinalityType DEF Below
<1>3. bits \cap 1..0 = {}
  OBVIOUS
<1>4. Below(bits, 0) = 0
  BY <1>3, FS_EmptySet DEF Below
<1>5. CASE k + 1 \in bits
  <2>1. bits \cap 1..(k + 1) = (bits \cap 1..k) \cup {k + 1} /\ k + 1 \notin bits \cap 1..k
    BY <1>5
  <2>2. QED
    BY <1>2, <1>4, <1>5, <2>1, FS_AddElement DEF Below
<1>6. CASE k + 1 \notin bits
  <2>1. bits \cap 1..(k + 1) = bits \cap 1..k
    BY <1>6
  <2>2. QED
    BY <1>2, <1>4, <1>6, <2>1 DEF Below
<1>7. QED
  BY <1>5, <1>6

\* The loop that sends the columns, with what has been sent before in f.
WireAt(r, bits, f, k) ==
  IF k = 0 THEN <<>> ELSE IF k \in bits THEN Append(f[k - 1], r[k]) ELSE f[k - 1]

\* There are functions that satisfy its equation,
LEMMA WireExists ==
  ASSUME NEW r, NEW bits
  PROVE  \A m \in Nat : \E f : f = [k \in 0..m |-> WireAt(r, bits, f, k)]
<1> DEFINE S == {m \in Nat : \E f : f = [k \in 0..m |-> WireAt(r, bits, f, k)]}
<1>1. 0 \in S
  <2> DEFINE f == [k \in 0..0 |-> <<>>]
  <2>1. \A k \in 0..0 : WireAt(r, bits, f, k) = <<>>
    BY DEF WireAt
  <2>2. f = [k \in 0..0 |-> WireAt(r, bits, f, k)]
    BY <2>1
  <2>3. QED
    BY <2>2, Zenon
<1>2. ASSUME NEW m \in Nat, m \in S PROVE m + 1 \in S
  <2> SUFFICES \E f : f = [k \in 0..(m + 1) |-> WireAt(r, bits, f, k)]
    OBVIOUS
  <2>1. PICK f : f = [k \in 0..m |-> WireAt(r, bits, f, k)]
    BY <1>2
  <2> DEFINE g == [k \in 0..(m + 1) |-> IF k = m + 1 THEN WireAt(r, bits, f, k) ELSE f[k]]
  <2>2. ASSUME NEW k \in 0..(m + 1) PROVE g[k] = WireAt(r, bits, f, k)
    <3>1. CASE k = m + 1
      BY <3>1
    <3>2. CASE k # m + 1
      <4>1. k \in 0..m
        BY <3>2
      <4>2. g[k] = f[k]
        BY <3>2
      <4>3. f[k] = WireAt(r, bits, f, k)
        BY <2>1, <4>1, Zenon
      <4>4. QED
        BY <4>2, <4>3
    <3>3. QED
      BY <3>1, <3>2
  <2>3. ASSUME NEW k \in 0..(m + 1), k # 0 PROVE f[k - 1] = g[k - 1]
    <3>1. k - 1 \in 0..(m + 1) /\ k - 1 # m + 1
      BY <2>3
    <3>2. QED
      BY <3>1
  <2> HIDE DEF g
  <2>4. \A k \in 0..(m + 1) : g[k] = WireAt(r, bits, g, k)
    BY <2>2, <2>3, Zenon DEF WireAt
  <2>5. g = [k \in 0..(m + 1) |-> WireAt(r, bits, g, k)]
    BY <2>4, Zenon DEF g
  <2>6. QED
    BY <2>5, Zenon
<1>3. QED
  <2> HIDE DEF S
  <2>1. \A m \in Nat : m \in S
    BY <1>1, <1>2, Induct
  <2>2. QED
    BY <2>1, Zenon DEF S

\* and the wire has the value of one of them.
LEMMA WireSolves ==
  ASSUME NEW r, NEW bits, Len(r) \in Nat
  PROVE  \E f : /\ \A k \in 0..Len(r) : f[k] = WireAt(r, bits, f, k)
                /\ Wire(r, bits) = f[Len(r)]
<1> DEFINE F == CHOOSE f : f = [k \in 0..Len(r) |-> WireAt(r, bits, f, k)]
<1>1. F = [k \in 0..Len(r) |-> WireAt(r, bits, F, k)]
  BY WireExists, Zenon
<1>2. Wire(r, bits) = F[Len(r)]
  BY Zenon DEF Wire, WireAt
<1>3. \A k \in 0..Len(r) : F[k] = WireAt(r, bits, F, k)
  BY <1>1, Zenon
<1>4. QED
  BY <1>2, <1>3, Zenon

\* The values of the columns whose bit is set, in order.
LEMMA WireRight ==
  ASSUME NEW r \in Seq(Values), NEW bits \in SUBSET (1..Len(r))
  PROVE  LET wire == Wire(r, bits)
         IN  /\ wire \in Seq(Values) /\ Len(wire) = Cardinality(bits)
             /\ \A k \in bits : /\ Below(bits, k - 1) < Len(wire)
                                /\ wire[Below(bits, k - 1) + 1] = r[k]
<1> DEFINE L == Len(r)
<1>1. L \in Nat /\ \A k \in 1..L : r[k] \in Values
  OBVIOUS
<1>2. PICK f : /\ \A k \in 0..L : f[k] = WireAt(r, bits, f, k)
               /\ Wire(r, bits) = f[L]
  BY <1>1, WireSolves
<1> DEFINE Good(m) == /\ f[m] \in Seq(Values) /\ Len(f[m]) = Below(bits, m)
                      /\ \A k \in bits : k <= m => /\ Below(bits, k - 1) < Len(f[m])
                                                   /\ f[m][Below(bits, k - 1) + 1] = r[k]
           S == {m \in Nat : m <= L => Good(m)}
<1>3. 0 \in S
  <2>1. f[0] = <<>>
    BY <1>1, <1>2 DEF WireAt
  <2>2. Below(bits, 0) = 0
    BY BelowCounts
  <2>3. \A k \in bits : ~(k <= 0)
    BY <1>1
  <2>4. f[0] \in Seq(Values) /\ Len(f[0]) = 0
    BY <2>1
  <2>5. Good(0)
    BY <2>2, <2>3, <2>4, Zenon
  <2>6. QED
    BY <2>5
<1>4. ASSUME NEW m \in Nat, m \in S, m + 1 <= L PROVE Good(m + 1)
  <2>1. Good(m)
    BY <1>1, <1>4
  <2>2. /\ m + 1 \in 0..L /\ m + 1 # 0 /\ (m + 1) - 1 = m /\ r[m + 1] \in Values
    BY <1>1, <1>4
  <2>3. f[m + 1] = IF m + 1 \in bits THEN Append(f[m], r[m + 1]) ELSE f[m]
    BY <1>2, <2>2 DEF WireAt
  <2>4. /\ Below(bits, m) \in Nat
        /\ Below(bits, m + 1) = IF m + 1 \in bits THEN Below(bits, m) + 1 ELSE Below(bits, m)
    BY BelowCounts
  <2>5. ASSUME NEW k \in bits PROVE k \in 1..L /\ k - 1 \in Nat /\ Below(bits, k - 1) \in Nat
    <3>1. k \in 1..L /\ k - 1 \in Nat
      BY <1>1
    <3>2. QED
      BY <3>1, BelowCounts
  <2>6. CASE m + 1 \notin bits
    <3>1. f[m + 1] = f[m] /\ Below(bits, m + 1) = Below(bits, m)
      BY <2>3, <2>4, <2>6
    <3>2. \A k \in bits : k <= m + 1 => k <= m
      BY <2>5, <2>6
    <3>3. QED
      BY <2>1, <3>1, <3>2
  <2>7. CASE m + 1 \in bits
    <3>1. f[m + 1] = Append(f[m], r[m + 1]) /\ Below(bits, m + 1) = Below(bits, m) + 1
      BY <2>3, <2>4, <2>7
    <3>2. /\ f[m + 1] \in Seq(Values) /\ Len(f[m + 1]) = Len(f[m]) + 1
          /\ f[m + 1][Len(f[m]) + 1] = r[m + 1]
          /\ \A i \in 1..Len(f[m]) : f[m + 1][i] = f[m][i]
      BY <2>1, <2>2, <3>1, AppendProperties
    <3>3. ASSUME NEW k \in bits, k <= m + 1
          PROVE  /\ Below(bits, k - 1) < Len(f[m + 1])
                 /\ f[m + 1][Below(bits, k - 1) + 1] = r[k]
      <4>1. CASE k = m + 1
        BY <2>1, <2>2, <2>4, <3>2, <4>1
      <4>2. CASE k <= m
        <5>1. Below(bits, k - 1) < Len(f[m]) /\ f[m][Below(bits, k - 1) + 1] = r[k]
          BY <2>1, <4>2
        <5>2. Len(f[m]) \in Nat /\ Below(bits, k - 1) \in Nat
          BY <2>1, <2>4, <2>5
        <5>3. Below(bits, k - 1) + 1 \in 1..Len(f[m])
          BY <5>1, <5>2
        <5>4. QED
          BY <3>2, <5>1, <5>2, <5>3
      <4>3. QED
        BY <2>5, <3>3, <4>1, <4>2
    <3>4. QED
      BY <2>1, <3>1, <3>2, <3>3
  <2>8. QED
    BY <2>6, <2>7
<1>5. L \in S
  <2>1. \A m \in Nat : m \in S => m + 1 \in S
    <3> HIDE DEF Good, L
    <3>1. QED
      BY <1>4
  <2> HIDE DEF S, L
  <2>2. QED
    BY <1>1, <1>3, <2>1, Induct
<1>6. Good(L)
  BY <1>1, <1>5
<1>7. bits \cap 1..L = bits /\ \A k \in bits : k <= L
  <2>1. \A k \in bits : k \in 1..L
    BY <1>1
  <2> HIDE DEF L
  <2>2. \A k \in bits : k <= L
    BY <1>1, <2>1
  <2>3. bits \cap 1..L = bits
    BY <2>1, Zenon
  <2>4. QED
    BY <2>2, <2>3
<1>8. QED
  BY <1>2, <1>6, <1>7 DEF Below

\* A row all of whose columns differ is sent whole.
LEMMA WireWhole ==
  ASSUME NEW r \in Seq(Values), NEW bits, bits = 1..Len(r)
  PROVE  Wire(r, bits) = r
<1>1. Len(r) \in Nat
  OBVIOUS
<1> DEFINE wire == Wire(r, bits)
<1>2. /\ wire \in Seq(Values) /\ Len(wire) = Cardinality(bits)
      /\ \A k \in bits : wire[Below(bits, k - 1) + 1] = r[k]
  BY WireRight
<1>3. Cardinality(bits) = Len(r)
  BY <1>1, FS_Interval
<1>4. ASSUME NEW k \in 1..Len(r) PROVE wire[k] = r[k]
  <2>1. bits \cap 1..(k - 1) = 1..(k - 1) /\ k - 1 \in Nat
    BY <1>1
  <2>2. Cardinality(1..(k - 1)) = k - 1
    BY <2>1, FS_Interval
  <2>3. Below(bits, k - 1) = k - 1
    BY <2>1, <2>2 DEF Below
  <2>4. (k - 1) + 1 = k /\ k \in bits
    OBVIOUS
  <2>5. QED
    BY <1>2, <2>3, <2>4
<1> HIDE DEF wire
<1>5. wire = r
  BY <1>2, <1>3, <1>4, SeqEqual
<1>6. QED
  BY <1>5 DEF wire

-----------------------------------------------------------------------------
(* The loop over the columns. *)

\* One pass of it, with what the passes before left in f.
ColAt(p, wire, row, old, f, k) ==
  IF k = 0 THEN [got |-> <<>>, used |-> 0, row |-> row, old |-> old, done |-> FALSE]
  ELSE LET b == f[k - 1]
       IN CASE b.done -> b
            [] ~b.done /\ p.bits /\ k \notin p.szCol ->
                 [b EXCEPT !.got = Append(@, IF k \in old THEN row[k] ELSE NULL)]
            [] ~b.done /\ ~(p.bits /\ k \notin p.szCol)
                 /\ (b.used >= p.uColNum \/ b.used >= Len(wire)) ->
                 [b EXCEPT !.done = TRUE]
            [] OTHER -> [b EXCEPT !.got = Append(@, wire[b.used + 1]), !.used = @ + 1,
                                  !.row[k] = wire[b.used + 1], !.old = @ \cup {k}]

\* f satisfies its equation for m columns.
IsCol(p, wire, row, old, m, f) == f = [k \in 0..m |-> ColAt(p, wire, row, old, f, k)]

\* There are functions that satisfy its equation,
LEMMA ColExists ==
  ASSUME NEW p, NEW wire, NEW row, NEW old
  PROVE  \A m \in Nat : \E f : IsCol(p, wire, row, old, m, f)
<1> DEFINE S == {m \in Nat : \E f : f = [k \in 0..m |-> ColAt(p, wire, row, old, f, k)]}
<1>1. 0 \in S
  <2> DEFINE f == [k \in 0..0 |->
                     [got |-> <<>>, used |-> 0, row |-> row, old |-> old, done |-> FALSE]]
  <2>1. \A k \in 0..0 : ColAt(p, wire, row, old, f, k) = f[k]
    <3>1. \A k \in 0..0 : k = 0
      OBVIOUS
    <3>2. QED
      BY <3>1, Zenon DEF ColAt
  <2>2. f = [k \in 0..0 |-> ColAt(p, wire, row, old, f, k)]
    BY <2>1, Zenon
  <2>3. QED
    BY <2>2, Zenon
<1>2. ASSUME NEW m \in Nat, m \in S PROVE m + 1 \in S
  <2> SUFFICES \E f : f = [k \in 0..(m + 1) |-> ColAt(p, wire, row, old, f, k)]
    OBVIOUS
  <2>1. PICK f : f = [k \in 0..m |-> ColAt(p, wire, row, old, f, k)]
    BY <1>2, Zenon
  <2> DEFINE g == [k \in 0..(m + 1) |->
                     IF k = m + 1 THEN ColAt(p, wire, row, old, f, k) ELSE f[k]]
  <2>2. ASSUME NEW k \in 0..(m + 1) PROVE g[k] = ColAt(p, wire, row, old, f, k)
    <3>1. CASE k = m + 1
      BY <3>1, Zenon
    <3>2. CASE k # m + 1
      <4>1. k \in 0..m
        BY <3>2
      <4>2. g[k] = f[k]
        BY <3>2, Zenon
      <4>3. f[k] = ColAt(p, wire, row, old, f, k)
        BY <2>1, <4>1, Zenon
      <4>4. QED
        BY <4>2, <4>3, Zenon
    <3>3. QED
      BY <3>1, <3>2
  <2>3. ASSUME NEW k \in 0..(m + 1), k # 0 PROVE f[k - 1] = g[k - 1]
    <3>1. k - 1 \in 0..(m + 1) /\ k - 1 # m + 1
      BY <2>3
    <3>2. QED
      BY <3>1, Zenon
  <2> HIDE DEF g
  <2>4. \A k \in 0..(m + 1) : g[k] = ColAt(p, wire, row, old, g, k)
    <3> SUFFICES ASSUME NEW k \in 0..(m + 1)
                 PROVE  ColAt(p, wire, row, old, f, k) = ColAt(p, wire, row, old, g, k)
      BY <2>2, Zenon
    <3>1. CASE k = 0
      BY <3>1, Zenon DEF ColAt
    <3>2. CASE k # 0
      <4>1. f[k - 1] = g[k - 1]
        BY <2>3, <3>2
      <4>2. QED
        BY <4>1, Zenon DEF ColAt
    <3>3. QED
      BY <3>1, <3>2
  <2>5. g = [k \in 0..(m + 1) |-> ColAt(p, wire, row, old, g, k)]
    BY <2>4, Zenon DEF g
  <2>6. QED
    BY <2>5, Zenon
<1>3. QED
  <2> HIDE DEF S
  <2>1. \A m \in Nat : m \in S
    BY <1>1, <1>2, Induct
  <2>2. QED
    BY <2>1, Zenon DEF S, IsCol

\* and the columns have the values of one of them.
LEMMA ColSolves ==
  ASSUME NEW p, NEW wire, NEW row, NEW old, NEW count \in Nat
  PROVE  \E f : /\ \A k \in 0..count : f[k] = ColAt(p, wire, row, old, f, k)
                /\ Columns(p, wire, row, old, count) =
                     [got |-> f[count].got, row |-> f[count].row, old |-> f[count].old,
                      ok |-> f[count].used = Len(wire)]
<1> DEFINE F == CHOOSE f : f = [k \in 0..count |-> ColAt(p, wire, row, old, f, k)]
<1>0. \E f : IsCol(p, wire, row, old, count, f)
  BY ColExists
<1>1. F = [k \in 0..count |-> ColAt(p, wire, row, old, F, k)]
  BY <1>0, Zenon DEF IsCol
<1>2. Columns(p, wire, row, old, count) =
        [got |-> F[count].got, row |-> F[count].row, old |-> F[count].old,
         ok |-> F[count].used = Len(wire)]
  BY Zenon DEF Columns, ColAt
<1>3. \A k \in 0..count : F[k] = ColAt(p, wire, row, old, F, k)
  BY <1>1, Zenon
<1>4. QED
  BY <1>2, <1>3, Zenon

\* What a pass leaves.
ColState == [got : Seq(Values), used : Nat, row : [Cols -> Values], old : SUBSET Cols,
             done : BOOLEAN]

\* The four cases of a pass.
PassGood(p, wire, row, old, f, k) ==
  LET b == f[k - 1]
      kept == p.bits /\ k \notin p.szCol
      over == b.used >= p.uColNum \/ b.used >= Len(wire)
  IN  /\ f[k] \in ColState
      /\ b.done => f[k] = b
      /\ ~b.done /\ kept =>
           /\ f[k].got = Append(b.got, IF k \in old THEN row[k] ELSE NULL)
           /\ f[k].used = b.used /\ f[k].row = b.row /\ f[k].old = b.old /\ ~f[k].done
      /\ ~b.done /\ ~kept /\ over =>
           /\ f[k].got = b.got /\ f[k].used = b.used /\ f[k].row = b.row
           /\ f[k].old = b.old /\ f[k].done
      /\ ~b.done /\ ~kept /\ ~over =>
           /\ f[k].got = Append(b.got, wire[b.used + 1]) /\ f[k].used = b.used + 1
           /\ f[k].row = [b.row EXCEPT ![k] = wire[b.used + 1]]
           /\ f[k].old = b.old \cup {k} /\ ~f[k].done
           /\ wire[b.used + 1] \in Values

\* Every pass is one of them.
LEMMA ColPass ==
  ASSUME NEW p \in PacketType, NEW wire \in Seq(Values),
         NEW row \in [Cols -> Values], NEW old \in SUBSET Cols, NEW f, NEW k \in Cols,
         f[k - 1] \in ColState, f[k] = ColAt(p, wire, row, old, f, k)
  PROVE  PassGood(p, wire, row, old, f, k)
<1> DEFINE b == f[k - 1]
           kept == p.bits /\ k \notin p.szCol
           over == b.used >= p.uColNum \/ b.used >= Len(wire)
           v == IF k \in old THEN row[k] ELSE NULL
           w == wire[b.used + 1]
<1>0. p.bits \in BOOLEAN /\ p.uColNum \in Nat
  BY RowsAssumption DEF PacketType
<1>1. k # 0
  BY RowsAssumption DEF Cols
<1>2. /\ b.done => f[k] = b
      /\ ~b.done /\ kept => f[k] = [b EXCEPT !.got = Append(@, v)]
      /\ ~b.done /\ ~kept /\ over => f[k] = [b EXCEPT !.done = TRUE]
      /\ ~b.done /\ ~kept /\ ~over =>
           f[k] = [b EXCEPT !.got = Append(@, w), !.used = @ + 1, !.row[k] = w, !.old = @ \cup {k}]
  BY <1>1, Zenon DEF ColAt
<1>3. b \in ColState
  OBVIOUS
<1>4. v \in Values
  BY DEF Values
<1>5. ~over => w \in Values
  <2>1. ~over => b.used + 1 \in 1..Len(wire)
    BY <1>0, <1>3 DEF ColState
  <2>2. QED
    BY <2>1
<1>6. b.got \in Seq(Values) /\ b.used \in Nat /\ b.row \in [Cols -> Values]
      /\ b.old \in SUBSET Cols /\ b.done \in BOOLEAN
  BY <1>3 DEF ColState
<1> HIDE DEF v, w, over, kept, b
<1>7. CASE b.done
  BY <1>2, <1>3, <1>7 DEF b, kept, over, PassGood
<1>8. CASE ~b.done /\ kept
  <2>1. f[k] = [b EXCEPT !.got = Append(b.got, v)]
    BY <1>2, <1>8
  <2>2. Append(b.got, v) \in Seq(Values)
    BY <1>4, <1>6, AppendProperties
  <2>3. f[k] \in ColState
    BY <1>3, <2>1, <2>2 DEF ColState
  <2>4. /\ f[k].got = Append(b.got, v) /\ f[k].used = b.used /\ f[k].row = b.row
        /\ f[k].old = b.old /\ f[k].done = b.done
    BY <1>3, <2>1 DEF ColState
  <2>5. QED
    BY <1>8, <2>3, <2>4 DEF b, kept, over, v, PassGood
<1>9. CASE ~b.done /\ ~kept /\ over
  <2>1. f[k] = [b EXCEPT !.done = TRUE]
    BY <1>2, <1>9
  <2>2. f[k] \in ColState
    BY <1>3, <2>1 DEF ColState
  <2>3. /\ f[k].got = b.got /\ f[k].used = b.used /\ f[k].row = b.row
        /\ f[k].old = b.old /\ f[k].done
    BY <1>3, <2>1 DEF ColState
  <2>4. QED
    BY <1>9, <2>2, <2>3 DEF b, kept, over, PassGood
<1>10. CASE ~b.done /\ ~kept /\ ~over
  <2> DEFINE G == Append(b.got, w)
             U == b.used + 1
             R == [b.row EXCEPT ![k] = w]
             O == b.old \cup {k}
  <2>1. f[k] = [b EXCEPT !.got = G, !.used = U, !.row = R, !.old = O]
    BY <1>2, <1>3, <1>10 DEF ColState
  <2>2. G \in Seq(Values) /\ U \in Nat /\ R \in [Cols -> Values] /\ O \in SUBSET Cols
    BY <1>5, <1>6, <1>10, AppendProperties
  <2> HIDE DEF G, U, R, O
  <2>3. f[k] \in ColState
    BY <1>3, <2>1, <2>2 DEF ColState
  <2>4. f[k].got = G /\ f[k].used = U /\ f[k].row = R /\ f[k].old = O /\ f[k].done = b.done
    BY <1>3, <2>1 DEF ColState
  <2>5. QED
    BY <1>5, <1>10, <2>3, <2>4 DEF b, kept, over, w, G, U, R, O, PassGood
<1>11. QED
  BY <1>6, <1>7, <1>8, <1>9, <1>10

\* The columns have their types whatever the packet is,
LEMMA ColumnsTyped ==
  ASSUME NEW p \in PacketType, NEW wire \in Seq(Values),
         NEW row \in [Cols -> Values], NEW old \in SUBSET Cols, NEW count \in 0..MaxCols
  PROVE  /\ Columns(p, wire, row, old, count).row \in [Cols -> Values]
         /\ Columns(p, wire, row, old, count).old \in SUBSET Cols
<1>1. count \in Nat /\ MaxCols \in Nat
  BY RowsAssumption
<1>2. PICK f : /\ \A k \in 0..count : f[k] = ColAt(p, wire, row, old, f, k)
               /\ Columns(p, wire, row, old, count) =
                    [got |-> f[count].got, row |-> f[count].row, old |-> f[count].old,
                     ok |-> f[count].used = Len(wire)]
  BY <1>1, ColSolves
<1> DEFINE S == {m \in Nat : m <= count => f[m] \in ColState}
<1>3. 0 \in S
  <2>1. f[0] = [got |-> <<>>, used |-> 0, row |-> row, old |-> old, done |-> FALSE]
    <3>1. 0 \in 0..count
      BY <1>1
    <3>2. QED
      BY <1>2, <3>1, Zenon DEF ColAt
  <2>2. f[0] \in ColState
    BY <2>1 DEF ColState
  <2>3. QED
    BY <2>2
<1>4. ASSUME NEW m \in Nat, m \in S, m + 1 <= count PROVE f[m + 1] \in ColState
  <2> DEFINE k == m + 1
  <2>1. f[m] \in ColState /\ k - 1 = m /\ k \in 0..count /\ k \in Cols
    BY <1>1, <1>4 DEF Cols
  <2> HIDE DEF k
  <2>2. f[k - 1] \in ColState /\ f[k] = ColAt(p, wire, row, old, f, k)
    BY <1>2, <2>1
  <2>3. PassGood(p, wire, row, old, f, k)
    BY <2>1, <2>2, ColPass
  <2>4. QED
    BY <2>3 DEF k, PassGood
<1>5. count \in S
  <2>1. \A m \in Nat : m \in S => m + 1 \in S
    BY <1>4
  <2> HIDE DEF S
  <2>2. QED
    BY <1>1, <1>3, <2>1, Induct
<1>6. f[count] \in ColState
  BY <1>1, <1>5
<1>7. QED
  BY <1>2, <1>6 DEF ColState

\* The row r has been shown, and is remembered in place of row and old.
TookWhole(d, r, row, old) ==
  /\ d.got = r
  /\ d.row = [k \in Cols |-> IF k <= Len(r) THEN r[k] ELSE row[k]]
  /\ d.old = old \cup 1..Len(r)

\* A row that comes whole, with as many columns as it has, is shown and remembered.
LEMMA ColumnsWhole ==
  ASSUME NEW p \in PacketType, ~p.bits, NEW r \in Seq(Values), p.uColNum = Len(r),
         NEW row \in [Cols -> Values], NEW old \in SUBSET Cols,
         NEW count \in 0..MaxCols, Len(r) <= count
  PROVE  TookWhole(Columns(p, r, row, old, count), r, row, old)
<1> DEFINE L == Len(r)
<1>0. p.bits = FALSE
  BY DEF PacketType
<1>1. count \in Nat /\ MaxCols \in Nat /\ L \in Nat /\ \A k \in 1..L : r[k] \in Values
  BY RowsAssumption
<1>2. PICK f : /\ \A k \in 0..count : f[k] = ColAt(p, r, row, old, f, k)
               /\ Columns(p, r, row, old, count) =
                    [got |-> f[count].got, row |-> f[count].row, old |-> f[count].old,
                     ok |-> f[count].used = Len(r)]
  BY <1>1, ColSolves
<1> DEFINE Low(m) == IF m <= L THEN m ELSE L
           Good(m) == /\ f[m] \in ColState /\ f[m].used = Low(m) /\ Len(f[m].got) = Low(m)
                      /\ \A i \in 1..Low(m) : f[m].got[i] = r[i]
                      /\ \A i \in Cols : f[m].row[i] = IF i <= Low(m) THEN r[i] ELSE row[i]
                      /\ f[m].old = old \cup 1..Low(m)
                      /\ m <= L => ~f[m].done
           S == {m \in Nat : m <= count => Good(m)}
<1>3. 0 \in S
  <2>1. f[0] = [got |-> <<>>, used |-> 0, row |-> row, old |-> old, done |-> FALSE]
    <3>1. 0 \in 0..count
      BY <1>1
    <3>2. QED
      BY <1>2, <3>1, Zenon DEF ColAt
  <2>2. f[0] \in ColState /\ f[0].used = 0 /\ Len(f[0].got) = 0 /\ ~f[0].done
    BY <2>1 DEF ColState
  <2>3. f[0].row = row /\ f[0].old = old
    BY <2>1
  <2>4. Low(0) = 0 /\ 1..0 = {} /\ \A i \in Cols : ~(i <= 0)
    BY <1>1 DEF Cols
  <2>5. old \cup 1..0 = old
    BY <2>4
  <2>6. Good(0)
    BY <2>2, <2>3, <2>4, <2>5
  <2>7. QED
    BY <2>6
<1>4. ASSUME NEW m \in Nat, m \in S, m + 1 <= count PROVE Good(m + 1)
  <2>0. Good(m)
    BY <1>1, <1>4
  <2> DEFINE k == m + 1
             b == f[k - 1]
  <2>1. k \in Nat /\ k - 1 = m /\ k \in 0..count /\ k \in Cols
    BY <1>1, <1>4 DEF Cols
  <2>2. b = f[m]
    BY <2>1
  <2> HIDE DEF k
  <2>3. f[k - 1] \in ColState /\ f[k] = ColAt(p, r, row, old, f, k)
    BY <1>2, <2>0, <2>1
  <2>4. /\ f[k] \in ColState
        /\ b.done => f[k] = b
        /\ ~b.done /\ (b.used >= p.uColNum \/ b.used >= L) =>
             /\ f[k].got = b.got /\ f[k].used = b.used /\ f[k].row = b.row
             /\ f[k].old = b.old /\ f[k].done
        /\ ~b.done /\ ~(b.used >= p.uColNum \/ b.used >= L) =>
             /\ f[k].got = Append(b.got, r[b.used + 1]) /\ f[k].used = b.used + 1
             /\ f[k].row = [b.row EXCEPT ![k] = r[b.used + 1]]
             /\ f[k].old = b.old \cup {k} /\ ~f[k].done
    <3> HIDE DEF b
    <3>1. PassGood(p, r, row, old, f, k)
      BY <2>1, <2>3, ColPass
    <3>2. QED
      BY <1>0, <3>1, Zenon DEF b, PassGood
  <2> HIDE DEF b
  <2>5. b \in ColState /\ b.got \in Seq(Values) /\ b.row \in [Cols -> Values]
    BY <2>0, <2>2 DEF ColState
  <2>6. CASE k <= L
    <3>1. Low(m) = m /\ Low(k) = k /\ m < L /\ m <= L /\ m + 1 = k
      BY <1>1, <2>1, <2>6
    <3>2. b.used = m /\ ~b.done /\ Len(b.got) = m
      BY <2>0, <2>2, <3>1
    <3>3. ~(b.used >= p.uColNum \/ b.used >= L)
      BY <1>1, <3>1, <3>2
    <3>4. /\ f[k].got = Append(b.got, r[k]) /\ f[k].used = k
          /\ f[k].row = [b.row EXCEPT ![k] = r[k]]
          /\ f[k].old = b.old \cup {k} /\ ~f[k].done
      BY <2>4, <3>1, <3>2, <3>3
    <3>5. r[k] \in Values
      BY <1>1, <2>1, <2>6, <3>1
    <3>6. /\ Len(f[k].got) = k /\ f[k].got[k] = r[k]
          /\ \A i \in 1..m : f[k].got[i] = b.got[i]
      BY <2>5, <3>1, <3>2, <3>4, <3>5, AppendProperties
    <3>7. \A i \in 1..k : f[k].got[i] = r[i]
      BY <2>0, <2>1, <2>2, <3>1, <3>6
    <3>8. \A i \in Cols : f[k].row[i] = IF i <= k THEN r[i] ELSE row[i]
      <4> SUFFICES ASSUME NEW i \in Cols PROVE f[k].row[i] = IF i <= k THEN r[i] ELSE row[i]
        OBVIOUS
      <4>1. b.row[i] = IF i <= m THEN r[i] ELSE row[i]
        BY <2>0, <2>2, <3>1
      <4>2. CASE i = k
        BY <2>1, <2>5, <3>4, <4>2
      <4>3. CASE i # k
        <5>1. f[k].row[i] = b.row[i]
          BY <2>5, <3>4, <4>3
        <5>2. i <= k <=> i <= m
          BY <1>1, <2>1, <3>1, <4>3 DEF Cols
        <5>3. QED
          BY <4>1, <5>1, <5>2
      <4>4. QED
        BY <4>2, <4>3
    <3>9. f[k].old = old \cup 1..k
      <4>1. b.old = old \cup 1..m
        BY <2>0, <2>2, <3>1
      <4>2. 1..k = 1..m \cup {k}
        BY <2>1, <3>1
      <4>3. QED
        BY <3>4, <4>1, <4>2, Zenon
    <3>10. Good(k)
      BY <2>4, <3>1, <3>4, <3>6, <3>7, <3>8, <3>9
    <3>11. QED
      BY <3>10 DEF k
  <2>7. CASE ~(k <= L)
    <3>1. Low(m) = L /\ Low(k) = L
      BY <1>1, <2>1, <2>7
    <3>2. b.used = L
      BY <2>0, <2>2, <3>1
    <3>3. b.used >= p.uColNum \/ b.used >= L
      BY <1>1, <3>2
    <3>4. f[k].got = b.got /\ f[k].used = b.used /\ f[k].row = b.row /\ f[k].old = b.old
      BY <2>4, <3>3
    <3>5. Good(k)
      BY <2>0, <2>2, <2>4, <2>7, <3>1, <3>4
    <3>6. QED
      BY <3>5 DEF k
  <2>8. QED
    BY <2>6, <2>7
<1>5. count \in S
  <2>1. \A m \in Nat : m \in S => m + 1 \in S
    <3> HIDE DEF Good
    <3>1. QED
      BY <1>4
  <2> HIDE DEF S
  <2>2. QED
    BY <1>1, <1>3, <2>1, Induct
<1>6. Good(count) /\ Low(count) = L
  BY <1>1, <1>5
<1>7. f[count].got = r
  <2>1. f[count].got \in Seq(Values)
    BY <1>6 DEF ColState
  <2>2. QED
    BY <1>6, <2>1, SeqEqual
<1>8. f[count].row = [k \in Cols |-> IF k <= L THEN r[k] ELSE row[k]]
  <2>1. f[count].row \in [Cols -> Values]
    BY <1>6 DEF ColState
  <2>2. QED
    BY <1>6, <2>1
<1>9. QED
  BY <1>2, <1>6, <1>7, <1>8 DEF TookWhole

\* The bits of r have been shown and are remembered, and of row and old the others.
TookDelta(d, r, bits, row, old, count) ==
  /\ d.got \in Seq(Values) /\ Len(d.got) = count
  /\ \A k \in 1..count : d.got[k] = IF k \in bits THEN r[k] ELSE Kept(row, old, k)
  /\ d.row = [k \in Cols |-> IF k \in bits THEN r[k] ELSE row[k]]
  /\ d.old = old \cup bits

\* A row that comes as the columns that differ: the others are shown as remembered.
LEMMA ColumnsDelta ==
  ASSUME NEW p \in PacketType, p.bits, NEW r \in Seq(Values), NEW bits \in SUBSET (1..Len(r)),
         p.szCol = bits, Cardinality(bits) <= p.uColNum,
         NEW row \in [Cols -> Values], NEW old \in SUBSET Cols, NEW count \in 0..MaxCols,
         Len(r) <= count
  PROVE  TookDelta(Columns(p, Wire(r, bits), row, old, count), r, bits, row, old, count)
<1> DEFINE wire == Wire(r, bits)
           L == Len(r)
<1>0. p.bits = TRUE /\ p.uColNum \in Nat
  BY RowsAssumption DEF PacketType
<1>1. count \in Nat /\ MaxCols \in Nat /\ L \in Nat /\ \A k \in 1..L : r[k] \in Values
  BY RowsAssumption
<1>2. /\ wire \in Seq(Values) /\ Len(wire) = Cardinality(bits)
      /\ \A k \in bits : /\ Below(bits, k - 1) < Len(wire)
                         /\ wire[Below(bits, k - 1) + 1] = r[k]
  BY WireRight
<1> HIDE DEF wire
<1>3. PICK f : /\ \A k \in 0..count : f[k] = ColAt(p, wire, row, old, f, k)
               /\ Columns(p, wire, row, old, count) =
                    [got |-> f[count].got, row |-> f[count].row, old |-> f[count].old,
                     ok |-> f[count].used = Len(wire)]
  BY <1>1, ColSolves
<1> DEFINE Shown(i) == IF i \in bits THEN r[i] ELSE Kept(row, old, i)
           Good(m) == /\ f[m] \in ColState /\ f[m].used = Below(bits, m) /\ Len(f[m].got) = m
                      /\ \A i \in 1..m : f[m].got[i] = Shown(i)
                      /\ \A i \in Cols : f[m].row[i] = IF i \in bits /\ i <= m THEN r[i] ELSE row[i]
                      /\ f[m].old = old \cup (bits \cap 1..m)
                      /\ ~f[m].done
           S == {m \in Nat : m <= count => Good(m)}
<1>4. 0 \in S
  <2>1. f[0] = [got |-> <<>>, used |-> 0, row |-> row, old |-> old, done |-> FALSE]
    <3>1. 0 \in 0..count
      BY <1>1
    <3>2. QED
      BY <1>3, <3>1, Zenon DEF ColAt
  <2>2. f[0] \in ColState /\ f[0].used = 0 /\ Len(f[0].got) = 0 /\ ~f[0].done
    BY <2>1 DEF ColState
  <2>3. f[0].row = row /\ f[0].old = old
    BY <2>1
  <2>4. Below(bits, 0) = 0 /\ 1..0 = {} /\ \A i \in Cols : ~(i <= 0)
    BY <1>1, BelowCounts DEF Cols
  <2>5. old \cup (bits \cap 1..0) = old
    BY <2>4
  <2>6. Good(0)
    BY <2>2, <2>3, <2>4, <2>5
  <2>7. QED
    BY <2>6
<1>5. ASSUME NEW m \in Nat, m \in S, m + 1 <= count PROVE Good(m + 1)
  <2>0. Good(m)
    BY <1>1, <1>5
  <2> DEFINE k == m + 1
             b == f[k - 1]
  <2>1. k \in Nat /\ k - 1 = m /\ k \in 0..count /\ k \in Cols /\ m + 1 = k
    <3>1. m + 1 <= count
      BY <1>5
    <3> HIDE DEF S, Good, L, Shown
    <3>2. QED
      BY <1>1, <3>1 DEF Cols
  <2>2. b = f[m]
    BY <2>1
  <2>3. /\ Below(bits, m) \in Nat
        /\ Below(bits, k) = IF k \in bits THEN Below(bits, m) + 1 ELSE Below(bits, m)
    BY BelowCounts
  <2> HIDE DEF k
  <2>4. f[k - 1] \in ColState /\ f[k] = ColAt(p, wire, row, old, f, k)
    BY <1>3, <2>0, <2>1
  <2>5. PassGood(p, wire, row, old, f, k)
    BY <1>2, <2>1, <2>4, ColPass
  <2>6. f[k] \in ColState
    BY <2>5 DEF PassGood
  <2>7. b \in ColState /\ b.got \in Seq(Values) /\ b.row \in [Cols -> Values] /\ Len(b.got) = m
        /\ ~b.done /\ b.used = Below(bits, m)
    BY <2>0, <2>2 DEF ColState
  <2> DEFINE v == Shown(k)
  <2>8. v \in Values
    BY <1>1, <2>1 DEF Values, Kept
  <2>9. /\ f[k].got = Append(b.got, v) /\ f[k].used = Below(bits, k) /\ ~f[k].done
        /\ f[k].row = IF k \in bits THEN [b.row EXCEPT ![k] = r[k]] ELSE b.row
        /\ f[k].old = IF k \in bits THEN b.old \cup {k} ELSE b.old
    <3>1. CASE k \notin bits
      <4>1. /\ f[k].got = Append(b.got, IF k \in old THEN row[k] ELSE NULL)
            /\ f[k].used = b.used /\ f[k].row = b.row /\ f[k].old = b.old /\ ~f[k].done
        BY <1>0, <2>5, <2>7, <3>1, Zenon DEF PassGood
      <4>2. QED
        BY <2>3, <2>7, <3>1, <4>1 DEF Kept
    <3>2. CASE k \in bits
      <4>1. Below(bits, m) < Len(wire) /\ wire[Below(bits, m) + 1] = r[k]
        BY <1>2, <2>1, <3>2
      <4>2. Len(wire) \in Nat
        BY <1>2
      <4>3. ~(b.used >= p.uColNum \/ b.used >= Len(wire))
        BY <1>0, <1>2, <2>3, <2>7, <4>1, <4>2
      <4>4. /\ f[k].got = Append(b.got, wire[b.used + 1]) /\ f[k].used = b.used + 1
            /\ f[k].row = [b.row EXCEPT ![k] = wire[b.used + 1]]
            /\ f[k].old = b.old \cup {k} /\ ~f[k].done
        BY <2>5, <2>7, <3>2, <4>3, Zenon DEF PassGood
      <4>5. QED
        BY <2>3, <2>7, <3>2, <4>1, <4>4
    <3>3. QED
      BY <3>1, <3>2
  <2> HIDE DEF v, b
  <2>10. /\ Len(f[k].got) = k /\ f[k].got[k] = v
         /\ \A i \in 1..m : f[k].got[i] = b.got[i]
    BY <2>1, <2>7, <2>8, <2>9, AppendProperties
  <2>11. \A i \in 1..k : f[k].got[i] = Shown(i)
    <3> SUFFICES ASSUME NEW i \in 1..k PROVE f[k].got[i] = Shown(i)
      OBVIOUS
    <3>1. CASE i = k
      BY <2>10, <3>1 DEF v
    <3>2. CASE i # k
      <4>1. i \in 1..m
        BY <2>1, <3>2
      <4> HIDE DEF Shown
      <4>2. QED
        BY <2>0, <2>2, <2>10, <4>1
    <3>3. QED
      BY <3>1, <3>2
  <2>12. \A i \in Cols : f[k].row[i] = IF i \in bits /\ i <= k THEN r[i] ELSE row[i]
    <3> SUFFICES ASSUME NEW i \in Cols
                 PROVE  f[k].row[i] = IF i \in bits /\ i <= k THEN r[i] ELSE row[i]
      OBVIOUS
    <3>1. b.row[i] = IF i \in bits /\ i <= m THEN r[i] ELSE row[i]
      BY <2>0, <2>2
    <3>2. i \in Nat
      BY <1>1 DEF Cols
    <3>3. CASE i = k
      <4>1. ~(i <= m) /\ i <= k
        BY <2>1, <3>3
      <4>2. f[k].row[i] = IF k \in bits THEN r[k] ELSE b.row[i]
        BY <2>7, <2>9, <3>3
      <4>3. QED
        BY <3>1, <3>3, <4>1, <4>2
    <3>4. CASE i # k
      <4>1. f[k].row[i] = b.row[i]
        BY <2>7, <2>9, <3>4
      <4>2. i <= k <=> i <= m
        BY <2>1, <3>2, <3>4
      <4>3. QED
        BY <3>1, <4>1, <4>2
    <3>5. QED
      BY <3>3, <3>4
  <2>13. f[k].old = old \cup (bits \cap 1..k)
    <3>1. b.old = old \cup (bits \cap 1..m)
      BY <2>0, <2>2
    <3>2. 1..k = 1..m \cup {k}
      BY <2>1
    <3>3. QED
      BY <2>9, <3>1, <3>2
  <2> HIDE DEF Shown
  <2>14. Good(k)
    BY <2>6, <2>9, <2>10, <2>11, <2>12, <2>13
  <2>15. QED
    BY <2>14 DEF k
<1>6. count \in S
  <2>1. \A m \in Nat : m \in S => m + 1 \in S
    <3> HIDE DEF Good
    <3>1. QED
      BY <1>5
  <2> HIDE DEF S
  <2>2. QED
    BY <1>1, <1>4, <2>1, Induct
<1>7. Good(count)
  BY <1>1, <1>6
<1>8. f[count].got \in Seq(Values) /\ f[count].row \in [Cols -> Values]
  BY <1>7 DEF ColState
<1>9. (\A i \in bits : i <= count) /\ bits \cap 1..count = bits
  <2>1. \A i \in bits : i \in 1..count
    BY <1>1
  <2>2. \A i \in bits : i <= count
    BY <1>1, <2>1
  <2>3. bits \cap 1..count = bits
    BY <2>1, Zenon
  <2>4. QED
    BY <2>2, <2>3
<1>10. f[count].row = [k \in Cols |-> IF k \in bits THEN r[k] ELSE row[k]]
  BY <1>7, <1>8, <1>9
<1>11. f[count].old = old \cup bits
  BY <1>7, <1>9
<1>12. QED
  BY <1>3, <1>7, <1>8, <1>10, <1>11 DEF wire, TookDelta

\* 0602 keeps the types,
LEMMA Columns0602Typed ==
  ASSUME NEW p, p.uColNum \in Nat, NEW wire \in Seq(Values), NEW row \in [Cols -> Values],
         NEW old \in SUBSET Cols, NEW count \in 0..MaxCols, p.uColNum <= count,
         NEW first \in BOOLEAN
  PROVE  LET d == Columns0602(p, wire, row, old, count, first)
         IN  d.row \in [Cols -> Values] /\ d.old \in SUBSET Cols
<1> DEFINE n == IF p.uColNum < Len(wire) THEN p.uColNum ELSE Len(wire)
           shift == IF first /\ nMaxColNum >= p.uColNum THEN count - p.uColNum ELSE 0
           set == {k \in Cols : k > shift /\ k <= shift + n}
           R == [k \in Cols |-> IF k \in set THEN wire[k - shift] ELSE row[k]]
           d == Columns0602(p, wire, row, old, count, first)
<1>1. d = [got |-> SubSeq(wire, 1, n), row |-> R, old |-> old \cup set,
           ok |-> n = Len(wire) /\ wire # <<>>]
  BY DEF Columns0602
<1>2. Len(wire) \in Nat /\ n \in Nat /\ n <= Len(wire) /\ shift \in Nat
  BY RowsAssumption
<1> HIDE DEF n, shift
<1>3. \A k \in set : k - shift \in 1..Len(wire)
  BY <1>2, RowsAssumption DEF Cols
<1>4. R \in [Cols -> Values]
  <2>1. \A k \in set : wire[k - shift] \in Values
    BY <1>3
  <2> HIDE DEF set
  <2>2. QED
    BY <2>1
<1>5. set \subseteq Cols
  OBVIOUS
<1> HIDE DEF R, set, d
<1>6. QED
  BY <1>1, <1>4, <1>5 DEF d

\* and shows what has been sent, if it is not more than the columns there are.
LEMMA Columns0602Shows ==
  ASSUME NEW p, p.uColNum \in Nat, NEW wire \in Seq(Values), Len(wire) <= p.uColNum,
         NEW row, NEW old, NEW count, NEW first
  PROVE  Columns0602(p, wire, row, old, count, first).got = wire
<1> DEFINE n == IF p.uColNum < Len(wire) THEN p.uColNum ELSE Len(wire)
<1>1. n = Len(wire)
  OBVIOUS
<1> HIDE DEF n
<1>2. Columns0602(p, wire, row, old, count, first).got = SubSeq(wire, 1, n)
  BY DEF Columns0602, n
<1>3. SubSeq(wire, 1, Len(wire)) = wire
  BY SubSeqFull
<1>4. QED
  BY <1>1, <1>2, <1>3

-----------------------------------------------------------------------------
(* Types. *)

\* A row that is sent.
LEMMA RowType ==
  ASSUME NEW r \in ResultRows
  PROVE  r \in Seq(Values) /\ Len(r) \in Cols /\ DOMAIN r = 1..Len(r) /\ r # <<>>
<1>1. PICK n \in Cols : r \in [1..n -> Values]
  BY DEF ResultRows
<1>2. n \in Nat /\ n >= 1
  BY RowsAssumption DEF Cols
<1>3. r \in Seq(Values) /\ Len(r) = n /\ DOMAIN r = 1..n
  BY <1>1, <1>2
<1>4. QED
  BY <1>2, <1>3

\* The first numbers.
LEMMA FirstNumbers == \A n \in Nat : IsFiniteSet(1..n) /\ Cardinality(1..n) = n
<1> SUFFICES ASSUME NEW n \in Nat PROVE IsFiniteSet(1..n) /\ Cardinality(1..n) = n
  OBVIOUS
<1>1. IsFiniteSet(1..n) /\ Cardinality(1..n) = IF 1 > n THEN 0 ELSE n - 1 + 1
  BY FS_Interval
<1>2. QED
  BY <1>1

\* The bits of a row are some of its columns.
LEMMA BitsType ==
  ASSUME NEW c, NEW r \in ResultRows
  PROVE  /\ Changed(c, r) \in SUBSET (1..Len(r)) /\ Changed(c, r) \in SUBSET Cols
         /\ Cardinality(Changed(c, r)) \in 0..Len(r)
         /\ Cardinality(Changed(c, r)) = Len(r) => Changed(c, r) = 1..Len(r)
         /\ Wire(r, Changed(c, r)) \in Seq(Values)
         /\ Len(Wire(r, Changed(c, r))) = Cardinality(Changed(c, r))
<1> DEFINE bits == Changed(c, r)
<1>1. r \in Seq(Values) /\ Len(r) \in Cols /\ DOMAIN r = 1..Len(r)
  BY RowType
<1>2. bits \in SUBSET (1..Len(r))
  BY <1>1 DEF Changed
<1> HIDE DEF bits
<1>3. Len(r) \in Nat /\ Len(r) <= MaxCols /\ MaxCols \in Nat /\ Len(r) >= 1
  BY <1>1, RowsAssumption DEF Cols
<1>4. bits \in SUBSET Cols
  BY <1>2, <1>3 DEF Cols
<1>5. IsFiniteSet(1..Len(r)) /\ Cardinality(1..Len(r)) = Len(r)
  BY <1>3, FirstNumbers
<1>6. /\ IsFiniteSet(bits) /\ Cardinality(bits) <= Len(r)
      /\ Cardinality(bits) = Len(r) => bits = 1..Len(r)
  BY <1>2, <1>5, FS_Subset
<1>7. Cardinality(bits) \in 0..Len(r)
  BY <1>3, <1>6, FS_CardinalityType
<1>8. Wire(r, bits) \in Seq(Values) /\ Len(Wire(r, bits)) = Cardinality(bits)
  BY <1>1, <1>2, WireRight
<1>9. QED
  BY <1>2, <1>4, <1>6, <1>7, <1>8 DEF bits

\* The new number of columns.
LEMMA CountType ==
  ASSUME RowsTyped, NEW n \in 0..MaxCols
  PROVE  /\ CountOf(n) \in 0..MaxCols /\ CountOf(n) >= n /\ CountOf(n) >= nMaxColNum
         /\ Glob(n) \in 0..MaxCols
  BY RowsAssumption DEF RowsTyped, RowsTypeOK, CountOf, Glob

\* What a decoder makes of a row.
Result(p, wire, row, old, first) ==
  IF p.dec = "0602" THEN Columns0602(p, wire, row, old, CountOf(p.uColNum), first)
  ELSE Columns(p, wire, row, old, CountOf(p.uColNum))

\* It leaves a row and columns to remember.
LEMMA ResultType ==
  ASSUME RowsTyped, NEW p \in PacketType, NEW wire \in Seq(Values),
         NEW row \in [Cols -> Values], NEW old \in SUBSET Cols, NEW first \in BOOLEAN
  PROVE  /\ Result(p, wire, row, old, first).row \in [Cols -> Values]
         /\ Result(p, wire, row, old, first).old \in SUBSET Cols
<1>1. p.uColNum \in 0..MaxCols /\ p.uColNum \in Nat /\ p.bits \in BOOLEAN
  BY RowsAssumption DEF PacketType
<1> DEFINE count == CountOf(p.uColNum)
<1>2. count \in 0..MaxCols /\ p.uColNum <= count
  BY <1>1, CountType
<1> HIDE DEF count
<1>3. CASE p.dec = "0602"
  <2>1. Result(p, wire, row, old, first) = Columns0602(p, wire, row, old, count, first)
    BY <1>3 DEF Result, count
  <2>2. QED
    BY <1>1, <1>2, <2>1, Columns0602Typed
<1>4. CASE p.dec # "0602"
  <2>1. Result(p, wire, row, old, first) = Columns(p, wire, row, old, count)
    BY <1>4 DEF Result, count
  <2>2. /\ Columns(p, wire, row, old, count).row \in [Cols -> Values]
        /\ Columns(p, wire, row, old, count).old \in SUBSET Cols
    BY <1>2, ColumnsTyped
  <2>3. QED
    BY <2>1, <2>2
<1>5. QED
  BY <1>3, <1>4

\* The end of a packet.
LEMMA EndedType ==
  ASSUME NEW p \in PacketType
  PROVE  /\ Ended(p) \in PacketType /\ Ended(p).dec = p.dec /\ ~Ended(p).open
<1>1. p.dec \in Decoders \cup {"none"} /\ 0 \in 0..MaxCols
  BY RowsAssumption DEF PacketType
<1>2. QED
  BY <1>1 DEF Ended, NoPacket, PacketType

\* The types after a row that is read,
LEMMA DecodeTyped ==
  ASSUME RowsTyped, NEW c \in Conns, NEW p \in PacketType, NEW r \in ResultRows, Row(c, r),
         NEW wire \in Seq(Values), NEW row \in [Cols -> Values], NEW old \in SUBSET Cols,
         NEW first \in BOOLEAN, NEW own \in BOOLEAN, nGlobMaxColNum' \in 0..MaxCols,
         Decode(c, p, r, wire, row, old, first, own)
  PROVE  RowsTyped'
<1> DEFINE d == Result(p, wire, row, old, first)
<1>1. /\ nMaxColNum' = CountOf(p.uColNum) /\ pszRowStr' = d.row /\ szOldCol' = d.old
      /\ prev' = [prev EXCEPT ![c] = r]
      /\ packet' = [packet EXCEPT ![c] = IF d.ok THEN p ELSE Ended(p)]
      /\ clean' = [e \in Conns |-> IF e = c THEN own ELSE FALSE]
      /\ rows' = rows + 1 /\ ncols' = ncols
  BY Zenon DEF Decode, Result, Disturb
<1>2. d.row \in [Cols -> Values] /\ d.old \in SUBSET Cols
  BY ResultType
<1> DEFINE q == IF d.ok THEN p ELSE Ended(p)
<1>3. q \in PacketType
  BY EndedType
<1> HIDE DEF d, q
<1>4. CountOf(p.uColNum) \in 0..MaxCols
  <2>1. p.uColNum \in 0..MaxCols
    BY DEF PacketType
  <2>2. QED
    BY <2>1, CountType
<1>5. packet' = [packet EXCEPT ![c] = q] /\ packet \in [Conns -> PacketType]
  BY <1>1 DEF q, RowsTyped, RowsTypeOK, PacketType
<1>6. packet' \in [Conns -> PacketType]
  BY <1>3, <1>5
<1>7. r \in Seq(Values) /\ Len(r) = ncols[c]
  BY RowType DEF Row
<1>8. /\ prev' \in [Conns -> Seq(Values)]
      /\ \A e \in Conns : Len(prev'[e]) \in {0, ncols[e]}
  BY <1>1, <1>7 DEF RowsTyped, RowsTypeOK
<1>9. rows' \in 0..MaxRows
  BY <1>1, RowsAssumption DEF Row, RowsTyped, RowsTypeOK
<1>10. clean' \in [Conns -> BOOLEAN]
  BY <1>1
<1>11. QED
  BY <1>1, <1>2, <1>4, <1>6, <1>8, <1>9, <1>10 DEF RowsTyped, RowsTypeOK, PacketType

\* after one that is not read,
LEMMA MissTyped ==
  ASSUME RowsTyped, NEW c \in Conns, NEW r \in ResultRows, Row(c, r), NEW own \in BOOLEAN,
         Miss(c, r, own)
  PROVE  RowsTyped'
<1>1. /\ prev' = [prev EXCEPT ![c] = r] /\ packet' = [packet EXCEPT ![c] = Ended(packet[c])]
      /\ clean' = [clean EXCEPT ![c] = own] /\ rows' = rows + 1
      /\ UNCHANGED <<globals, ncols>>
  BY DEF Miss
<1>2. packet \in [Conns -> PacketType]
  BY DEF RowsTyped, RowsTypeOK, PacketType
<1>3. Ended(packet[c]) \in PacketType
  BY <1>2, EndedType
<1>4. packet' \in [Conns -> PacketType]
  BY <1>1, <1>2, <1>3
<1>5. r \in Seq(Values) /\ Len(r) = ncols[c]
  BY RowType DEF Row
<1>6. /\ prev' \in [Conns -> Seq(Values)]
      /\ \A e \in Conns : Len(prev'[e]) \in {0, ncols[e]}
  BY <1>1, <1>5 DEF RowsTyped, RowsTypeOK
<1>7. rows' \in 0..MaxRows
  BY <1>1, RowsAssumption DEF Row, RowsTyped, RowsTypeOK
<1>8. clean' \in [Conns -> BOOLEAN]
  BY <1>1 DEF RowsTyped, RowsTypeOK
<1>9. QED
  BY <1>1, <1>4, <1>6, <1>7, <1>8 DEF globals, RowsTyped, RowsTypeOK, PacketType

\* after a statement,
LEMMA ExecuteTyped ==
  ASSUME RowsTyped, NEW c \in Conns, NEW n \in Cols, Execute(c, n)
  PROVE  RowsTyped'
<1>1. /\ nGlobMaxColNum' = 0 /\ ncols' = [ncols EXCEPT ![c] = n]
      /\ prev' = [prev EXCEPT ![c] = <<>>]
      /\ clean' = [d \in Conns |-> IF d = c THEN TRUE ELSE FALSE]
      /\ UNCHANGED <<nMaxColNum, pszRowStr, szOldCol, packet, rows>>
  BY DEF Execute, Disturb
<1>2. n \in 0..MaxCols /\ 0 \in 0..MaxCols
  BY RowsAssumption DEF Cols
<1>3. clean' \in [Conns -> BOOLEAN]
  BY <1>1
<1>4. <<>> \in Seq(Values) /\ Len(<<>>) = 0
  OBVIOUS
<1>5. /\ prev' \in [Conns -> Seq(Values)] /\ ncols' \in [Conns -> 0..MaxCols]
      /\ \A e \in Conns : Len(prev'[e]) \in {0, ncols'[e]}
  BY <1>1, <1>2, <1>4 DEF RowsTyped, RowsTypeOK
<1>6. QED
  BY <1>1, <1>2, <1>3, <1>5 DEF RowsTyped, RowsTypeOK

\* after a packet without a row of its own,
LEMMA BareTyped ==
  ASSUME RowsTyped, NEW c \in Conns, NEW dec \in Decoders, BarePacket(c, dec)
  PROVE  RowsTyped'
<1> DEFINE q == Packet(dec, 0, dec = "64", {})
<1>1. /\ pszRowStr' = Blank /\ szOldCol' = {} /\ packet' = [packet EXCEPT ![c] = q]
      /\ clean' = [d \in Conns |-> IF d = c THEN FALSE ELSE FALSE]
      /\ UNCHANGED <<nMaxColNum, nGlobMaxColNum, ncols, prev, rows>>
  BY DEF BarePacket, Disturb
<1>2. q \in PacketType
  BY RowsAssumption DEF Packet, PacketType
<1> HIDE DEF q
<1>3. packet' \in [Conns -> PacketType]
  BY <1>1, <1>2 DEF RowsTyped, RowsTypeOK, PacketType
<1>4. Blank \in [Cols -> Values]
  BY DEF Blank, Values
<1>5. clean' \in [Conns -> BOOLEAN]
  BY <1>1
<1>6. QED
  BY <1>1, <1>3, <1>4, <1>5 DEF RowsTyped, RowsTypeOK, PacketType

\* and after the end of a packet.
LEMMA EndsTyped ==
  ASSUME RowsTyped, NEW c \in Conns, PacketEnds(c)
  PROVE  RowsTyped'
<1>1. /\ packet' = [packet EXCEPT ![c] = Ended(packet[c])]
      /\ UNCHANGED <<globals, ncols, prev, clean, rows>>
  BY DEF PacketEnds
<1>2. packet \in [Conns -> PacketType]
  BY DEF RowsTyped, RowsTypeOK, PacketType
<1>3. packet' \in [Conns -> PacketType]
  BY <1>1, <1>2, EndedType
<1>4. QED
  BY <1>1, <1>3 DEF globals, RowsTyped, RowsTypeOK, PacketType

-----------------------------------------------------------------------------
(* What the decoders show and remember. *)

\* A whole row: nothing of a wider row before may be remembered.
LEMMA WholeRight ==
  ASSUME RowsTyped, NEW p \in PacketType, p.dec # "0602", ~p.bits, NEW r \in ResultRows,
         p.uColNum = Len(r), NEW row \in [Cols -> Values], NEW old \in SUBSET Cols, NEW first,
         \A k \in Cols : k > Len(r) => Kept(row, old, k) = NULL
  PROVE  /\ Shows(Result(p, r, row, old, first).got, r)
         /\ Remembers(Result(p, r, row, old, first).row, Result(p, r, row, old, first).old, r)
<1> DEFINE d == Result(p, r, row, old, first)
           count == CountOf(p.uColNum)
<1>1. r \in Seq(Values) /\ Len(r) \in Cols /\ DOMAIN r = 1..Len(r)
  BY RowType
<1>2. Len(r) \in Nat /\ Len(r) \in 0..MaxCols /\ \A k \in Cols : k \in Nat /\ k >= 1
  BY <1>1, RowsAssumption DEF Cols
<1>3. count \in 0..MaxCols /\ Len(r) <= count
  BY <1>2, CountType
<1> HIDE DEF count
<1>5. d = Columns(p, r, row, old, count)
  BY DEF Result, count
<1>6. /\ d.got = r
      /\ d.row = [k \in Cols |-> IF k <= Len(r) THEN r[k] ELSE row[k]]
      /\ d.old = old \cup 1..Len(r)
  <2>1. TookWhole(Columns(p, r, row, old, count), r, row, old)
    BY <1>1, <1>3, ColumnsWhole
  <2>2. QED
    BY <1>5, <2>1, Zenon DEF TookWhole
<1> HIDE DEF d
<1>7. Shows(d.got, r)
  BY <1>1, <1>2, <1>6 DEF Shows, ColumnOf
<1>8. ASSUME NEW k \in Cols PROVE Kept(d.row, d.old, k) = ColumnOf(r, k)
  <2>1. CASE k <= Len(r)
    <3>1. k \in d.old /\ d.row[k] = r[k]
      BY <1>2, <1>6, <2>1
    <3>2. QED
      BY <2>1, <3>1 DEF Kept, ColumnOf
  <2>2. CASE ~(k <= Len(r))
    <3>1. (k \in d.old <=> k \in old) /\ d.row[k] = row[k]
      BY <1>2, <1>6, <2>2
    <3>2. Kept(row, old, k) = NULL
      BY <1>2, <2>2
    <3>3. QED
      BY <2>2, <3>1, <3>2 DEF Kept, ColumnOf
  <2>3. QED
    BY <2>1, <2>2
<1>9. QED
  BY <1>7, <1>8 DEF Remembers, d

\* A row by its bits: the row before must be remembered.
LEMMA DeltaRight ==
  ASSUME RowsTyped, NEW c, NEW p \in PacketType, p.dec # "0602", p.bits, NEW r \in ResultRows,
         p.szCol = Changed(c, r), Cardinality(Changed(c, r)) <= p.uColNum,
         NEW row \in [Cols -> Values], NEW old \in SUBSET Cols, NEW first,
         Len(prev[c]) = Len(r), Len(r) <= nMaxColNum, Remembers(row, old, prev[c])
  PROVE  LET d == Result(p, Wire(r, Changed(c, r)), row, old, first)
         IN  Shows(d.got, r) /\ Remembers(d.row, d.old, r)
<1> DEFINE bits == Changed(c, r)
           wire == Wire(r, bits)
           d == Result(p, wire, row, old, first)
           count == CountOf(p.uColNum)
<1>1. r \in Seq(Values) /\ Len(r) \in Cols /\ DOMAIN r = 1..Len(r)
  BY RowType
<1>2. /\ Len(r) \in Nat /\ MaxCols \in Nat /\ p.uColNum \in Nat
      /\ \A k \in Cols : k \in Nat /\ k >= 1
  BY <1>1, RowsAssumption DEF Cols, PacketType
<1>3. count \in 0..MaxCols /\ Len(r) <= count
  <2>1. p.uColNum \in 0..MaxCols /\ nMaxColNum \in Nat
    BY RowsAssumption DEF PacketType, RowsTyped, RowsTypeOK
  <2>2. count \in 0..MaxCols /\ count >= nMaxColNum
    BY <2>1, CountType
  <2> HIDE DEF count
  <2>3. QED
    BY <1>2, <2>1, <2>2
<1>5. bits \in SUBSET (1..Len(r)) /\ \A k \in 1..Len(r) : k \notin bits => r[k] = prev[c][k]
  <2>1. bits \in SUBSET (1..Len(r))
    BY BitsType
  <2>2. QED
    BY <1>1, <2>1 DEF Changed
<1> HIDE DEF count
<1>6. d = Columns(p, wire, row, old, count)
  BY DEF Result, count
<1>7. p.szCol = bits /\ Cardinality(bits) <= p.uColNum
  OBVIOUS
<1> HIDE DEF bits
<1>8. /\ d.got \in Seq(Values) /\ Len(d.got) = count
      /\ \A k \in 1..count : d.got[k] = IF k \in bits THEN r[k] ELSE Kept(row, old, k)
      /\ d.row = [k \in Cols |-> IF k \in bits THEN r[k] ELSE row[k]]
      /\ d.old = old \cup bits
  <2>1. TookDelta(Columns(p, wire, row, old, count), r, bits, row, old, count)
    BY <1>1, <1>3, <1>5, <1>7, ColumnsDelta
  <2>2. QED
    BY <1>6, <2>1, Zenon DEF TookDelta
<1> HIDE DEF d, wire
<1>9. ASSUME NEW k \in Cols, k \notin bits PROVE Kept(row, old, k) = ColumnOf(r, k)
  <2>1. Kept(row, old, k) = ColumnOf(prev[c], k)
    BY DEF Remembers
  <2>2. k <= Len(r) => r[k] = prev[c][k]
    BY <1>2, <1>5, <1>9
  <2>3. QED
    BY <2>1, <2>2 DEF ColumnOf
<1>10. \A k \in bits : k \in 1..Len(r) /\ ColumnOf(r, k) = r[k]
  BY <1>2, <1>5 DEF ColumnOf
<1>11. Shows(d.got, r)
  <2>1. DOMAIN d.got = 1..count /\ Len(d.got) >= Len(r)
    BY <1>2, <1>3, <1>8
  <2>2. \A k \in 1..count : k \in Cols
    BY <1>2, <1>3 DEF Cols
  <2>3. \A k \in 1..count : d.got[k] = ColumnOf(r, k)
    BY <1>8, <1>9, <1>10, <2>2
  <2>4. QED
    BY <2>1, <2>3 DEF Shows
<1>12. ASSUME NEW k \in Cols PROVE Kept(d.row, d.old, k) = ColumnOf(r, k)
  <2>1. CASE k \in bits
    BY <1>8, <1>10, <2>1 DEF Kept
  <2>2. CASE k \notin bits
    <3>1. Kept(d.row, d.old, k) = Kept(row, old, k)
      BY <1>8, <2>2 DEF Kept
    <3>2. QED
      BY <1>9, <2>2, <3>1
  <2>3. QED
    BY <2>1, <2>2
<1>13. QED
  BY <1>11, <1>12 DEF Remembers, d, wire, bits

\* What 0602 shows.
LEMMA Right0602 ==
  ASSUME NEW p \in PacketType, p.dec = "0602", NEW wire \in Seq(Values),
         Len(wire) <= p.uColNum, NEW row, NEW old, NEW first
  PROVE  Shows(Result(p, wire, row, old, first).got, wire)
<1>1. p.uColNum \in Nat
  BY RowsAssumption DEF PacketType
<1>2. Result(p, wire, row, old, first).got = wire
  BY <1>1, Columns0602Shows DEF Result
<1>3. Shows(wire, wire)
  BY DEF Shows, ColumnOf
<1>4. QED
  BY <1>2, <1>3

\* A row that is read as it is meant: the connection stays clean.
LEMMA DecodeRight ==
  ASSUME RowsTyped, NEW c \in Conns, NEW p \in PacketType, NEW r \in ResultRows, Row(c, r),
         NEW wire, NEW row, NEW old, NEW first,
         Decode(c, p, r, wire, row, old, first, TRUE),
         nGlobMaxColNum' = ncols[c], CountOf(p.uColNum) >= ncols[c], Counted(p, ncols[c]),
         Shows(Result(p, wire, row, old, first).got, IF p.dec = "0602" THEN wire ELSE r),
         p.dec # "0602" => Remembers(Result(p, wire, row, old, first).row,
                                     Result(p, wire, row, old, first).old, r)
  PROVE  CleanRows' /\ RowsRight'
<1> DEFINE d == Result(p, wire, row, old, first)
           q == IF d.ok THEN p ELSE Ended(p)
           want == IF p.dec = "0602" THEN wire ELSE r
<1>1. /\ nMaxColNum' = CountOf(p.uColNum) /\ pszRowStr' = d.row /\ szOldCol' = d.old
      /\ prev' = [prev EXCEPT ![c] = r] /\ packet' = [packet EXCEPT ![c] = q]
      /\ clean' = [e \in Conns |-> IF e = c THEN TRUE ELSE FALSE]
      /\ last' = [clean |-> TRUE, want |-> want, got |-> d.got, decoded |-> TRUE]
      /\ ncols' = ncols
  BY Zenon DEF Decode, Result, Disturb
<1>2. q.dec = p.dec /\ Counted(q, ncols[c])
  BY EndedType DEF Counted
<1>3. Shows(d.got, want) /\ (p.dec # "0602" => Remembers(d.row, d.old, r))
  OBVIOUS
<1> HIDE DEF d, q, want
<1>4. prev'[c] = r /\ packet'[c] = q /\ \A e \in Conns : clean'[e] => e = c
  BY <1>1 DEF RowsTyped, RowsTypeOK
<1>5. r # <<>>
  BY RowType
<1>6. RowsRight'
  <2>1. last'.want = want /\ last'.got = d.got /\ last'.decoded
    BY <1>1
  <2>2. QED
    BY <1>3, <2>1 DEF RowsRight, Shows, ColumnOf
<1>7. Remembers(d.row, d.old, r) => Remembers(pszRowStr', szOldCol', prev'[c])
  BY <1>1, <1>4
<1>8. CleanAt(c)'
  <2>1. Counted(packet'[c], ncols'[c])
    BY <1>1, <1>2, <1>4
  <2>2. packet'[c].dec # "0602" => Remembers(pszRowStr', szOldCol', prev'[c])
    BY <1>2, <1>3, <1>4, <1>7
  <2>3. QED
    BY <1>1, <1>4, <1>5, <2>1, <2>2 DEF CleanAt, Counted, Remembers, Kept, ColumnOf
<1>9. \A e \in Conns : clean'[e] => CleanAt(e)'
  BY <1>4, <1>8
<1>10. QED
  BY <1>6, <1>9 DEF CleanRows

\* After any other row no connection is clean.
LEMMA DecodeDirty ==
  ASSUME NEW c \in Conns, NEW p, NEW r, NEW wire, NEW row, NEW old, NEW first,
         Decode(c, p, r, wire, row, old, first, FALSE)
  PROVE  CleanRows' /\ RowsRight'
<1>1. /\ clean' = [e \in Conns |-> IF e = c THEN FALSE ELSE FALSE]
      /\ last'.clean = FALSE
  BY DEF Decode, Disturb
<1>2. QED
  BY <1>1 DEF CleanRows, RowsRight

-----------------------------------------------------------------------------
(* The steps. *)

\* What Row says.
LEMMA RowFacts ==
  ASSUME RowsTyped, NEW c \in Conns, NEW r \in ResultRows, Row(c, r)
  PROVE  /\ r \in Seq(Values) /\ Len(r) = ncols[c] /\ Len(r) \in Cols /\ Len(r) \in 0..MaxCols
         /\ Len(r) # 0 /\ \A k \in Cols : k \in Nat
         /\ prev[c] # <<>> => prev[c] \in Seq(Values) /\ Len(prev[c]) = Len(r)
<1>1. r \in Seq(Values) /\ Len(r) = ncols[c] /\ Len(r) \in Cols
  BY RowType DEF Row
<1>2. Len(r) \in 0..MaxCols /\ Len(r) # 0 /\ \A k \in Cols : k \in Nat
  BY <1>1, RowsAssumption DEF Cols
<1>3. prev[c] \in Seq(Values) /\ Len(prev[c]) \in {0, ncols[c]}
  BY DEF RowsTyped, RowsTypeOK
<1>4. prev[c] # <<>> => Len(prev[c]) # 0
  BY <1>3
<1>5. QED
  BY <1>1, <1>2, <1>3, <1>4

\* The blank row.
LEMMA BlankType ==
  /\ Blank \in [Cols -> Values] /\ {} \in SUBSET Cols /\ \A k \in Cols : Kept(Blank, {}, k) = NULL
  BY DEF Blank, Values, Kept

\* A new packet.
LEMMA PacketFacts ==
  ASSUME NEW dec \in Decoders, NEW n \in 0..MaxCols, NEW bits \in BOOLEAN, NEW szCol \in SUBSET Cols
  PROVE  /\ Packet(dec, n, bits, szCol) \in PacketType
         /\ Packet(dec, n, bits, szCol).dec = dec /\ Packet(dec, n, bits, szCol).uColNum = n
         /\ Packet(dec, n, bits, szCol).bits = bits /\ Packet(dec, n, bits, szCol).szCol = szCol
  BY DEF Packet, PacketType

\* A packet that begins with a whole row is read right by every decoder.
LEMMA WholePacketInv ==
  ASSUME RowsInv, NEW c \in Conns, NEW dec \in Decoders, NEW r \in ResultRows, Row(c, r),
         nGlobMaxColNum' = Glob(Len(r)),
         Decode(c, Packet(dec, Len(r), FALSE, {}), r, r, Blank, {}, TRUE, clean[c])
  PROVE  RowsInv'
<1> DEFINE p == Packet(dec, Len(r), FALSE, {})
<1>0. RowsTyped /\ CleanRows
  BY DEF RowsInv
<1>1. /\ r \in Seq(Values) /\ Len(r) = ncols[c] /\ Len(r) \in Cols /\ Len(r) \in 0..MaxCols
      /\ Len(r) # 0 /\ \A k \in Cols : k \in Nat
  BY <1>0, RowFacts
<1>2. p \in PacketType /\ p.dec = dec /\ p.uColNum = Len(r) /\ ~p.bits
  BY <1>1 DEF Packet, PacketType
<1>3. clean[c] \in BOOLEAN
  BY <1>0 DEF RowsTyped, RowsTypeOK
<1>4. Decode(c, p, r, r, Blank, {}, TRUE, clean[c])
  OBVIOUS
<1> HIDE DEF p
<1>5. nGlobMaxColNum' \in 0..MaxCols /\ CountOf(p.uColNum) >= ncols[c]
  BY <1>0, <1>1, <1>2, CountType
<1>6. RowsTyped'
  <2>1. Blank \in [Cols -> Values] /\ {} \in SUBSET Cols /\ TRUE \in BOOLEAN
    BY BlankType
  <2>2. QED
    BY <1>0, <1>1, <1>2, <1>3, <1>4, <1>5, <2>1, DecodeTyped
<1>7. CASE ~clean[c]
  <2>1. clean[c] = FALSE
    BY <1>3, <1>7
  <2>2. Decode(c, p, r, r, Blank, {}, TRUE, FALSE)
    BY <1>4, <2>1
  <2>3. QED
    BY <1>6, <2>2, DecodeDirty DEF RowsInv
<1>8. CASE clean[c]
  <2>1. clean[c] = TRUE
    BY <1>3, <1>8
  <2>2. Decode(c, p, r, r, Blank, {}, TRUE, TRUE)
    BY <1>4, <2>1
  <2>3. nGlobMaxColNum' = ncols[c]
    BY <1>0, <1>1, <1>8 DEF CleanRows, CleanAt, Glob
  <2>4. Counted(p, ncols[c])
    BY <1>1, <1>2 DEF Counted
  <2>5. CASE dec = "0602"
    <3>1. Len(r) <= p.uColNum
      BY <1>1, <1>2, RowsAssumption
    <3>2. Shows(Result(p, r, Blank, {}, TRUE).got, r)
      BY <1>1, <1>2, <2>5, <3>1, Right0602
    <3>3. CleanRows' /\ RowsRight'
      BY <1>0, <1>2, <1>5, <2>2, <2>3, <2>4, <2>5, <3>2, DecodeRight
    <3>4. QED
      BY <1>6, <3>3 DEF RowsInv
  <2>6. CASE dec # "0602"
    <3>1. /\ Shows(Result(p, r, Blank, {}, TRUE).got, r)
          /\ Remembers(Result(p, r, Blank, {}, TRUE).row, Result(p, r, Blank, {}, TRUE).old, r)
      BY <1>0, <1>2, <2>6, BlankType, WholeRight
    <3>2. CleanRows' /\ RowsRight'
      BY <1>0, <1>2, <1>5, <2>2, <2>3, <2>4, <2>6, <3>1, DecodeRight
    <3>3. QED
      BY <1>6, <3>2 DEF RowsInv
  <2>7. QED
    BY <2>5, <2>6
<1>9. QED
  BY <1>7, <1>8

\* So of 0601, 0602 and 64,
LEMMA FullPacketInv ==
  ASSUME RowsInv, NEW c \in Conns, NEW dec \in Decoders, NEW r \in ResultRows,
         FullPacket(c, dec, r)
  PROVE  RowsInv'
<1>1. /\ Row(c, r) /\ nGlobMaxColNum' = Glob(Len(r))
      /\ Decode(c, Packet(dec, Len(r), FALSE, {}), r, r, Blank, {}, TRUE, clean[c])
  BY DEF FullPacket
<1>2. QED
  BY <1>1, WholePacketInv

\* and of 0600, unless it is taken for a partial one.
LEMMA FullPacket0600Inv ==
  ASSUME RowsInv, NEW c \in Conns, NEW r \in ResultRows, FullPacket0600(c, r)
  PROVE  RowsInv'
<1>0. RowsTyped /\ pszRowStr \in [Cols -> Values] /\ szOldCol \in SUBSET Cols
  BY DEF RowsInv, RowsTyped, RowsTypeOK
<1>1. Row(c, r) /\ nGlobMaxColNum' = Glob(Len(r)) /\ "0600" \in Decoders
  BY DEF FullPacket0600, Decoders
<1>2. ASSUME NEW bits \in SUBSET Cols,
             Decode(c, Packet("0600", Len(r), TRUE, bits), r, r, pszRowStr, szOldCol, TRUE, FALSE)
      PROVE  RowsInv'
  <2> DEFINE p == Packet("0600", Len(r), TRUE, bits)
  <2>1. r \in Seq(Values) /\ Len(r) \in 0..MaxCols
    BY <1>0, <1>1, RowFacts
  <2>2. p \in PacketType
    BY <1>1, <2>1, PacketFacts
  <2>3. nGlobMaxColNum' \in 0..MaxCols
    BY <1>0, <1>1, <2>1, CountType
  <2>4. Decode(c, p, r, r, pszRowStr, szOldCol, TRUE, FALSE)
    BY <1>2
  <2> HIDE DEF p
  <2>5. RowsTyped'
    BY <1>0, <1>1, <2>1, <2>2, <2>3, <2>4, DecodeTyped
  <2>6. CleanRows' /\ RowsRight'
    BY <2>4, DecodeDirty
  <2>7. QED
    BY <2>5, <2>6 DEF RowsInv
<1>3. CASE Decode(c, Packet("0600", Len(r), FALSE, {}), r, r, Blank, {}, TRUE, clean[c])
  BY <1>1, <1>3, WholePacketInv
<1>4. QED
  BY <1>2, <1>3, Zenon DEF FullPacket0600

\* A row is read right.
ReadRight(c, p, r, wire, row, old, first) ==
  LET d == Result(p, wire, row, old, first)
  IN  /\ CountOf(p.uColNum) >= ncols[c] /\ Counted(p, ncols[c])
      /\ Shows(d.got, IF p.dec = "0602" THEN wire ELSE r)
      /\ p.dec # "0602" => Remembers(d.row, d.old, r)

\* A row that is read right whenever it is to be clean.
LEMMA ReadInv ==
  ASSUME RowsInv, NEW c \in Conns, NEW p \in PacketType, NEW r \in ResultRows, Row(c, r),
         NEW wire \in Seq(Values), NEW row \in [Cols -> Values], NEW old \in SUBSET Cols,
         NEW first \in BOOLEAN, NEW own \in BOOLEAN, nGlobMaxColNum' \in 0..MaxCols,
         Decode(c, p, r, wire, row, old, first, own),
         own => nGlobMaxColNum' = ncols[c] /\ ReadRight(c, p, r, wire, row, old, first)
  PROVE  RowsInv'
<1>0. RowsTyped
  BY DEF RowsInv
<1>1. RowsTyped'
  BY <1>0, DecodeTyped
<1>2. CASE own = TRUE
  <2>1. Decode(c, p, r, wire, row, old, first, TRUE)
    BY <1>2
  <2>2. nGlobMaxColNum' = ncols[c] /\ ReadRight(c, p, r, wire, row, old, first)
    BY <1>2
  <2>3. /\ CountOf(p.uColNum) >= ncols[c] /\ Counted(p, ncols[c])
        /\ Shows(Result(p, wire, row, old, first).got, IF p.dec = "0602" THEN wire ELSE r)
        /\ p.dec # "0602" => Remembers(Result(p, wire, row, old, first).row,
                                       Result(p, wire, row, old, first).old, r)
    BY <2>2, Zenon DEF ReadRight
  <2>4. CleanRows' /\ RowsRight'
    BY <1>0, <2>1, <2>2, <2>3, DecodeRight
  <2>5. QED
    BY <1>1, <2>4 DEF RowsInv
<1>3. CASE own = FALSE
  <2>1. Decode(c, p, r, wire, row, old, first, FALSE)
    BY <1>3
  <2>2. QED
    BY <1>1, <2>1, DecodeDirty DEF RowsInv
<1>4. QED
  BY <1>2, <1>3

\* What a clean connection has after its first row.
LEMMA CleanFacts ==
  ASSUME RowsInv, NEW c \in Conns, clean[c], prev[c] # <<>>
  PROVE  /\ nGlobMaxColNum = ncols[c] /\ nMaxColNum >= ncols[c]
         /\ packet[c].dec # "0602" => Remembers(pszRowStr, szOldCol, prev[c])
         /\ Counted(packet[c], ncols[c])
  BY DEF RowsInv, CleanRows, CleanAt

\* The variables' types, one by one.
LEMMA VarTypes ==
  ASSUME RowsInv, NEW c \in Conns
  PROVE  /\ RowsTyped /\ pszRowStr \in [Cols -> Values] /\ szOldCol \in SUBSET Cols
         /\ nGlobMaxColNum \in 0..MaxCols /\ nMaxColNum \in 0..MaxCols
         /\ packet[c] \in PacketType /\ clean[c] \in BOOLEAN
  BY DEF RowsInv, RowsTyped, RowsTypeOK, PacketType

\* A packet of 0600 that begins with the columns that differ from the packet before.
LEMMA PartialPacketInv ==
  ASSUME RowsInv, NEW c \in Conns, NEW r \in ResultRows, PartialPacket(c, r)
  PROVE  RowsInv'
<1> DEFINE bits == Changed(c, r)
           n == Cardinality(bits)
           part == n < Glob(n)
           p == Packet("0600", n, part, IF part THEN bits ELSE {})
           row == IF part THEN pszRowStr ELSE Blank
           old == IF part THEN szOldCol ELSE {}
           own == clean[c] /\ packet[c].dec # "0602"
           wire == Wire(r, bits)
<1>1. /\ Row(c, r) /\ prev[c] # <<>> /\ nGlobMaxColNum' = Glob(n)
      /\ Decode(c, p, r, wire, row, old, TRUE, own)
  BY Zenon DEF PartialPacket
<1>2. /\ RowsTyped /\ pszRowStr \in [Cols -> Values] /\ szOldCol \in SUBSET Cols
      /\ nGlobMaxColNum \in 0..MaxCols /\ nMaxColNum \in 0..MaxCols
      /\ packet[c] \in PacketType /\ clean[c] \in BOOLEAN
  BY VarTypes
<1>3. /\ r \in Seq(Values) /\ Len(r) = ncols[c] /\ Len(r) \in 0..MaxCols /\ Len(r) # 0
      /\ Len(prev[c]) = Len(r) /\ Len(r) \in Nat /\ MaxCols \in Nat
  BY <1>1, <1>2, RowFacts, RowsAssumption
<1>4. /\ bits \in SUBSET Cols /\ n \in 0..Len(r) /\ (n = Len(r) => bits = 1..Len(r))
      /\ wire \in Seq(Values)
  BY BitsType
<1> HIDE DEF bits
<1>5. n \in 0..MaxCols /\ n \in Nat
  BY <1>3, <1>4
<1>6. part \in BOOLEAN /\ own \in BOOLEAN
  OBVIOUS
<1> HIDE DEF n
<1>7. /\ p \in PacketType /\ p.dec = "0600" /\ p.uColNum = n /\ p.bits = part
      /\ part => p.szCol = bits
  BY <1>4, <1>5, <1>6 DEF Packet, PacketType, Decoders
<1>8. row \in [Cols -> Values] /\ old \in SUBSET Cols
  BY <1>2, BlankType
<1>9. nGlobMaxColNum' \in 0..MaxCols /\ CountOf(n) >= nMaxColNum /\ CountOf(n) \in 0..MaxCols
  BY <1>1, <1>2, <1>5, CountType
<1>10. ASSUME own PROVE nGlobMaxColNum' = ncols[c] /\ ReadRight(c, p, r, wire, row, old, TRUE)
  <2>1. /\ nGlobMaxColNum = ncols[c] /\ nMaxColNum >= ncols[c]
        /\ Remembers(pszRowStr, szOldCol, prev[c])
    BY <1>1, <1>10, CleanFacts
  <2>2. Glob(n) = ncols[c] /\ nGlobMaxColNum' = ncols[c]
    BY <1>1, <1>3, <2>1 DEF Glob
  <2>3. CountOf(p.uColNum) >= ncols[c]
    BY <1>2, <1>3, <1>7, <1>9, <2>1
  <2>4. CASE part
    <3>1. p.bits /\ row = pszRowStr /\ old = szOldCol /\ p.szCol = bits /\ p.dec # "0602"
      BY <1>7, <2>4
    <3>2. Len(r) <= nMaxColNum /\ Cardinality(bits) <= p.uColNum
      BY <1>2, <1>3, <1>5, <1>7, <2>1 DEF n
    <3> HIDE DEF p, row, old
    <3>3. /\ Shows(Result(p, wire, row, old, TRUE).got, r)
          /\ Remembers(Result(p, wire, row, old, TRUE).row, Result(p, wire, row, old, TRUE).old, r)
      BY <1>2, <1>3, <1>7, <1>8, <2>1, <3>1, <3>2, DeltaRight DEF bits
    <3>4. Counted(p, ncols[c])
      BY <3>1 DEF Counted
    <3>5. QED
      BY <2>2, <2>3, <3>1, <3>3, <3>4, Zenon DEF ReadRight
  <2>5. CASE ~part
    <3>1. n = Len(r)
      BY <1>3, <1>4, <2>2, <2>5
    <3>2. wire = r
      BY <1>3, <1>4, <3>1, WireWhole
    <3>3. ~p.bits /\ row = Blank /\ old = {} /\ p.dec # "0602" /\ p.uColNum = Len(r)
      BY <1>7, <2>5, <3>1
    <3> HIDE DEF p, row, old, wire
    <3>4. \A k \in Cols : Kept(row, old, k) = NULL
      BY <3>3, BlankType
    <3>5. /\ Shows(Result(p, r, row, old, TRUE).got, r)
          /\ Remembers(Result(p, r, row, old, TRUE).row, Result(p, r, row, old, TRUE).old, r)
      BY <1>2, <1>7, <1>8, <3>3, <3>4, WholeRight
    <3>6. Counted(p, ncols[c])
      BY <1>3, <3>3 DEF Counted
    <3>7. QED
      BY <2>2, <2>3, <3>2, <3>3, <3>5, <3>6, Zenon DEF ReadRight
  <2>6. QED
    BY <2>4, <2>5
<1> HIDE DEF p, row, old, own, wire, part
<1>11. QED
  BY <1>1, <1>4, <1>6, <1>7, <1>8, <1>9, <1>10, ReadInv

\* Rows that are not read.
LEMMA MissInv ==
  ASSUME RowsInv, NEW c \in Conns, NEW r \in ResultRows, Row(c, r), Miss(c, r, FALSE)
  PROVE  RowsInv'
<1>0. RowsTyped /\ CleanRows
  BY DEF RowsInv
<1>1. RowsTyped'
  BY <1>0, MissTyped
<1>2. /\ prev' = [prev EXCEPT ![c] = r] /\ packet' = [packet EXCEPT ![c] = Ended(packet[c])]
      /\ clean' = [clean EXCEPT ![c] = FALSE] /\ last'.clean = FALSE
      /\ UNCHANGED <<globals, ncols>>
  BY DEF Miss
<1>3. RowsRight'
  BY <1>2 DEF RowsRight
<1>4. ASSUME NEW e \in Conns, clean'[e] PROVE CleanAt(e)'
  <2>1. e # c /\ clean[e]
    BY <1>0, <1>2, <1>4 DEF RowsTyped, RowsTypeOK
  <2>2. prev'[e] = prev[e] /\ packet'[e] = packet[e] /\ ncols' = ncols
    BY <1>0, <1>2, <2>1 DEF RowsTyped, RowsTypeOK
  <2>3. CleanAt(e) /\ \A d \in Conns : clean'[d] => clean[d]
    BY <1>0, <1>2, <2>1 DEF CleanRows, RowsTyped, RowsTypeOK
  <2>4. QED
    BY <1>2, <2>2, <2>3 DEF CleanAt, Counted, Remembers, Kept, ColumnOf, globals
<1>5. QED
  BY <1>1, <1>3, <1>4 DEF RowsInv, CleanRows

\* A delta row.
LEMMA DeltaRowInv ==
  ASSUME RowsInv, NEW c \in Conns, NEW r \in ResultRows, DeltaRow(c, r)
  PROVE  RowsInv'
<1> DEFINE bits == Changed(c, r)
           n == Cardinality(bits)
           s == packet[c]
           p == IF s.dec = "0602" THEN s
                ELSE [s EXCEPT !.uColNum = IF n = 0 THEN @ ELSE n, !.bits = TRUE, !.szCol = bits]
           own == clean[c] /\ (s.dec = "0602" => n > 0)
           wire == Wire(r, bits)
<1>1. /\ Row(c, r) /\ prev[c] # <<>> /\ s.open
      /\ IF n > nGlobMaxColNum THEN Miss(c, r, clean[c])
         ELSE Decode(c, p, r, wire, pszRowStr, szOldCol, FALSE, own) /\ UNCHANGED nGlobMaxColNum
  BY Zenon DEF DeltaRow
<1>2. /\ RowsTyped /\ pszRowStr \in [Cols -> Values] /\ szOldCol \in SUBSET Cols
      /\ nGlobMaxColNum \in 0..MaxCols /\ nMaxColNum \in 0..MaxCols
      /\ s \in PacketType /\ clean[c] \in BOOLEAN
  BY VarTypes
<1>3. /\ r \in Seq(Values) /\ Len(r) = ncols[c] /\ Len(r) \in 0..MaxCols /\ Len(r) # 0
      /\ Len(prev[c]) = Len(r) /\ Len(r) \in Nat /\ MaxCols \in Nat
  BY <1>1, <1>2, RowFacts, RowsAssumption
<1>4. /\ bits \in SUBSET Cols /\ n \in 0..Len(r) /\ wire \in Seq(Values) /\ Len(wire) = n
  BY BitsType
<1> HIDE DEF bits
<1>5. n \in 0..MaxCols /\ n \in Nat /\ own \in BOOLEAN
  BY <1>3, <1>4
<1> HIDE DEF n, s
<1>6. /\ p \in PacketType /\ p.dec = s.dec /\ p.open = s.open
      /\ s.dec = "0602" => p = s
      /\ s.dec # "0602" => p.bits /\ p.szCol = bits /\ p.uColNum = IF n = 0 THEN s.uColNum ELSE n
  <2>1. CASE s.dec = "0602"
    BY <1>2, <2>1
  <2>2. CASE s.dec # "0602"
    <3> DEFINE u == IF n = 0 THEN s.uColNum ELSE n
    <3>1. p = [s EXCEPT !.uColNum = u, !.bits = TRUE, !.szCol = bits]
      BY <1>2, <2>2 DEF PacketType
    <3>2. u \in 0..MaxCols
      BY <1>2, <1>5 DEF PacketType
    <3> HIDE DEF u, p
    <3>3. p \in PacketType /\ p.dec = s.dec /\ p.open = s.open /\ p.bits = TRUE
          /\ p.szCol = bits /\ p.uColNum = u
      BY <1>2, <1>4, <3>1, <3>2 DEF PacketType
    <3>4. QED
      BY <2>2, <3>3 DEF u
  <2>3. QED
    BY <2>1, <2>2
<1>7. CASE n > nGlobMaxColNum
  <2>1. ~clean[c]
    BY <1>1, <1>2, <1>3, <1>4, <1>7, CleanFacts
  <2>2. clean[c] = FALSE
    BY <1>2, <2>1
  <2>3. Miss(c, r, FALSE)
    BY <1>1, <1>7, <2>2
  <2>4. QED
    BY <1>1, <2>3, MissInv
<1>8. CASE ~(n > nGlobMaxColNum)
  <2>1. Decode(c, p, r, wire, pszRowStr, szOldCol, FALSE, own) /\ nGlobMaxColNum' = nGlobMaxColNum
    BY <1>1, <1>8
  <2>2. ASSUME own
        PROVE  nGlobMaxColNum' = ncols[c]
               /\ ReadRight(c, p, r, wire, pszRowStr, szOldCol, FALSE)
    <3>1. /\ nGlobMaxColNum = ncols[c] /\ nMaxColNum >= ncols[c]
          /\ s.dec # "0602" => Remembers(pszRowStr, szOldCol, prev[c])
          /\ Counted(s, ncols[c])
      BY <1>1, <2>2, CleanFacts DEF s
    <3>2. p.uColNum \in 0..MaxCols
      BY <1>6 DEF PacketType
    <3>3. CountOf(p.uColNum) >= ncols[c]
      BY <1>2, <1>3, <3>1, <3>2, CountType
    <3>4. Counted(p, ncols[c])
      BY <1>6, <3>1 DEF Counted
    <3> HIDE DEF p
    <3>5. CASE s.dec = "0602"
      <4>1. p.uColNum = ncols[c]
        BY <1>1, <1>6, <3>1, <3>5 DEF Counted
      <4>2. Len(wire) <= p.uColNum
        BY <1>3, <1>4, <4>1
      <4>3. Shows(Result(p, wire, pszRowStr, szOldCol, FALSE).got, wire)
        BY <1>4, <1>6, <3>5, <4>2, Right0602
      <4>4. QED
        BY <1>6, <2>1, <3>1, <3>3, <3>4, <3>5, <4>3, Zenon DEF ReadRight
    <3>6. CASE s.dec # "0602"
      <4>1. Len(r) <= nMaxColNum /\ Cardinality(bits) <= p.uColNum
        BY <1>2, <1>3, <1>5, <1>6, <3>1, <3>2, <3>6 DEF n
      <4>2. LET d == Result(p, wire, pszRowStr, szOldCol, FALSE)
            IN  Shows(d.got, r) /\ Remembers(d.row, d.old, r)
        BY <1>2, <1>3, <1>6, <3>1, <3>6, <4>1, DeltaRight DEF bits
      <4>3. QED
        BY <1>6, <2>1, <3>1, <3>3, <3>4, <3>6, <4>2, Zenon DEF ReadRight
    <3>7. QED
      BY <3>5, <3>6
  <2>3. nGlobMaxColNum' \in 0..MaxCols
    BY <1>2, <2>1
  <2> HIDE DEF p, own, wire
  <2>4. QED
    BY <1>1, <1>2, <1>4, <1>5, <1>6, <2>1, <2>2, <2>3, ReadInv
<1>9. QED
  BY <1>7, <1>8

\* A whole row after another row, where the packet has its number of columns.
LEMMA FullRowInv ==
  ASSUME RowsInv, NEW c \in Conns, NEW r \in ResultRows, Row(c, r), prev[c] # <<>>,
         NEW p \in PacketType, p.dec = packet[c].dec, p.dec # "0602", NEW own \in BOOLEAN,
         own => clean[c] /\ ~p.bits /\ p.uColNum = ncols[c],
         Decode(c, p, r, r, pszRowStr, szOldCol, FALSE, own), UNCHANGED nGlobMaxColNum
  PROVE  RowsInv'
<1>1. /\ RowsTyped /\ pszRowStr \in [Cols -> Values] /\ szOldCol \in SUBSET Cols
      /\ nGlobMaxColNum \in 0..MaxCols /\ nMaxColNum \in 0..MaxCols
  BY VarTypes
<1>2. /\ r \in Seq(Values) /\ Len(r) = ncols[c] /\ Len(r) \in 0..MaxCols
      /\ Len(prev[c]) = Len(r) /\ Len(r) \in Nat /\ \A k \in Cols : k \in Nat
  BY <1>1, RowFacts, RowsAssumption
<1>3. ASSUME own
      PROVE  nGlobMaxColNum' = ncols[c] /\ ReadRight(c, p, r, r, pszRowStr, szOldCol, FALSE)
  <2>1. /\ nGlobMaxColNum = ncols[c] /\ nMaxColNum >= ncols[c]
        /\ Remembers(pszRowStr, szOldCol, prev[c])
    BY <1>3, CleanFacts
  <2>2. CountOf(p.uColNum) >= ncols[c]
    BY <1>1, <1>2, <1>3, CountType
  <2>3. \A k \in Cols : k > Len(r) => Kept(pszRowStr, szOldCol, k) = NULL
    BY <1>2, <2>1 DEF Remembers, ColumnOf
  <2>4. /\ Shows(Result(p, r, pszRowStr, szOldCol, FALSE).got, r)
        /\ Remembers(Result(p, r, pszRowStr, szOldCol, FALSE).row,
                     Result(p, r, pszRowStr, szOldCol, FALSE).old, r)
    BY <1>1, <1>2, <1>3, <2>3, WholeRight
  <2>5. Counted(p, ncols[c])
    BY <1>3 DEF Counted
  <2>6. QED
    BY <2>1, <2>2, <2>4, <2>5, Zenon DEF ReadRight
<1>4. nGlobMaxColNum' \in 0..MaxCols
  BY <1>1
<1>5. QED
  BY <1>1, <1>2, <1>3, <1>4, ReadInv

\* Toad's 64,
LEMMA FullRow64Inv ==
  ASSUME RowsInv, NEW c \in Conns, NEW r \in ResultRows, FullRow64(c, r)
  PROVE  RowsInv'
<1> DEFINE p == packet[c]
           own == clean[c] /\ ~p.bits
<1>1. /\ Row(c, r) /\ p.open /\ prev[c] # <<>> /\ p.dec = "64"
      /\ Decode(c, p, r, r, pszRowStr, szOldCol, FALSE, own) /\ UNCHANGED nGlobMaxColNum
  BY Zenon DEF FullRow64
<1>2. p \in PacketType /\ own \in BOOLEAN /\ p.dec # "0602"
  BY <1>1, VarTypes
<1>3. own => clean[c] /\ ~p.bits /\ p.uColNum = ncols[c]
  BY <1>1, CleanFacts DEF Counted
<1>4. p.dec = packet[c].dec
  OBVIOUS
<1> HIDE DEF p, own
<1>5. QED
  BY <1>1, <1>2, <1>3, <1>4, FullRowInv

\* and version 10's 0601.
LEMMA FullRow0601Inv ==
  ASSUME RowsInv, NEW c \in Conns, NEW r \in ResultRows, FullRow0601(c, r)
  PROVE  RowsInv'
<1> DEFINE s == packet[c]
           p == [s EXCEPT !.bits = FALSE]
           own == clean[c] /\ s.uColNum = Len(r)
<1>1. /\ Row(c, r) /\ prev[c] # <<>> /\ s.dec = "0601"
      /\ Decode(c, p, r, r, pszRowStr, szOldCol, FALSE, own) /\ UNCHANGED nGlobMaxColNum
  BY Zenon DEF FullRow0601
<1>2. s \in PacketType /\ own \in BOOLEAN
  BY VarTypes
<1>3. p \in PacketType /\ p.dec = s.dec /\ p.uColNum = s.uColNum /\ ~p.bits
  <2> HIDE DEF s
  <2>1. QED
    BY <1>2 DEF PacketType
<1>4. p.dec # "0602" /\ p.dec = packet[c].dec
  BY <1>1, <1>3
<1>5. own => clean[c] /\ ~p.bits /\ p.uColNum = ncols[c]
  BY <1>1, <1>3 DEF Row
<1> HIDE DEF s, p, own
<1>6. QED
  BY <1>1, <1>2, <1>3, <1>4, <1>5, FullRowInv

\* A statement: its connection is clean, and the only one.
LEMMA ExecuteInv ==
  ASSUME RowsInv, NEW c \in Conns, NEW n \in Cols, Execute(c, n)
  PROVE  RowsInv'
<1>0. RowsTyped /\ RowsRight
  BY DEF RowsInv
<1>1. RowsTyped'
  BY <1>0, ExecuteTyped
<1>2. /\ ~packet[c].open /\ nGlobMaxColNum' = 0 /\ prev' = [prev EXCEPT ![c] = <<>>]
      /\ clean' = [d \in Conns |-> IF d = c THEN TRUE ELSE FALSE]
      /\ UNCHANGED <<packet, last>>
  BY DEF Execute, Disturb
<1>3. prev'[c] = <<>> /\ \A d \in Conns : clean'[d] => d = c
  BY <1>0, <1>2 DEF RowsTyped
<1>4. CleanAt(c)'
  BY <1>2, <1>3 DEF CleanAt, Counted
<1>5. RowsRight'
  BY <1>0, <1>2 DEF RowsRight
<1>6. \A d \in Conns : clean'[d] => CleanAt(d)'
  BY <1>3, <1>4
<1>7. QED
  BY <1>1, <1>5, <1>6 DEF RowsInv, CleanRows

\* A packet without a row of its own.
LEMMA BareInv ==
  ASSUME RowsInv, NEW c \in Conns, NEW dec \in Decoders, BarePacket(c, dec)
  PROVE  RowsInv'
<1>1. RowsTyped'
  BY BareTyped DEF RowsInv
<1>2. clean' = [d \in Conns |-> IF d = c THEN FALSE ELSE FALSE] /\ last' = last
  BY DEF BarePacket, Disturb
<1>3. CleanRows' /\ RowsRight'
  BY <1>2 DEF RowsInv, CleanRows, RowsRight
<1>4. QED
  BY <1>1, <1>3 DEF RowsInv

\* The end of a packet.
LEMMA EndsInv ==
  ASSUME RowsInv, NEW c \in Conns, PacketEnds(c)
  PROVE  RowsInv'
<1>0. RowsTyped /\ CleanRows /\ RowsRight /\ packet \in [Conns -> PacketType]
  BY DEF RowsInv, RowsTyped, RowsTypeOK, PacketType
<1>1. RowsTyped'
  BY <1>0, EndsTyped
<1>2. /\ packet' = [packet EXCEPT ![c] = Ended(packet[c])]
      /\ UNCHANGED <<globals, ncols, prev, clean, last>>
  BY DEF PacketEnds
<1>3. RowsRight'
  BY <1>0, <1>2 DEF RowsRight
<1>4. Ended(packet[c]).dec = packet[c].dec /\ ~Ended(packet[c]).open
  BY <1>0, EndedType
<1>5. ASSUME NEW e \in Conns, clean[e] PROVE CleanAt(e)'
  <2>1. CleanAt(e)
    BY <1>0, <1>5 DEF CleanRows
  <2>2. /\ packet'[e].dec = packet[e].dec
        /\ packet'[e] = packet[e] \/ ~packet'[e].open
    BY <1>0, <1>2, <1>4
  <2>3. QED
    BY <1>2, <2>1, <2>2 DEF CleanAt, Counted, Remembers, Kept, ColumnOf, globals
<1>6. CleanRows'
  BY <1>2, <1>5 DEF CleanRows
<1>7. QED
  BY <1>1, <1>3, <1>6 DEF RowsInv

\* A row that ends the packet.
LEMMA MissedInv ==
  ASSUME RowsInv, NEW c \in Conns, NEW r \in ResultRows, FullRowMissed(c, r)
  PROVE  RowsInv'
  BY MissInv DEF FullRowMissed

\* The first state.
LEMMA InitRows == RowsInit => RowsInv
<1> SUFFICES ASSUME RowsInit PROVE RowsInv
  OBVIOUS
<1>1. RowsTyped
  <2>1. 0 \in 0..MaxCols /\ 0 \in 0..MaxRows /\ Blank \in [Cols -> Values]
    BY BlankType, RowsAssumption
  <2>2. NoPacket \in PacketType
    BY <2>1 DEF NoPacket, PacketType
  <2>3. packet \in [Conns -> PacketType] /\ clean \in [Conns -> BOOLEAN]
    BY <2>2 DEF RowsInit
  <2>4. /\ ncols \in [Conns -> 0..MaxCols] /\ prev \in [Conns -> Seq(Values)]
        /\ \A c \in Conns : Len(prev[c]) \in {0, ncols[c]}
    BY <2>1 DEF RowsInit
  <2>5. QED
    BY <2>1, <2>3, <2>4 DEF RowsInit, RowsTyped, RowsTypeOK, PacketType
<1>2. CleanRows /\ RowsRight
  BY DEF RowsInit, CleanRows, RowsRight, NoLast
<1>3. QED
  BY <1>1, <1>2 DEF RowsInv

\* Every step.
LEMMA NextRows == RowsInv /\ [RowsNext]_rowvars => RowsInv'
<1> SUFFICES ASSUME RowsInv, [RowsNext]_rowvars PROVE RowsInv'
  OBVIOUS
<1>1. CASE UNCHANGED rowvars
  BY <1>1 DEF rowvars, globals, RowsInv, RowsTyped, RowsTypeOK, RowsRight, CleanRows, CleanAt,
              Counted, Remembers, Kept, ColumnOf
<1>2. ASSUME NEW c \in Conns, NEW r \in ResultRows,
             \/ \E dec \in Decoders : FullPacket(c, dec, r)
             \/ FullPacket0600(c, r) \/ PartialPacket(c, r) \/ DeltaRow(c, r)
             \/ FullRow64(c, r) \/ FullRow0601(c, r) \/ FullRowMissed(c, r)
      PROVE  RowsInv'
  BY <1>2, FullPacketInv, FullPacket0600Inv, PartialPacketInv, DeltaRowInv, FullRow64Inv,
     FullRow0601Inv, MissedInv
<1>3. ASSUME NEW c \in Conns, NEW n \in Cols, Execute(c, n) PROVE RowsInv'
  BY <1>3, ExecuteInv
<1>4. ASSUME NEW c \in Conns, NEW dec \in Decoders, BarePacket(c, dec) PROVE RowsInv'
  BY <1>4, BareInv
<1>5. ASSUME NEW c \in Conns, PacketEnds(c) PROVE RowsInv'
  BY <1>5, EndsInv
<1>6. QED
  BY <1>1, <1>2, <1>3, <1>4, <1>5, Zenon DEF RowsNext

-----------------------------------------------------------------------------
\* The invariant.
LEMMA RowsInvariant == RowsSpec => []RowsInv
  BY InitRows, NextRows, PTL DEF RowsSpec

\* The decoders' globals and locals keep their types: in particular no packet, whole,
\* partial or delta, makes one of them write a column beyond the last.
THEOREM RowsAreTyped == RowsSpec => []RowsTypeOK
<1>1. RowsInv => RowsTypeOK
  BY DEF RowsInv, RowsTyped
<1>2. QED
  BY <1>1, RowsInvariant, PTL

\* Whatever packets, whole rows and delta rows come, in whatever order, and whatever
\* results with more or fewer columns came before: while its connection is clean a row is
\* stored as the server means it, although the row before, its columns and their number
\* are kept in globals that are never reset.
THEOREM RowsAreRight == RowsSpec => []RowsRight
<1>1. RowsInv => RowsRight
  BY DEF RowsInv
<1>2. QED
  BY <1>1, RowsInvariant, PTL
=============================================================================
