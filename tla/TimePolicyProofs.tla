-------------------------- MODULE TimePolicyProofs --------------------------
(***************************************************************************)
(* Proofs about TimePolicy for all warning times, advances, ends, resets,  *)
(* reasons and bounds that satisfy PolicyAssumption.                       *)
(***************************************************************************)
EXTENDS TimePolicy, TLAPS

USE DEF Window, Minute, Unlimited

\* The present time is at most as far from the last check as the passes since.
Paced ==
  /\ now > 0
  /\ checked # 0 =>
       /\ count = 0 => now <= checked
       /\ count = 10 => now <= checked + MaxAdvance
       /\ count = 20 => now <= checked + 2 * MaxAdvance

\* The warnings run from a check that looked up an end.
Based ==
  /\ base > 0 => timeAuth.endTime # 0
  /\ timeAuth.endTime # 0 => lastEndTime # 0
  /\ checked = 0 => remindFlag = 0

\* What the last check left: a warning still to come has its window ahead.
Left == lastEndTime - checked
Ahead ==
  ~ended /\ base >= Warn3 =>
    /\ remindFlag \in {0, 4} => Left >= Warn3 + Window
    /\ remindFlag = 1 => Left >= Warn1 \/ Left >= Warn2 + Window
    /\ remindFlag = 2 => Left >= Warn2 \/ Left >= Warn3 + Window

PolInv == Paced /\ Based /\ Ahead /\ WarnedBeforeEnd

-----------------------------------------------------------------------------
(* The times considered are natural numbers. *)
LEMMA TimesType ==
  /\ \A t \in Ends \cup {0} : t \in Nat
  /\ \A t \in Resets \cup {0} : t \in Nat
  BY PolicyAssumption

(* The truncating division yields an integer. *)
LEMMA InMinutesType == \A s \in Int : InMinutes(s) \in Int
  BY SMT DEF InMinutes

(* The warning after a check is a flag. *)
LEMMA RemindType == ASSUME NEW f \in 0..4, NEW s \in Int PROVE Remind(f, s) \in 0..4
  BY SMT DEF Remind

(* Unless the end of the access changed, Remind never steps back. *)
LEMMA RemindForward ==
  ASSUME NEW f \in 0..3, NEW s \in Int PROVE Remind(f, s) >= f
  BY SMT DEF Remind

(* The fields DBQueryTimeAuth yields, whether it succeeds or fails. *)
LEMMA QueryType ==
  ASSUME PolicyTypeOK, NEW ok \in BOOLEAN
  PROVE  /\ DBQueryTimeAuth(ok) \in TimeAuth
         /\ DBQueryTimeAuth(ok).timeFlag \in TimeFlags
<1>1. CASE ok = TRUE
  BY <1>1 DEF PolicyTypeOK, TimeAuth, DBQueryTimeAuth, Fresh
<1>2. CASE ok = FALSE
  BY <1>2 DEF PolicyTypeOK, DBQueryTimeAuth
<1> QED BY <1>1, <1>2

(* The time left is an integer. *)
LEMMA LeftType ==
  ASSUME PolicyTypeOK, NEW ok \in BOOLEAN, NEW t \in Nat
  PROVE  TimeLeft(DBQueryTimeAuth(ok), t) \in Int
<1> DEFINE tauth == DBQueryTimeAuth(ok)
<1>1. tauth.endTime \in Nat /\ tauth.resetPwdTime \in Nat
  <2>1. tauth \in TimeAuth
    BY QueryType
  <2> HIDE DEF tauth
  <2>2. tauth.endTime \in Ends \cup {0} /\ tauth.resetPwdTime \in Resets \cup {0}
    BY <2>1 DEF TimeAuth
  <2> QED BY <2>2, TimesType
<1>2. InMinutes(tauth.resetPwdTime - t) \in Int
  BY <1>1, InMinutesType
<1>3. TimeLeft(tauth, t) \in Int
  <2> HIDE DEF tauth
  <2> QED BY <1>1, <1>2 DEF TimeLeft, Minutes
<1> QED BY <1>3

-----------------------------------------------------------------------------
(* The loop's variables and the access row keep their types under every pass,
   check and change of the row. *)
THEOREM PolicyTypes == PolSpec => []PolicyTypeOK
<1>1. PolInit => PolicyTypeOK
  <2> SUFFICES ASSUME PolInit PROVE PolicyTypeOK
    OBVIOUS
  <2>1. row.endTime \in Ends \cup {0} /\ row.timeFlag \in TimeFlags
    BY DEF PolInit, TimeAuth
  <2>2. 0 \in 0..MaxEdits
    BY PolicyAssumption
  <2>3. ended \in BOOLEAN /\ exitmsg \in BOOLEAN
    BY Zenon DEF PolInit
  <2>4. /\ row \in TimeAuth /\ timeAuth = row /\ lastEndTime = row.endTime
        /\ edits = 0
    BY DEF PolInit
  <2>5. /\ now \in Nat /\ checked \in Nat /\ base \in Int
        /\ count \in {0, 10, 20} /\ remindFlag \in 0..4
    BY DEF PolInit
  <2> QED BY <2>1, <2>2, <2>3, <2>4, <2>5 DEF PolicyTypeOK
<1>2. PolicyTypeOK /\ [PolNext]_polVars => PolicyTypeOK'
  <2> SUFFICES ASSUME PolicyTypeOK, [PolNext]_polVars PROVE PolicyTypeOK'
    OBVIOUS
  <2>1. ASSUME NEW d \in Advances, Pass(d) PROVE PolicyTypeOK'
    <3>1. now' \in Nat /\ count' \in {0, 10, 20}
      BY <2>1, PolicyAssumption DEF Pass, PolicyTypeOK
    <3> QED BY <2>1, <3>1 DEF Pass, PolicyTypeOK
  <2>2. ASSUME NEW d \in Advances, CheckFails(d) PROVE PolicyTypeOK'
    <3>1. now' \in Nat /\ checked' \in Nat /\ count' \in {0, 10, 20}
      BY <2>2, PolicyAssumption DEF CheckFails, Due, PolicyTypeOK
    <3> QED BY <2>2, <3>1 DEF CheckFails, PolicyTypeOK
  <2>3. ASSUME NEW d \in Advances, CheckUnlimited(d) PROVE PolicyTypeOK'
    <3>1. now' \in Nat /\ checked' \in Nat /\ count' \in {0, 10, 20}
      BY <2>3, PolicyAssumption DEF CheckUnlimited, Due, PolicyTypeOK
    <3>2. remindFlag' \in 0..4
      BY <2>3, RemindType DEF CheckUnlimited, PolicyTypeOK
    <3> QED BY <2>3, <3>1, <3>2 DEF CheckUnlimited, PolicyTypeOK
  <2>4. ASSUME NEW d \in Advances, NEW ok \in BOOLEAN, Check(d, DBQueryTimeAuth(ok))
        PROVE  PolicyTypeOK'
    <3> DEFINE tauth == DBQueryTimeAuth(ok)
    <3>1. tauth \in TimeAuth /\ tauth.timeFlag \in TimeFlags
      BY QueryType
    <3>2. now' \in Nat /\ checked' \in Nat /\ count' \in {0, 10, 20}
      BY <2>4, PolicyAssumption DEF Check, Due, PolicyTypeOK
    <3>3. TimeLeft(tauth, now') \in Int
      BY <3>2, LeftType
    <3> HIDE DEF tauth
    <3>4. Check(d, tauth)
      BY <2>4 DEF tauth
    <3>5. remindFlag' \in 0..4
      BY <3>3, <3>4, RemindType DEF Check, PolicyTypeOK
    <3>6. ended' \in BOOLEAN
      BY <3>4, Zenon DEF Check
    <3>7. timeAuth' \in TimeAuth /\ timeAuth'.timeFlag \in TimeFlags
      BY <3>1, <3>4 DEF Check, PolicyTypeOK, TimeAuth
    <3>8. lastEndTime' \in Ends \cup {0}
      BY <3>1, <3>4 DEF Check, TimeAuth
    <3>9. base' \in Int
      BY <3>1, <3>2, <3>4, PolicyAssumption DEF Check, PolicyTypeOK, TimeAuth
    <3>10. row' = row /\ edits' = edits /\ exitmsg' = exitmsg
      BY <3>4 DEF Check
    <3> QED
      BY <3>2, <3>5, <3>6, <3>7, <3>8, <3>9, <3>10 DEF PolicyTypeOK
  <2>5. CASE EditRow
    BY <2>5, PolicyAssumption DEF EditRow, PolicyTypeOK
  <2>6. CASE Leave
    BY <2>6 DEF Leave, PolicyTypeOK
  <2>7. CASE UNCHANGED polVars
    BY <2>7 DEF polVars, PolicyTypeOK
  <2> QED
    BY <2>1, <2>2, <2>3, <2>4, <2>5, <2>6, <2>7 DEF PolNext, Loop, CheckTime
<1> QED BY <1>1, <1>2, PTL DEF PolSpec

-----------------------------------------------------------------------------
(* Remind keeps the window of the warning to come ahead: from a time left of at
   least what Ahead promises, less one interval between checks. *)
LEMMA RemindAhead ==
  ASSUME NEW f \in 0..4, NEW s \in Int, NEW p \in Int,
         s >= p - 3 * MaxAdvance,
         \/ f \in {0, 4} /\ s >= Warn3
         \/ f \in {0, 4} /\ p >= Warn3 + Window
         \/ f = 1 /\ (p >= Warn1 \/ p >= Warn2 + Window)
         \/ f = 2 /\ (p >= Warn2 \/ p >= Warn3 + Window)
         \/ f = 3
  PROVE  /\ Remind(f, s) \in {0, 4} => s >= Warn3 + Window
         /\ Remind(f, s) = 1 => s >= Warn1 \/ s >= Warn2 + Window
         /\ Remind(f, s) = 2 => s >= Warn2 \/ s >= Warn3 + Window
         /\ s <= 0 => f = 3
<1>1. /\ Warn1 \in Nat /\ Warn2 \in Nat /\ Warn3 \in Nat /\ MaxAdvance \in Nat
      /\ Warn3 > 0
      /\ 3 * MaxAdvance <= 300
      /\ 3 * MaxAdvance <= Warn1 - Warn2
      /\ 3 * MaxAdvance <= Warn2 - Warn3
  BY PolicyAssumption
<1> QED BY <1>1, SMTT(30) DEF Remind, Shows

(* A check finds pr_updateTime at most three advances further than the last one. *)
LEMMA DuePaced ==
  ASSUME PolicyTypeOK, Paced, NEW d \in Advances, Due(d)
  PROVE  /\ Paced'
         /\ checked' # 0
         /\ checked # 0 => now' <= checked + 3 * MaxAdvance
<1>1. d \in Nat /\ d <= MaxAdvance /\ MaxAdvance \in Nat
  BY PolicyAssumption
<1> QED BY <1>1 DEF PolicyTypeOK, Paced, Due

(* PolInv is an invariant of the loop. *)
LEMMA PolInvariant == PolSpec => []PolInv
<1>1. PolInit => PolInv
  <2> SUFFICES ASSUME PolInit PROVE PolInv
    OBVIOUS
  <2>1. checked = 0 /\ base = 0 /\ ~(base >= Warn3)
    BY PolicyAssumption DEF PolInit
  <2>2. now > 0 /\ remindFlag = 0 /\ timeAuth.endTime = lastEndTime
    BY DEF PolInit
  <2> QED BY <2>1, <2>2 DEF PolInv, Paced, Based, Ahead, WarnedBeforeEnd
<1>2. PolicyTypeOK /\ PolicyTypeOK' /\ PolInv /\ [PolNext]_polVars => PolInv'
  <2> SUFFICES ASSUME PolicyTypeOK, PolicyTypeOK', PolInv, [PolNext]_polVars
               PROVE  Paced' /\ Based' /\ Ahead' /\ WarnedBeforeEnd'
    BY DEF PolInv
  <2>1. ASSUME NEW d \in Advances, Pass(d)
        PROVE  Paced' /\ Based' /\ Ahead' /\ WarnedBeforeEnd'
    <3>1. Paced'
      BY <2>1, PolicyAssumption DEF PolInv, PolicyTypeOK, Paced, Pass
    <3>2. Based' /\ Ahead' /\ WarnedBeforeEnd'
      BY <2>1 DEF PolInv, Based, Ahead, Left, WarnedBeforeEnd, Pass
    <3> QED BY <3>1, <3>2
  <2>2. ASSUME NEW d \in Advances, CheckFails(d)
        PROVE  Paced' /\ Based' /\ Ahead' /\ WarnedBeforeEnd'
    <3>1. Paced' /\ checked' # 0
      BY <2>2, DuePaced DEF CheckFails, PolInv
    <3>2. base' = 0 /\ ~(base' >= Warn3)
      BY <2>2, PolicyAssumption DEF CheckFails
    <3>3. timeAuth' = timeAuth /\ lastEndTime' = lastEndTime
      BY <2>2 DEF CheckFails
    <3> QED BY <3>1, <3>2, <3>3 DEF PolInv, Based, Ahead, WarnedBeforeEnd
  <2>3. ASSUME NEW d \in Advances, CheckUnlimited(d)
        PROVE  Paced' /\ Based' /\ Ahead' /\ WarnedBeforeEnd'
    <3>1. Paced' /\ checked' # 0
      BY <2>3, DuePaced DEF CheckUnlimited, PolInv
    <3>2. base' = base /\ ~(base > 0) /\ base \in Int
      BY <2>3 DEF CheckUnlimited, PolInv, Based, PolicyTypeOK
    <3>3. ~(base' >= Warn3)
      BY <3>2, PolicyAssumption
    <3>4. timeAuth' = timeAuth /\ timeAuth.endTime = 0
      BY <2>3 DEF CheckUnlimited
    <3> QED BY <3>1, <3>2, <3>3, <3>4 DEF Based, Ahead, WarnedBeforeEnd
  <2>4. ASSUME NEW d \in Advances, NEW ok \in BOOLEAN, Check(d, DBQueryTimeAuth(ok))
        PROVE  Paced' /\ Based' /\ Ahead' /\ WarnedBeforeEnd'
    <3> DEFINE tauth == DBQueryTimeAuth(ok)
               r == tauth.endTime - now'
               f == IF Restarted(tauth) THEN 4 ELSE remindFlag
    <3>1. Paced' /\ checked' = now' /\ checked' # 0
      BY <2>4, DuePaced DEF Check, Due, PolInv
    <3>2. tauth.endTime \in Nat /\ tauth.endTime # 0
      <4>1. tauth.endTime \in Ends \cup {0}
        BY QueryType DEF TimeAuth
      <4>2. timeAuth.endTime # 0
        BY <2>4 DEF Check
      <4>3. tauth.endTime # 0
        BY <4>2 DEF DBQueryTimeAuth, Fresh
      <4> QED BY <4>1, <4>3, TimesType
    <3> HIDE DEF tauth
    <3>3. Check(d, tauth)
      BY <2>4 DEF tauth
    <3>4. Based'
      <4>1. lastEndTime' # 0
        BY <3>2, <3>3 DEF Check
      <4>2. timeAuth'.endTime # 0
        BY <3>3 DEF Check, PolicyTypeOK, TimeAuth
      <4> QED BY <3>1, <4>1, <4>2 DEF Based
    <3>5. CASE Minutes(tauth)
      <4>1. base' = 0 /\ ~(base' >= Warn3)
        BY <3>3, <3>5, PolicyAssumption DEF Check
      <4> QED BY <3>1, <3>4, <4>1 DEF Ahead, WarnedBeforeEnd
    <3>6. CASE ~Minutes(tauth)
      <4>1. r \in Int /\ f \in 0..4 /\ now' \in Nat /\ checked \in Nat
        BY <3>2 DEF PolicyTypeOK
      <4>2. TimeLeft(tauth, now') = IF r <= 0 THEN 0 ELSE r
        BY <3>2, <3>6, <4>1 DEF TimeLeft
      <4>3. /\ ended' = (TimeLeft(tauth, now') = 0)
            /\ remindFlag' = IF ended' THEN f ELSE Remind(f, TimeLeft(tauth, now'))
        BY <3>3, Zenon DEF Check
      <4>4. /\ ended' => r <= 0 /\ remindFlag' = f
            /\ ~ended' => r > 0 /\ remindFlag' = Remind(f, r)
        <5> HIDE DEF r, f
        <5>1. CASE ended'
          <6>1. TimeLeft(tauth, now') = 0 /\ remindFlag' = f
            BY <4>3, <5>1, Zenon
          <6> QED BY <4>1, <4>2, <5>1, <6>1
        <5>2. CASE ~ended'
          <6>1. TimeLeft(tauth, now') # 0 /\ remindFlag' = Remind(f, TimeLeft(tauth, now'))
            BY <4>3, <5>2, Zenon
          <6> QED BY <4>1, <4>2, <5>2, <6>1
        <5> QED BY <5>1, <5>2
      <4>5. Left' = r
        BY <3>1, <3>3 DEF Check, Left
      <4> HIDE DEF r
      <4>6. CASE Restarted(tauth) \/ checked = 0
        <5>1. base' = r /\ f \in {0, 4}
          BY <3>3, <3>6, <4>6 DEF Check, r, PolInv, Based
        <5>2. base' >= Warn3 => r >= Warn3 /\ r > 0
          BY <4>1, <5>1, PolicyAssumption
        <5> HIDE DEF f
        <5>3. Ahead'
          <6>1. SUFFICES ASSUME ~ended', base' >= Warn3
                         PROVE  /\ remindFlag' \in {0, 4} => r >= Warn3 + Window
                                /\ remindFlag' = 1 => r >= Warn1 \/ r >= Warn2 + Window
                                /\ remindFlag' = 2 => r >= Warn2 \/ r >= Warn3 + Window
            BY <4>5 DEF Ahead
          <6>2. r >= r - 3 * MaxAdvance
            BY <4>1, PolicyAssumption
          <6>3. /\ Remind(f, r) \in {0, 4} => r >= Warn3 + Window
                /\ Remind(f, r) = 1 => r >= Warn1 \/ r >= Warn2 + Window
                /\ Remind(f, r) = 2 => r >= Warn2 \/ r >= Warn3 + Window
            BY <4>1, <5>1, <5>2, <6>1, <6>2, RemindAhead
          <6> QED BY <4>4, <6>1, <6>3
        <5>4. WarnedBeforeEnd'
          BY <4>1, <4>4, <5>2 DEF WarnedBeforeEnd
        <5> QED BY <3>1, <3>4, <5>3, <5>4
      <4>7. CASE ~Restarted(tauth) /\ checked # 0
        <5>1. base' = base /\ f = remindFlag /\ ~ended
          BY <3>3, <3>6, <4>7 DEF Check, Due, Looping
        <5>2. tauth.endTime = lastEndTime
          BY <3>3, <4>7 DEF Restarted, PolInv, Based, Check
        <5>3. Left \in Int /\ r >= Left - 3 * MaxAdvance
          <6>1. now' <= checked + 3 * MaxAdvance
            BY <3>3, <4>7, DuePaced DEF Check, PolInv
          <6> QED BY <3>2, <4>1, <5>2, <6>1, PolicyAssumption DEF Left, r
        <5> HIDE DEF f
        <5>4. SUFFICES ASSUME base' >= Warn3 PROVE Ahead' /\ WarnedBeforeEnd'
          BY <3>1, <3>4 DEF Ahead, WarnedBeforeEnd
        <5>5. /\ f \in {0, 4} => Left >= Warn3 + Window
              /\ f = 1 => Left >= Warn1 \/ Left >= Warn2 + Window
              /\ f = 2 => Left >= Warn2 \/ Left >= Warn3 + Window
          BY <5>1, <5>4 DEF PolInv, Ahead
        <5>6. /\ Remind(f, r) \in {0, 4} => r >= Warn3 + Window
              /\ Remind(f, r) = 1 => r >= Warn1 \/ r >= Warn2 + Window
              /\ Remind(f, r) = 2 => r >= Warn2 \/ r >= Warn3 + Window
              /\ r <= 0 => f = 3
          BY <4>1, <5>3, <5>5, RemindAhead
        <5>7. Ahead'
          BY <4>4, <4>5, <5>6 DEF Ahead
        <5>8. WarnedBeforeEnd'
          BY <4>4, <5>6 DEF WarnedBeforeEnd
        <5> QED BY <5>7, <5>8
      <4> QED BY <4>6, <4>7
    <3> QED BY <3>5, <3>6
  <2>5. CASE EditRow
    BY <2>5 DEF EditRow, PolInv, Paced, Based, Ahead, Left, WarnedBeforeEnd
  <2>6. CASE Leave
    BY <2>6 DEF Leave, PolInv, Paced, Based, Ahead, Left, WarnedBeforeEnd
  <2>7. CASE UNCHANGED polVars
    BY <2>7 DEF polVars, PolInv, Paced, Based, Ahead, Left, WarnedBeforeEnd
  <2> QED
    BY <2>1, <2>2, <2>3, <2>4, <2>5, <2>6, <2>7 DEF PolNext, Loop, CheckTime
<1> QED BY <1>1, <1>2, PolicyTypes, PTL DEF PolSpec

(* CheckTimePolicy ends no session that had the time for it without the third
   warning, for all warning times and all advances of pr_updateTime that do not
   jump over a window. *)
THEOREM PolicyWarnsBeforeEnd == PolSpec => []WarnedBeforeEnd
<1>1. PolInv => WarnedBeforeEnd
  BY DEF PolInv
<1> QED BY <1>1, PolInvariant, PTL

(* Until the end of the access changes no warning is repeated and none comes
   after a later one. *)
THEOREM PolicyRemindersInOrder == PolSpec => RemindersInOrder
<1>1. PolicyTypeOK /\ PolicyTypeOK' /\ PolInv /\ [PolNext]_polVars
        => [lastEndTime' = lastEndTime /\ remindFlag # 4 => remindFlag' >= remindFlag]_polVars
  <2> SUFFICES ASSUME PolicyTypeOK, PolicyTypeOK', PolInv, PolNext,
                      lastEndTime' = lastEndTime, remindFlag # 4
               PROVE  remindFlag' >= remindFlag
    BY DEF polVars
  <2>1. remindFlag \in 0..3
    BY DEF PolicyTypeOK
  <2>2. ASSUME NEW d \in Advances, CheckUnlimited(d) PROVE remindFlag' >= remindFlag
    BY <2>1, <2>2, RemindForward DEF CheckUnlimited
  <2>3. ASSUME NEW d \in Advances, NEW ok \in BOOLEAN, Check(d, DBQueryTimeAuth(ok))
        PROVE  remindFlag' >= remindFlag
    <3> DEFINE tauth == DBQueryTimeAuth(ok)
    <3>1. TimeLeft(tauth, now') \in Int
      BY LeftType DEF PolicyTypeOK
    <3> HIDE DEF tauth
    <3>2. Check(d, tauth)
      BY <2>3 DEF tauth
    <3>3. ~Restarted(tauth)
      BY <3>2 DEF Check, Restarted
    <3>4. \/ remindFlag' = remindFlag
          \/ remindFlag' = Remind(remindFlag, TimeLeft(tauth, now'))
      BY <3>2, <3>3 DEF Check
    <3> QED BY <2>1, <3>1, <3>4, RemindForward
  <2>4. CASE remindFlag' = remindFlag
    BY <2>1, <2>4
  <2> QED
    BY <2>2, <2>3, <2>4
    DEF PolNext, Loop, CheckTime, Pass, CheckFails, EditRow, Leave
<1> QED BY <1>1, PolInvariant, PolicyTypes, PTL DEF PolSpec, RemindersInOrder
=============================================================================
