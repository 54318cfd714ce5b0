----------------------------- MODULE TimePolicy -----------------------------
(***************************************************************************)
(* The access time of a session: main's loop CheckTimePolicy, which looks  *)
(* at the time every half minute through GetVistitime, warns the user in   *)
(* three windows before the end and ends the session when no time is left. *)
(*                                                                         *)
(* The present time is pr_updateTime, which the proxy host writes into the *)
(* database: it may stand still and then jump.  The end of the access, the *)
(* reason for it (pr_timeFlag) and the time of a password reset are fields *)
(* of the access row, which an administrator may change at any moment.     *)
(* Times are seconds; 0 stands for an empty field.                         *)
(***************************************************************************)
EXTENDS Integers

CONSTANTS
  Warn1, Warn2, Warn3,  \* warningTimes_1 .. 3 of cfg.ini
  Advances,   \* how far pr_updateTime may advance in ten passes of the loop ...
  MaxAdvance, \* ... and a bound of that
  Ends,       \* the ends of the access considered
  Resets,     \* the times of a password reset considered
  TimeFlags,  \* the values of pr_timeFlag considered
  MaxNow,     \* bound of the present time
  MaxEdits,   \* bound of the changes of the access row
  Faults      \* the queries that may fail: "time", "auth"

Window == 300
Minute == 60
Unlimited == 65500

\* The reasons CheckTimePolicy has a text for.
Reasons == {1, 2, 3, 4, 8, 9, 10, 11, 12, 16}

\* Three advances lie between two checks of the time: pr_updateTime cannot jump
\* over a window, nor from the end of one to the end of the next.
ASSUME PolicyAssumption ==
  /\ Warn1 \in Nat /\ Warn2 \in Nat /\ Warn3 \in Nat
  /\ Warn3 > 0
  /\ MaxAdvance \in Nat
  /\ Advances \subseteq 0..MaxAdvance
  /\ 3 * MaxAdvance <= Window
  /\ 3 * MaxAdvance <= Warn1 - Warn2
  /\ 3 * MaxAdvance <= Warn2 - Warn3
  /\ Ends \subseteq Nat \ {0}
  /\ Resets \subseteq Nat \ {0}
  /\ TimeFlags \subseteq Reasons
  /\ MaxNow \in Nat
  /\ MaxEdits \in Nat
  /\ Faults \subseteq {"time", "auth"}

VARIABLES
  now,        \* pr_updateTime
  row,        \* the time fields of the access row
  edits,      \* number of changes of the access row so far
  timeAuth,   \* p_aares.timeAuth: the fields as read at the launch, but for the flag
  lastEndTime,\* the end of the access at the last check
  count,      \* seconds since the last check, as CheckTimePolicy counts them
  remindFlag, \* the last warning shown; 4 after a change of the end
  ended,      \* the loop has been left because no time was left
  exitmsg,    \* the session is ending (SESSIONMANAGER)
  checked,    \* present time at the last check, or 0 (history variable)
  base        \* time left at the check that last (re)started the warnings; 0 when a
              \* check since then failed or had its time in minutes (history variable)

polVars == <<now, row, edits, timeAuth, lastEndTime, count, remindFlag, ended,
             exitmsg, checked, base>>

TimeAuth == [endTime : Ends \cup {0}, timeFlag : TimeFlags \cup {0}, resetPwdTime : Resets \cup {0}]

(* Type correctness of the loop's variables and the access row. *)
PolicyTypeOK ==
  /\ now \in Nat
  /\ row \in TimeAuth
  /\ edits \in 0..MaxEdits
  /\ timeAuth \in TimeAuth
  /\ timeAuth.timeFlag \in TimeFlags
  /\ lastEndTime \in Ends \cup {0}
  /\ count \in {0, 10, 20}
  /\ remindFlag \in 0..4
  /\ ended \in BOOLEAN
  /\ exitmsg \in BOOLEAN
  /\ checked \in Nat
  /\ base \in Int

\* OSCShellEx has read the row and called GetVistitime(.., 0, NULL): the flag was
\* positive, the access not over.  An empty end is never looked up again.
PolInit ==
  /\ now = 1
  /\ row \in TimeAuth
  /\ row.timeFlag # 0
  /\ row.endTime = 0 \/ now <= row.endTime
  /\ edits = 0
  /\ timeAuth = row
  /\ lastEndTime = row.endTime
  /\ count = 0
  /\ remindFlag = 0
  /\ ended = FALSE
  /\ exitmsg = FALSE
  /\ checked = 0
  /\ base = 0

-----------------------------------------------------------------------------
(* GetVistitime *)

\* C's division truncates towards 0.
InMinutes(s) == IF s >= 0 THEN s \div Minute ELSE -((-s) \div Minute)

\* DBQueryTimeAuth overwrites the fields that are not empty in the row; when it
\* fails the fields stay as they were read at the launch.
Fresh(new, old) == IF new = 0 THEN old ELSE new
DBQueryTimeAuth(ok) ==
  IF ok
  THEN [endTime |-> Fresh(row.endTime, timeAuth.endTime),
        timeFlag |-> Fresh(row.timeFlag, timeAuth.timeFlag),
        resetPwdTime |-> Fresh(row.resetPwdTime, timeAuth.resetPwdTime)]
  ELSE timeAuth

\* The reason changed to "password applied for" and the reset is known: the time
\* left is computed up to the reset, in minutes.
Minutes(tauth) ==
  /\ tauth.timeFlag # timeAuth.timeFlag
  /\ tauth.timeFlag = 9
  /\ tauth.resetPwdTime # 0

\* Mutant of TimeLeft: the seconds left without the test for the end.
TimeLeftSigned(tauth, t) ==
  IF Minutes(tauth) THEN InMinutes(tauth.resetPwdTime - t) ELSE tauth.endTime - t

\* *timeout at the time t, for an access that has an end.
TimeLeft(tauth, t) ==
  IF t > tauth.endTime THEN 0
  ELSE IF Minutes(tauth) THEN InMinutes(tauth.resetPwdTime - t)
  ELSE tauth.endTime - t

\* The warning due with state seconds left when f was the last one shown; every
\* reason has a text, so that there is always something to show.
Shows(w, state) == w <= state /\ state < w + Window

\* Mutants of Remind: the second warning does not expect the first; the first one
\* is shown unless it was the last.
RemindSkips(f, state) ==
  IF Shows(Warn1, state) /\ f \in {0, 4} THEN 1
  ELSE IF Shows(Warn2, state) /\ f \in {0, 4} THEN 2
  ELSE IF Shows(Warn3, state) /\ f \in {0, 2, 4} THEN 3
  ELSE f
RemindAgain(f, state) ==
  IF Shows(Warn1, state) /\ f # 1 THEN 1
  ELSE IF Shows(Warn2, state) /\ f \in {0, 1, 4} THEN 2
  ELSE IF Shows(Warn3, state) /\ f \in {0, 2, 4} THEN 3
  ELSE f

Remind(f, state) ==
  IF Shows(Warn1, state) /\ f \in {0, 4} THEN 1
  ELSE IF Shows(Warn2, state) /\ f \in {0, 1, 4} THEN 2
  ELSE IF Shows(Warn3, state) /\ f \in {0, 2, 4} THEN 3
  ELSE f

-----------------------------------------------------------------------------
(* CheckTimePolicy *)

Looping == ~ended /\ ~exitmsg

\* Ten passes of the loop: ten seconds, a heartbeat (DoLoginLog(2), see LoginLog);
\* pr_updateTime advances by d.
Pass(d) ==
  /\ Looping
  /\ count < 20
  /\ now + d <= MaxNow
  /\ now' = now + d
  /\ count' = count + 10
  /\ UNCHANGED <<row, edits, timeAuth, lastEndTime, remindFlag, ended, exitmsg, checked, base>>

\* Mutant of Due: the counter goes on.
DueCountsOn(d) ==
  /\ Looping
  /\ count = 20
  /\ now + d <= MaxNow
  /\ now' = now + d
  /\ checked' = now'
  /\ count' = count + 10

\* The passes that reach count = 30 make a check.
Due(d) ==
  /\ Looping
  /\ count = 20
  /\ now + d <= MaxNow
  /\ now' = now + d
  /\ checked' = now'
  /\ count' = 0

\* The time cannot be read: GetVistitime returns 0 with nothing left.
CheckFails(d) ==
  /\ Due(d)
  /\ "time" \in Faults
  /\ ended' = TRUE
  /\ base' = 0
  /\ UNCHANGED <<row, edits, timeAuth, lastEndTime, remindFlag, exitmsg>>

\* No end was given at the launch.
CheckUnlimited(d) ==
  /\ Due(d)
  /\ timeAuth.endTime = 0
  /\ remindFlag' = Remind(remindFlag, Unlimited)
  /\ UNCHANGED <<row, edits, timeAuth, lastEndTime, ended, exitmsg, base>>

\* The end is looked up; a changed end restarts the warnings.
Restarted(tauth) == lastEndTime # 0 /\ lastEndTime # tauth.endTime

Check(d, tauth) ==
  /\ Due(d)
  /\ timeAuth.endTime # 0
  /\ lastEndTime' = tauth.endTime
  /\ timeAuth' = IF now' > tauth.endTime THEN timeAuth
                  ELSE [timeAuth EXCEPT !.timeFlag = tauth.timeFlag]
  /\ ended' = (TimeLeft(tauth, now') = 0)
  /\ remindFlag' = LET f == IF Restarted(tauth) THEN 4 ELSE remindFlag
                   IN  IF ended' THEN f ELSE Remind(f, TimeLeft(tauth, now'))
  /\ base' = IF Minutes(tauth) THEN 0
             ELSE IF Restarted(tauth) \/ checked = 0 THEN tauth.endTime - now'
             ELSE base
  /\ UNCHANGED <<row, edits, exitmsg>>

CheckTime(d) ==
  \E ok \in BOOLEAN :
    /\ ok \/ "auth" \in Faults
    /\ Check(d, DBQueryTimeAuth(ok))

-----------------------------------------------------------------------------
(* The environment. *)

\* An administrator changes the access row while the loop runs.
EditRow ==
  /\ Looping
  /\ edits < MaxEdits
  /\ edits' = edits + 1
  /\ row' \in TimeAuth
  /\ row' # row
  /\ UNCHANGED <<now, timeAuth, lastEndTime, count, remindFlag, ended, exitmsg, checked, base>>

\* Another thread has begun to end the session: isLoop() is false.
Leave ==
  /\ Looping
  /\ exitmsg' = TRUE
  /\ UNCHANGED <<now, row, edits, timeAuth, lastEndTime, count, remindFlag, ended, checked, base>>

Loop(d) == Pass(d) \/ CheckFails(d) \/ CheckUnlimited(d) \/ CheckTime(d)

PolNext ==
  \/ \E d \in Advances : Loop(d)
  \/ EditRow
  \/ Leave

PolSpec == PolInit /\ [][PolNext]_polVars

\* The loop is a thread that only sleeps and queries.  DBQueryTimeAuth is tried again
\* at every check, on the database that has just answered the query for the time: it
\* does not fail for ever.
FairPolSpec ==
  /\ PolSpec
  /\ WF_polVars(\E d \in Advances : Loop(d))
  /\ SF_polVars(\E d \in Advances : Check(d, DBQueryTimeAuth(TRUE)))

-----------------------------------------------------------------------------
(* Properties. *)

\* The end of the access as the row has it.
EndTime == Fresh(row.endTime, timeAuth.endTime)

(* CheckTimePolicy ends no session without its last warning: if there was time
   for it when the warnings were last (re)started, and no check failed or had its
   time in minutes, the third warning was shown before the end - although each
   warning is shown only after the one before it. *)
WarnedBeforeEnd ==
  ended /\ base >= Warn3 => remindFlag = 3

(* A warning is not shown again, nor an earlier one after a later one, until the
   end of the access changes: also where the windows overlap. *)
RemindersInOrder ==
  [][lastEndTime' = lastEndTime /\ remindFlag # 4 => remindFlag' >= remindFlag]_polVars

(* An access that is over is ended, unless its end is moved, the session ends for
   another reason, or no end was given at the launch. *)
OverdueEnds ==
  (timeAuth.endTime # 0 /\ now > EndTime) ~> (ended \/ exitmsg \/ now <= EndTime)

(* "access time zero, session exit!": a session is ended only when no time is left
   up to the end of the access that the row gives. *)
EndsOnlyAtEnd ==
  [][ended' /\ ~ended => now' >= EndTime]_polVars
=============================================================================
