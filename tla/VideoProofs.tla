---------------------------- MODULE VideoProofs ----------------------------
(* Theorems about the videos, from their recording to their compaction: the *)
(* recorder, for any set of threads that call OnStop, and the two programs  *)
(* that compact its videos, for names of any length and any number of       *)
(* losses of the drive and of crashes of the service.                       *)
EXTENDS Recorder, VideoCompact, TLAPS

(***************************************************************************)
(* The inductive invariant.  Whether the file is open is a matter of the   *)
(* program counter alone; the two recording threads never live at the same *)
(* time because only a dying thread starts the second one, and only while  *)
(* the fallback codec has not been chosen; the event object is set only    *)
(* when no thread is left.                                                 *)
(***************************************************************************)
Writing == {"stream", "loop", "body"}

FileByPc ==
  \A t \in Threads : /\ th[t] \in Writing => pfile[t]
                     /\ pfile[t] => th[t] \in Writing \cup {"cleanup"}

OneAtATime ==
  /\ th[2] # "none" => th[1] = "ended" /\ msvc
  /\ th[1] = "restart" => msvc /\ error[1] = 1
  /\ th[2] # "restart"
  /\ starter # "done" => th[1] = "none"

AviByFile == avi = "partial" <=> \E t \in Threads : pfile[t]

EventMeansOver ==
  signalled \/ (\E c \in Callers : result[c] = "signalled")
    => starter = "done" /\ \A t \in Threads : ~Live(t)

ReportIsLast == Reported => \A t \in Threads : ~Live(t)

RecInv == TypeOK /\ FileByPc /\ OneAtATime /\ AviByFile /\ EventMeansOver /\ ReportIsLast

-----------------------------------------------------------------------------
\* There are two slots for recording threads.
LEMMA TwoThreads == Threads = {1, 2}
BY DEF Threads

\* The initial state satisfies the invariant.
LEMMA InitRecInv == RecInit => RecInv
<1> SUFFICES ASSUME RecInit PROVE RecInv
  OBVIOUS
<1> USE TwoThreads DEF RecInit
<1>1. TypeOK
  <2>1. pfile \in [Threads -> BOOLEAN] /\ msvc \in BOOLEAN /\ signalled \in BOOLEAN
    BY Zenon
  <2>2. th \in [Threads -> ThreadPc] /\ idle \in [Threads -> IdlePc]
    BY DEF ThreadPc, IdlePc
  <2>3. stop \in [Callers -> StopPc] /\ result \in [Callers -> StopResult]
    BY DEF StopPc, StopResult
  <2>4. error \in [Threads -> 0..1]
    OBVIOUS
  <2>5. QED
    BY <2>1, <2>2, <2>3, <2>4 DEF TypeOK, StarterPc
<1>2. FileByPc /\ AviByFile
  BY DEF FileByPc, AviByFile, Writing
<1>3. OneAtATime
  BY DEF OneAtATime
<1>4. EventMeansOver
  BY DEF EventMeansOver
<1>5. ReportIsLast
  BY DEF ReportIsLast, Reported
<1>6. QED
  BY <1>1, <1>2, <1>3, <1>4, <1>5 DEF RecInv

\* Every step of the recorder, and of a caller of OnStop, preserves it.
LEMMA NextRecInv == RecInv /\ [RecNext]_recVars => RecInv'
<1> SUFFICES ASSUME RecInv, [RecNext]_recVars PROVE RecInv'
  OBVIOUS
<1> USE TwoThreads DEF RecInv, TypeOK, FileByPc, OneAtATime, AviByFile, EventMeansOver, ReportIsLast,
            Reported, Live, Writing, StarterPc, ThreadPc, IdlePc, StopPc, StopResult
<1>1. CASE OnRecord
  <2>0. signalled' \in BOOLEAN
    BY <1>1, Zenon DEF OnRecord
  <2>1. TypeOK'
    BY <1>1, <2>0 DEF OnRecord
  <2>2. FileByPc'
    BY <1>1 DEF OnRecord
  <2>3. OneAtATime'
    BY <1>1 DEF OnRecord
  <2>4. AviByFile'
    BY <1>1 DEF OnRecord
  <2>5. EventMeansOver'
    BY <1>1 DEF OnRecord
  <2>6. ReportIsLast'
    BY <1>1 DEF OnRecord
  <2>7. QED
    BY <2>1, <2>2, <2>3, <2>4, <2>5, <2>6
<1>2. CASE OnRecordBegin
  BY <1>2 DEF OnRecordBegin, OnRecordStart
<1>3. ASSUME NEW t \in Threads, OpenFile(t) PROVE RecInv'
  <2>0. pfile' \in [Threads -> BOOLEAN]
    BY <1>3, Zenon DEF OpenFile
  <2>1. TypeOK'
    BY <1>3, <2>0 DEF OpenFile
  <2>2. FileByPc'
    BY <1>3 DEF OpenFile
  <2>3. OneAtATime'
    BY <1>3 DEF OpenFile
  <2>4. AviByFile'
    BY <1>3 DEF OpenFile
  <2>5. EventMeansOver'
    BY <1>3 DEF OpenFile
  <2>6. ReportIsLast'
    BY <1>3 DEF OpenFile
  <2>7. QED
    BY <2>1, <2>2, <2>3, <2>4, <2>5, <2>6
<1>4. ASSUME NEW t \in Threads, MakeStreams(t) PROVE RecInv'
  BY <1>4 DEF MakeStreams
<1>5. ASSUME NEW t \in Threads, LoopTest(t) PROVE RecInv'
  BY <1>5 DEF LoopTest
<1>6. ASSUME NEW t \in Threads, WriteFrame(t) PROVE RecInv'
  BY <1>6 DEF WriteFrame
<1>7. ASSUME NEW t \in Threads, CloseFile(t) PROVE RecInv'
  BY <1>7 DEF CloseFile
<1>8. ASSUME NEW t \in Threads, Interrupted(t) PROVE RecInv'
  BY <1>8 DEF Interrupted
<1>9. ASSUME NEW t \in Threads, Restart(t) PROVE RecInv'
  <2>1. TypeOK'
    BY <1>9 DEF Restart, OnRecordStart
  <2>2. FileByPc'
    BY <1>9 DEF Restart, OnRecordStart
  <2>3. OneAtATime'
    BY <1>9 DEF Restart, OnRecordStart
  <2>4. AviByFile'
    BY <1>9 DEF Restart, OnRecordStart
  <2>5. EventMeansOver'
    BY <1>9 DEF Restart, OnRecordStart
  <2>6. ReportIsLast'
    BY <1>9 DEF Restart, OnRecordStart
  <2>7. QED
    BY <2>1, <2>2, <2>3, <2>4, <2>5, <2>6
<1>10. ASSUME NEW t \in Threads, OnUserGeneric(t) PROVE RecInv'
  BY <1>10 DEF OnUserGeneric
<1>11. ASSUME NEW t \in Threads, Finish(t) PROVE RecInv'
  <2>0. signalled' \in BOOLEAN
    BY <1>11, Zenon DEF Finish, SetEvent
  <2>1. TypeOK'
    BY <1>11, <2>0 DEF Finish, SetEvent
  <2>2. FileByPc'
    BY <1>11 DEF Finish, SetEvent
  <2>3. OneAtATime'
    BY <1>11 DEF Finish, SetEvent
  <2>4. AviByFile'
    BY <1>11 DEF Finish, SetEvent
  <2>5. EventMeansOver'
    BY <1>11 DEF Finish, SetEvent
  <2>6. ReportIsLast'
    BY <1>11 DEF Finish, SetEvent
  <2>7. QED
    BY <2>1, <2>2, <2>3, <2>4, <2>5, <2>6
<1>12. ASSUME NEW t \in Threads, IdleTest(t) PROVE RecInv'
  BY <1>12 DEF IdleTest
<1>13. ASSUME NEW t \in Threads, CheckFreeEvent(t) PROVE RecInv'
  BY <1>13 DEF CheckFreeEvent
<1>14. ASSUME NEW c \in Callers, StopCall(c) PROVE RecInv'
  BY <1>14 DEF StopCall
<1>15. ASSUME NEW c \in Callers, StopReset(c) PROVE RecInv'
  BY <1>15 DEF StopReset, ResetEvent
<1>16. ASSUME NEW c \in Callers, StopInterrupt(c) PROVE RecInv'
  BY <1>16 DEF StopInterrupt
<1>17. ASSUME NEW c \in Callers, StopWait(c) PROVE RecInv'
  BY <1>17 DEF StopWait
<1>18. ASSUME NEW c \in Callers, StopTimeout(c) PROVE RecInv'
  BY <1>18 DEF StopTimeout
<1>19. ASSUME NEW c \in Callers, StopClose(c) PROVE RecInv'
  BY <1>19 DEF StopClose
<1>20. CASE UNCHANGED recVars
  BY <1>20 DEF recVars
<1>21. QED
  BY <1>1, <1>2, <1>3, <1>4, <1>5, <1>6, <1>7, <1>8, <1>9, <1>10, <1>11, <1>12,
     <1>13, <1>14, <1>15, <1>16, <1>17, <1>18, <1>19, <1>20
     DEF RecNext, RecStart, RecThreads, RecordVideo, StopStep

\* The invariant holds in every reachable state.
LEMMA RecorderInv == RecSpec => []RecInv
BY InitRecInv, NextRecInv, PTL DEF RecSpec

-----------------------------------------------------------------------------
(* Type correctness of the recorder's globals and program counters. *)
THEOREM RecorderTypeOK == RecSpec => []TypeOK
<1>1. RecInv => TypeOK
  BY DEF RecInv
<1>2. QED
  BY <1>1, RecorderInv, PTL

(* The file is open in at most one recording thread: an open file means that the
   thread lives, and the second thread starts after the first has ended. *)
THEOREM RecorderSingleWriter == RecSpec => []SingleWriter
<1>1. RecInv => SingleWriter
  BY TwoThreads DEF RecInv, FileByPc, OneAtATime, SingleWriter, Writing
<1>2. QED
  BY <1>1, RecorderInv, PTL

(* An OnStop released by the finish event leaves a closed file and no thread. *)
THEOREM RecorderSignalMeansFinal == RecSpec => []SignalMeansFinal
<1>1. RecInv => SignalMeansFinal
  <2> SUFFICES ASSUME RecInv, NEW c \in Callers, result[c] = "signalled"
               PROVE  /\ \A t \in Threads : ~Live(t) /\ ~pfile[t]
                      /\ avi # "partial"
    BY DEF SignalMeansFinal
  <2>1. \A t \in Threads : ~Live(t)
    BY DEF RecInv, EventMeansOver
  <2>2. \A t \in Threads : ~pfile[t]
    BY <2>1 DEF RecInv, FileByPc, Live, Writing
  <2>3. QED
    BY <2>1, <2>2 DEF RecInv, AviByFile
<1>2. QED
  BY <1>1, RecorderInv, PTL

-----------------------------------------------------------------------------
(* The recorder implements the abstract specification of its video file. *)

\* Every step of the recorder is a step of Recording or leaves file and report alone.
LEMMA RecorderStep ==
  RecInv /\ [RecNext]_recVars => [Abstract!Next]_<<avi, Reported>>
<1> SUFFICES ASSUME RecInv, [RecNext]_recVars
             PROVE  \/ Abstract!Next
                    \/ avi' = avi /\ (Reported' <=> Reported)
  BY DEF Reported
<1> USE TwoThreads DEF RecInv, TypeOK, FileByPc, OneAtATime, AviByFile, ReportIsLast,
                       Reported, Live, Writing
<1>1. ASSUME NEW t \in Threads, OpenFile(t)
      PROVE  \/ Abstract!Next
             \/ avi' = avi /\ (Reported' <=> Reported)
  BY <1>1 DEF OpenFile, Abstract!Next, Abstract!BeginTake
<1>2. ASSUME NEW t \in Threads, CloseFile(t)
      PROVE  \/ Abstract!Next
             \/ avi' = avi /\ (Reported' <=> Reported)
  BY <1>2 DEF CloseFile, Abstract!Next, Abstract!EndTake
<1>3. ASSUME NEW t \in Threads, Finish(t)
      PROVE  \/ Abstract!Next
             \/ avi' = avi /\ (Reported' <=> Reported)
  <2>1. ~Reported /\ avi # "partial" /\ avi' = avi
    BY <1>3 DEF Finish
  <2>2. CASE Reported'
    <3> HIDE DEF Reported
    <3>1. Reported' = TRUE
      BY <2>2, Zenon
    <3>2. QED
      BY <2>1, <3>1, Zenon DEF Abstract!Next, Abstract!Report
  <2>3. QED
    BY <2>1, <2>2
<1>4. ASSUME NEW t \in Threads,
             MakeStreams(t) \/ LoopTest(t) \/ WriteFrame(t) \/ Interrupted(t) \/ OnUserGeneric(t)
      PROVE  avi' = avi /\ (Reported' <=> Reported)
  BY <1>4 DEF MakeStreams, LoopTest, WriteFrame, Interrupted, OnUserGeneric
<1>5. ASSUME NEW t \in Threads, Restart(t)
      PROVE  avi' = avi /\ (Reported' <=> Reported)
  BY <1>5 DEF Restart, OnRecordStart
<1>6. CASE OnRecordBegin
  BY <1>6 DEF OnRecordBegin, OnRecordStart
<1>7. ASSUME UNCHANGED <<avi, th, error>>
      PROVE  avi' = avi /\ (Reported' <=> Reported)
  BY <1>7
<1>8. ASSUME NEW t \in Threads, IdleTest(t) \/ CheckFreeEvent(t)
      PROVE  UNCHANGED <<avi, th, error>>
  BY <1>8 DEF IdleTest, CheckFreeEvent
<1>9. ASSUME NEW c \in Callers, StopCall(c) \/ StopStep(c)
      PROVE  UNCHANGED <<avi, th, error>>
  BY <1>9 DEF StopCall, StopStep, StopReset, StopInterrupt, StopWait, StopTimeout, StopClose
<1>10. OnRecord \/ UNCHANGED recVars => UNCHANGED <<avi, th, error>>
  BY DEF OnRecord, recVars
<1>11. QED
  BY <1>1, <1>2, <1>3, <1>4, <1>5, <1>6, <1>7, <1>8, <1>9, <1>10
     DEF RecNext, RecStart, RecThreads, RecordVideo

(* Refinement: takes of the video file never overlap and none begins after the
   recording was reported as finished. *)
THEOREM RecorderImplementsRecording == RecSpec => ImplementsRecording
<1>1. RecInit => Abstract!Init
  BY TwoThreads DEF RecInit, Abstract!Init, Reported
<1>2. QED
  BY <1>1, RecorderStep, RecorderInv, PTL DEF RecSpec, ImplementsRecording, Abstract!Spec

-----------------------------------------------------------------------------
(***************************************************************************)
(* VideoKept is not inductive: what keeps a whole copy is that DeleteFile  *)
(* comes after the moves, and that the files a walk meets are what it      *)
(* takes them for although the other walk moves them too.                  *)
(***************************************************************************)
Places == {"down", "first", "idle", "find", "date", "format", "ffmpeg", "encode", "toBak",
           "toPath", "back", "delete"}
Contents == [fmt : {"none", "mpeg4", "h264"}, whole : BOOLEAN, late : BOOLEAN]
WalkRecords == [pc : Places, at : Names, now : BOOLEAN, whole : BOOLEAN]

\* Where a walk is once FindVideoFormat has found MPEG-4 ...
Working == {"ffmpeg", "encode", "toBak", "toPath", "back", "delete"}
\* ... where the encoded file is its own ...
Owning == {"encode", "toBak", "toPath", "back"}
\* ... and where it takes that file for a good one.
Moving == {"toBak", "toPath", "back"}

\* The name is not that of an encoded file.
Plain(n) == n = Video \/ n[Len(n)] # "cmp"

CompTyped ==
  /\ recording \in BOOLEAN /\ truncated \in BOOLEAN
  /\ files \in [Names -> Contents]
  /\ walk \in [Walks -> WalkRecords]

\* Encoded files are never taken for videos: only files without the suffix .cmp.avi are
\* of MPEG-4 format, and only such names are worked on, with room for one suffix more.
OnlyPlain ==
  /\ \A n \in Names : files[n].fmt = "mpeg4" => Plain(n)
  /\ \A w \in Walks : walk[w].pc \in Working => Plain(walk[w].at) /\ Len(walk[w].at) < MaxSuffix

\* The encoded file of a walk is there and no other walk's: ffmpeg refuses to write over it.
OwnCmp ==
  /\ \A w \in Walks : walk[w].pc \in Owning => files[CmpPath(walk[w].at)].fmt # "none"
  /\ \A v, w \in Walks : v # w /\ walk[v].pc \in Owning /\ walk[w].pc \in Owning
                          => walk[v].at # walk[w].at

\* Unless an encoding has been truncated, every file that is no encoding is whole, and so
\* is the encoded file of a walk that moves.
AllWhole ==
  ~truncated =>
    /\ \A n \in Names : Plain(n) /\ files[n] # NoFile
                          => files[n].whole \/ (n = Video /\ recording)
    /\ \A w \in Walks : walk[w].pc = "encode" => walk[w].whole
    /\ \A w \in Walks : walk[w].pc \in Moving => files[CmpPath(walk[w].at)].whole

\* A whole copy with at most l suffixes, not counting the .cmp.avi of an encoding.
Kept(l) ==
  \E n \in Names : /\ Plain(n) /\ Len(n) <= l
                   /\ \/ files[n].whole
                      \/ Len(n) < MaxSuffix /\ files[CmpPath(n)].whole

\* A walk deletes a backup only while a copy with fewer suffixes than it is there: this
\* rules out that two walks, one on the backup of the other, each delete what the other
\* relies on.
CopyKept ==
  ~recording /\ ~truncated =>
    /\ Kept(MaxSuffix)
    /\ \A w \in Walks : walk[w].pc = "delete" => Kept(Len(walk[w].at))

CompInv == CompTyped /\ OnlyPlain /\ OwnCmp /\ AllWhole /\ CopyKept

(***************************************************************************)
(* Names.                                                                  *)
(***************************************************************************)
\* A name is a sequence of at most MaxSuffix suffixes.
LEMMA NameSeq ==
  ASSUME NEW n \in Names
  PROVE  n \in Seq({"cmp", "bak"}) /\ Len(n) \in 0..MaxSuffix
<1>1. PICK k \in 0..MaxSuffix : n \in [1..k -> {"cmp", "bak"}]
  BY DEF Names
<1>2. k \in Nat
  BY <1>1, SuffixBound
<1>3. QED
  BY <1>1, <1>2, SuffixBound

\* The video's own name.
LEMMA VideoName == Video \in Names /\ Len(Video) = 0 /\ Plain(Video)
<1>1. Video \in [1..0 -> {"cmp", "bak"}]
  BY DEF Video
<1>2. 0 \in 0..MaxSuffix
  BY SuffixBound
<1>3. QED
  BY <1>1, <1>2 DEF Names, Plain, Video

\* A suffix more, where there is room for it.
LEMMA Longer ==
  ASSUME NEW n \in Names, Len(n) < MaxSuffix, NEW s \in {"cmp", "bak"}
  PROVE  /\ Append(n, s) \in Names
         /\ Len(Append(n, s)) = Len(n) + 1
         /\ Append(n, s)[Len(n) + 1] = s
         /\ \A i \in 1..Len(n) : Append(n, s)[i] = n[i]
<1>1. n \in Seq({"cmp", "bak"}) /\ Len(n) \in 0..MaxSuffix
  BY NameSeq
<1>2. Append(n, s) \in Seq({"cmp", "bak"}) /\ Len(Append(n, s)) = Len(n) + 1
  BY <1>1
<1>3. Append(n, s) \in [1..Len(n) + 1 -> {"cmp", "bak"}]
  <2>1. \A q \in Seq({"cmp", "bak"}) : q \in [1..Len(q) -> {"cmp", "bak"}]
    OBVIOUS
  <2>2. Append(n, s) \in [1..Len(Append(n, s)) -> {"cmp", "bak"}]
    BY <1>2, <2>1, Zenon
  <2>3. QED
    BY <1>2, <2>2
<1>4. Len(n) + 1 \in 0..MaxSuffix
  BY <1>1, SuffixBound
<1>5. QED
  BY <1>1, <1>2, <1>3, <1>4 DEF Names

\* The names of the encoded file and of the backup.
LEMMA OtherNames ==
  ASSUME NEW n \in Names, Len(n) < MaxSuffix
  PROVE  /\ CmpPath(n) \in Names /\ ~Plain(CmpPath(n)) /\ CmpPath(n) # Video
         /\ BakPath(n) \in Names /\ Plain(BakPath(n)) /\ BakPath(n) # Video
         /\ BakPath(n) # n /\ Len(BakPath(n)) = Len(n) + 1
<1>1. Len(n) \in Nat
  BY NameSeq
<1>2. Len(Video) = 0
  BY VideoName
<1>3. /\ CmpPath(n) \in Names /\ Len(CmpPath(n)) = Len(n) + 1
      /\ CmpPath(n)[Len(n) + 1] = "cmp"
  BY Longer DEF CmpPath
<1>4. /\ BakPath(n) \in Names /\ Len(BakPath(n)) = Len(n) + 1
      /\ BakPath(n)[Len(n) + 1] = "bak"
  BY Longer DEF BakPath
<1>5. CmpPath(n) # Video /\ BakPath(n) # Video /\ BakPath(n) # n
  BY <1>1, <1>2, <1>3, <1>4
<1>6. QED
  BY <1>3, <1>4, <1>5 DEF Plain

\* Different names have different encoded files.
LEMMA CmpInjective ==
  ASSUME NEW n \in Names, Len(n) < MaxSuffix, NEW m \in Names, Len(m) < MaxSuffix,
         CmpPath(n) = CmpPath(m)
  PROVE  n = m
<1>1. /\ n \in Seq({"cmp", "bak"}) /\ Len(n) \in Nat
      /\ m \in Seq({"cmp", "bak"}) /\ Len(m) \in Nat
  BY NameSeq
<1>2. /\ Len(CmpPath(n)) = Len(n) + 1
      /\ \A i \in 1..Len(n) : CmpPath(n)[i] = n[i]
  BY Longer DEF CmpPath
<1>3. /\ Len(CmpPath(m)) = Len(m) + 1
      /\ \A i \in 1..Len(m) : CmpPath(m)[i] = m[i]
  BY Longer DEF CmpPath
<1>4. Len(n) = Len(m)
  BY <1>1, <1>2, <1>3
<1>5. \A i \in 1..Len(n) : n[i] = m[i]
  BY <1>2, <1>3, <1>4
<1>6. QED
  BY <1>1, <1>4, <1>5
(***************************************************************************)
(* The initial state, and steps that leave the files alone.                *)
(***************************************************************************)
\* The service starts on a video nobody has compacted.
LEMMA InitCompact == CompInit => CompInv
<1> SUFFICES ASSUME CompInit PROVE CompInv
  OBVIOUS
<1> USE VideoName
<1>1. recording \in BOOLEAN /\ truncated \in BOOLEAN
  BY Zenon DEF CompInit
<1>2. PICK late \in BOOLEAN :
        files = [n \in Names |-> IF n = Video
                   THEN [fmt |-> "mpeg4", whole |-> ~recording, late |-> late \/ recording]
                   ELSE NoFile]
  BY DEF CompInit
<1>3. NoFile \in Contents
  BY DEF NoFile, Contents
<1>4. [fmt |-> "mpeg4", whole |-> ~recording, late |-> late \/ recording] \in Contents
  BY <1>1 DEF Contents
<1>5. files \in [Names -> Contents]
  BY <1>2, <1>3, <1>4
<1>6. /\ files[Video].fmt = "mpeg4" /\ files[Video].whole = ~recording
      /\ \A n \in Names : n # Video => files[n] = NoFile
  BY <1>2
<1>7. /\ walk \in [Walks -> WalkRecords]
      /\ \A w \in Walks : walk[w].pc \in {"first", "idle"}
  BY DEF CompInit, WalkRecords, Places
<1>8. OnlyPlain
  BY <1>6, <1>7 DEF OnlyPlain, Working, NoFile
<1>9. OwnCmp
  BY <1>7 DEF OwnCmp, Owning
<1>10. AllWhole
  BY <1>1, <1>6, <1>7 DEF AllWhole, Moving
<1>11. CopyKept
  <2>1. ~recording => Kept(MaxSuffix)
    <3>1. ASSUME ~recording PROVE files[Video].whole
      BY <1>1, <1>6, <3>1
    <3>2. Len(Video) <= MaxSuffix
      BY SuffixBound
    <3>3. QED
      BY <3>1, <3>2 DEF Kept
  <2>2. QED
    BY <2>1, <1>7 DEF CopyKept
<1>12. QED
  BY <1>1, <1>5, <1>7, <1>8, <1>9, <1>10, <1>11 DEF CompInv, CompTyped

\* The walks other than w stay where they are.
Others(w) == \A v \in Walks : v # w => walk'[v] = walk[v]

\* What Go and Leave do to a walk.
LEMMA GoFacts ==
  ASSUME CompTyped, NEW w \in Walks, NEW to \in Places, Go(w, to)
  PROVE  /\ walk' \in [Walks -> WalkRecords] /\ Others(w)
         /\ walk'[w].pc = to /\ walk'[w].at = walk[w].at /\ walk'[w].whole = walk[w].whole
<1>1. walk[w] \in WalkRecords
  BY DEF CompTyped
<1>2. [walk[w] EXCEPT !.pc = to] \in WalkRecords
  BY <1>1 DEF WalkRecords
<1>3. walk' = [walk EXCEPT ![w] = [walk[w] EXCEPT !.pc = to]]
  BY DEF Go
<1>4. walk'[w] = [walk[w] EXCEPT !.pc = to]
  BY <1>3 DEF CompTyped
<1>5. walk' \in [Walks -> WalkRecords] /\ Others(w)
  BY <1>2, <1>3 DEF CompTyped, Others
<1>6. QED
  BY <1>1, <1>4, <1>5 DEF WalkRecords

\* A walk that leaves a file is at the loop again.
LEMMA LeaveFacts ==
  ASSUME CompTyped, NEW w \in Walks, Leave(w)
  PROVE  /\ walk' \in [Walks -> WalkRecords] /\ Others(w) /\ walk'[w].pc = "find"
<1>1. walk[w] \in WalkRecords
  BY DEF CompTyped
<1> DEFINE r == [walk[w] EXCEPT !.pc = "find", !.at = Video, !.whole = FALSE]
<1>2. r \in WalkRecords /\ r.pc = "find"
  BY <1>1, VideoName DEF WalkRecords, Places
<1>3. walk' = [walk EXCEPT ![w] = r]
  BY DEF Leave
<1> HIDE DEF r
<1>4. walk' \in [Walks -> WalkRecords] /\ Others(w) /\ walk'[w] = r
  BY <1>2, <1>3 DEF CompTyped, Others
<1>5. QED
  BY <1>2, <1>4

\* A step that changes no file and no history preserves the invariant when its walk does
\* not begin an encoding, and deletes only after its moves.
LEMMA Quiet ==
  ASSUME CompInv, NEW w \in Walks, UNCHANGED <<files, recording, truncated>>,
         walk' \in [Walks -> WalkRecords], Others(w),
         walk'[w].pc \in Working => Plain(walk'[w].at) /\ Len(walk'[w].at) < MaxSuffix,
         walk'[w].pc \in Owning \cup {"delete"}
            => walk[w].pc \in Moving /\ walk'[w].at = walk[w].at,
         walk'[w].pc # "encode"
  PROVE  CompInv'
<1> USE DEF CompInv
<1>1. CompTyped'
  BY DEF CompTyped
<1>2. OnlyPlain'
  BY DEF OnlyPlain, Others
<1>3. OwnCmp'
  BY DEF OwnCmp, Owning, Moving, Others
<1>4. AllWhole'
  BY DEF AllWhole, Owning, Moving, Others
<1>5. CopyKept'
  <2>1. ASSUME NEW l PROVE Kept(l)' <=> Kept(l)
    BY DEF Kept
  <2>2. SUFFICES ASSUME ~recording, ~truncated
                 PROVE  /\ Kept(MaxSuffix)
                        /\ \A v \in Walks : walk'[v].pc = "delete" => Kept(Len(walk'[v].at))
    BY <2>1 DEF CopyKept
  <2>3. CASE walk'[w].pc = "delete"
    <3>1. walk[w].pc \in Moving /\ walk'[w].at = walk[w].at
      BY <2>3
    <3>2. files[CmpPath(walk[w].at)].whole /\ Plain(walk[w].at) /\ Len(walk[w].at) < MaxSuffix
      BY <2>2, <3>1 DEF AllWhole, OnlyPlain, Moving, Working
    <3>3. walk[w].at \in Names
      BY DEF CompTyped, WalkRecords
    <3>4. Kept(Len(walk'[w].at))
      BY <3>1, <3>2, <3>3, NameSeq DEF Kept
    <3>5. QED
      BY <2>2, <3>4 DEF CopyKept, Others
  <2>4. QED
    BY <2>2, <2>3 DEF CopyKept, Others
<1>6. QED
  BY <1>1, <1>2, <1>3, <1>4, <1>5
(***************************************************************************)
(* The steps that change files.                                            *)
(***************************************************************************)
\* What is known of a walk that works on a file.
LEMMA AtWork ==
  ASSUME CompInv, NEW w \in Walks, walk[w].pc \in Working
  PROVE  /\ walk[w].at \in Names /\ Plain(walk[w].at) /\ Len(walk[w].at) \in Nat
         /\ Len(walk[w].at) < MaxSuffix
         /\ CmpPath(walk[w].at) \in Names /\ ~Plain(CmpPath(walk[w].at))
         /\ CmpPath(walk[w].at) # Video
         /\ BakPath(walk[w].at) \in Names /\ Plain(BakPath(walk[w].at))
         /\ BakPath(walk[w].at) # Video /\ BakPath(walk[w].at) # walk[w].at
         /\ Len(BakPath(walk[w].at)) = Len(walk[w].at) + 1
<1>1. walk[w].at \in Names /\ Plain(walk[w].at) /\ Len(walk[w].at) < MaxSuffix
  BY DEF CompInv, CompTyped, WalkRecords, OnlyPlain
<1>2. QED
  BY <1>1, NameSeq, OtherNames

\* The encoded files of two walks that own one are different.
LEMMA OwnDiffer ==
  ASSUME CompInv, NEW v \in Walks, NEW w \in Walks, v # w,
         walk[v].pc \in Owning, walk[w].pc \in Owning
  PROVE  CmpPath(walk[v].at) # CmpPath(walk[w].at)
<1>1. walk[v].pc \in Working /\ walk[w].pc \in Working
  BY DEF Owning, Working
<1>2. walk[v].at # walk[w].at
  BY DEF CompInv, OwnCmp
<1>3. QED
  BY <1>1, <1>2, AtWork, CmpInjective

\* A whole copy of few suffixes outlives a step that takes no whole file away but to put
\* it under another name of no more suffixes.
LEMMA KeptStep ==
  ASSUME NEW l,
         \A n \in Names : Plain(n) /\ files[n].whole /\ Len(n) <= l
                            => files'[n].whole \/ Kept(l)',
         \A n \in Names : Plain(n) /\ Len(n) < MaxSuffix /\ files[CmpPath(n)].whole /\ Len(n) <= l
                            => files'[CmpPath(n)].whole \/ Kept(l)',
         Kept(l)
  PROVE  Kept(l)'
<1>1. PICK n \in Names : /\ Plain(n) /\ Len(n) <= l
                         /\ \/ files[n].whole
                            \/ Len(n) < MaxSuffix /\ files[CmpPath(n)].whole
  BY DEF Kept
<1>2. QED
  BY <1>1 DEF Kept

\* CopyKept of the next state.
LEMMA CopyStep ==
  ASSUME CompInv, NEW w \in Walks, Others(w), recording' = recording, truncated => truncated',
         ~recording /\ ~truncated' => \A l \in Nat : Kept(l) => Kept(l)',
         ~recording /\ ~truncated' /\ walk'[w].pc = "delete" => Kept(Len(walk[w].at))'
  PROVE  CopyKept'
<1> SUFFICES ASSUME ~recording, ~truncated'
             PROVE  /\ Kept(MaxSuffix)'
                    /\ \A v \in Walks : walk'[v].pc = "delete" => Kept(Len(walk[v].at))'
  BY DEF CopyKept
<1>1. Kept(MaxSuffix)'
  BY SuffixBound DEF CompInv, CopyKept
<1>2. ASSUME NEW v \in Walks, walk'[v].pc = "delete", v # w PROVE Kept(Len(walk[v].at))'
  <2>1. walk'[v] = walk[v]
    BY <1>2 DEF Others
  <2>2. Len(walk[v].at) \in Nat
    BY NameSeq DEF CompInv, CompTyped, WalkRecords
  <2>3. Kept(Len(walk[v].at))
    BY <1>2, <2>1 DEF CompInv, CopyKept
  <2>4. QED
    BY <2>1, <2>2, <2>3 DEF Kept
<1>3. QED
  BY <1>1, <1>2
\* A walk that leaves its file without having changed anything.
LEMMA LeaveStep ==
  ASSUME CompInv, NEW w \in Walks, Leave(w), UNCHANGED <<files, recording, truncated>>
  PROVE  CompInv'
<1>1. walk' \in [Walks -> WalkRecords] /\ Others(w) /\ walk'[w].pc = "find"
  BY LeaveFacts DEF CompInv
<1>2. walk'[w].pc \notin Working /\ walk'[w].pc \notin Owning \cup {"delete"}
  BY <1>1 DEF Working, Owning
<1>3. QED
  BY <1>1, <1>2, Quiet

\* ffmpeg starts: its file is new, and whole will be what the video is.
LEMMA EncodeStep == ASSUME CompInv, NEW w \in Walks, Encode(w) PROVE CompInv'
<1> DEFINE n == walk[w].at
           c == CmpPath(n)
           new == [fmt |-> "h264", whole |-> FALSE, late |-> TRUE]
<1>1. CASE Leave(w) /\ UNCHANGED <<files, truncated>>
  BY <1>1, LeaveStep DEF Encode
<1>2. CASE /\ Exists(n) /\ ~Exists(c)
           /\ Put(c, new)
           /\ walk' = [walk EXCEPT ![w].pc = "encode", ![w].whole = files[n].whole]
           /\ truncated' = (truncated \/ (n = Video /\ recording))
  <2>1. walk[w].pc \in Working
    BY DEF Encode, Working
  <2>2. /\ n \in Names /\ Plain(n) /\ Len(n) < MaxSuffix
        /\ c \in Names /\ ~Plain(c) /\ c # Video
    BY <2>1, AtWork
  <2>3. files[n] # NoFile /\ files[c] = NoFile
    BY <1>2 DEF Exists
  <2>4. recording' = recording
    BY DEF Encode
  <2>5. files[n].whole \in BOOLEAN
    BY <2>2 DEF CompInv, CompTyped, Contents
  <2>6. /\ walk' \in [Walks -> WalkRecords] /\ Others(w)
        /\ walk'[w].pc = "encode" /\ walk'[w].at = n /\ walk'[w].whole = files[n].whole
    <3> DEFINE r == [walk[w] EXCEPT !.pc = "encode", !.whole = files[n].whole]
    <3>1. walk[w] \in WalkRecords
      BY DEF CompInv, CompTyped
    <3>2. r \in WalkRecords /\ r.pc = "encode" /\ r.at = n /\ r.whole = files[n].whole
      BY <2>5, <3>1 DEF WalkRecords, Places
    <3>3. walk' = [walk EXCEPT ![w] = r]
      BY <1>2
    <3> HIDE DEF r
    <3>4. walk' \in [Walks -> WalkRecords] /\ Others(w) /\ walk'[w] = r
      BY <3>2, <3>3 DEF CompInv, CompTyped, Others
    <3>5. QED
      BY <3>2, <3>4
  <2>7. new \in Contents /\ new # NoFile /\ new.fmt = "h264" /\ new.whole = FALSE
    BY DEF Contents, NoFile
  <2>8. files' = [files EXCEPT ![c] = new]
    BY <1>2 DEF Put
  <2> HIDE DEF n, c, new
  <2>9. files'[c] = new /\ \A m \in Names : m # c => files'[m] = files[m]
    BY <2>2, <2>8 DEF CompInv, CompTyped
  <2>10. CompTyped'
    <3>1. truncated' \in BOOLEAN
      BY <1>2, Zenon
    <3>2. files' \in [Names -> Contents]
      BY <2>7, <2>8 DEF CompInv, CompTyped
    <3>3. QED
      BY <3>1, <3>2, <2>4, <2>6 DEF CompInv, CompTyped
  <2>11. OnlyPlain'
    BY <2>2, <2>6, <2>7, <2>9 DEF CompInv, OnlyPlain, Others
  <2>12. ASSUME NEW v \in Walks, v # w, walk[v].pc \in Owning
         PROVE  walk[v].at # n /\ CmpPath(walk[v].at) # c /\ CmpPath(walk[v].at) \in Names
    <3>1. files[CmpPath(walk[v].at)] # NoFile
      BY <2>12 DEF CompInv, OwnCmp, NoFile
    <3>2. walk[v].pc \in Working
      BY <2>12 DEF Owning, Working
    <3>3. QED
      BY <2>3, <3>1, <3>2, AtWork DEF c
  <2>13. OwnCmp'
    BY <2>6, <2>7, <2>9, <2>12 DEF CompInv, OwnCmp, Others, c
  <2>14. AllWhole'
    <3>1. SUFFICES ASSUME ~truncated'
                   PROVE  /\ \A m \in Names : Plain(m) /\ files'[m] # NoFile
                                 => files'[m].whole \/ (m = Video /\ recording)
                          /\ \A v \in Walks : walk'[v].pc = "encode" => walk'[v].whole
                          /\ \A v \in Walks : walk'[v].pc \in Moving
                                 => files'[CmpPath(walk'[v].at)].whole
      BY <2>4 DEF AllWhole
    <3>2. ~truncated /\ ~(n = Video /\ recording)
      BY <1>2, <3>1, Zenon DEF n
    <3>3. files[n].whole
      BY <2>2, <2>3, <3>2 DEF CompInv, AllWhole
    <3>4. ASSUME NEW v \in Walks, walk'[v].pc \in Moving
          PROVE  files'[CmpPath(walk'[v].at)].whole
      <4>1. v # w
        BY <2>6, <3>4 DEF Moving
      <4>2. walk'[v] = walk[v] /\ walk[v].pc \in Owning /\ walk[v].pc \in Moving
        BY <2>6, <3>4, <4>1 DEF Others, Moving, Owning
      <4>3. QED
        BY <2>9, <2>12, <3>2, <4>1, <4>2 DEF CompInv, AllWhole
    <3>5. QED
      BY <2>2, <2>6, <2>9, <3>2, <3>3, <3>4 DEF CompInv, AllWhole, Others
  <2>15. CopyKept'
    <3>1. truncated => truncated'
      BY <1>2, Zenon
    <3>2. ASSUME NEW l \in Nat, Kept(l) PROVE Kept(l)'
      <4>1. ~files[c].whole
        BY <2>3 DEF NoFile
      <4>2. QED
        BY <2>9, <3>2, <4>1, OtherNames, KeptStep
    <3>3. QED
      BY <2>4, <2>6, <3>1, <3>2, CopyStep
  <2>16. QED
    BY <2>10, <2>11, <2>13, <2>14, <2>15 DEF CompInv
<1>3. QED
  BY <1>1, <1>2 DEF Encode
\* ffmpeg ends, under the service or after it: its file stays its own, and is whole unless
\* an encoding has been truncated.
LEMMA EncodingEnds ==
  ASSUME CompInv, NEW w \in Walks, walk[w].pc = "encode", NEW x \in BOOLEAN,
         Put(CmpPath(walk[w].at), [files[CmpPath(walk[w].at)] EXCEPT !.whole = x]),
         recording' = recording, truncated' \in BOOLEAN, truncated => truncated',
         ~truncated' => x,
         walk' \in [Walks -> WalkRecords], Others(w), walk'[w].pc \in {"toBak", "down"},
         walk'[w].pc = "toBak" => walk'[w].at = walk[w].at
  PROVE  CompInv'
<1> DEFINE n == walk[w].at
           c == CmpPath(n)
           new == [files[c] EXCEPT !.whole = x]
<1>1. walk[w].pc \in Working /\ walk[w].pc \in Owning
  BY DEF Working, Owning
<1>2. n \in Names /\ Plain(n) /\ Len(n) < MaxSuffix /\ c \in Names /\ ~Plain(c) /\ c # Video
  BY <1>1, AtWork
<1>3. files[c] \in Contents /\ files[c].fmt # "none"
  BY <1>1, <1>2 DEF CompInv, CompTyped, OwnCmp
<1>4. new \in Contents /\ new.fmt = files[c].fmt /\ new.whole = x
  BY <1>3 DEF Contents
<1>5. files' = [files EXCEPT ![c] = new]
  BY DEF Put
<1> HIDE DEF n, c, new
<1>6. files'[c] = new /\ \A m \in Names : m # c => files'[m] = files[m]
  BY <1>2, <1>5 DEF CompInv, CompTyped
<1>7. CompTyped'
  BY <1>4, <1>5 DEF CompInv, CompTyped
<1>8. OnlyPlain'
  BY <1>2, <1>4, <1>6 DEF CompInv, OnlyPlain, Others, Working, n
<1>9. ASSUME NEW v \in Walks, v # w, walk[v].pc \in Owning
      PROVE  CmpPath(walk[v].at) # c /\ CmpPath(walk[v].at) \in Names
  <2>1. walk[v].pc \in Working
    BY <1>9 DEF Owning, Working
  <2>2. QED
    BY <1>1, <1>9, <2>1, AtWork, OwnDiffer DEF c, n
<1>10. OwnCmp'
  BY <1>1, <1>3, <1>4, <1>6, <1>9 DEF CompInv, OwnCmp, Others, Owning, c, n
<1>11. AllWhole'
  <2>1. SUFFICES ASSUME ~truncated'
                 PROVE  /\ \A m \in Names : Plain(m) /\ files'[m] # NoFile
                               => files'[m].whole \/ (m = Video /\ recording)
                        /\ \A v \in Walks : walk'[v].pc = "encode" => walk'[v].whole
                        /\ \A v \in Walks : walk'[v].pc \in Moving
                               => files'[CmpPath(walk'[v].at)].whole
    BY DEF AllWhole
  <2>2. ~truncated /\ x
    BY <2>1
  <2>3. ASSUME NEW v \in Walks, walk'[v].pc \in Moving, v # w
        PROVE  files'[CmpPath(walk'[v].at)].whole
    <3>1. walk'[v] = walk[v] /\ walk[v].pc \in Owning /\ walk[v].pc \in Moving
      BY <2>3 DEF Others, Moving, Owning
    <3>2. QED
      BY <1>6, <1>9, <2>2, <2>3, <3>1 DEF CompInv, AllWhole
  <2>4. ASSUME walk'[w].pc \in Moving PROVE files'[CmpPath(walk'[w].at)].whole
    BY <1>4, <1>6, <2>2, <2>4 DEF Moving, c, n
  <2>5. QED
    BY <1>2, <1>6, <2>2, <2>3, <2>4 DEF CompInv, AllWhole, Others
<1>12. CopyKept'
  <2>1. ASSUME NEW l \in Nat, Kept(l), ~truncated' PROVE Kept(l)'
    <3>1. files'[c].whole
      BY <1>4, <1>6, <2>1
    <3>2. QED
      BY <1>6, <2>1, <3>1, OtherNames, KeptStep
  <2>2. QED
    BY <2>1, CopyStep
<1>13. QED
  BY <1>7, <1>8, <1>10, <1>11, <1>12 DEF CompInv

\* ffmpeg ends under the walk that started it.
LEMMA EncodedStep ==
  ASSUME CompInv, NEW w \in Walks, NEW ok \in BOOLEAN, Encoded(w, ok)
  PROVE  CompInv'
<1>1. walk[w].pc = "encode" /\ recording' = recording /\ Go(w, "toBak")
  BY DEF Encoded
<1>2. walk[w].whole \in BOOLEAN
  BY DEF CompInv, CompTyped, WalkRecords
<1>3. truncated' \in BOOLEAN /\ (truncated => truncated') /\ (~truncated' => ok /\ ~truncated)
  BY Zenon DEF Encoded
<1>4. ~truncated' => ok /\ walk[w].whole
  BY <1>1, <1>3 DEF CompInv, AllWhole
<1>5. /\ walk' \in [Walks -> WalkRecords] /\ Others(w)
      /\ walk'[w].pc = "toBak" /\ walk'[w].at = walk[w].at
  BY <1>1, GoFacts DEF CompInv, Places
<1> DEFINE x == ok /\ walk[w].whole
<1>6. Put(CmpPath(walk[w].at), [files[CmpPath(walk[w].at)] EXCEPT !.whole = x])
  BY DEF Encoded
<1>7. x \in BOOLEAN /\ (~truncated' => x)
  BY <1>2, <1>4
<1> HIDE DEF x
<1>8. QED
  BY <1>1, <1>3, <1>5, <1>6, <1>7, EncodingEnds

\* The service crashes; a crash leaves the rest of the directory as it is.
LEMMA CrashStep == CompInv /\ CompCrash => CompInv'
<1> SUFFICES ASSUME CompInv, CompCrash PROVE CompInv'
  OBVIOUS
<1> DEFINE c == CmpPath(walk[Thread].at)
           r == [pc |-> "down", at |-> Video, now |-> FALSE, whole |-> FALSE]
<1>1. Thread \in Walks
  BY DEF Walks
<1>2. recording' = recording /\ truncated' = truncated
  BY DEF CompCrash
<1>3. r \in WalkRecords /\ r.pc = "down"
  BY VideoName DEF WalkRecords, Places
<1>4. walk' = [walk EXCEPT ![Thread] = r]
  BY DEF CompCrash
<1> HIDE DEF r
<1>5. walk' \in [Walks -> WalkRecords] /\ Others(Thread) /\ walk'[Thread].pc = "down"
  BY <1>1, <1>3, <1>4 DEF CompInv, CompTyped, Others
<1>6. CASE UNCHANGED files
  <2>1. walk'[Thread].pc \notin Working /\ walk'[Thread].pc \notin Owning \cup {"delete"}
    BY <1>5 DEF Working, Owning
  <2>2. QED
    BY <1>1, <1>2, <1>5, <1>6, <2>1, Quiet
<1>7. CASE walk[Thread].pc = "encode" /\ Put(c, [files[c] EXCEPT !.whole = walk[Thread].whole])
  <2>1. walk[Thread].whole \in BOOLEAN
    BY <1>1 DEF CompInv, CompTyped, WalkRecords
  <2>2. ~truncated' => walk[Thread].whole
    BY <1>1, <1>2, <1>7 DEF CompInv, AllWhole
  <2>3. truncated' \in BOOLEAN
    BY <1>2 DEF CompInv, CompTyped
  <2>4. QED
    BY <1>1, <1>2, <1>5, <1>7, <2>1, <2>2, <2>3, EncodingEnds
<1>8. QED
  BY <1>6, <1>7 DEF CompCrash
\* What a move does to the directory.
LEMMA MoveFacts ==
  ASSUME CompTyped, NEW n \in Names, NEW m \in Names, n # m, Move(n, m)
  PROVE  /\ files' \in [Names -> Contents]
         /\ files'[n] = NoFile /\ files'[m] = files[n]
         /\ \A k \in Names : k # n /\ k # m => files'[k] = files[k]
<1>1. NoFile \in Contents
  BY DEF NoFile, Contents
<1>2. files[n] \in Contents
  BY DEF CompTyped
<1>3. QED
  BY <1>1, <1>2 DEF CompTyped, Move

\* The encoded file of another walk is neither a file without the suffix nor that of w.
LEMMA OthersCmp ==
  ASSUME CompInv, NEW w \in Walks, walk[w].pc \in Owning,
         NEW v \in Walks, v # w, walk[v].pc \in Owning
  PROVE  /\ CmpPath(walk[v].at) \in Names /\ ~Plain(CmpPath(walk[v].at))
         /\ CmpPath(walk[v].at) # CmpPath(walk[w].at)
<1>1. walk[v].pc \in Working
  BY DEF Owning, Working
<1>2. QED
  BY <1>1, AtWork, OwnDiffer

\* The video is moved to its backup; the encoded file is whole by now.
LEMMA MoveToBakStep == ASSUME CompInv, NEW w \in Walks, MoveToBak(w) PROVE CompInv'
<1> DEFINE n == walk[w].at
           b == BakPath(n)
           c == CmpPath(n)
<1>1. recording' = recording /\ truncated' = truncated
  BY DEF MoveToBak
<1>2. CASE Leave(w) /\ UNCHANGED files
  BY <1>1, <1>2, LeaveStep
<1>3. CASE CanMove(n, b) /\ Move(n, b) /\ Go(w, "toPath")
  <2>1. walk[w].pc = "toBak" /\ walk[w].pc \in Working /\ walk[w].pc \in Owning
    BY DEF MoveToBak, Working, Owning
  <2>2. /\ n \in Names /\ Plain(n) /\ Len(n) < MaxSuffix /\ c \in Names /\ ~Plain(c)
        /\ b \in Names /\ Plain(b) /\ b # Video /\ b # n
    BY <2>1, AtWork
  <2>3. files[n] # NoFile /\ ~(n = Video /\ recording) /\ files[b] = NoFile
    BY <1>3 DEF CanMove, Exists, Busy
  <2>4. /\ walk' \in [Walks -> WalkRecords] /\ Others(w)
        /\ walk'[w].pc = "toPath" /\ walk'[w].at = n
    BY <1>3, GoFacts DEF CompInv, Places
  <2> HIDE DEF n, b, c
  <2>5. /\ files' \in [Names -> Contents] /\ files'[n] = NoFile /\ files'[b] = files[n]
        /\ \A k \in Names : k # n /\ k # b => files'[k] = files[k]
    BY <1>3, <2>2, MoveFacts DEF CompInv
  <2>6. CompTyped'
    BY <1>1, <2>4, <2>5 DEF CompInv, CompTyped
  <2>7. OnlyPlain'
    BY <2>2, <2>4, <2>5 DEF CompInv, OnlyPlain, Others, NoFile
  <2>8. files'[c] = files[c]
    BY <2>2, <2>5
  <2>9. ASSUME NEW v \in Walks, v # w, walk[v].pc \in Owning
        PROVE  files'[CmpPath(walk[v].at)] = files[CmpPath(walk[v].at)]
    BY <2>1, <2>2, <2>5, <2>9, OthersCmp
  <2>10. OwnCmp'
    BY <2>1, <2>4, <2>8, <2>9 DEF CompInv, OwnCmp, Others, Owning, c, n
  <2>11. ~truncated => files[n].whole /\ files[c].whole
    BY <2>1, <2>2, <2>3 DEF CompInv, AllWhole, Moving, c, n
  <2>12. AllWhole'
    BY <1>1, <2>1, <2>2, <2>4, <2>5, <2>8, <2>9, <2>11
       DEF CompInv, AllWhole, Others, Owning, Moving, c, n
  <2>13. CopyKept'
    <3>1. ASSUME NEW l \in Nat, Kept(l), ~truncated PROVE Kept(l)'
      <4>1. Len(n) <= l => Kept(l)'
        BY <2>2, <2>8, <2>11, <3>1 DEF Kept, c
      <4>2. ASSUME NEW m \in Names, Len(m) < MaxSuffix
            PROVE  files'[CmpPath(m)] = files[CmpPath(m)]
        BY <2>2, <2>5, <4>2, OtherNames
      <4>3. ~files[b].whole
        BY <2>3 DEF NoFile
      <4>4. QED
        BY <2>5, <3>1, <4>1, <4>2, <4>3, KeptStep
    <3>2. QED
      BY <1>1, <2>4, <3>1, CopyStep
  <2>14. QED
    BY <2>6, <2>7, <2>10, <2>12, <2>13 DEF CompInv
<1>4. QED
  BY <1>2, <1>3 DEF MoveToBak
\* A walk that goes on without having moved anything; the encoded file stays.
LEMMA FailedMove ==
  ASSUME CompInv, NEW w \in Walks, NEW to \in {"back", "delete"}, walk[w].pc \in Moving,
         Go(w, to), UNCHANGED <<files, recording, truncated>>
  PROVE  CompInv'
<1>1. walk[w].pc \in Working
  BY DEF Moving, Working
<1>2. Plain(walk[w].at) /\ Len(walk[w].at) < MaxSuffix
  BY <1>1, AtWork
<1>3. /\ walk' \in [Walks -> WalkRecords] /\ Others(w)
      /\ walk'[w].pc = to /\ walk'[w].at = walk[w].at
  BY GoFacts DEF CompInv, Places
<1>4. QED
  BY <1>2, <1>3, Quiet

\* The encoded file is moved to the video's name.
LEMMA MoveToPathStep == ASSUME CompInv, NEW w \in Walks, MoveToPath(w) PROVE CompInv'
<1> DEFINE n == walk[w].at
           c == CmpPath(n)
<1>1. recording' = recording /\ truncated' = truncated
  BY DEF MoveToPath
<1>2. walk[w].pc = "toPath" /\ walk[w].pc \in Working /\ walk[w].pc \in Owning
      /\ walk[w].pc \in Moving
  BY DEF MoveToPath, Working, Owning, Moving
<1>3. CASE Go(w, "back") /\ UNCHANGED files
  BY <1>1, <1>2, <1>3, FailedMove
<1>4. CASE CanMove(c, n) /\ Move(c, n) /\ Go(w, "delete")
  <2>1. /\ n \in Names /\ Plain(n) /\ Len(n) < MaxSuffix /\ Len(n) \in Nat
        /\ c \in Names /\ ~Plain(c)
    BY <1>2, AtWork
  <2>2. files[n] = NoFile
    BY <1>4 DEF CanMove
  <2>3. /\ walk' \in [Walks -> WalkRecords] /\ Others(w)
        /\ walk'[w].pc = "delete" /\ walk'[w].at = n
    BY <1>4, GoFacts DEF CompInv, Places
  <2> HIDE DEF n, c
  <2>4. /\ files' \in [Names -> Contents] /\ files'[c] = NoFile /\ files'[n] = files[c]
        /\ \A k \in Names : k # n /\ k # c => files'[k] = files[k]
    BY <1>4, <2>1, MoveFacts DEF CompInv
  <2>5. CompTyped'
    BY <1>1, <2>3, <2>4 DEF CompInv, CompTyped
  <2>6. OnlyPlain'
    BY <2>1, <2>3, <2>4 DEF CompInv, OnlyPlain, Others, NoFile
  <2>7. ASSUME NEW v \in Walks, v # w, walk[v].pc \in Owning
        PROVE  files'[CmpPath(walk[v].at)] = files[CmpPath(walk[v].at)]
    BY <1>2, <2>1, <2>4, <2>7, OthersCmp DEF c, n
  <2>8. OwnCmp'
    BY <2>3, <2>7 DEF CompInv, OwnCmp, Others, Owning
  <2>9. ~truncated => files[c].whole
    BY <1>2 DEF CompInv, AllWhole, c, n
  <2>10. AllWhole'
    BY <1>1, <2>1, <2>3, <2>4, <2>7, <2>9 DEF CompInv, AllWhole, Others, Owning, Moving
  <2>11. CopyKept'
    <3>1. ASSUME NEW l \in Nat, ~truncated, Len(n) <= l PROVE Kept(l)'
      BY <2>1, <2>4, <2>9, <3>1 DEF Kept
    <3>2. ASSUME NEW l \in Nat, Kept(l), ~truncated PROVE Kept(l)'
      <4>1. ASSUME NEW m \in Names, Len(m) < MaxSuffix, m # n
            PROVE  files'[CmpPath(m)] = files[CmpPath(m)]
        <5>1. CmpPath(m) # c
          BY <2>1, <4>1, CmpInjective DEF c
        <5>2. QED
          BY <2>1, <2>4, <4>1, <5>1, OtherNames
      <4>2. ~files[n].whole
        BY <2>2 DEF NoFile
      <4>3. QED
        BY <2>1, <2>4, <3>1, <3>2, <4>1, <4>2, KeptStep
    <3>3. ~truncated => Kept(Len(walk[w].at))'
      BY <2>1, <2>3, <2>4, <2>9 DEF Kept
    <3>4. QED
      BY <1>1, <2>3, <3>2, <3>3, CopyStep
  <2>12. QED
    BY <2>5, <2>6, <2>8, <2>10, <2>11 DEF CompInv
<1>5. QED
  BY <1>3, <1>4 DEF MoveToPath

\* The backup is moved back to the video's name; the encoded file stays.
LEMMA MoveBackStep == ASSUME CompInv, NEW w \in Walks, MoveBack(w) PROVE CompInv'
<1> DEFINE n == walk[w].at
           b == BakPath(n)
           c == CmpPath(n)
<1>1. recording' = recording /\ truncated' = truncated /\ Go(w, "delete")
  BY DEF MoveBack
<1>2. walk[w].pc = "back" /\ walk[w].pc \in Working /\ walk[w].pc \in Owning
      /\ walk[w].pc \in Moving
  BY DEF MoveBack, Working, Owning, Moving
<1>3. CASE UNCHANGED files
  BY <1>1, <1>2, <1>3, FailedMove
<1>4. CASE CanMove(b, n) /\ Move(b, n)
  <2>1. /\ n \in Names /\ Plain(n) /\ Len(n) < MaxSuffix /\ Len(n) \in Nat
        /\ c \in Names /\ ~Plain(c)
        /\ b \in Names /\ Plain(b) /\ b # Video /\ b # n /\ Len(b) = Len(n) + 1
    BY <1>2, AtWork
  <2>2. files[b] # NoFile /\ files[n] = NoFile
    BY <1>4 DEF CanMove, Exists
  <2>3. /\ walk' \in [Walks -> WalkRecords] /\ Others(w)
        /\ walk'[w].pc = "delete" /\ walk'[w].at = n
    BY <1>1, GoFacts DEF CompInv, Places
  <2> HIDE DEF n, b, c
  <2>4. /\ files' \in [Names -> Contents] /\ files'[b] = NoFile /\ files'[n] = files[b]
        /\ \A k \in Names : k # n /\ k # b => files'[k] = files[k]
    BY <1>4, <2>1, MoveFacts DEF CompInv
  <2>5. CompTyped'
    BY <1>1, <2>3, <2>4 DEF CompInv, CompTyped
  <2>6. OnlyPlain'
    BY <2>1, <2>3, <2>4 DEF CompInv, OnlyPlain, Others, NoFile
  <2>7. ASSUME NEW v \in Walks, v # w, walk[v].pc \in Owning
        PROVE  files'[CmpPath(walk[v].at)] = files[CmpPath(walk[v].at)]
    BY <1>2, <2>1, <2>4, <2>7, OthersCmp
  <2>8. OwnCmp'
    BY <2>3, <2>7 DEF CompInv, OwnCmp, Others, Owning
  <2>9. ~truncated => files[c].whole /\ files[b].whole
    BY <1>2, <2>1, <2>2 DEF CompInv, AllWhole, c, n
  <2>10. AllWhole'
    BY <1>1, <2>1, <2>3, <2>4, <2>7, <2>9 DEF CompInv, AllWhole, Others, Owning, Moving
  <2>11. CopyKept'
    <3>1. ASSUME NEW l \in Nat, ~truncated, Len(n) <= l PROVE Kept(l)'
      BY <2>1, <2>4, <2>9, <3>1 DEF Kept
    <3>2. ASSUME NEW l \in Nat, Kept(l), ~truncated PROVE Kept(l)'
      <4>1. ASSUME NEW m \in Names, Len(m) < MaxSuffix
            PROVE  files'[CmpPath(m)] = files[CmpPath(m)]
        BY <2>1, <2>4, <4>1, OtherNames
      <4>2. ~files[n].whole
        BY <2>2 DEF NoFile
      <4>3. Len(b) <= l => Kept(l)'
        BY <2>1, <3>1, <3>2
      <4>4. QED
        BY <2>1, <2>4, <3>2, <4>1, <4>2, <4>3, KeptStep
    <3>3. ~truncated => Kept(Len(walk[w].at))'
      BY <2>1, <2>3, <2>4, <2>9 DEF Kept
    <3>4. QED
      BY <1>1, <2>3, <3>2, <3>3, CopyStep
  <2>12. QED
    BY <2>5, <2>6, <2>8, <2>10, <2>11 DEF CompInv
<1>5. QED
  BY <1>3, <1>4 DEF MoveBack

\* A backup is deleted: a copy with fewer suffixes is there.
LEMMA DeleteBakStep == ASSUME CompInv, NEW w \in Walks, DeleteBak(w) PROVE CompInv'
<1> DEFINE n == walk[w].at
           b == BakPath(n)
<1>1. recording' = recording /\ truncated' = truncated /\ Leave(w)
  BY DEF DeleteBak
<1>2. CASE UNCHANGED files
  BY <1>1, <1>2, LeaveStep
<1>3. CASE Put(b, NoFile)
  <2>1. walk[w].pc = "delete" /\ walk[w].pc \in Working
    BY DEF DeleteBak, Working
  <2>2. /\ n \in Names /\ Len(n) < MaxSuffix /\ Len(n) \in Nat
        /\ b \in Names /\ Plain(b) /\ b # Video /\ Len(b) = Len(n) + 1
    BY <2>1, AtWork
  <2>3. walk' \in [Walks -> WalkRecords] /\ Others(w) /\ walk'[w].pc = "find"
    BY <1>1, LeaveFacts DEF CompInv
  <2> HIDE DEF n, b
  <2>4. NoFile \in Contents
    BY DEF NoFile, Contents
  <2>5. /\ files' \in [Names -> Contents] /\ files'[b] = NoFile
        /\ \A k \in Names : k # b => files'[k] = files[k]
    BY <1>3, <2>2, <2>4 DEF Put, CompInv, CompTyped
  <2>6. CompTyped'
    BY <1>1, <2>3, <2>5 DEF CompInv, CompTyped
  <2>7. OnlyPlain'
    BY <2>2, <2>3, <2>5 DEF CompInv, OnlyPlain, Others, NoFile, Working
  <2>8. ASSUME NEW m \in Names, Len(m) < MaxSuffix
        PROVE  files'[CmpPath(m)] = files[CmpPath(m)]
    BY <2>2, <2>5, <2>8, OtherNames
  <2>9. ASSUME NEW v \in Walks, walk[v].pc \in Owning
        PROVE  files'[CmpPath(walk[v].at)] = files[CmpPath(walk[v].at)]
    <3>1. walk[v].pc \in Working
      BY <2>9 DEF Owning, Working
    <3>2. QED
      BY <2>8, <3>1, AtWork
  <2>10. OwnCmp'
    BY <2>3, <2>9 DEF CompInv, OwnCmp, Others, Owning
  <2>11. AllWhole'
    BY <1>1, <2>3, <2>5, <2>9 DEF CompInv, AllWhole, Others, Owning, Moving
  <2>12. CopyKept'
    <3>1. ASSUME NEW l \in Nat, Kept(l), ~recording, ~truncated PROVE Kept(l)'
      <4>1. ASSUME Len(b) <= l PROVE Kept(l)'
        <5>1. Kept(Len(n))
          BY <2>1, <3>1 DEF CompInv, CopyKept, n
        <5>2. PICK m \in Names : /\ Plain(m) /\ Len(m) <= Len(n)
                                 /\ \/ files[m].whole
                                    \/ Len(m) < MaxSuffix /\ files[CmpPath(m)].whole
          BY <5>1 DEF Kept
        <5>3. Len(m) <= l /\ m # b
          BY <2>2, <4>1, <5>2, NameSeq
        <5>4. QED
          BY <2>5, <2>8, <5>2, <5>3 DEF Kept
      <4>2. QED
        BY <2>5, <2>8, <3>1, <4>1, KeptStep
    <3>2. QED
      BY <1>1, <2>3, <3>1, CopyStep
  <2>13. QED
    BY <2>6, <2>7, <2>10, <2>11, <2>12 DEF CompInv
<1>4. QED
  BY <1>2, <1>3 DEF DeleteBak
\* The recording ends: from here on there is a whole copy under the video's own name.
LEMMA RecordingEndsStep == CompInv /\ RecordingEnds => CompInv'
<1> SUFFICES ASSUME CompInv, RecordingEnds PROVE CompInv'
  OBVIOUS
<1> DEFINE new == [files[Video] EXCEPT !.whole = TRUE]
<1>1. recording' = FALSE /\ truncated' = truncated /\ walk' = walk
  BY DEF RecordingEnds
<1>2. new \in Contents /\ new.whole /\ files' = [files EXCEPT ![Video] = new]
  BY VideoName DEF RecordingEnds, Put, CompInv, CompTyped, Contents
<1> HIDE DEF new
<1>3. /\ files' \in [Names -> Contents] /\ files'[Video].whole
      /\ \A m \in Names : m # Video => files'[m] = files[m]
  BY <1>2, VideoName DEF CompInv, CompTyped
<1>4. CompTyped'
  BY <1>1, <1>3 DEF CompInv, CompTyped
<1>5. OnlyPlain'
  BY <1>1, <1>3, VideoName DEF CompInv, OnlyPlain
<1>6. ASSUME NEW w \in Walks, walk[w].pc \in Owning
      PROVE  files'[CmpPath(walk[w].at)] = files[CmpPath(walk[w].at)]
  <2>1. walk[w].pc \in Working
    BY <1>6 DEF Owning, Working
  <2>2. QED
    BY <1>3, <2>1, AtWork
<1>7. OwnCmp'
  BY <1>1, <1>6 DEF CompInv, OwnCmp
<1>8. AllWhole'
  BY <1>1, <1>3, <1>6 DEF CompInv, AllWhole, Owning, Moving
<1>9. CopyKept'
  <2>1. ASSUME NEW l \in Nat PROVE Kept(l)'
    BY <1>3, VideoName DEF Kept
  <2>2. \A w \in Walks : Len(walk[w].at) \in Nat
    BY NameSeq DEF CompInv, CompTyped, WalkRecords
  <2>3. MaxSuffix \in Nat
    BY SuffixBound
  <2>4. \A w \in Walks : Kept(Len(walk[w].at))'
    BY <1>1, <2>1, <2>2 DEF Kept
  <2>5. QED
    BY <2>1, <2>3, <2>4 DEF CopyKept
<1>10. QED
  BY <1>4, <1>5, <1>7, <1>8, <1>9 DEF CompInv

\* A walk that is not at work afterwards.
LEMMA NotAtWork ==
  ASSUME CompInv, NEW w \in Walks, UNCHANGED <<files, recording, truncated>>,
         walk' \in [Walks -> WalkRecords], Others(w), walk'[w].pc \notin Working
  PROVE  CompInv'
<1>1. walk'[w].pc \notin Owning \cup {"delete"} /\ walk'[w].pc # "encode"
  BY DEF Owning, Working
<1>2. QED
  BY <1>1, Quiet

\* CompareDir begins a walk, or finds no directory.
LEMMA CompareDirStep ==
  ASSUME CompInv, NEW w \in Walks, CompareDir(w)
  PROVE  CompInv' /\ Others(w)
<1>1. UNCHANGED <<files, recording, truncated>>
  BY DEF CompareDir
<1>2. CASE Go(w, "idle")
  <2>1. walk' \in [Walks -> WalkRecords] /\ Others(w) /\ walk'[w].pc = "idle"
    BY <1>2, GoFacts DEF CompInv, Places
  <2>2. QED
    BY <1>1, <2>1, NotAtWork DEF Working
<1>3. ASSUME NEW now \in BOOLEAN, walk' = [walk EXCEPT ![w].pc = "find", ![w].now = now]
      PROVE  CompInv' /\ Others(w)
  <2> DEFINE r == [walk[w] EXCEPT !.pc = "find", !.now = now]
  <2>1. r \in WalkRecords /\ r.pc = "find"
    BY DEF CompInv, CompTyped, WalkRecords, Places
  <2>2. walk' = [walk EXCEPT ![w] = r]
    BY <1>3
  <2> HIDE DEF r
  <2>3. walk' \in [Walks -> WalkRecords] /\ Others(w) /\ walk'[w].pc = "find"
    BY <2>1, <2>2 DEF CompInv, CompTyped, Others
  <2>4. QED
    BY <1>1, <2>3, NotAtWork DEF Working
<1>4. QED
  BY <1>2, <1>3 DEF CompareDir

\* FindNextFile gives a file, or ends the walk.
LEMMA FindNextStep ==
  ASSUME CompInv, NEW w \in Walks, FindNext(w)
  PROVE  CompInv' /\ Others(w)
<1>1. UNCHANGED <<files, recording, truncated>>
  BY DEF FindNext
<1>2. ASSUME NEW r \in WalkRecords, r.pc \notin Working, walk' = [walk EXCEPT ![w] = r]
      PROVE  CompInv' /\ Others(w)
  <2>1. walk' \in [Walks -> WalkRecords] /\ Others(w) /\ walk'[w].pc \notin Working
    BY <1>2 DEF CompInv, CompTyped, Others
  <2>2. QED
    BY <1>1, <2>1, NotAtWork
<1>3. ASSUME NEW n \in Names,
             walk' = [walk EXCEPT ![w].at = n,
                                  ![w].pc = IF walk[w].now THEN "date" ELSE "format"]
      PROVE  CompInv' /\ Others(w)
  <2> DEFINE r == [walk[w] EXCEPT !.at = n, !.pc = IF walk[w].now THEN "date" ELSE "format"]
  <2>1. r \in WalkRecords /\ r.pc \notin Working
    BY DEF CompInv, CompTyped, WalkRecords, Places, Working
  <2>2. walk' = [walk EXCEPT ![w] = r]
    BY <1>3
  <2> HIDE DEF r
  <2>3. QED
    BY <1>2, <2>1, <2>2
<1>4. ASSUME walk' = [walk EXCEPT ![w].pc = "idle", ![w].now = FALSE]
      PROVE  CompInv' /\ Others(w)
  <2> DEFINE r == [walk[w] EXCEPT !.pc = "idle", !.now = FALSE]
  <2>1. r \in WalkRecords /\ r.pc \notin Working
    BY DEF CompInv, CompTyped, WalkRecords, Places, Working
  <2>2. walk' = [walk EXCEPT ![w] = r]
    BY <1>4
  <2> HIDE DEF r
  <2>3. QED
    BY <1>2, <2>1, <2>2
<1>5. QED
  BY <1>3, <1>4 DEF FindNext

\* The date and the format of a file are looked at.
LEMMA LookStep ==
  ASSUME CompInv, NEW w \in Walks, FileIsNow(w) \/ FileIsOld(w) \/ FindVideoFormat(w)
  PROVE  CompInv' /\ Others(w)
<1>1. UNCHANGED <<files, recording, truncated>>
  BY DEF FileIsNow, FileIsOld, FindVideoFormat
<1>2. CASE Leave(w)
  BY <1>1, <1>2, LeaveStep, LeaveFacts DEF CompInv
<1>3. CASE Go(w, "format")
  <2>1. walk' \in [Walks -> WalkRecords] /\ Others(w) /\ walk'[w].pc = "format"
    BY <1>3, GoFacts DEF CompInv, Places
  <2>2. QED
    BY <1>1, <2>1, NotAtWork DEF Working
<1>4. CASE IsMpeg4(walk[w].at) /\ Len(walk[w].at) < MaxSuffix /\ Go(w, "ffmpeg")
  <2>1. walk[w].at \in Names
    BY DEF CompInv, CompTyped, WalkRecords
  <2>2. Plain(walk[w].at)
    BY <1>4, <2>1 DEF CompInv, OnlyPlain, IsMpeg4
  <2>3. /\ walk' \in [Walks -> WalkRecords] /\ Others(w)
        /\ walk'[w].pc = "ffmpeg" /\ walk'[w].at = walk[w].at
    BY <1>4, GoFacts DEF CompInv, Places
  <2>4. walk'[w].pc \notin Owning \cup {"delete"} /\ walk'[w].pc # "encode"
    BY <2>3 DEF Owning
  <2>5. QED
    BY <1>1, <1>4, <2>2, <2>3, <2>4, Quiet
<1>5. QED
  BY <1>2, <1>3, <1>4 DEF FileIsNow, FileIsOld, FindVideoFormat

\* The service starts again.
LEMMA RestartStep ==
  ASSUME CompInv, CompRestart
  PROVE  CompInv' /\ Others(Thread)
<1>1. Thread \in Walks
  BY DEF Walks
<1>2. UNCHANGED <<files, recording, truncated>> /\ Go(Thread, "first")
  BY DEF CompRestart
<1>3. walk' \in [Walks -> WalkRecords] /\ Others(Thread) /\ walk'[Thread].pc = "first"
  BY <1>1, <1>2, GoFacts DEF CompInv, Places
<1>4. QED
  BY <1>1, <1>2, <1>3, NotAtWork DEF Working

\* Only the drive changes, or nothing.
LEMMA SameFiles ==
  ASSUME CompInv, UNCHANGED <<files, recording, walk, truncated>>
  PROVE  CompInv'
<1>1. CompTyped' /\ OnlyPlain' /\ OwnCmp' /\ AllWhole'
  BY DEF CompInv, CompTyped, OnlyPlain, OwnCmp, AllWhole
<1>2. ASSUME NEW l PROVE Kept(l)' <=> Kept(l)
  BY DEF Kept
<1>3. CopyKept'
  BY <1>2 DEF CompInv, CopyKept
<1>4. QED
  BY <1>1, <1>3 DEF CompInv

\* Every step preserves the invariant.
LEMMA NextCompact == CompInv /\ [CompNext]_compvars => CompInv'
<1> SUFFICES ASSUME CompInv, [CompNext]_compvars PROVE CompInv'
  OBVIOUS
<1>1. CASE UNCHANGED <<files, recording, walk, truncated>>
  BY <1>1, SameFiles
<1>2. CASE RecordingEnds \/ CompCrash \/ CompRestart
  BY <1>2, RecordingEndsStep, CrashStep, RestartStep
<1>3. ASSUME NEW w \in Walks, WalkStep(w) PROVE CompInv'
  <2>1. CASE CompareDir(w) \/ FindNext(w) \/ FileIsNow(w) \/ FileIsOld(w) \/ FindVideoFormat(w)
    BY <2>1, CompareDirStep, FindNextStep, LookStep
  <2>2. CASE Encode(w) \/ \E ok \in BOOLEAN : Encoded(w, ok)
    BY <2>2, EncodeStep, EncodedStep
  <2>3. CASE MoveToBak(w) \/ MoveToPath(w) \/ MoveBack(w) \/ DeleteBak(w)
    BY <2>3, MoveToBakStep, MoveToPathStep, MoveBackStep, DeleteBakStep
  <2>4. QED
    BY <1>3, <2>1, <2>2, <2>3 DEF WalkStep, CompareFile
<1>4. QED
  BY <1>1, <1>2, <1>3 DEF CompNext, DriveLost, DriveBack, compvars

\* The invariant.
LEMMA CompactInvariant == CompSpec => []CompInv
<1>1. CompInit => CompInv
  BY InitCompact
<1>2. CompInv /\ [CompNext]_compvars => CompInv'
  BY NextCompact
<1>3. QED
  BY <1>1, <1>2, PTL DEF CompSpec

\* Whatever the two walks do between them, with failing moves, crashes of the service and
\* a drive that comes and goes: a whole copy of a finished recording exists, unless
\* CompareFile has taken a truncated encoding for a good one.
THEOREM VideoIsKept == CompSpec => []VideoKept
<1>1. CompInv => VideoKept
  <2> SUFFICES ASSUME CompInv, ~recording, ~truncated
               PROVE  \E n \in Names : files[n].whole
    BY DEF VideoKept
  <2>1. PICK n \in Names : \/ files[n].whole
                           \/ Len(n) < MaxSuffix /\ files[CmpPath(n)].whole
    BY DEF CompInv, CopyKept, Kept
  <2>2. QED
    BY <2>1, OtherNames
<1>2. QED
  BY <1>1, CompactInvariant, PTL
(***************************************************************************)
(* The video's name.                                                       *)
(***************************************************************************)
\* A walk on the video, between its moves.
Between(w) == walk[w].pc \in {"toPath", "back"} /\ walk[w].at = Video

\* A step takes the name away only from a walk that holds it between its moves.
LEMMA NameStep ==
  ASSUME NameKept, NEW w \in Walks, Others(w), cut => cut',
         files[Video] # NoFile => files'[Video] # NoFile \/ Between(w)',
         Between(w) => Between(w)' \/ files'[Video] # NoFile \/ cut'
  PROVE  NameKept'
<1>1. CASE cut \/ files[Video] # NoFile
  BY <1>1 DEF NameKept, Between
<1>2. ASSUME NEW v \in Walks, Between(v) PROVE NameKept'
  <2>1. v # w => Between(v)'
    BY <1>2 DEF Others, Between
  <2>2. QED
    BY <1>2, <2>1 DEF NameKept, Between
<1>3. QED
  BY <1>1, <1>2 DEF NameKept, Between

\* The three moves and the deletion.
LEMMA MovesName ==
  ASSUME CompInv, NameKept, NEW w \in Walks,
         MoveToBak(w) \/ MoveToPath(w) \/ MoveBack(w) \/ DeleteBak(w)
  PROVE  NameKept'
<1> DEFINE n == walk[w].at
           b == BakPath(n)
           c == CmpPath(n)
<1>1. walk[w].pc \in Working
  BY DEF MoveToBak, MoveToPath, MoveBack, DeleteBak, Working
<1>2. /\ n \in Names /\ Plain(n) /\ c \in Names /\ ~Plain(c) /\ c # Video
      /\ b \in Names /\ b # Video /\ b # n /\ Video \in Names
  BY <1>1, AtWork, VideoName
<1>3. Others(w)
  BY LeaveFacts, GoFacts DEF CompInv, MoveToBak, MoveToPath, MoveBack, DeleteBak, Places
<1>4. cut => cut'
  BY DEF MoveToBak, MoveToPath, MoveBack, DeleteBak
<1>5. CASE MoveToBak(w)
  <2>1. ~Between(w)
    BY <1>5 DEF MoveToBak, Between
  <2>2. ASSUME Move(n, b), Go(w, "toPath"), n = Video PROVE Between(w)'
    BY <2>2, GoFacts DEF CompInv, Places, Between
  <2>3. ASSUME Move(n, b), n # Video PROVE files'[Video] = files[Video]
    BY <1>2, <2>3, MoveFacts DEF CompInv
  <2>4. files[Video] # NoFile => files'[Video] # NoFile \/ Between(w)'
    BY <1>5, <2>2, <2>3 DEF MoveToBak
  <2>5. QED
    BY <1>3, <1>4, <2>1, <2>4, NameStep
<1>6. CASE MoveToPath(w)
  <2>1. ASSUME CanMove(c, n), Move(c, n)
        PROVE  /\ n = Video => files'[Video] # NoFile
               /\ n # Video => files'[Video] = files[Video]
    <3>1. files[c] # NoFile /\ c # n
      BY <1>2, <2>1 DEF CanMove, Exists
    <3>2. QED
      BY <1>2, <2>1, <3>1, MoveFacts DEF CompInv
  <2>2. ASSUME Go(w, "back"), n = Video PROVE Between(w)'
    BY <2>2, GoFacts DEF CompInv, Places, Between
  <2>3. files[Video] # NoFile => files'[Video] # NoFile
    BY <1>6, <2>1 DEF MoveToPath
  <2>4. Between(w) => Between(w)' \/ files'[Video] # NoFile
    BY <1>6, <2>1, <2>2 DEF MoveToPath, Between
  <2>5. QED
    BY <1>3, <1>4, <2>3, <2>4, NameStep
<1>7. CASE MoveBack(w)
  <2>1. ASSUME CanMove(b, n), Move(b, n)
        PROVE  /\ n = Video => files'[Video] # NoFile
               /\ n # Video => files'[Video] = files[Video]
    <3>1. files[b] # NoFile
      BY <2>1 DEF CanMove, Exists
    <3>2. QED
      BY <1>2, <2>1, <3>1, MoveFacts DEF CompInv
  <2>2. files[Video] # NoFile => files'[Video] # NoFile
    BY <1>7, <2>1 DEF MoveBack
  <2>3. Between(w) => files'[Video] # NoFile \/ cut'
    BY <1>7, <2>1 DEF MoveBack, Between
  <2>4. QED
    BY <1>3, <1>4, <2>2, <2>3, NameStep
<1>8. CASE DeleteBak(w)
  <2>1. ~Between(w)
    BY <1>8 DEF DeleteBak, Between
  <2>2. Put(b, NoFile) => files'[Video] = files[Video]
    BY <1>2 DEF Put, CompInv, CompTyped
  <2>3. files'[Video] = files[Video]
    BY <1>8, <2>2 DEF DeleteBak
  <2>4. QED
    BY <1>3, <1>4, <2>1, <2>3, NameStep
<1>9. QED
  BY <1>5, <1>6, <1>7, <1>8

\* ffmpeg writes the encoded file only.
LEMMA EncodesName ==
  ASSUME CompInv, NameKept, NEW w \in Walks, Encode(w) \/ \E ok \in BOOLEAN : Encoded(w, ok)
  PROVE  NameKept'
<1>1. walk[w].pc \in Working /\ ~Between(w)
  BY DEF Encode, Encoded, Working, Between
<1> DEFINE n == walk[w].at
           c == CmpPath(n)
<1>2. c \in Names /\ c # Video /\ Video \in Names
  BY <1>1, AtWork, VideoName
<1> HIDE DEF c
<1>3. ASSUME NEW new, Put(c, new) PROVE files'[Video] = files[Video]
  BY <1>2, <1>3 DEF Put, CompInv, CompTyped
<1>4. files'[Video] = files[Video]
  BY <1>3 DEF Encode, Encoded, c
<1>5. Others(w)
  <2>1. CASE Leave(w)
    BY <2>1, LeaveFacts DEF CompInv
  <2>2. CASE Go(w, "toBak")
    BY <2>2, GoFacts DEF CompInv, Places
  <2>3. CASE walk' = [walk EXCEPT ![w].pc = "encode", ![w].whole = files[n].whole]
    BY <2>3 DEF CompInv, CompTyped, Others
  <2>4. QED
    BY <2>1, <2>2, <2>3 DEF Encode, Encoded
<1>6. cut' = cut
  BY DEF Encode, Encoded
<1>7. QED
  BY <1>1, <1>4, <1>5, <1>6, NameStep

\* A crash of the service.
LEMMA CrashName == ASSUME CompInv, NameKept, CompCrash PROVE NameKept'
<1>1. Thread \in Walks /\ Video \in Names
  BY VideoName DEF Walks
<1>2. Others(Thread)
  BY <1>1 DEF CompCrash, CompInv, CompTyped, Others
<1>3. (cut => cut') /\ (Between(Thread) => cut')
  BY Zenon DEF CompCrash, Between
<1>4. files'[Video] = files[Video]
  <2> DEFINE c == CmpPath(walk[Thread].at)
  <2>1. CASE UNCHANGED files
    BY <2>1
  <2>2. CASE walk[Thread].pc = "encode" /\ Put(c, [files[c] EXCEPT !.whole = walk[Thread].whole])
    <3>1. c # Video
      BY <1>1, <2>2, AtWork DEF Working
    <3>2. QED
      BY <1>1, <2>2, <3>1 DEF Put, CompInv, CompTyped
  <2>3. QED
    BY <2>1, <2>2 DEF CompCrash
<1>5. QED
  BY <1>1, <1>2, <1>3, <1>4, NameStep

\* The recording ends under the video's name.
LEMMA EndsName == ASSUME CompInv, RecordingEnds PROVE NameKept'
<1> DEFINE new == [files[Video] EXCEPT !.whole = TRUE]
<1>1. new.whole = TRUE
  BY VideoName DEF CompInv, CompTyped, Contents
<1>2. files'[Video] = new
  BY VideoName DEF RecordingEnds, Put, CompInv, CompTyped
<1> HIDE DEF new
<1>3. files'[Video] # NoFile
  BY <1>1, <1>2 DEF NoFile
<1>4. QED
  BY <1>3 DEF NameKept

\* Every step keeps the name.
LEMMA NextName == CompInv /\ NameKept /\ [CompNext]_compvars => NameKept'
<1> SUFFICES ASSUME CompInv, NameKept, [CompNext]_compvars PROVE NameKept'
  OBVIOUS
<1>1. CASE UNCHANGED <<files, walk, cut>>
  BY <1>1 DEF NameKept
<1>2. CASE RecordingEnds \/ CompCrash
  BY <1>2, EndsName, CrashName
<1>3. CASE CompRestart
  <2>1. Thread \in Walks /\ Others(Thread)
    BY <1>3, RestartStep DEF Walks
  <2>2. ~Between(Thread) /\ UNCHANGED <<files, cut>>
    BY <1>3 DEF CompRestart, Between
  <2>3. QED
    BY <2>1, <2>2, NameStep
<1>4. ASSUME NEW w \in Walks, WalkStep(w) PROVE NameKept'
  <2>1. CASE CompareDir(w) \/ FindNext(w) \/ FileIsNow(w) \/ FileIsOld(w) \/ FindVideoFormat(w)
    <3>1. Others(w)
      BY <2>1, CompareDirStep, FindNextStep, LookStep
    <3>2. ~Between(w) /\ UNCHANGED <<files, cut>>
      BY <2>1 DEF CompareDir, FindNext, FileIsNow, FileIsOld, FindVideoFormat, Between
    <3>3. QED
      BY <3>1, <3>2, NameStep
  <2>2. CASE Encode(w) \/ \E ok \in BOOLEAN : Encoded(w, ok)
    BY <2>2, EncodesName
  <2>3. CASE MoveToBak(w) \/ MoveToPath(w) \/ MoveBack(w) \/ DeleteBak(w)
    BY <2>3, MovesName
  <2>4. QED
    BY <1>4, <2>1, <2>2, <2>3 DEF WalkStep, CompareFile
<1>5. QED
  BY <1>1, <1>2, <1>3, <1>4 DEF CompNext, DriveLost, DriveBack, compvars

\* When no walk is between its moves the video is found under its name, unless a crash
\* fell between the moves or the move back failed too.  The invariant is needed: a walk
\* puts back something, and never works on another's encoded file.
THEOREM NameIsKept == CompSpec => []NameKept
<1>1. CompInit => NameKept
  <2> SUFFICES ASSUME CompInit PROVE files[Video] # NoFile
    BY DEF NameKept
  <2>1. files[Video].fmt = "mpeg4"
    BY VideoName DEF CompInit
  <2>2. QED
    BY <2>1 DEF NoFile
<1>2. CompInv /\ NameKept /\ [CompNext]_compvars => NameKept'
  BY NextName
<1>3. QED
  BY <1>1, <1>2, CompactInvariant, PTL DEF CompSpec
=============================================================================
