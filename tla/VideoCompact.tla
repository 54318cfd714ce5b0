---------------------------- MODULE VideoCompact ----------------------------
(***************************************************************************)
(* The compaction of the recorded videos.  CompareVideoThread of the       *)
(* watchdog service and the program CompareVideo.exe, two processes that   *)
(* know nothing of each other, walk over the video directory; CompareFile  *)
(* has ffmpeg encode a video of MPEG-4 format into <name>.cmp.avi, moves   *)
(* the video to <name>.bak, the encoded file to its place and deletes the  *)
(* backup.  A walk also meets the .cmp.avi and .bak files of other walks,  *)
(* and the video that a session is still recording.                        *)
(*                                                                         *)
(* One video is followed.  A name is the sequence of suffixes CompareFile  *)
(* has added to it.  The directory is a network drive that comes and goes; *)
(* how it comes back is Watchdog's subject.                                *)
(***************************************************************************)
EXTENDS Naturals, Sequences

CONSTANTS
  MaxSuffix,   \* longest name followed
  MaxLosses,   \* how often the drive may be lost
  MaxCrashes   \* how often the watchdog service may crash
ASSUME SuffixBound == MaxSuffix \in Nat \ {0}
ASSUME LossBound == MaxLosses \in Nat
ASSUME CrashBound == MaxCrashes \in Nat

VARIABLES
  mounted,    \* the video directory exists
  losses,     \* how often the drive has been lost
  files,      \* the video directory: what each name holds
  recording,  \* a session is still recording the video
  walk,       \* each walk: how far it is, the file of FindFileData, the parameter
              \* isnow, and whether its ffmpeg reads the whole video
  crashes,    \* how often the service has crashed
  truncated,  \* history: an encoding broke off, or began before the recording ended
  cut         \* history: a crash between the moves, or a failed move back

compvars == <<mounted, losses, files, recording, walk, crashes, truncated, cut>>

Thread == "CompareVideoThread"
Exe == "CompareVideo.exe"
Walks == {Thread, Exe}

Names == UNION {[1..n -> {"cmp", "bak"}] : n \in 0..MaxSuffix}
Video == << >>
CmpPath(n) == Append(n, "cmp")
BakPath(n) == Append(n, "bak")

NoFile == [fmt |-> "none", whole |-> FALSE, late |-> FALSE]
Exists(n) == mounted /\ files[n] # NoFile

\* Files that ffmpeg or the recorder holds open: they can be read, not moved.
Busy(n) ==
  \/ n = Video /\ recording
  \/ \E w \in Walks : walk[w].pc = "encode" /\ n \in {walk[w].at, CmpPath(walk[w].at)}

Put(n, c) == files' = [files EXCEPT ![n] = c]
Move(n, m) == files' = [files EXCEPT ![n] = NoFile, ![m] = files[n]]
CanMove(n, m) == Exists(n) /\ ~Busy(n) /\ files[m] = NoFile

Go(w, to) == walk' = [walk EXCEPT ![w].pc = to]

\* Back in CompareDir's loop, done with the file.
Leave(w) == walk' = [walk EXCEPT ![w].pc = "find", ![w].at = Video, ![w].whole = FALSE]

CompInit ==
  /\ mounted \in BOOLEAN
  /\ losses = 0
  /\ recording \in BOOLEAN
  /\ \E late \in BOOLEAN :
       files = [n \in Names |-> IF n = Video
                  THEN [fmt |-> "mpeg4", whole |-> ~recording, late |-> late \/ recording]
                  ELSE NoFile]
  /\ walk = [w \in Walks |-> [pc |-> IF w = Thread THEN "first" ELSE "idle",
                              at |-> Video, now |-> FALSE, whole |-> FALSE]]
  /\ crashes = 0
  /\ truncated = FALSE
  /\ cut = FALSE

\* The session that records the video ends it.
RecordingEnds ==
  /\ recording /\ mounted
  /\ recording' = FALSE
  /\ Put(Video, [files[Video] EXCEPT !.whole = TRUE])
  /\ UNCHANGED <<walk, crashes, truncated, cut>>

(***************************************************************************)
(* CompareDir.                                                             *)
(***************************************************************************)
\* FindFirstFile.  The thread walks over everything when the service starts
\* and over the recent files every six hours; the program does either.
CompareDir(w) ==
  /\ walk[w].pc \in {"first", "idle"}
  /\ IF mounted
       THEN \E now \in IF w = Exe THEN BOOLEAN ELSE {walk[w].pc = "idle"} :
              walk' = [walk EXCEPT ![w].pc = "find", ![w].now = now]
       ELSE Go(w, "idle")
  /\ UNCHANGED <<files, recording, crashes, truncated, cut>>

\* FindNextFile: another file, or the end of the listing.  The listing of a
\* directory that changes promises nothing, so any file may come next.
FindNext(w) ==
  /\ walk[w].pc = "find"
  /\ \/ \E n \in Names :
          /\ Exists(n)
          /\ walk' = [walk EXCEPT ![w].at = n,
                                  ![w].pc = IF walk[w].now THEN "date" ELSE "format"]
     \/ walk' = [walk EXCEPT ![w].pc = "idle", ![w].now = FALSE]
  /\ UNCHANGED <<files, recording, crashes, truncated, cut>>

\* GetFileOpeDate opens the file for itself: a file in use counts as old.
Recent(n) == Exists(n) /\ ~Busy(n) /\ files[n].late

\* A file written lately is compacted.
FileIsNow(w) ==
  /\ walk[w].pc = "date" /\ Recent(walk[w].at)
  /\ Go(w, "format")
  /\ UNCHANGED <<files, recording, crashes, truncated, cut>>

\* For another one the thread takes the next file; the program's "continue"
\* skips FindNextFile, so that it looks at the same file again and again.
FileIsOld(w) ==
  /\ walk[w].pc = "date" /\ ~Recent(walk[w].at)
  /\ w = Thread /\ Leave(w)
  /\ UNCHANGED <<files, recording, crashes, truncated, cut>>

(***************************************************************************)
(* CompareFile.                                                            *)
(***************************************************************************)
\* Mutant: any file with a format is compacted.
IsVideo(n) == Exists(n) /\ files[n].fmt # "none"

\* FindVideoFormat: ffmpeg is started and its output searched; anything that
\* goes wrong counts as "not MPEG-4".
IsMpeg4(n) == Exists(n) /\ files[n].fmt = "mpeg4"

FindVideoFormat(w) ==
  /\ walk[w].pc = "format"
  /\ \/ IsMpeg4(walk[w].at) /\ Len(walk[w].at) < MaxSuffix /\ Go(w, "ffmpeg")
     \/ Leave(w)
  /\ UNCHANGED <<files, recording, crashes, truncated, cut>>

\* ffmpeg starts to encode: it reads the file as it is by now, and refuses to
\* write over a file that is there; then its output has no "libx264 @".
Encode(w) ==
  /\ walk[w].pc = "ffmpeg"
  /\ LET n == walk[w].at
     IN  \/ /\ Exists(n) /\ ~Exists(CmpPath(n))
            /\ Put(CmpPath(n), [fmt |-> "h264", whole |-> FALSE, late |-> TRUE])
            /\ walk' = [walk EXCEPT ![w].pc = "encode", ![w].whole = files[n].whole]
            /\ truncated' = (truncated \/ (n = Video /\ recording))
         \/ Leave(w) /\ UNCHANGED <<files, truncated>>
  /\ UNCHANGED <<recording, crashes, cut>>

\* ffmpeg ends.  "libx264 @" was printed when the encoder was opened, so an
\* encoding that broke off (disk full, directory gone) counts as done.
Encoded(w, ok) ==
  /\ walk[w].pc = "encode"
  /\ ok => mounted
  /\ LET c == CmpPath(walk[w].at)
     IN  Put(c, [files[c] EXCEPT !.whole = ok /\ walk[w].whole])
  /\ truncated' = (truncated \/ ~ok)
  /\ Go(w, "toBak")
  /\ UNCHANGED <<recording, crashes, cut>>

\* MoveFile(path, bakPath); on failure CompareFile returns.  Any move may fail.
MoveToBak(w) ==
  /\ walk[w].pc = "toBak"
  /\ LET n == walk[w].at
     IN  \/ CanMove(n, BakPath(n)) /\ Move(n, BakPath(n)) /\ Go(w, "toPath")
         \/ Leave(w) /\ UNCHANGED files
  /\ UNCHANGED <<recording, crashes, truncated, cut>>

\* Mutant: a failed move is not undone.
MoveToPathOnly(w) ==
  /\ walk[w].pc = "toPath"
  /\ LET n == walk[w].at
     IN  \/ CanMove(CmpPath(n), n) /\ Move(CmpPath(n), n)
         \/ UNCHANGED files
  /\ Go(w, "delete")
  /\ UNCHANGED <<recording, crashes, truncated, cut>>

\* MoveFile(cmpPath, path).
MoveToPath(w) ==
  /\ walk[w].pc = "toPath"
  /\ LET n == walk[w].at
     IN  \/ CanMove(CmpPath(n), n) /\ Move(CmpPath(n), n) /\ Go(w, "delete")
         \/ Go(w, "back") /\ UNCHANGED files
  /\ UNCHANGED <<recording, crashes, truncated, cut>>

\* MoveFile(bakPath, path), whose result nobody looks at.
MoveBack(w) ==
  /\ walk[w].pc = "back"
  /\ LET n == walk[w].at
     IN  \/ CanMove(BakPath(n), n) /\ Move(BakPath(n), n) /\ UNCHANGED cut
         \/ cut' = TRUE /\ UNCHANGED files
  /\ Go(w, "delete")
  /\ UNCHANGED <<recording, crashes, truncated>>

\* DeleteFile(bakPath), in every case.
DeleteBak(w) ==
  /\ walk[w].pc = "delete"
  /\ LET b == BakPath(walk[w].at)
     IN  \/ Exists(b) /\ ~Busy(b) /\ Put(b, NoFile)
         \/ UNCHANGED files
  /\ Leave(w)
  /\ UNCHANGED <<recording, crashes, truncated, cut>>

CompareFile(w) ==
  \/ FindVideoFormat(w) \/ Encode(w)
  \/ \E ok \in BOOLEAN : Encoded(w, ok)
  \/ MoveToBak(w) \/ MoveToPath(w) \/ MoveBack(w) \/ DeleteBak(w)

WalkStep(w) == CompareDir(w) \/ FindNext(w) \/ FileIsNow(w) \/ FileIsOld(w) \/ CompareFile(w)

(***************************************************************************)
(* The service process crashes; its ffmpeg ends with it or runs to its end.*)
(***************************************************************************)
CompCrash ==
  /\ walk[Thread].pc # "down" /\ crashes < MaxCrashes
  /\ crashes' = crashes + 1
  /\ cut' = (cut \/ walk[Thread].pc \in {"toPath", "back"})
  /\ walk' = [walk EXCEPT ![Thread] =
                [pc |-> "down", at |-> Video, now |-> FALSE, whole |-> FALSE]]
  /\ LET c == CmpPath(walk[Thread].at)
     IN  \/ UNCHANGED files
         \/ /\ walk[Thread].pc = "encode" /\ mounted
            /\ Put(c, [files[c] EXCEPT !.whole = walk[Thread].whole])
  /\ UNCHANGED <<recording, truncated>>

CompRestart ==
  /\ walk[Thread].pc = "down"
  /\ Go(Thread, "first")
  /\ UNCHANGED <<files, recording, crashes, truncated, cut>>

(***************************************************************************)
(* The drive (external).                                                   *)
(***************************************************************************)
DriveLost ==
  /\ mounted /\ losses < MaxLosses
  /\ mounted' = FALSE /\ losses' = losses + 1
  /\ UNCHANGED <<files, recording, walk, crashes, truncated, cut>>

DriveBack ==
  /\ ~mounted
  /\ mounted' = TRUE /\ UNCHANGED losses
  /\ UNCHANGED <<files, recording, walk, crashes, truncated, cut>>

CompNext ==
  \/ DriveLost \/ DriveBack
  \/ /\ RecordingEnds \/ CompCrash \/ CompRestart \/ \E w \in Walks : WalkStep(w)
     /\ UNCHANGED <<mounted, losses>>

CompSpec == CompInit /\ [][CompNext]_compvars

(***************************************************************************)
(* Properties.                                                             *)
(***************************************************************************)
\* Whatever two walks, failing moves, crashes and a directory that comes and
\* goes do between them, a whole copy of a finished recording exists, unless an
\* encoding broke off or read an unfinished recording: CompareFile takes such an
\* encoding for a good one and puts it in place of the video.
VideoKept == recording \/ truncated \/ \E n \in Names : files[n].whole

\* When no walk is between its moves the video has its name, under which the
\* audit finds it, unless a crash fell between the moves or the move back failed
\* as well: nothing repairs that later.
NameKept ==
  \/ cut \/ files[Video] # NoFile
  \/ \E w \in Walks : walk[w].pc \in {"toPath", "back"} /\ walk[w].at = Video
=============================================================================
