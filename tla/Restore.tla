------------------------------ MODULE Restore ------------------------------
(* Putting an archive in the place of the running instance: Stage and       *)
(* Cancel while the host serves, ApplyPending before it opens anything on   *)
(* the next start (internal/backup/restore.go, service.go), with the        *)
(* process killed between any two calls to the filesystem and any of these  *)
(* calls refused, which ends the start with an error.                       *)
(*                                                                          *)
(* What is in a file is the instance it came from. A rename is one step; a  *)
(* file written or copied is torn until the write is over.                  *)
EXTENDS Naturals, Sequences, FiniteSets

CONSTANTS Order,      \* the files of an archive, in the manifest's order
          Db,         \* the database among them
          Across,     \* those a rename cannot reach: on another filesystem
          Live,       \* the instance that runs at the start
          Uploads,    \* archives an administrator may hand in
          Members,    \* the files an instance consists of
          Nothing, Torn,
          KeepSuperseded, MaxStages, MaxCrashes

Files == {Order[i] : i \in 1 .. Len(Order)}
Instances == Uploads \cup {Live}
Stages == 1 .. MaxStages

ASSUME RestoreAssumption ==
  /\ Order \in Seq(Files) /\ "log" \notin Files
  /\ Db \in Files /\ Across \subseteq Files \ {Db} /\ Live \notin Uploads
  /\ Members \in [Instances -> SUBSET Files] /\ \A a \in Uploads : Db \in Members[a]
  /\ Members[Live] = Files
  /\ {Nothing, Torn} \cap (Instances \cup Stages) = {} /\ Nothing # Torn
  /\ KeepSuperseded \in Nat \ {0} /\ MaxStages \in Nat /\ MaxCrashes \in Nat

VARIABLES
  target,     \* each file where the host reads it
  log,        \* whose write-ahead log lies beside the database
  staging,    \* whether the staging directory exists
  staged,     \* each file in it
  marker,     \* restore.json: Nothing, Torn, or the stage it names
  kept,       \* what each restore put aside, the log included
  pc, work,   \* where the process is, and the upload or file it is at
  archive,    \* the upload each stage was given
  stages,
  crashes,    \* how often the process was killed, stopped or gave up its start
  owed,       \* the upload whose acceptance was answered last, until it is due
  before,     \* what was in place when each restore was first applied
  restaged,   \* a stage began while a marker stood, and has not replaced it
  mixed,      \* a marker was applied to files that are not its own
  cutOff      \* <<stage, file>> whose start ended between the copy into place
              \* and the removal of what was copied

disk == <<target, log, staging, staged, marker, kept>>
ghosts == <<owed, before, restaged, mixed, cutOff>>
counts == <<archive, stages, crashes>>
restoreVars == <<disk, pc, work, counts, ghosts>>
-----------------------------------------------------------------------------
Places == Files \cup {"log"}
Empty == [p \in Places |-> Nothing]
NoFiles == [f \in Files |-> Nothing]

Serving == {"idle", "clear", "unpack", "check", "mark", "discard"}
Booting == {"boot", "sidecars", "next", "aside", "asideCopied", "asideRemove", "move",
            "moveCopied", "remove", "finish", "unmark", "prune"}

RestoreInit ==
  /\ target = [f \in Files |-> Live] /\ log = Nothing
  /\ staging = FALSE /\ staged = NoFiles /\ marker = Nothing
  /\ kept = [n \in Stages |-> Empty]
  /\ pc = "idle" /\ work = 0
  /\ archive = [n \in Stages |-> Nothing] /\ stages = 0 /\ crashes = 0
  /\ owed = Nothing /\ before = [n \in Stages |-> Empty]
  /\ restaged = FALSE /\ mixed = FALSE /\ cutOff = {}

Proceed(next) == pc' = next /\ UNCHANGED work
-----------------------------------------------------------------------------
(* Stage, under the staging mutex.                                          *)

\* RemoveAll, a file at a time.
RemovesOne ==
  \E f \in Files : staged[f] # Nothing /\ staged' = [staged EXCEPT ![f] = Nothing]

Stage(a) ==
  /\ pc = "idle" /\ stages < MaxStages
  /\ stages' = stages + 1 /\ archive' = [archive EXCEPT ![stages + 1] = a]
  /\ owed' = Nothing /\ restaged' = (marker # Nothing)
  /\ Proceed("clear")
  /\ UNCHANGED <<disk, crashes, before, mixed, cutOff>>

Upload == archive[stages]
Unpacked == {f \in Files : staged[f] = Upload}

MakesDirectory == staging' = TRUE

Clears ==
  /\ pc = "clear"
  /\ \/ RemovesOne /\ UNCHANGED <<staging, pc, work>>
     \/ staged = NoFiles /\ staging /\ staging' = FALSE /\ UNCHANGED <<staged, pc, work>>
     \/ staged = NoFiles /\ ~staging /\ MakesDirectory /\ Proceed("unpack") /\ UNCHANGED staged
  /\ UNCHANGED <<target, log, marker, kept, counts, ghosts>>

\* writeStaged: created, then written and flushed.
Unpacks(f) ==
  /\ pc = "unpack" /\ f \in Members[Upload] /\ staged[f] # Upload
  /\ \A g \in Files \ {f} : staged[g] # Torn
  /\ staged' = [staged EXCEPT ![f] = IF @ = Nothing THEN Torn ELSE Upload]
  /\ UNCHANGED <<target, log, staging, marker, kept, pc, work, counts, ghosts>>

\* The whole archive opens, is this build's and this key's, and every hash fits.
Verifies ==
  /\ pc = "unpack" /\ Unpacked = Members[Upload]
  /\ Proceed("check")
  /\ UNCHANGED <<disk, counts, ghosts>>

\* A passphrase, a member, a hash, a schema or a key that is refused.
Refuses ==
  /\ pc \in {"unpack", "check"} /\ Proceed("discard")
  /\ UNCHANGED <<disk, counts, ghosts>>

\* WriteFile truncates before it writes.
TearsMarker ==
  /\ pc = "check" /\ marker' = Torn /\ Proceed("mark")
  /\ UNCHANGED <<target, log, staging, staged, kept, counts, ghosts>>

Marks ==
  /\ pc = "mark" /\ marker' = stages /\ Proceed("idle")
  /\ owed' = Upload /\ restaged' = FALSE
  /\ UNCHANGED <<target, log, staging, staged, kept, counts, before, mixed, cutOff>>

\* The disk is full; what WriteFile left of the marker stays.
MarkFails ==
  /\ pc = "mark" /\ Proceed("discard")
  /\ UNCHANGED <<disk, counts, ghosts>>

Discards ==
  /\ pc = "discard"
  /\ \/ RemovesOne /\ UNCHANGED <<staging, pc, work>>
     \/ staged = NoFiles /\ staging' = FALSE /\ Proceed("idle") /\ UNCHANGED staged
  /\ UNCHANGED <<target, log, marker, kept, counts, ghosts>>

\* A removal or a directory that is refused ends Stage or Cancel where it is.
GivesUp ==
  /\ pc \in {"clear", "discard"} /\ Proceed("idle")
  /\ UNCHANGED <<disk, counts, ghosts>>

Cancel ==
  /\ pc = "idle" /\ marker # Nothing
  /\ marker' = Nothing /\ owed' = Nothing /\ restaged' = FALSE
  /\ Proceed("discard")
  /\ UNCHANGED <<target, log, staging, staged, kept, counts, before, mixed, cutOff>>

\* The host commits a transaction.
Commits ==
  /\ pc \in Serving /\ log = Nothing /\ log' = target[Db]
  /\ UNCHANGED <<target, staging, staged, marker, kept, pc, work, counts, ghosts>>
-----------------------------------------------------------------------------
(* The process ends and starts.                                             *)

\* A stop closes the database, which empties its log; what it was staging is cut off.
Stops ==
  /\ pc \in Serving /\ crashes < MaxCrashes /\ crashes' = crashes + 1
  /\ pc' = "boot" /\ work' = 0 /\ log' = Nothing
  /\ UNCHANGED <<target, staging, staged, marker, kept, archive, stages, ghosts>>

\* The file a start is at, and what it leaves there when it ends.
File == Order[work]
CutsOff ==
  cutOff' = IF pc \in {"moveCopied", "remove"} THEN cutOff \cup {<<marker, File>>} ELSE cutOff

Crashes ==
  /\ pc \in (Serving \cup Booting) \ {"boot"} /\ crashes < MaxCrashes /\ crashes' = crashes + 1
  /\ pc' = "boot" /\ work' = 0 /\ CutsOff
  /\ UNCHANGED <<disk, archive, stages, owed, before, restaged, mixed>>

\* A directory, a move, a permission, a removal or the database is refused: New
\* returns the error and the host does not start.
StartFails ==
  /\ pc \in Booting /\ crashes < MaxCrashes /\ crashes' = crashes + 1
  /\ pc' = "refused" /\ work' = 0 /\ CutsOff
  /\ UNCHANGED <<disk, archive, stages, owed, before, restaged, mixed>>

\* A supervisor, or somebody, starts it again.
TriesAgain ==
  /\ pc = "refused" /\ Proceed("boot")
  /\ UNCHANGED <<disk, counts, ghosts>>
-----------------------------------------------------------------------------
(* ApplyPending, before anything is opened. Every step is taken again from  *)
(* the start when the process died or gave up in it.                        *)

Applying == marker \in Stages /\ staging

\* ReadPending finds no marker.
NothingPending ==
  /\ pc = "boot" /\ marker = Nothing /\ Proceed("prune")
  /\ UNCHANGED <<disk, counts, ghosts>>

\* A plausible bug: a marker is dropped whatever is staged.
IgnorableWithADatabase == marker \in Stages /\ target[Db] # Nothing

\* The staged files are gone and there is a database.
Ignorable == marker \in Stages /\ ~staging /\ target[Db] # Nothing

Ignores ==
  /\ pc = "boot" /\ Ignorable
  /\ marker' = Nothing /\ restaged' = FALSE /\ Proceed("prune")
  /\ UNCHANGED <<target, log, staging, staged, kept, counts, owed, before, mixed, cutOff>>

\* The marker cannot be read, or the database is gone as well.
WillNotStart ==
  /\ pc = "boot"
  /\ marker = Torn \/ (marker \in Stages /\ ~staging /\ target[Db] = Nothing)
  /\ Proceed("refused")
  /\ UNCHANGED <<disk, counts, ghosts>>

Applies ==
  /\ pc = "boot" /\ Applying /\ Proceed("sidecars")
  /\ before' = IF before[marker] # Empty THEN before
               ELSE [before EXCEPT ![marker] =
                       [p \in Places |-> IF p = "log" THEN log ELSE target[p]]]
  /\ mixed' = (mixed \/ restaged) /\ restaged' = FALSE
  /\ UNCHANGED <<disk, counts, owed, cutOff>>

\* A plausible bug: the log stays beside the new database.
LeavesTheLog == UNCHANGED <<log, kept>>

\* The log goes before the database it belongs to.
MovesTheLog ==
  IF log = Nothing THEN UNCHANGED <<log, kept>>
  ELSE kept' = [kept EXCEPT ![marker]["log"] = log] /\ log' = Nothing

Sidecars ==
  /\ pc = "sidecars" /\ MovesTheLog
  /\ pc' = "next" /\ work' = 1
  /\ UNCHANGED <<target, staging, staged, marker, counts, ghosts>>

\* A plausible bug: a file moved by an earlier start is put aside again.
NeverPlaced(f) == f \notin Members[archive[marker]]

\* Not in this archive, or moved on an earlier attempt.
AlreadyPlaced(f) == f \notin Members[archive[marker]] \/ staged[f] = Nothing

NextFile ==
  /\ pc = "next"
  /\ \/ work > Len(Order) /\ Proceed("finish")
     \/ work <= Len(Order) /\ AlreadyPlaced(File) /\ work' = work + 1 /\ UNCHANGED pc
     \/ work <= Len(Order) /\ ~AlreadyPlaced(File) /\ Proceed("aside")
  /\ UNCHANGED <<disk, counts, ghosts>>

PutsAside(f, content) == kept' = [kept EXCEPT ![marker][f] = content]

\* moveAside: a rename, or a copy under the other name. A file that is not there
\* is not an error.
Aside ==
  /\ pc = "aside"
  /\ \/ target[File] = Nothing /\ Proceed("move") /\ UNCHANGED <<target, kept>>
     \/ /\ target[File] # Nothing /\ File \notin Across /\ Proceed("move")
        /\ PutsAside(File, target[File]) /\ target' = [target EXCEPT ![File] = Nothing]
     \/ /\ target[File] # Nothing /\ File \in Across /\ Proceed("asideCopied")
        /\ PutsAside(File, Torn) /\ UNCHANGED target
  /\ UNCHANGED <<log, staging, staged, marker, counts, ghosts>>

AsideCopied ==
  /\ pc = "asideCopied" /\ Proceed("asideRemove")
  /\ PutsAside(File, target[File])
  /\ UNCHANGED <<target, log, staging, staged, marker, counts, ghosts>>

AsideRemoves ==
  /\ pc = "asideRemove" /\ Proceed("move")
  /\ target' = [target EXCEPT ![File] = Nothing]
  /\ UNCHANGED <<log, staging, staged, marker, kept, counts, ghosts>>

\* movePath: a rename, or a copy and then the removal of what was copied.
Moves ==
  /\ pc = "move"
  /\ \/ /\ File \notin Across /\ pc' = "next" /\ work' = work + 1
        /\ target' = [target EXCEPT ![File] = staged[File]]
        /\ staged' = [staged EXCEPT ![File] = Nothing]
     \/ /\ File \in Across /\ Proceed("moveCopied")
        /\ target' = [target EXCEPT ![File] = Torn] /\ UNCHANGED staged
  /\ UNCHANGED <<log, staging, marker, kept, counts, ghosts>>

MoveCopied ==
  /\ pc = "moveCopied" /\ Proceed("remove")
  /\ target' = [target EXCEPT ![File] = staged[File]]
  /\ UNCHANGED <<log, staging, staged, marker, kept, counts, ghosts>>

Removes ==
  /\ pc = "remove" /\ pc' = "next" /\ work' = work + 1
  /\ staged' = [staged EXCEPT ![File] = Nothing]
  /\ UNCHANGED <<target, log, staging, marker, kept, counts, ghosts>>

Finishes ==
  /\ pc = "finish" /\ staged' = NoFiles /\ staging' = FALSE /\ Proceed("unmark")
  /\ UNCHANGED <<target, log, marker, kept, counts, ghosts>>

Unmarks ==
  /\ pc = "unmark" /\ marker' = Nothing /\ Proceed("prune")
  /\ UNCHANGED <<target, log, staging, staged, kept, counts, ghosts>>

\* PruneSuperseded, by the time in the directory's name; then the host
\* opens the database and serves.
KeptNewest ==
  {n \in Stages : /\ kept[n] # Empty
                  /\ Cardinality({m \in Stages : m > n /\ kept[m] # Empty}) < KeepSuperseded}

PrunesSuperseded ==
  /\ pc = "prune" /\ Proceed(IF target[Db] \in Instances THEN "idle" ELSE "refused")
  /\ kept' = [n \in Stages |-> IF n \in KeptNewest THEN kept[n] ELSE Empty]
  /\ owed' = Nothing
  /\ UNCHANGED <<target, log, staging, staged, marker, counts, before, restaged, mixed, cutOff>>

\* Somebody removes the marker that cannot be read.
Repaired ==
  /\ pc = "refused" /\ marker = Torn /\ marker' = Nothing /\ restaged' = FALSE /\ Proceed("boot")
  /\ UNCHANGED <<target, log, staging, staged, kept, counts, owed, before, mixed, cutOff>>

Boot ==
  \/ NothingPending \/ Ignores \/ WillNotStart \/ Applies \/ Sidecars
  \/ NextFile \/ Aside \/ AsideCopied \/ AsideRemoves \/ Moves \/ MoveCopied \/ Removes
  \/ Finishes \/ Unmarks \/ PrunesSuperseded

RestoreNext ==
  \/ \E a \in Uploads : Stage(a)
  \/ Clears \/ Verifies \/ Refuses \/ TearsMarker \/ Marks \/ MarkFails \/ Discards \/ GivesUp
  \/ Cancel
  \/ \E f \in Files : Unpacks(f)
  \/ Commits \/ Stops \/ Crashes \/ StartFails \/ TriesAgain \/ Boot \/ Repaired

RestoreSpec == RestoreInit /\ [][RestoreNext]_restoreVars
-----------------------------------------------------------------------------
(* Properties.                                                              *)

\* Types (restore.go, Pending).
RestoreTypeOK ==
  /\ target \in [Files -> Instances \cup {Nothing, Torn}] /\ log \in Instances \cup {Nothing}
  /\ staging \in BOOLEAN /\ staged \in [Files -> Uploads \cup {Nothing, Torn}]
  /\ marker \in Stages \cup {Nothing, Torn}
  /\ \A n \in Stages : \A p \in Places : kept[n][p] \in Instances \cup {Nothing, Torn}
  /\ pc \in Serving \cup Booting \cup {"refused"} /\ work \in 0 .. Len(Order) + 1
  /\ stages \in 0 .. MaxStages /\ crashes \in 0 .. MaxCrashes
  /\ cutOff \subseteq Stages \X Files
  /\ staged # NoFiles => staging

WholeInstance ==
  /\ target[Db] \in Instances
  /\ \A f \in Members[target[Db]] : target[f] = target[Db]
  /\ log \in {Nothing, target[Db]}

\* Each file of the accepted archive is in its place or staged to be moved there.
CanFinish ==
  /\ marker \in Stages
  /\ \A f \in Members[archive[marker]] : archive[marker] \in {staged[f], target[f]}

\* A host that serves runs one whole instance: its database, every file that
\* instance has, and no log but its own, wherever earlier starts were killed or
\* gave up; and one that will not start leaves a whole instance or all that the
\* next start needs to finish (restore.go, ApplyPending: "It is written to be
\* run twice"). A start that found the marker of one accepted restore over the
\* files of a second, cut off while it was staged, is excepted: the code moves
\* into place whatever there is, and NeverAMixture denies that it does.
OneInstanceRuns ==
  ~mixed => /\ pc \in Serving => WholeInstance
            /\ pc = "refused" => WholeInstance \/ CanFinish

\* What restore.go says of Stage, without that exception: "Half of one archive
\* over half of another is not an instance". The code does not keep it: killed
\* while a second archive replaces the first in the staging directory, the next
\* start applies the first one's marker to what the second has unpacked.
NeverAMixture == pc \in Serving => WholeInstance

Superseded == {n \in Stages : before[n] # Empty}
NewestSuperseded == {n \in Superseded : Cardinality({m \in Superseded : m > n}) < KeepSuperseded}

\* The newest instances replaced by a restore are still there, each database
\* with the log that was beside it and every other file that was replaced,
\* however often the restore was begun again (service.go, KeepSuperseded: "the
\* database it replaced has to still exist"). Excepted, beside a mixture, is a
\* file on another filesystem whose start ended when its copy was in place, or
\* partly so, and what it was copied from was still there: the next start moves
\* that copy aside, over the file that was kept (KeptWithEveryFile).
ReplacedIsKept ==
  ~mixed /\ pc \in Serving =>
    \A n \in NewestSuperseded : \A p \in Places :
      p = "log" \/ (p \in Members[archive[n]] /\ <<n, p>> \notin cutOff) =>
        kept[n][p] = before[n][p]

\* What docs/backup.md, The way back, promises: the database being replaced is
\* kept "along with any TLS material it replaced". Of a file on another
\* filesystem moveAside keeps the new one when the restore is begun again.
KeptWithEveryFile ==
  ~mixed /\ pc \in Serving =>
    \A n \in NewestSuperseded : \A f \in Members[archive[n]] : kept[n][f] = before[n][f]

\* The host that next serves is the archive whose acceptance was answered,
\* unless it was cancelled or another stage was begun, which gives it up even if
\* that one is then refused (admin/backup.go, stageFrom: "The next start
\* applies it").
AcceptedIsApplied ==
  [][pc = "prune" /\ pc' = "idle" => owed = Nothing \/ target[Db] = owed]_restoreVars

\* Serving or putting one in its place, some instance's database is whole: in
\* place, put aside, or staged and checked (restore.go, ApplyPending).
ADatabaseSurvives ==
  ~mixed => \/ target[Db] \in Instances
            \/ marker \in Stages /\ kept[marker][Db] \in Instances /\ staged[Db] = archive[marker]

\* No restore loses an instance: not the one it replaces, and not both.
NothingIsLost == RestoreTypeOK /\ ReplacedIsKept /\ ADatabaseSurvives
=============================================================================
