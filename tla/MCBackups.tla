----------------------------- MODULE MCBackups -----------------------------
(***************************************************************************)
(* Taking backups and putting one in place, which share no state: a        *)
(* behaviour moves one of the two, so that each is explored in full.       *)
(***************************************************************************)
EXTENDS MCBackup, MCRestore

VARIABLE moves

backupsVars == <<vars, restoreVars, moves>>

\* A schedule that stands still may as well be off.
MCInit ==
  /\ Init /\ RestoreInit /\ moves \in {"backup", "restore"}
  /\ moves = "restore" => ~enabled

MCNext ==
  /\ UNCHANGED moves
  /\ \/ moves = "backup" /\ Next /\ UNCHANGED restoreVars
     \/ moves = "restore" /\ RestoreNext /\ UNCHANGED vars

\* Fairness of Backup; nothing is asked of a half that stands still.
Backing == moves = "backup"
MCFairness ==
  /\ WF_vars(Backing /\ WorkerStep) /\ SF_vars(Backing /\ TakesManual)
  /\ \A c \in Callers : WF_vars(Backing /\ (Inserts(c) \/ Posts(c)))
  /\ WF_vars(Backing /\ host = "stopping" /\ Ends) /\ WF_vars(Backing /\ Starts)

MCSpec == MCInit /\ [][MCNext]_backupsVars /\ MCFairness
=============================================================================
