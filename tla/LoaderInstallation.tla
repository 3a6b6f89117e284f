-------------------------- MODULE LoaderInstallation --------------------------
(***************************************************************************)
(* Install, repair, uninstall and health inspection of the loader's files  *)
(* in one game directory, with the operation journal that carries an       *)
(* installation or a repair over a crash of the manager:                   *)
(* LoaderInstallationService (src/manager/BTD5ModLoader.Manager.Core).     *)
(*                                                                         *)
(* A step runs from one change of the disk to the next; the manager may be *)
(* killed between any two, a change of the disk may fail, and a caller may *)
(* cancel.  A file is its content, which stands for its hash.  The order   *)
(* in which files are copied or removed is left open.  Other programs may  *)
(* change the directory at any time, except between the reading of a hash  *)
(* and the deletion that depends on it, and within one verification.       *)
(***************************************************************************)
EXTENDS FiniteSets

CONSTANTS
  File,     \* the artifacts of a release
  Release,  \* the releases; a release's files have contents of their own
  Absent,   \* no such file, or a file that a manifest does not list
  Foreign   \* a content no release has

ASSUME FileAssumption == File # {}
ASSUME ContentAssumption ==
  {Absent, Foreign} \cap Release = {} /\ Absent # Foreign

VARIABLES
  files,    \* the game directory
  record,   \* installations/<key>.json: the loader's files
  journal,  \* operations/<key>.json: the operation under way and its files
  release,  \* the release beside the manager
  task,     \* the operation the manager is in
  result,   \* history: how the last one ended, the directory and the record
            \* it had started from, and the files others changed since
  placed,   \* history: files that are as the manager put them there
  left      \* history: files a roll back could not delete

disk == <<files, record, journal>>
vars == <<files, record, journal, release, task, result, placed, left>>

-----------------------------------------------------------------------------
(* A manifest lists files with the content they should have. *)
Manifest == [File -> Release \cup {Absent}]
Empty == [f \in File |-> Absent]
Listed(m) == {f \in File : m[f] # Absent}
Only(m, fs) == [f \in File |-> IF f \in fs THEN m[f] ELSE Absent]
Healthy(m) == \A f \in Listed(m) : files[f] = m[f]
NoJournal == [op |-> "none", files |-> Empty]

(* The file is there and its content is the expected one.                  *)
(* An operator introduced by "Deviation" is a plausible mistake in the     *)
(* definition that follows; no action uses it.                             *)
(* Deviation: that it is there is enough. *)
OursIfPresent(f, m) == files[f] # Absent
Ours(f, m) == files[f] # Absent /\ files[f] = m[f]

(* todo: files still to be copied, rolled back or uninstalled; done: files *)
(* copied; kept: files reported as preserved.                              *)
Idle == [op |-> "none", stage |-> "idle", plan |-> Empty, todo |-> {},
         done |-> {}, kept |-> {}, wroteJournal |-> FALSE,
         wroteRecord |-> FALSE, ending |-> "none"]
In(stage) == task.stage = stage

NoResult == [outcome |-> "none", files |-> Empty, record |-> Empty, edited |-> {}]
Started == [outcome |-> "none", files |-> files, record |-> record, edited |-> {}]
Ends(outcome) ==
  /\ task' = Idle
  /\ result' = [result EXCEPT !.outcome = outcome]

Init ==
  /\ files \in [File -> {Absent, Foreign}]
  /\ record = Empty /\ journal = NoJournal
  /\ release \in Release
  /\ task = Idle
  /\ result = NoResult
  /\ placed = {} /\ left = {}

-----------------------------------------------------------------------------
(* Another program changes a file.  The manager is replaced by another. *)
Edit(f, content) ==
  /\ files' = [files EXCEPT ![f] = content]
  /\ placed' = placed \ {f} /\ left' = left \ {f}
  /\ result' = IF In("idle") THEN NoResult
               ELSE [result EXCEPT !.edited = @ \cup {f}]
  /\ UNCHANGED <<record, journal, release, task>>
ReplaceManager(r) ==
  /\ In("idle")
  /\ release' = r
  /\ UNCHANGED <<disk, task, result, placed, left>>

(* InstallAsync, RepairAsync and InspectAsync reconcile the journal first. *)
Begin(op) ==
  /\ In("idle")
  /\ task' = [Idle EXCEPT !.op = op, !.stage = "reconcile"]
  /\ result' = NoResult
  /\ UNCHANGED <<disk, release, placed, left>>

(* The process is killed.  What it had written stays. *)
Crash ==
  /\ ~In("idle")
  /\ Ends("crashed")
  /\ UNCHANGED <<disk, release, placed, left>>

(* A read fails, or the caller cancels, where nothing catches it. *)
Aborts ==
  /\ task.stage \in {"reconcile", "preflight", "uninstall"}
  /\ Ends("aborted")
  /\ UNCHANGED <<disk, release, placed, left>>

-----------------------------------------------------------------------------
(* ReconcileOperationJournalAsync. *)
JournalMatches ==
  \A f \in Listed(journal.files) : record[f] = journal.files[f]

NothingToReconcile ==
  /\ In("reconcile") /\ journal = NoJournal
  /\ task' = [task EXCEPT !.stage = "preflight"]
  /\ UNCHANGED <<disk, release, result, placed, left>>

(* The journal is preserved for manual recovery. *)
JournalUnusable ==
  /\ In("reconcile") /\ journal # NoJournal
  /\ IF record = Empty THEN journal.op # "install" ELSE ~JournalMatches
  /\ Ends("invalid")
  /\ UNCHANGED <<disk, release, placed, left>>

(* The operation had completed.  Removing the journal may fail. *)
JournalConfirmed(removed) ==
  /\ In("reconcile") /\ journal # NoJournal
  /\ record # Empty /\ JournalMatches /\ Healthy(record)
  /\ journal' = IF removed THEN NoJournal ELSE journal
  /\ task' = [task EXCEPT !.stage = "preflight"]
  /\ UNCHANGED <<files, record, release, result, placed, left>>

JournalRolledBack ==
  /\ In("reconcile") /\ journal # NoJournal
  /\ IF record = Empty THEN journal.op = "install"
     ELSE JournalMatches /\ ~Healthy(record)
  /\ task' = [task EXCEPT !.stage = "rollback", !.ending = "reconciled",
                          !.plan = journal.files,
                          !.todo = Listed(journal.files)]
  /\ UNCHANGED <<disk, release, result, placed, left>>

-----------------------------------------------------------------------------
(* RollBackCopiesAsync, one file: it goes if it is still what was copied.  *)
(* Deviation: a file that cannot be deleted is not reported. *)
RollBackFileSilently(f, locked) ==
  /\ In("rollback") /\ f \in task.todo
  /\ IF Ours(f, task.plan) /\ ~locked
     THEN /\ files' = [files EXCEPT ![f] = Absent]
          /\ placed' = placed \ {f} /\ left' = left \ {f}
          /\ task' = [task EXCEPT !.todo = @ \ {f}]
     ELSE /\ left' = IF Ours(f, task.plan) THEN left \cup {f} ELSE left
          /\ task' = [task EXCEPT !.todo = @ \ {f}]
          /\ UNCHANGED <<files, placed>>
  /\ UNCHANGED <<record, journal, release, result>>
RollBackFile(f, locked) ==
  /\ In("rollback") /\ f \in task.todo
  /\ IF Ours(f, task.plan) /\ ~locked
     THEN /\ files' = [files EXCEPT ![f] = Absent]
          /\ placed' = placed \ {f} /\ left' = left \ {f}
          /\ task' = [task EXCEPT !.todo = @ \ {f}]
     ELSE /\ left' = IF Ours(f, task.plan) THEN left \cup {f} ELSE left
          /\ task' = [task EXCEPT !.todo = @ \ {f},
                        !.kept = IF files[f] = Absent THEN @ ELSE @ \cup {f}]
          /\ UNCHANGED <<files, placed>>
  /\ UNCHANGED <<record, journal, release, result>>

(* Then the record goes, if this operation wrote it, and then the journal. *)
(* A record that stays is reported, as all its files.                      *)
RolledBack ==
  /\ In("rollback") /\ task.todo = {}
  /\ task' = [task EXCEPT !.stage = "dropRecord"]
  /\ UNCHANGED <<disk, release, result, placed, left>>

DropRecord(removed) ==
  /\ In("dropRecord")
  /\ record' = IF task.wroteRecord /\ removed THEN Empty ELSE record
  /\ task' = [task EXCEPT !.stage = "dropJournal",
                !.kept = IF task.wroteRecord /\ ~removed THEN @ \cup File ELSE @]
  /\ UNCHANGED <<files, journal, release, result, placed, left>>

(* A cancelled operation reports nothing, and a failed one what it left. *)
Outcome(removed) ==
  IF task.ending = "failed" /\ task.kept = {} /\ (removed \/ ~task.wroteJournal)
  THEN "restored" ELSE task.ending
DropJournal(removed) ==
  /\ In("dropJournal")
  /\ journal' = IF task.ending # "reconciled" /\ ~task.wroteJournal THEN journal
                ELSE IF removed THEN NoJournal ELSE journal
  /\ IF task.ending = "reconciled"
     THEN /\ task' = [Idle EXCEPT !.op = task.op, !.stage = "preflight"]
          /\ UNCHANGED result
     ELSE Ends(Outcome(removed))
  /\ UNCHANGED <<files, record, release, placed, left>>

-----------------------------------------------------------------------------
InspectEnds ==
  /\ In("preflight") /\ task.op = "inspect"
  /\ Ends("inspected")
  /\ UNCHANGED <<disk, release, placed, left>>

(* The files an operation is about to copy, or none if it is refused. *)
Plan ==
  IF task.op = "install"
  THEN IF record = Empty /\ \A f \in File : files[f] = Absent
       THEN [f \in File |-> release] ELSE Empty
  ELSE Only(record, {f \in File : files[f] = Absent})
Refused ==
  \/ task.op = "install" /\ Plan = Empty
  \/ /\ task.op = "repair"
     /\ \/ record = Empty
        \/ \E f \in Listed(record) : files[f] \notin {Absent, record[f]}
        \/ \E f \in Listed(Plan) : Plan[f] # release

PreflightRefuses ==
  /\ In("preflight") /\ Refused
  /\ Ends("refused")
  /\ UNCHANGED <<disk, release, placed, left>>

PreflightPasses ==
  /\ In("preflight") /\ task.op \in {"install", "repair"} /\ ~Refused
  /\ task' = [task EXCEPT !.plan = Plan, !.todo = Listed(Plan),
                !.stage = IF Plan = Empty THEN "verify" ELSE "journal"]
  /\ result' = Started
  /\ UNCHANGED <<disk, release, placed, left>>

(* Moving the journal into place fails if one is there. *)
WriteJournal ==
  /\ In("journal") /\ journal = NoJournal
  /\ journal' = [op |-> task.op, files |-> task.plan]
  /\ task' = [task EXCEPT !.stage = "copy", !.wroteJournal = TRUE]
  /\ UNCHANGED <<files, record, release, result, placed, left>>

CopyFile(f) ==
  /\ In("copy") /\ f \in task.todo /\ files[f] = Absent
  /\ files' = [files EXCEPT ![f] = release]
  /\ placed' = placed \cup {f}
  /\ task' = [task EXCEPT !.todo = @ \ {f}, !.done = @ \cup {f}]
  /\ UNCHANGED <<record, journal, release, result, left>>

CopiesDone ==
  /\ In("copy") /\ task.todo = {}
  /\ IF task.op = "install"
     THEN record' = task.plan /\ task' = [task EXCEPT !.stage = "verify",
                                                      !.wroteRecord = TRUE]
     ELSE task' = [task EXCEPT !.stage = "verify"] /\ UNCHANGED record
  /\ UNCHANGED <<files, journal, release, result, placed, left>>

Verified ==
  /\ In("verify") /\ Healthy(record)
  /\ task' = [task EXCEPT !.stage = "dropJournal", !.ending = "success"]
  /\ UNCHANGED <<disk, release, result, placed, left>>

(* A write or a verification fails, or the caller cancels. *)
(* Deviation: the journal goes first. *)
FailsDroppingJournal(cancelled) ==
  /\ task.stage \in {"journal", "copy", "verify"}
  /\ task' = [task EXCEPT !.stage = "rollback", !.todo = task.done,
                !.ending = IF cancelled THEN "cancelled" ELSE "failed"]
  /\ journal' = IF task.wroteJournal THEN NoJournal ELSE journal
  /\ UNCHANGED <<files, record, release, result, placed, left>>
Fails(cancelled) ==
  /\ task.stage \in {"journal", "copy", "verify"}
  /\ task' = [task EXCEPT !.stage = "rollback", !.todo = task.done,
                !.ending = IF cancelled THEN "cancelled" ELSE "failed"]
  /\ UNCHANGED <<disk, release, result, placed, left>>

-----------------------------------------------------------------------------
(* UninstallAsync.  It does not look at the journal. *)
BeginUninstall ==
  /\ In("idle")
  /\ record # Empty
  /\ task' = [Idle EXCEPT !.op = "uninstall", !.stage = "uninstall",
                          !.todo = Listed(record)]
  /\ result' = Started
  /\ UNCHANGED <<disk, release, placed, left>>

UninstallFile(f) ==
  /\ In("uninstall") /\ f \in task.todo
  /\ IF Ours(f, record)
     THEN /\ files' = [files EXCEPT ![f] = Absent]
          /\ placed' = placed \ {f} /\ left' = left \ {f}
          /\ task' = [task EXCEPT !.todo = @ \ {f}]
     ELSE /\ task' = [task EXCEPT !.todo = @ \ {f},
                        !.kept = IF files[f] = Absent THEN @ ELSE @ \cup {f}]
          /\ UNCHANGED <<files, placed, left>>
  /\ UNCHANGED <<record, journal, release, result>>

(* What the record says of the files that were preserved. *)
Remaining == Only(record, task.kept)
UninstallEnds ==
  /\ In("uninstall") /\ task.todo = {}
  /\ record' = Remaining
  /\ Ends(IF task.kept = {} THEN "success" ELSE "preserved")
  /\ UNCHANGED <<files, journal, release, placed, left>>

-----------------------------------------------------------------------------
ReconcileStep ==
  \/ NothingToReconcile \/ JournalUnusable \/ JournalRolledBack
  \/ \E removed \in BOOLEAN : JournalConfirmed(removed)
RollBackStep ==
  \/ \E f \in File, locked \in BOOLEAN : RollBackFile(f, locked)
  \/ RolledBack
  \/ \E removed \in BOOLEAN : DropRecord(removed) \/ DropJournal(removed)
CopyStep ==
  \/ InspectEnds \/ PreflightRefuses \/ PreflightPasses \/ WriteJournal
  \/ \E f \in File : CopyFile(f)
  \/ CopiesDone \/ Verified
  \/ \E cancelled \in BOOLEAN : Fails(cancelled)
UninstallStep ==
  \/ BeginUninstall \/ UninstallEnds
  \/ \E f \in File : UninstallFile(f)
Next ==
  \/ \E f \in File, c \in Release \cup {Absent, Foreign} : Edit(f, c)
  \/ \E r \in Release : ReplaceManager(r)
  \/ \E op \in {"install", "repair", "inspect"} : Begin(op)
  \/ Crash \/ Aborts
  \/ ReconcileStep \/ RollBackStep \/ CopyStep \/ UninstallStep

Spec == Init /\ [][Next]_vars

-----------------------------------------------------------------------------
Stage == {"idle", "reconcile", "rollback", "dropRecord", "dropJournal",
          "preflight", "journal", "copy", "verify", "uninstall"}
Ending == {"none", "reconciled", "success", "failed", "cancelled"}
Outcomes == Ending \cup {"restored", "refused", "invalid", "inspected",
                         "preserved", "crashed", "aborted"}
Task == [op : {"none", "install", "repair", "inspect", "uninstall"},
         stage : Stage, plan : Manifest, todo : SUBSET File,
         done : SUBSET File, kept : SUBSET File, wroteJournal : BOOLEAN,
         wroteRecord : BOOLEAN, ending : Ending]

(* Every variable keeps its type; a manifest lists contents of releases. *)
InstallationTypeOK ==
  /\ files \in [File -> Release \cup {Absent, Foreign}]
  /\ record \in Manifest
  /\ journal \in [op : {"none", "install", "repair"}, files : Manifest]
  /\ release \in Release
  /\ task \in Task
  /\ result \in [outcome : Outcomes, record : Manifest, edited : SUBSET File,
                 files : [File -> Release \cup {Absent, Foreign}]]
  /\ placed \in SUBSET File /\ left \in SUBSET File

(* manager-revamp.md:97-98,111-115: every file the manager put into the    *)
(* game directory is named by the record or the journal with the content   *)
(* it has, wherever an operation is interrupted, fails or is cancelled; a  *)
(* file is given up only when deleting it failed.                          *)
CopiesTracked ==
  \A f \in placed \ left :
    files[f] # Absent /\ files[f] \in {record[f], journal.files[f]}

(* manager-revamp.md:115,117-119: the manager creates files only where     *)
(* there is none, and deletes a file only while its content is one that    *)
(* the record or the journal names: a foreign or modified file survives    *)
(* every operation and every recovery.                                     *)
RespectsContents ==
  task' # task =>
    \A f \in File :
      \/ files'[f] = files[f]
      \/ files[f] = Absent /\ files'[f] = release
      \/ /\ files[f] # Absent /\ files'[f] = Absent
         /\ files[f] \in {record[f], journal.files[f]}
ContentsRespected == [][RespectsContents]_vars

(* manager-storage.md:41-46 and LoaderInstallationService.cs:220-222,      *)
(* 551-554: but for what other programs changed meanwhile, success means a *)
(* record whose files are all there and intact; "rolled back" means the    *)
(* directory and the record are what they were, at whatever step the       *)
(* operation failed; a cancelled one leaves nothing behind but what it     *)
(* could not delete.                                                       *)
OutcomeTruthful ==
  /\ result.outcome = "success" =>
       \A f \in Listed(record) : files[f] = record[f] \/ f \in result.edited
  /\ result.outcome = "restored" =>
       /\ record = result.record
       /\ \A f \in File : files[f] = result.files[f] \/ f \in result.edited
  /\ result.outcome = "cancelled" =>
       \A f \in File : files[f] = result.files[f] \/ f \in left \cup result.edited

=============================================================================
