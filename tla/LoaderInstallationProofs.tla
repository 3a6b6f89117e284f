------------------------ MODULE LoaderInstallationProofs ------------------------
(***************************************************************************)
(* What LoaderInstallation promises, for every set of files and releases.  *)
(*                                                                         *)
(* A file the manager placed is named by the journal from before its copy  *)
(* until the journal is removed.  The invariant says what lets the journal *)
(* go: by then the record names the file, or the file has been rolled back *)
(* or given up (Accounted).  The journal describes the copies of this very *)
(* operation (JournalOfTask), and a repair copies nothing the record does  *)
(* not list (PlanWithinRecord).                                            *)
(***************************************************************************)
EXTENDS LoaderInstallation, TLAPS

Copying == task.stage \in {"journal", "copy", "verify"}
Removing == task.stage \in {"rollback", "dropRecord", "dropJournal"}

(* The files the manager placed and did not give up. *)
Kept == placed \ left

(* Only an installation and a repair copy files, and so write a journal. *)
TypeInvariant ==
  /\ InstallationTypeOK
  /\ Copying => task.op \in {"install", "repair"}

JournalOfTask ==
  /\ task.wroteJournal \/ task.ending = "reconciled" => journal.files = task.plan
  /\ task.done # {} => task.wroteJournal
  /\ task.wroteRecord => task.wroteJournal
  /\ In("copy") => task.wroteJournal
  /\ In("rollback") /\ task.todo # {} =>
       task.wroteJournal \/ task.ending = "reconciled"
  /\ task.stage \in {"rollback", "dropRecord"} => task.ending # "success"
  /\ ~Removing => task.ending = "none"
  /\ ~Removing /\ ~Copying => ~task.wroteJournal

PlanWithinRecord ==
  /\ Copying => \A f \in task.todo : task.plan[f] = release
  /\ task.stage \in {"journal", "copy"} /\ task.op = "install" => record = Empty
  /\ Copying /\ task.op = "repair" =>
       \A f \in File : task.plan[f] \in {Absent, record[f]}
  /\ In("verify") => (task.wroteRecord <=> task.op = "install")
  /\ task.stage \in {"journal", "copy"} => ~task.wroteRecord
  /\ task.wroteRecord /\ task.stage \in {"verify", "rollback", "dropRecord"} =>
       record = task.plan

ByRecord(f) == files[f] = record[f]

Accounted ==
  /\ In("preflight") => \A f \in Kept : ByRecord(f)
  /\ Copying => \A f \in Kept : f \in task.done \/ (ByRecord(f) /\ ~task.wroteRecord)
  /\ Removing /\ task.ending # "success" =>
       \A f \in Kept : \/ In("rollback") /\ f \in task.todo
                       \/ ByRecord(f) /\ ~task.wroteRecord
  /\ Removing /\ task.ending = "success" => \A f \in Kept : ByRecord(f)
  /\ In("uninstall") =>
       \A f \in Kept : f \in task.todo \/ f \in task.kept
                         \/ files[f] = journal.files[f]

TrackingInvariant ==
  /\ TypeInvariant /\ CopiesTracked
  /\ JournalOfTask /\ PlanWithinRecord /\ Accounted

(* What undoing the operation comes to: every file is what it was when the *)
(* operation started, but for the copies still to be rolled back and those *)
(* that others changed or that could not be deleted.                       *)
AsStarted(f) == files[f] = result.files[f] \/ f \in result.edited
Copied(f) ==
  result.files[f] = Absent /\ (files[f] = task.plan[f] \/ f \in result.edited)
GivenUp(f) == f \in task.kept /\ f \in left

Undone ==
  /\ ~In("idle") => result.outcome = "none"
  /\ Copying => \A f \in File : AsStarted(f) \/ (f \in task.done /\ Copied(f))
  /\ Copying => task.kept = {}
  /\ task.stage \in {"reconcile", "preflight"} => task.kept = {} /\ task.done = {}
  /\ Copying => \A f \in task.done : result.files[f] = Absent
  /\ Copying => \A f \in task.todo : result.files[f] = Absent
  /\ In("rollback") /\ task.ending # "reconciled" =>
       \A f \in File : AsStarted(f) \/ (f \in task.todo /\ Copied(f)) \/ GivenUp(f)
  /\ In("rollback") /\ task.ending # "reconciled" =>
       \A f \in task.todo : result.files[f] = Absent
  /\ task.stage \in {"dropRecord", "dropJournal"}
       /\ task.ending \in {"failed", "cancelled"} =>
       \A f \in File : AsStarted(f) \/ GivenUp(f)
  /\ Copying \/ (Removing /\ task.ending \in {"failed", "cancelled"}) =>
       IF task.wroteRecord
       THEN /\ result.record = Empty
            /\ In("dropJournal") => record = Empty \/ task.kept # {}
       ELSE record = result.record
  /\ In("dropJournal") /\ task.ending = "success" =>
       \A f \in Listed(record) : files[f] = record[f] \/ f \in result.edited

-----------------------------------------------------------------------------
(* Every step keeps the types. *)
LEMMA TypeStep ==
  TypeInvariant /\ [Next]_vars
  => TypeInvariant'
<1> SUFFICES ASSUME TypeInvariant, [Next]_vars PROVE TypeInvariant'
  OBVIOUS
<1> USE ContentAssumption DEF TypeInvariant, Copying, InstallationTypeOK,
      Manifest, Empty, Listed, Only, NoJournal, NoResult, Started, Ends,
      Idle, In, disk, Task, Stage, Ending, Outcomes, Outcome, Plan, Refused,
      Remaining, Ours
<1>1. ASSUME NEW f \in File, NEW c \in Release \cup {Absent, Foreign}, Edit(f, c)
      PROVE  TypeInvariant'
  BY <1>1 DEF Edit
<1>2. ASSUME NEW r \in Release, ReplaceManager(r) PROVE TypeInvariant'
  BY <1>2 DEF ReplaceManager
<1>3. ASSUME NEW op \in {"install", "repair", "inspect"}, Begin(op)
      PROVE  TypeInvariant'
  BY <1>3 DEF Begin
<1>4. ASSUME Crash PROVE TypeInvariant'
  BY <1>4 DEF Crash
<1>5. ASSUME Aborts PROVE TypeInvariant'
  BY <1>5 DEF Aborts
<1>6. ASSUME NothingToReconcile PROVE TypeInvariant'
  BY <1>6 DEF NothingToReconcile
<1>7. ASSUME JournalUnusable PROVE TypeInvariant'
  BY <1>7 DEF JournalUnusable
<1>8. ASSUME JournalRolledBack PROVE TypeInvariant'
  BY <1>8 DEF JournalRolledBack
<1>9. ASSUME NEW removed \in BOOLEAN, JournalConfirmed(removed)
      PROVE  TypeInvariant'
  BY <1>9 DEF JournalConfirmed
<1>10. ASSUME NEW f \in File, NEW locked \in BOOLEAN, RollBackFile(f, locked)
      PROVE  TypeInvariant'
  <2>1. CASE Ours(f, task.plan) /\ ~locked
    BY <1>10, <2>1 DEF RollBackFile
  <2>2. CASE ~(Ours(f, task.plan) /\ ~locked)
    <3> DEFINE kept == IF files[f] = Absent THEN task.kept ELSE task.kept \cup {f}
    <3>1. task' = [task EXCEPT !.todo = @ \ {f}, !.kept = kept]
      BY <1>10, <2>2 DEF RollBackFile
    <3>2. kept \in SUBSET File
      OBVIOUS
    <3>3. left' \in SUBSET File /\ files' = files /\ placed' = placed
      BY <1>10, <2>2 DEF RollBackFile
    <3> HIDE DEF kept
    <3> QED
      BY <1>10, <3>1, <3>2, <3>3 DEF RollBackFile
  <2> QED
    BY <2>1, <2>2
<1>11. ASSUME RolledBack PROVE TypeInvariant'
  BY <1>11 DEF RolledBack
<1>12. ASSUME NEW removed \in BOOLEAN, DropRecord(removed)
      PROVE  TypeInvariant'
  BY <1>12 DEF DropRecord
<1>13. ASSUME NEW removed \in BOOLEAN, DropJournal(removed)
      PROVE  TypeInvariant'
  <2>1. journal' \in {journal, NoJournal}
    BY <1>13 DEF DropJournal
  <2>2. CASE task.ending = "reconciled"
    <3>1. task' = [Idle EXCEPT !.op = task.op, !.stage = "preflight"] /\ result' = result
      BY <1>13, <2>2 DEF DropJournal
    <3> QED
      BY <1>13, <2>1, <3>1 DEF DropJournal
  <2>3. CASE task.ending # "reconciled"
    <3>1. Outcome(removed) \in Outcomes
      OBVIOUS
    <3>2. task' = Idle /\ result' = [result EXCEPT !.outcome = Outcome(removed)]
      BY <1>13, <2>3 DEF DropJournal
    <3> QED
      BY <1>13, <2>1, <3>1, <3>2 DEF DropJournal
  <2> QED
    BY <2>2, <2>3
<1>14. ASSUME InspectEnds PROVE TypeInvariant'
  BY <1>14 DEF InspectEnds
<1>15. ASSUME PreflightRefuses PROVE TypeInvariant'
  BY <1>15 DEF PreflightRefuses
<1>16. ASSUME PreflightPasses PROVE TypeInvariant'
  BY <1>16 DEF PreflightPasses
<1>17. ASSUME WriteJournal PROVE TypeInvariant'
  BY <1>17 DEF WriteJournal
<1>18. ASSUME NEW f \in File, CopyFile(f) PROVE TypeInvariant'
  BY <1>18 DEF CopyFile
<1>19. ASSUME CopiesDone PROVE TypeInvariant'
  <2>1. CASE task.op = "install"
    <3>1. record' = task.plan /\ task' = [task EXCEPT !.stage = "verify", !.wroteRecord = TRUE]
      BY <1>19, <2>1 DEF CopiesDone
    <3> QED
      BY <1>19, <3>1 DEF CopiesDone
  <2>2. CASE task.op # "install"
    <3>1. record' = record /\ task' = [task EXCEPT !.stage = "verify"]
      BY <1>19, <2>2 DEF CopiesDone
    <3> QED
      BY <1>19, <3>1 DEF CopiesDone
  <2> QED
    BY <2>1, <2>2
<1>20. ASSUME Verified PROVE TypeInvariant'
  BY <1>20 DEF Verified
<1>21. ASSUME NEW cancelled \in BOOLEAN, Fails(cancelled)
      PROVE  TypeInvariant'
  BY <1>21 DEF Fails
<1>22. ASSUME BeginUninstall PROVE TypeInvariant'
  BY <1>22 DEF BeginUninstall
<1>23. ASSUME UninstallEnds PROVE TypeInvariant'
  BY <1>23 DEF UninstallEnds
<1>24. ASSUME NEW f \in File, UninstallFile(f) PROVE TypeInvariant'
  <2>1. CASE Ours(f, record)
    BY <1>24, <2>1 DEF UninstallFile
  <2>2. CASE ~Ours(f, record)
    <3> DEFINE kept == IF files[f] = Absent THEN task.kept ELSE task.kept \cup {f}
    <3>1. task' = [task EXCEPT !.todo = @ \ {f}, !.kept = kept]
      BY <1>24, <2>2 DEF UninstallFile
    <3>2. kept \in SUBSET File
      OBVIOUS
    <3> HIDE DEF kept
    <3> QED
      BY <1>24, <2>2, <3>1, <3>2 DEF UninstallFile
  <2> QED
    BY <2>1, <2>2
<1>25. CASE UNCHANGED vars
  BY <1>25 DEF vars, disk
<1>26. QED
  BY <1>1, <1>2, <1>3, <1>4, <1>5, <1>6, <1>7, <1>8, <1>9, <1>10, <1>11, <1>12,
      <1>13, <1>14, <1>15, <1>16, <1>17, <1>18, <1>19, <1>20, <1>21, <1>22,
      <1>23, <1>24, <1>25
  DEF Next, ReconcileStep, RollBackStep, CopyStep, UninstallStep

(* While the manager copies, the journal is the plan it copies from. *)
LEMMA JournalStep ==
  TypeInvariant /\ JournalOfTask /\ [Next]_vars
  => JournalOfTask'
<1> SUFFICES ASSUME TypeInvariant, JournalOfTask, [Next]_vars
      PROVE JournalOfTask'
  OBVIOUS
<1> USE DEF JournalOfTask, TypeInvariant, InstallationTypeOK, Task, Idle, In,
      Ends, NoJournal, Copying, Removing, disk
<1>1. ASSUME NEW f \in File, NEW c \in Release \cup {Absent, Foreign}, Edit(f, c)
      PROVE  JournalOfTask'
  BY <1>1 DEF Edit
<1>2. ASSUME NEW r \in Release, ReplaceManager(r) PROVE JournalOfTask'
  BY <1>2 DEF ReplaceManager
<1>3. ASSUME NEW op \in {"install", "repair", "inspect"}, Begin(op)
      PROVE  JournalOfTask'
  BY <1>3 DEF Begin
<1>4. ASSUME Crash PROVE JournalOfTask'
  BY <1>4 DEF Crash
<1>5. ASSUME Aborts PROVE JournalOfTask'
  BY <1>5 DEF Aborts
<1>6. ASSUME NothingToReconcile PROVE JournalOfTask'
  BY <1>6 DEF NothingToReconcile
<1>7. ASSUME JournalUnusable PROVE JournalOfTask'
  BY <1>7 DEF JournalUnusable
<1>8. ASSUME JournalRolledBack PROVE JournalOfTask'
  BY <1>8 DEF JournalRolledBack
<1>9. ASSUME NEW removed \in BOOLEAN, JournalConfirmed(removed)
      PROVE  JournalOfTask'
  BY <1>9 DEF JournalConfirmed
<1>10. ASSUME NEW f \in File, NEW locked \in BOOLEAN, RollBackFile(f, locked)
      PROVE  JournalOfTask'
  BY <1>10 DEF RollBackFile
<1>11. ASSUME RolledBack PROVE JournalOfTask'
  BY <1>11 DEF RolledBack
<1>12. ASSUME NEW removed \in BOOLEAN, DropRecord(removed)
      PROVE  JournalOfTask'
  BY <1>12 DEF DropRecord
<1>13. ASSUME NEW removed \in BOOLEAN, DropJournal(removed)
      PROVE  JournalOfTask'
  <2>1. CASE task.ending = "reconciled"
    <3>1. task' = [Idle EXCEPT !.op = task.op, !.stage = "preflight"]
      BY <1>13, <2>1 DEF DropJournal
    <3> QED
      BY <1>13, <2>1, <3>1 DEF DropJournal
  <2>2. CASE task.ending # "reconciled"
    <3>1. task' = Idle
      BY <1>13, <2>2 DEF DropJournal
    <3> QED
      BY <1>13, <2>2, <3>1 DEF DropJournal
  <2> QED
    BY <2>1, <2>2
<1>14. ASSUME InspectEnds PROVE JournalOfTask'
  BY <1>14 DEF InspectEnds
<1>15. ASSUME PreflightRefuses PROVE JournalOfTask'
  BY <1>15 DEF PreflightRefuses
<1>16. ASSUME PreflightPasses PROVE JournalOfTask'
  BY <1>16 DEF PreflightPasses
<1>17. ASSUME WriteJournal PROVE JournalOfTask'
  BY <1>17 DEF WriteJournal
<1>18. ASSUME NEW f \in File, CopyFile(f) PROVE JournalOfTask'
  BY <1>18 DEF CopyFile
<1>19. ASSUME CopiesDone PROVE JournalOfTask'
  BY <1>19 DEF CopiesDone
<1>20. ASSUME Verified PROVE JournalOfTask'
  BY <1>20 DEF Verified
<1>21. ASSUME NEW cancelled \in BOOLEAN, Fails(cancelled)
      PROVE  JournalOfTask'
  BY <1>21 DEF Fails
<1>22. ASSUME BeginUninstall PROVE JournalOfTask'
  BY <1>22 DEF BeginUninstall
<1>23. ASSUME UninstallEnds PROVE JournalOfTask'
  BY <1>23 DEF UninstallEnds
<1>24. ASSUME NEW f \in File, UninstallFile(f) PROVE JournalOfTask'
  BY <1>24 DEF UninstallFile
<1>25. CASE UNCHANGED vars
  BY <1>25 DEF vars, disk
<1>26. QED
  BY <1>1, <1>2, <1>3, <1>4, <1>5, <1>6, <1>7, <1>8, <1>9, <1>10, <1>11, <1>12,
      <1>13, <1>14, <1>15, <1>16, <1>17, <1>18, <1>19, <1>20, <1>21, <1>22,
      <1>23, <1>24, <1>25
  DEF Next, ReconcileStep, RollBackStep, CopyStep, UninstallStep

(* What it copies is what the record lists, or will list. *)
LEMMA PlanStep ==
  TypeInvariant /\ JournalOfTask /\ PlanWithinRecord /\ [Next]_vars
  => PlanWithinRecord'
<1> SUFFICES ASSUME TypeInvariant, JournalOfTask, PlanWithinRecord,
      [Next]_vars
      PROVE PlanWithinRecord'
  OBVIOUS
<1> USE ContentAssumption, FileAssumption DEF JournalOfTask,
      PlanWithinRecord, Plan, Refused, Only, Listed, Empty, Manifest,
      TypeInvariant, InstallationTypeOK, Task, Idle, In, Ends, NoJournal,
      Copying, Removing, disk
<1>1. ASSUME NEW f \in File, NEW c \in Release \cup {Absent, Foreign}, Edit(f, c)
      PROVE  PlanWithinRecord'
  BY <1>1 DEF Edit
<1>2. ASSUME NEW r \in Release, ReplaceManager(r) PROVE PlanWithinRecord'
  BY <1>2 DEF ReplaceManager
<1>3. ASSUME NEW op \in {"install", "repair", "inspect"}, Begin(op)
      PROVE  PlanWithinRecord'
  BY <1>3 DEF Begin
<1>4. ASSUME Crash PROVE PlanWithinRecord'
  BY <1>4 DEF Crash
<1>5. ASSUME Aborts PROVE PlanWithinRecord'
  BY <1>5 DEF Aborts
<1>6. ASSUME NothingToReconcile PROVE PlanWithinRecord'
  BY <1>6 DEF NothingToReconcile
<1>7. ASSUME JournalUnusable PROVE PlanWithinRecord'
  BY <1>7 DEF JournalUnusable
<1>8. ASSUME JournalRolledBack PROVE PlanWithinRecord'
  BY <1>8 DEF JournalRolledBack
<1>9. ASSUME NEW removed \in BOOLEAN, JournalConfirmed(removed)
      PROVE  PlanWithinRecord'
  BY <1>9 DEF JournalConfirmed
<1>10. ASSUME NEW f \in File, NEW locked \in BOOLEAN, RollBackFile(f, locked)
      PROVE  PlanWithinRecord'
  <2>1. CASE Ours(f, task.plan) /\ ~locked
    BY <1>10, <2>1 DEF RollBackFile
  <2>2. CASE ~(Ours(f, task.plan) /\ ~locked)
    <3> DEFINE kept == IF files[f] = Absent THEN task.kept ELSE task.kept \cup {f}
    <3>1. task' = [task EXCEPT !.todo = @ \ {f}, !.kept = kept]
      BY <1>10, <2>2 DEF RollBackFile
    <3>2. files' = files /\ placed' = placed
      BY <1>10, <2>2 DEF RollBackFile
    <3>3. left' = IF Ours(f, task.plan) THEN left \cup {f} ELSE left
      BY <1>10, <2>2 DEF RollBackFile
    <3> HIDE DEF kept
    <3> QED
      BY <1>10, <2>2, <3>1, <3>2, <3>3 DEF RollBackFile
  <2> QED
    BY <2>1, <2>2
<1>11. ASSUME RolledBack PROVE PlanWithinRecord'
  BY <1>11 DEF RolledBack
<1>12. ASSUME NEW removed \in BOOLEAN, DropRecord(removed)
      PROVE  PlanWithinRecord'
  BY <1>12 DEF DropRecord
<1>13. ASSUME NEW removed \in BOOLEAN, DropJournal(removed)
      PROVE  PlanWithinRecord'
  <2>1. CASE task.ending = "reconciled"
    <3>1. task' = [Idle EXCEPT !.op = task.op, !.stage = "preflight"]
      BY <1>13, <2>1 DEF DropJournal
    <3> QED
      BY <1>13, <2>1, <3>1 DEF DropJournal
  <2>2. CASE task.ending # "reconciled"
    <3>1. task' = Idle
      BY <1>13, <2>2 DEF DropJournal
    <3> QED
      BY <1>13, <2>2, <3>1 DEF DropJournal
  <2> QED
    BY <2>1, <2>2
<1>14. ASSUME InspectEnds PROVE PlanWithinRecord'
  BY <1>14 DEF InspectEnds
<1>15. ASSUME PreflightRefuses PROVE PlanWithinRecord'
  BY <1>15 DEF PreflightRefuses
<1>16. ASSUME PreflightPasses PROVE PlanWithinRecord'
  <2>1. task.wroteRecord = FALSE
    BY <1>16 DEF PreflightPasses
  <2>2. CASE task.op = "install"
    <3>1. record = Empty /\ Plan = [f \in File |-> release] /\ Plan # Empty
      BY <1>16, <2>2 DEF PreflightPasses
    <3>2. task' = [task EXCEPT !.plan = Plan, !.todo = Listed(Plan), !.stage = "journal"]
      BY <1>16, <3>1 DEF PreflightPasses
    <3> QED
      BY <1>16, <2>1, <2>2, <3>1, <3>2 DEF PreflightPasses
  <2>3. CASE task.op = "repair"
    <3>1. /\ Plan = Only(record, {f \in File : files[f] = Absent})
          /\ \A f \in Listed(Plan) : Plan[f] = release
      BY <1>16, <2>3 DEF PreflightPasses
    <3> DEFINE stage == IF Plan = Empty THEN "verify" ELSE "journal"
    <3>2. task' = [task EXCEPT !.plan = Plan, !.todo = Listed(Plan), !.stage = stage]
      BY <1>16 DEF PreflightPasses
    <3>3. stage \in {"verify", "journal"}
      OBVIOUS
    <3>4. \A f \in File : Plan[f] \in {Absent, record[f]}
      BY <3>1
    <3> HIDE DEF stage
    <3> QED
      BY <1>16, <2>1, <2>3, <3>1, <3>2, <3>3, <3>4 DEF PreflightPasses
  <2> QED
    BY <1>16, <2>2, <2>3 DEF PreflightPasses
<1>17. ASSUME WriteJournal PROVE PlanWithinRecord'
  BY <1>17 DEF WriteJournal
<1>18. ASSUME NEW f \in File, CopyFile(f) PROVE PlanWithinRecord'
  BY <1>18 DEF CopyFile
<1>19. ASSUME CopiesDone PROVE PlanWithinRecord'
  <2>1. CASE task.op = "install"
    <3>1. record' = task.plan /\ task' = [task EXCEPT !.stage = "verify", !.wroteRecord = TRUE]
      BY <1>19, <2>1 DEF CopiesDone
    <3> QED
      BY <1>19, <2>1, <3>1 DEF CopiesDone
  <2>2. CASE task.op # "install"
    <3>1. record' = record /\ task' = [task EXCEPT !.stage = "verify"]
      BY <1>19, <2>2 DEF CopiesDone
    <3> QED
      BY <1>19, <2>2, <3>1 DEF CopiesDone
  <2> QED
    BY <2>1, <2>2
<1>20. ASSUME Verified PROVE PlanWithinRecord'
  BY <1>20 DEF Verified
<1>21. ASSUME NEW cancelled \in BOOLEAN, Fails(cancelled)
      PROVE  PlanWithinRecord'
  BY <1>21 DEF Fails
<1>22. ASSUME BeginUninstall PROVE PlanWithinRecord'
  BY <1>22 DEF BeginUninstall
<1>23. ASSUME UninstallEnds PROVE PlanWithinRecord'
  BY <1>23 DEF UninstallEnds
<1>24. ASSUME NEW f \in File, UninstallFile(f) PROVE PlanWithinRecord'
  BY <1>24 DEF UninstallFile
<1>25. CASE UNCHANGED vars
  BY <1>25 DEF vars, disk
<1>26. QED
  BY <1>1, <1>2, <1>3, <1>4, <1>5, <1>6, <1>7, <1>8, <1>9, <1>10, <1>11, <1>12,
      <1>13, <1>14, <1>15, <1>16, <1>17, <1>18, <1>19, <1>20, <1>21, <1>22,
      <1>23, <1>24, <1>25
  DEF Next, ReconcileStep, RollBackStep, CopyStep, UninstallStep

(* No file the manager placed is lost track of. *)
LEMMA AccountedStep ==
  TypeInvariant /\ CopiesTracked /\ JournalOfTask /\ PlanWithinRecord
    /\ Accounted /\ [Next]_vars
  => (CopiesTracked /\ Accounted)'
<1> SUFFICES ASSUME TypeInvariant, CopiesTracked, JournalOfTask,
      PlanWithinRecord, Accounted, [Next]_vars
      PROVE (CopiesTracked /\ Accounted)'
  OBVIOUS
<1> USE ContentAssumption DEF Accounted, CopiesTracked, ByRecord, Kept,
      JournalOfTask, PlanWithinRecord, JournalMatches, Ours, Listed, Empty,
      Manifest, TypeInvariant, InstallationTypeOK, Task, Idle, In, Ends,
      NoJournal, Copying, Removing, disk
<1>1. ASSUME NEW f \in File, NEW c \in Release \cup {Absent, Foreign}, Edit(f, c)
      PROVE  (CopiesTracked /\ Accounted)'
  BY <1>1 DEF Edit
<1>2. ASSUME NEW r \in Release, ReplaceManager(r)
      PROVE  (CopiesTracked /\ Accounted)'
  BY <1>2 DEF ReplaceManager
<1>3. ASSUME NEW op \in {"install", "repair", "inspect"}, Begin(op)
      PROVE  (CopiesTracked /\ Accounted)'
  BY <1>3 DEF Begin
<1>4. ASSUME Crash PROVE (CopiesTracked /\ Accounted)'
  BY <1>4 DEF Crash
<1>5. ASSUME Aborts PROVE (CopiesTracked /\ Accounted)'
  BY <1>5 DEF Aborts
<1>6. ASSUME NothingToReconcile PROVE (CopiesTracked /\ Accounted)'
  BY <1>6 DEF NothingToReconcile
<1>7. ASSUME JournalUnusable PROVE (CopiesTracked /\ Accounted)'
  BY <1>7 DEF JournalUnusable
<1>8. ASSUME JournalRolledBack PROVE (CopiesTracked /\ Accounted)'
  BY <1>8 DEF JournalRolledBack
<1>9. ASSUME NEW removed \in BOOLEAN, JournalConfirmed(removed)
      PROVE  (CopiesTracked /\ Accounted)'
  BY <1>9 DEF JournalConfirmed
<1>10. ASSUME NEW f \in File, NEW locked \in BOOLEAN, RollBackFile(f, locked)
      PROVE  (CopiesTracked /\ Accounted)'
  <2>1. CASE Ours(f, task.plan) /\ ~locked
    BY <1>10, <2>1 DEF RollBackFile
  <2>2. CASE ~(Ours(f, task.plan) /\ ~locked)
    <3> DEFINE kept == IF files[f] = Absent THEN task.kept ELSE task.kept \cup {f}
    <3>1. task' = [task EXCEPT !.todo = @ \ {f}, !.kept = kept]
      BY <1>10, <2>2 DEF RollBackFile
    <3>2. files' = files /\ placed' = placed
      BY <1>10, <2>2 DEF RollBackFile
    <3>3. left' = IF Ours(f, task.plan) THEN left \cup {f} ELSE left
      BY <1>10, <2>2 DEF RollBackFile
    <3> HIDE DEF kept
    <3> QED
      BY <1>10, <2>2, <3>1, <3>2, <3>3 DEF RollBackFile
  <2> QED
    BY <2>1, <2>2
<1>11. ASSUME RolledBack PROVE (CopiesTracked /\ Accounted)'
  BY <1>11 DEF RolledBack
<1>12. ASSUME NEW removed \in BOOLEAN, DropRecord(removed)
      PROVE  (CopiesTracked /\ Accounted)'
  <2> DEFINE kept == IF task.wroteRecord /\ ~removed THEN task.kept \cup File
                     ELSE task.kept
  <2>1. task' = [task EXCEPT !.stage = "dropJournal", !.kept = kept]
    BY <1>12 DEF DropRecord
  <2>2. /\ record' \in {record, Empty} /\ (~task.wroteRecord => record' = record)
        /\ files' = files /\ placed' = placed /\ left' = left /\ journal' = journal
    BY <1>12 DEF DropRecord
  <2> HIDE DEF kept
  <2> QED
    BY <1>12, <2>1, <2>2 DEF DropRecord
<1>13. ASSUME NEW removed \in BOOLEAN, DropJournal(removed)
      PROVE  (CopiesTracked /\ Accounted)'
  <2>1. CASE task.ending = "reconciled"
    <3>1. task' = [Idle EXCEPT !.op = task.op, !.stage = "preflight"]
      BY <1>13, <2>1 DEF DropJournal
    <3> QED
      BY <1>13, <2>1, <3>1 DEF DropJournal
  <2>2. CASE task.ending # "reconciled"
    <3>1. task' = Idle
      BY <1>13, <2>2 DEF DropJournal
    <3> QED
      BY <1>13, <2>2, <3>1 DEF DropJournal
  <2> QED
    BY <2>1, <2>2
<1>14. ASSUME InspectEnds PROVE (CopiesTracked /\ Accounted)'
  BY <1>14 DEF InspectEnds
<1>15. ASSUME PreflightRefuses PROVE (CopiesTracked /\ Accounted)'
  BY <1>15 DEF PreflightRefuses
<1>16. ASSUME PreflightPasses PROVE (CopiesTracked /\ Accounted)'
  BY <1>16 DEF PreflightPasses
<1>17. ASSUME WriteJournal PROVE (CopiesTracked /\ Accounted)'
  BY <1>17 DEF WriteJournal
<1>18. ASSUME NEW f \in File, CopyFile(f) PROVE (CopiesTracked /\ Accounted)'
  BY <1>18 DEF CopyFile
<1>19. ASSUME CopiesDone PROVE (CopiesTracked /\ Accounted)'
  <2>1. CASE task.op = "install"
    <3>1. record' = task.plan /\ task' = [task EXCEPT !.stage = "verify", !.wroteRecord = TRUE]
      BY <1>19, <2>1 DEF CopiesDone
    <3> QED
      BY <1>19, <2>1, <3>1 DEF CopiesDone
  <2>2. CASE task.op # "install"
    <3>1. record' = record /\ task' = [task EXCEPT !.stage = "verify"]
      BY <1>19, <2>2 DEF CopiesDone
    <3> QED
      BY <1>19, <2>2, <3>1 DEF CopiesDone
  <2> QED
    BY <2>1, <2>2
<1>20. ASSUME Verified PROVE (CopiesTracked /\ Accounted)'
  BY <1>20 DEF Verified
<1>21. ASSUME NEW cancelled \in BOOLEAN, Fails(cancelled)
      PROVE  (CopiesTracked /\ Accounted)'
  BY <1>21 DEF Fails
<1>22. ASSUME BeginUninstall PROVE (CopiesTracked /\ Accounted)'
  BY <1>22 DEF BeginUninstall
<1>23. ASSUME UninstallEnds PROVE (CopiesTracked /\ Accounted)'
  BY <1>23 DEF UninstallEnds, Remaining, Only
<1>24. ASSUME NEW f \in File, UninstallFile(f)
      PROVE  (CopiesTracked /\ Accounted)'
  <2>1. CASE Ours(f, record)
    BY <1>24, <2>1 DEF UninstallFile
  <2>2. CASE ~Ours(f, record)
    <3> DEFINE kept == IF files[f] = Absent THEN task.kept ELSE task.kept \cup {f}
    <3>1. task' = [task EXCEPT !.todo = @ \ {f}, !.kept = kept]
      BY <1>24, <2>2 DEF UninstallFile
    <3>2. files' = files /\ placed' = placed /\ left' = left
      BY <1>24, <2>2 DEF UninstallFile
    <3>3. kept \in SUBSET File /\ task.kept \subseteq kept
                /\ (files[f] # Absent => f \in kept)
      OBVIOUS
    <3> HIDE DEF kept
    <3> QED
      BY <1>24, <2>2, <3>1, <3>2, <3>3 DEF UninstallFile
  <2> QED
    BY <2>1, <2>2
<1>25. CASE UNCHANGED vars
  BY <1>25 DEF vars, disk
<1>26. QED
  BY <1>1, <1>2, <1>3, <1>4, <1>5, <1>6, <1>7, <1>8, <1>9, <1>10, <1>11, <1>12,
      <1>13, <1>14, <1>15, <1>16, <1>17, <1>18, <1>19, <1>20, <1>21, <1>22,
      <1>23, <1>24, <1>25
  DEF Next, ReconcileStep, RollBackStep, CopyStep, UninstallStep

(* What is left to undo is what the operation did, and no more. *)
LEMMA UndoneStep ==
  TypeInvariant /\ JournalOfTask /\ PlanWithinRecord /\ Undone
    /\ OutcomeTruthful /\ [Next]_vars
  => (Undone /\ OutcomeTruthful)'
<1> SUFFICES ASSUME TypeInvariant, JournalOfTask, PlanWithinRecord, Undone,
      OutcomeTruthful, [Next]_vars
      PROVE (Undone /\ OutcomeTruthful)'
  OBVIOUS
<1> USE ContentAssumption, FileAssumption DEF Undone, OutcomeTruthful,
      AsStarted, Copied, GivenUp, NoResult, Started, JournalOfTask,
      PlanWithinRecord, Healthy, Ours, Listed, Empty, Manifest,
      TypeInvariant, InstallationTypeOK, Task, Idle, In, Ends, NoJournal,
      Copying, Removing, disk
<1>1. ASSUME NEW f \in File, NEW c \in Release \cup {Absent, Foreign}, Edit(f, c)
      PROVE  (Undone /\ OutcomeTruthful)'
  BY <1>1 DEF Edit
<1>2. ASSUME NEW r \in Release, ReplaceManager(r)
      PROVE  (Undone /\ OutcomeTruthful)'
  BY <1>2 DEF ReplaceManager
<1>3. ASSUME NEW op \in {"install", "repair", "inspect"}, Begin(op)
      PROVE  (Undone /\ OutcomeTruthful)'
  BY <1>3 DEF Begin
<1>4. ASSUME Crash PROVE (Undone /\ OutcomeTruthful)'
  BY <1>4 DEF Crash
<1>5. ASSUME Aborts PROVE (Undone /\ OutcomeTruthful)'
  BY <1>5 DEF Aborts
<1>6. ASSUME NothingToReconcile PROVE (Undone /\ OutcomeTruthful)'
  BY <1>6 DEF NothingToReconcile
<1>7. ASSUME JournalUnusable PROVE (Undone /\ OutcomeTruthful)'
  BY <1>7 DEF JournalUnusable
<1>8. ASSUME JournalRolledBack PROVE (Undone /\ OutcomeTruthful)'
  BY <1>8 DEF JournalRolledBack
<1>9. ASSUME NEW removed \in BOOLEAN, JournalConfirmed(removed)
      PROVE  (Undone /\ OutcomeTruthful)'
  BY <1>9 DEF JournalConfirmed
<1>10. ASSUME NEW f \in File, NEW locked \in BOOLEAN, RollBackFile(f, locked)
      PROVE  (Undone /\ OutcomeTruthful)'
  <2>1. CASE Ours(f, task.plan) /\ ~locked
    BY <1>10, <2>1 DEF RollBackFile
  <2>2. CASE ~(Ours(f, task.plan) /\ ~locked)
    <3> DEFINE kept == IF files[f] = Absent THEN task.kept ELSE task.kept \cup {f}
    <3>1. task' = [task EXCEPT !.todo = @ \ {f}, !.kept = kept]
      BY <1>10, <2>2 DEF RollBackFile
    <3>2. files' = files /\ placed' = placed
      BY <1>10, <2>2 DEF RollBackFile
    <3>3. left' = IF Ours(f, task.plan) THEN left \cup {f} ELSE left
      BY <1>10, <2>2 DEF RollBackFile
    <3>4. kept \in SUBSET File /\ task.kept \subseteq kept
                /\ (files[f] # Absent => f \in kept)
      OBVIOUS
    <3> HIDE DEF kept
    <3> QED
      BY <1>10, <2>2, <3>1, <3>2, <3>3, <3>4 DEF RollBackFile
  <2> QED
    BY <2>1, <2>2
<1>11. ASSUME RolledBack PROVE (Undone /\ OutcomeTruthful)'
  BY <1>11 DEF RolledBack
<1>12. ASSUME NEW removed \in BOOLEAN, DropRecord(removed)
      PROVE  (Undone /\ OutcomeTruthful)'
  <2> DEFINE kept == IF task.wroteRecord /\ ~removed THEN task.kept \cup File
                     ELSE task.kept
  <2>1. task' = [task EXCEPT !.stage = "dropJournal", !.kept = kept]
    BY <1>12 DEF DropRecord
  <2>2. /\ record' \in {record, Empty} /\ (~task.wroteRecord => record' = record)
        /\ files' = files /\ placed' = placed /\ left' = left /\ journal' = journal
    BY <1>12 DEF DropRecord
  <2> HIDE DEF kept
  <2> QED
    BY <1>12, <2>1, <2>2 DEF DropRecord
<1>13. ASSUME NEW removed \in BOOLEAN, DropJournal(removed)
      PROVE  (Undone /\ OutcomeTruthful)'
  <2>1. CASE task.ending = "reconciled"
    <3>1. task' = [Idle EXCEPT !.op = task.op, !.stage = "preflight"] /\ result' = result
      BY <1>13, <2>1 DEF DropJournal
    <3> QED
      BY <1>13, <2>1, <3>1 DEF DropJournal
  <2>2. CASE task.ending # "reconciled"
    <3>1. task' = Idle /\ result' = [result EXCEPT !.outcome = Outcome(removed)]
      BY <1>13, <2>2 DEF DropJournal
    <3>2. files' = files /\ record' = record /\ left' = left
      BY <1>13 DEF DropJournal
    <3>3. CASE task.ending = "success"
      BY <1>13, <3>1, <3>2, <3>3 DEF DropJournal, Outcome
    <3>4. CASE task.ending = "cancelled"
      BY <1>13, <3>1, <3>2, <3>4 DEF DropJournal, Outcome
    <3>5. CASE task.ending = "failed"
      BY <1>13, <3>1, <3>2, <3>5 DEF DropJournal, Outcome
    <3>6. CASE task.ending = "none"
      BY <1>13, <3>1, <3>2, <3>6 DEF DropJournal, Outcome
    <3> QED
      BY <2>2, <3>3, <3>4, <3>5, <3>6 DEF Ending
  <2> QED
    BY <2>1, <2>2
<1>14. ASSUME InspectEnds PROVE (Undone /\ OutcomeTruthful)'
  BY <1>14 DEF InspectEnds
<1>15. ASSUME PreflightRefuses PROVE (Undone /\ OutcomeTruthful)'
  BY <1>15 DEF PreflightRefuses
<1>16. ASSUME PreflightPasses PROVE (Undone /\ OutcomeTruthful)'
  <2> DEFINE stage == IF Plan = Empty THEN "verify" ELSE "journal"
  <2>1. task' = [task EXCEPT !.plan = Plan, !.todo = Listed(Plan), !.stage = stage]
    BY <1>16 DEF PreflightPasses
  <2>2. stage \in {"verify", "journal"}
    OBVIOUS
  <2>3. \A f \in Listed(Plan) : f \in File /\ files[f] = Absent
    BY <1>16 DEF PreflightPasses, Refused, Plan, Only
  <2>4. task.done = {} /\ task.kept = {} /\ ~task.wroteRecord
    BY <1>16 DEF PreflightPasses
  <2>5. result' = Started /\ files' = files /\ record' = record
    BY <1>16 DEF PreflightPasses
  <2> HIDE DEF stage
  <2> QED
    BY <2>1, <2>2, <2>3, <2>4, <2>5
<1>17. ASSUME WriteJournal PROVE (Undone /\ OutcomeTruthful)'
  BY <1>17 DEF WriteJournal
<1>18. ASSUME NEW f \in File, CopyFile(f) PROVE (Undone /\ OutcomeTruthful)'
  BY <1>18 DEF CopyFile
<1>19. ASSUME CopiesDone PROVE (Undone /\ OutcomeTruthful)'
  <2>1. CASE task.op = "install"
    <3>1. record' = task.plan /\ task' = [task EXCEPT !.stage = "verify", !.wroteRecord = TRUE]
      BY <1>19, <2>1 DEF CopiesDone
    <3> QED
      BY <1>19, <2>1, <3>1 DEF CopiesDone
  <2>2. CASE task.op # "install"
    <3>1. record' = record /\ task' = [task EXCEPT !.stage = "verify"]
      BY <1>19, <2>2 DEF CopiesDone
    <3> QED
      BY <1>19, <2>2, <3>1 DEF CopiesDone
  <2> QED
    BY <2>1, <2>2
<1>20. ASSUME Verified PROVE (Undone /\ OutcomeTruthful)'
  BY <1>20 DEF Verified
<1>21. ASSUME NEW cancelled \in BOOLEAN, Fails(cancelled)
      PROVE  (Undone /\ OutcomeTruthful)'
  BY <1>21 DEF Fails
<1>22. ASSUME BeginUninstall PROVE (Undone /\ OutcomeTruthful)'
  BY <1>22 DEF BeginUninstall
<1>23. ASSUME UninstallEnds PROVE (Undone /\ OutcomeTruthful)'
  <2>1. task' = Idle /\ files' = files
    BY <1>23 DEF UninstallEnds
  <2>2. CASE task.kept = {}
    <3>1. result' = [result EXCEPT !.outcome = "success"]
      BY <1>23, <2>2 DEF UninstallEnds
    <3>2. record' = [f \in File |-> Absent]
      BY <1>23, <2>2 DEF UninstallEnds, Remaining, Only
    <3> QED
      BY <2>1, <3>1, <3>2
  <2>3. CASE task.kept # {}
    <3>1. result' = [result EXCEPT !.outcome = "preserved"]
      BY <1>23, <2>3 DEF UninstallEnds
    <3> QED
      BY <2>1, <3>1
  <2> QED
    BY <2>2, <2>3
<1>24. ASSUME NEW f \in File, UninstallFile(f)
      PROVE  (Undone /\ OutcomeTruthful)'
  <2>1. CASE Ours(f, record)
    BY <1>24, <2>1 DEF UninstallFile
  <2>2. CASE ~Ours(f, record)
    <3> DEFINE kept == IF files[f] = Absent THEN task.kept ELSE task.kept \cup {f}
    <3>1. task' = [task EXCEPT !.todo = @ \ {f}, !.kept = kept]
      BY <1>24, <2>2 DEF UninstallFile
    <3>2. files' = files /\ placed' = placed /\ left' = left
      BY <1>24, <2>2 DEF UninstallFile
    <3>3. kept \in SUBSET File /\ task.kept \subseteq kept
                /\ (files[f] # Absent => f \in kept)
      OBVIOUS
    <3> HIDE DEF kept
    <3> QED
      BY <1>24, <2>2, <3>1, <3>2, <3>3 DEF UninstallFile
  <2> QED
    BY <2>1, <2>2
<1>25. CASE UNCHANGED vars
  BY <1>25 DEF vars, disk
<1> HIDE DEF Undone, OutcomeTruthful
<1>26. QED
  BY <1>1, <1>2, <1>3, <1>4, <1>5, <1>6, <1>7, <1>8, <1>9, <1>10, <1>11, <1>12,
      <1>13, <1>14, <1>15, <1>16, <1>17, <1>18, <1>19, <1>20, <1>21, <1>22,
      <1>23, <1>24, <1>25
  DEF Next, ReconcileStep, RollBackStep, CopyStep, UninstallStep

-----------------------------------------------------------------------------
(* The first state satisfies every part of the invariant. *)
LEMMA TrackingInit == Init => TrackingInvariant
<1> SUFFICES ASSUME Init PROVE TrackingInvariant
  OBVIOUS
<1> USE DEF Init, Idle, In, NoJournal, NoResult, Empty, Manifest, Copying, Removing
<1>1. TypeInvariant
  BY ContentAssumption
  DEF TypeInvariant, InstallationTypeOK, Task, Stage, Ending, Outcomes
<1>2. CopiesTracked /\ Accounted
  BY DEF CopiesTracked, Accounted, Kept
<1>3. JournalOfTask
  BY DEF JournalOfTask
<1>4. PlanWithinRecord
  BY DEF PlanWithinRecord
<1> QED
  BY <1>1, <1>2, <1>3, <1>4 DEF TrackingInvariant

LEMMA TrackingStep == TrackingInvariant /\ [Next]_vars => TrackingInvariant'
  BY TypeStep, JournalStep, PlanStep, AccountedStep DEF TrackingInvariant

LEMMA TrackingHolds == Spec => []TrackingInvariant
  BY TrackingInit, TrackingStep, PTL DEF Spec

(* Types hold in every reachable state, for every set of artifacts and     *)
(* releases (LoaderInstallationService).                                   *)
THEOREM InstallationTypeCorrect == Spec => []InstallationTypeOK
<1>1. TrackingInvariant => InstallationTypeOK
  BY DEF TrackingInvariant, TypeInvariant
<1> QED
  BY <1>1, TrackingHolds, PTL

(* Whatever is interrupted, fails or is cancelled, and whatever others do  *)
(* to the directory meanwhile, the record or the journal names every file  *)
(* the manager put there and still could delete.                           *)
THEOREM CopiesTrackedCorrect == Spec => []CopiesTracked
<1>1. TrackingInvariant => CopiesTracked
  BY DEF TrackingInvariant
<1> QED
  BY <1>1, TrackingHolds, PTL

(* Whatever its task, a step of the manager respects what is there. *)
LEMMA RespectfulStep ==
  TrackingInvariant /\ [Next]_vars => [RespectsContents]_vars
<1> SUFFICES ASSUME TrackingInvariant, Next, task' # task, NEW g \in File
      PROVE \/ files'[g] = files[g]
            \/ files[g] = Absent /\ files'[g] = release
            \/ /\ files[g] # Absent /\ files'[g] = Absent
               /\ files[g] \in {record[g], journal.files[g]}
  BY DEF RespectsContents
<1> USE DEF disk, Ends, In
<1>1. files \in [File -> Release \cup {Absent, Foreign}] /\ JournalOfTask
  BY DEF TrackingInvariant, TypeInvariant, InstallationTypeOK
<1>2. CASE \E f \in File, c \in Release \cup {Absent, Foreign} : Edit(f, c)
  BY <1>2 DEF Edit
<1>3. CASE \E r \in Release : ReplaceManager(r)
  BY <1>3 DEF ReplaceManager
<1>4. CASE (\E op \in {"install", "repair", "inspect"} : Begin(op)) \/ Crash \/ Aborts
  BY <1>4 DEF Begin, Crash, Aborts
<1>5. CASE ReconcileStep
  BY <1>5 DEF ReconcileStep, NothingToReconcile, JournalUnusable,
              JournalRolledBack, JournalConfirmed
<1>6. CASE RollBackStep
  <2>1. ASSUME NEW f \in File, NEW locked \in BOOLEAN, RollBackFile(f, locked)
        PROVE  files' = files \/ (/\ files' = [files EXCEPT ![f] = Absent]
                                  /\ files[f] # Absent
                                  /\ files[f] = journal.files[f])
    BY <1>1, <2>1 DEF RollBackFile, Ours, JournalOfTask
  <2>2. CASE \E f \in File, locked \in BOOLEAN : RollBackFile(f, locked)
    BY <1>1, <2>1, <2>2
  <2> QED
    BY <1>6, <2>2 DEF RollBackStep, RolledBack, DropRecord, DropJournal
<1>7. CASE CopyStep
  <2>1. CASE \E f \in File : CopyFile(f)
    BY <1>1, <2>1 DEF CopyFile
  <2> QED
    BY <1>7, <2>1 DEF CopyStep, InspectEnds, PreflightRefuses, PreflightPasses,
                      WriteJournal, CopiesDone, Verified, Fails
<1>8. CASE UninstallStep
  <2>1. ASSUME NEW f \in File, UninstallFile(f)
        PROVE  files' = files \/ (/\ files' = [files EXCEPT ![f] = Absent]
                                  /\ files[f] # Absent /\ files[f] = record[f])
    BY <2>1 DEF UninstallFile, Ours
  <2>2. CASE \E f \in File : UninstallFile(f)
    BY <1>1, <2>1, <2>2
  <2> QED
    BY <1>8, <2>2 DEF UninstallStep, BeginUninstall, UninstallEnds
<1> QED
  BY <1>2, <1>3, <1>4, <1>5, <1>6, <1>7, <1>8 DEF Next

(* The manager creates files only where there is none, and deletes only    *)
(* what the record or the journal names, with that very content.           *)
THEOREM ContentsRespectedCorrect == Spec => ContentsRespected
  BY RespectfulStep, TrackingHolds, PTL DEF Spec, ContentsRespected

(* What the manager reports is true: a success is a complete installation, *)
(* "rolled back" is the directory and the record as they were, but for     *)
(* what others changed meanwhile.                                          *)
THEOREM OutcomeCorrect == Spec => []OutcomeTruthful
<1>1. Init => Undone /\ OutcomeTruthful
  BY DEF Init, Undone, OutcomeTruthful, Idle, In, NoResult, Copying, Removing
<1>2. TrackingInvariant /\ (Undone /\ OutcomeTruthful) /\ [Next]_vars
        => (Undone /\ OutcomeTruthful)'
  BY UndoneStep DEF TrackingInvariant
<1> QED
  BY <1>1, <1>2, TrackingHolds, PTL DEF Spec
=============================================================================
