--------------------------- MODULE GameLaunchProofs ---------------------------
(***************************************************************************)
(* The safety of GameLaunch, for every number of launches, processes, mods *)
(* and edits.                                                              *)
(*                                                                         *)
(* All of it rests on one fact, which no property states: no two launches  *)
(* ever have the same process (OneLaunchEach).  A launch takes a process   *)
(* that started after it had looked how many there were, and it looked     *)
(* with the lock held, when every earlier launch had its process already.  *)
(***************************************************************************)
EXTENDS GameLaunch, FiniteSetTheorems, TLAPS

Sets == (SUBSET Mods) \cup {Nothing}
RuntimeStages == {"ended", "waiting", "seen", "claimed", "reading", "loading",
                  "loaded", "done", "vanilla"}
Tasks ==
    [kind : {"none", "modded", "vanilla"}, at : Stages, loaded : Sets, packages : Sets,
     checked : Nat, edited : BOOLEAN, since : Nat, process : Nat,
     result : {"none", "success", "failed", "killed"}]

LaunchTypeOK ==
    /\ launch \in [Launches -> Tasks]
    /\ lock \in Launches \cup {Nobody}
    /\ profile \in SUBSET Mods /\ edits \in Nat
    /\ processes \in 0..MaxProcesses
    /\ runtime \in [Identities -> RuntimeStages]
    /\ mods \in [Identities -> Sets] /\ ticket \in [Identities -> Sets]
    /\ claimed \subseteq Identities /\ started \subseteq Identities
    /\ issued \in [Identities -> SUBSET (Launches \X Sets)]
    /\ stuck \subseteq Launches

Early == {"idle", "locked", "check", "profile", "validate", "start", "await_game"}
Late == {"handoff", "await_runtime", "record", "delete"}

(* What holds of launch l.                                                   *)

\* A launch in progress has the lock.
LockHeld(l) == launch[l].at \notin {"idle", "over"} => lock = l

\* Its process: none before it is found, then one that has started.
ProcessFound(l) ==
    /\ launch[l].process <= processes
    /\ launch[l].at \in Early => launch[l].process = 0
    /\ launch[l].at \in Late => launch[l].process # 0 /\ launch[l].kind = "modded"
    /\ launch[l].result = "success" => launch[l].process # 0

HandoffFresh(l) == launch[l].at = "handoff" => issued[launch[l].process] = {}

\* The profile read, and the profile as it was resolved.
ProfileRead(l) ==
    /\ launch[l].checked <= edits
    /\ launch[l].at \in {"profile", "validate"} /\ launch[l].checked = edits =>
          profile \in ValidProfiles
    /\ launch[l].at = "validate" /\ launch[l].checked = edits => launch[l].loaded = profile
    /\ (launch[l].at \in {"start", "await_game"} \/ launch[l].process # 0)
          /\ launch[l].kind = "modded" /\ ~launch[l].edited =>
          launch[l].packages = launch[l].loaded

\* A modded launch that has its acknowledgment has a process with mods.
Acknowledged(l) ==
    LET p == launch[l].process IN
    p # 0 /\ mods[p] # Nothing /\ runtime[p] \in {"done", "ended"}
SuccessAcknowledged(l) ==
    \/ launch[l].at = "record"
    \/ launch[l].kind = "modded" /\ launch[l].result = "success"
    => Acknowledged(l)

\* NoReusableIntent, from the clean-up on.
CleanedUp(l) ==
    l \notin stuck /\ launch[l].at \in {"release", "over"} /\ launch[l].result # "killed"
    /\ launch[l].process # 0 =>
        \/ ticket[launch[l].process] = Nothing
        \/ launch[l].process \in claimed

TaskOK(l) ==
    /\ LockHeld(l) /\ ProcessFound(l) /\ HandoffFresh(l)
    /\ ProfileRead(l) /\ SuccessAcknowledged(l) /\ CleanedUp(l)

(* What holds between launches.                                              *)

OneLaunchEach ==
    \A k, l \in Launches : k # l /\ launch[k].process # 0 => launch[k].process # launch[l].process
SinceAll ==
    \A k, l \in Launches : launch[l].at = "await_game" => launch[k].process <= launch[l].since

\* Tickets are those of modded launches for their own processes.
IssuedOwn ==
    \A p \in Identities, l \in Launches, s \in Sets : <<l, s>> \in issued[p] =>
        launch[l].process = p /\ launch[l].packages = s /\ launch[l].kind = "modded"

(* What holds of process p.                                                  *)

\* What its runtime has loaded or may load is in a ticket issued for it.
FromIssued(p, set) == set # Nothing => \E l \in Launches : <<l, set>> \in issued[p]

\* A runtime that has seen a ticket had one issued, holds its claim as long as
\* the ticket is there, and acknowledges nothing but mods it has loaded.
RuntimeConsistent(p) ==
    /\ runtime[p] \in {"seen", "claimed", "reading"} => issued[p] # {}
    /\ runtime[p] \in {"claimed", "reading"} /\ ticket[p] # Nothing => p \in claimed
    /\ runtime[p] = "reading" => ticket[p] # Nothing
    /\ runtime[p] \in {"loading", "loaded"} => mods[p] # Nothing
    /\ p \in started => mods[p] # Nothing /\ runtime[p] \in {"done", "ended"}

ProcessOK(p) == FromIssued(p, ticket[p]) /\ FromIssued(p, mods[p]) /\ RuntimeConsistent(p)

LaunchInv ==
    /\ LaunchTypeOK
    /\ \A l \in Launches : TaskOK(l)
    /\ OneLaunchEach /\ SinceAll /\ IssuedOwn
    /\ \A p \in Identities : ProcessOK(p)

-----------------------------------------------------------------------------
(* Lemmas.                                                                   *)

\* A step of launch l leaves the tasks of the others.
LEMMA SetTask ==
  ASSUME LaunchTypeOK, NEW l \in Launches, NEW task \in Tasks, Set(l, task)
  PROVE  /\ launch' \in [Launches -> Tasks]
         /\ launch'[l] = task
         /\ \A k \in Launches \ {l} : launch'[k] = launch[k]
BY DEF LaunchTypeOK, Set

LEMMA TaskFields ==
  ASSUME NEW task \in Tasks
  PROVE  /\ task.kind \in {"none", "modded", "vanilla"} /\ task.at \in Stages
         /\ task.loaded \in Sets /\ task.packages \in Sets
         /\ task.checked \in Nat /\ task.edited \in BOOLEAN
         /\ task.since \in Nat /\ task.process \in Nat
         /\ task.result \in {"none", "success", "failed", "killed"}
BY DEF Tasks

LEMMA ProcessCount == LaunchInv => processes \in Nat /\ processes <= MaxProcesses
BY LaunchAssumption DEF LaunchInv, LaunchTypeOK

\* What is issued, is issued for the process of a launch, which has started.
LEMMA IssuedStarted ==
  ASSUME LaunchInv, NEW p \in Identities, issued[p] # {}
  PROVE  \E l \in Launches : launch[l].process = p /\ launch[l].kind = "modded" /\ p <= processes
<1>1. PICK pair \in issued[p] : TRUE  OBVIOUS
<1>2. PICK l \in Launches, s \in Sets : pair = <<l, s>>
  BY <1>1 DEF LaunchInv, LaunchTypeOK
<1>3. launch[l].process = p /\ launch[l].kind = "modded"
  BY <1>1, <1>2 DEF LaunchInv, IssuedOwn
<1>4. launch[l].process <= processes
  BY DEF LaunchInv, TaskOK, ProcessFound
<1> QED  BY <1>3, <1>4

\* With nothing issued there is no ticket and no mod, and nothing is known of one.
LEMMA NothingIssued ==
  ASSUME LaunchInv, NEW p \in Identities, issued[p] = {}
  PROVE  /\ ticket[p] = Nothing /\ mods[p] = Nothing /\ p \notin started
         /\ runtime[p] \notin {"seen", "claimed", "reading", "loading", "loaded"}
BY DEF LaunchInv, ProcessOK, FromIssued, RuntimeConsistent

LEMMA InitInv == Init => LaunchInv
<1> SUFFICES ASSUME Init PROVE LaunchInv  OBVIOUS
<1>1. Nobody \notin Launches /\ ValidProfiles \subseteq SUBSET Mods /\ MaxProcesses \in Nat
  BY LaunchAssumption DEF Nobody
<1>2. Task("none", "idle") \in Tasks
  BY DEF Task, Tasks, Stages, Sets
<1>3. LaunchTypeOK
  BY <1>1, <1>2 DEF Init, LaunchTypeOK, RuntimeStages, Sets, Identities
<1>4. \A l \in Launches : TaskOK(l)
  BY DEF Init, TaskOK, Task, LockHeld, ProcessFound, HandoffFresh, ProfileRead,
         SuccessAcknowledged, CleanedUp, Early, Late
<1>5. OneLaunchEach /\ SinceAll /\ IssuedOwn
  BY DEF Init, Task, OneLaunchEach, SinceAll, IssuedOwn
<1>6. \A p \in Identities : ProcessOK(p)
  BY DEF Init, ProcessOK, FromIssued, RuntimeConsistent
<1> QED  BY <1>3, <1>4, <1>5, <1>6 DEF LaunchInv

\* What a step of another launch keeps of a launch, ...
LEMMA OtherTask ==
  ASSUME LaunchInv, NEW l \in Launches, NEW k \in Launches \ {l}, launch'[k] = launch[k],
         UNCHANGED <<profile, edits, game, files, issued, stuck>>,
         \/ lock' = lock
         \/ lock \in {l, Nobody} /\ lock' \in {l, Nobody}
  PROVE  TaskOK(k)'
<1>1. TaskOK(k)  BY DEF LaunchInv
<1>2. LockHeld(k)'
  BY <1>1, LaunchAssumption DEF TaskOK, LockHeld, Nobody
<1> QED  BY <1>1, <1>2 DEF TaskOK, ProcessFound, HandoffFresh, ProfileRead,
            SuccessAcknowledged, Acknowledged, CleanedUp, game, files

\* ... and of the tickets, when its own launch had none or has it still.
LEMMA TicketsKept ==
  ASSUME LaunchInv, NEW l \in Launches, \A k \in Launches \ {l} : launch'[k] = launch[k],
         issued' = issued,
         \/ launch[l].process = 0
         \/ /\ launch'[l].process = launch[l].process /\ launch'[l].kind = launch[l].kind
            /\ launch'[l].packages = launch[l].packages
  PROVE  IssuedOwn'
<1> SUFFICES ASSUME NEW p \in Identities, NEW k \in Launches, NEW s \in Sets,
                    <<k, s>> \in issued[p]
             PROVE  launch'[k].process = p /\ launch'[k].packages = s /\ launch'[k].kind = "modded"
  BY DEF IssuedOwn
<1>1. launch[k].process = p /\ launch[k].packages = s /\ launch[k].kind = "modded"
  BY DEF LaunchInv, IssuedOwn
<1> QED  BY <1>1 DEF Identities

\* A step of launch l that keeps its process, and its place before the wait for
\* one, breaks nothing but what is said of l.
LEMMA TaskStep ==
  ASSUME LaunchInv, NEW l \in Launches, NEW task \in Tasks, Set(l, task),
         UNCHANGED <<profile, edits, game, files, issued, stuck>>,
         \/ lock' = lock
         \/ lock \in {l, Nobody} /\ lock' \in {l, Nobody},
         task.process = launch[l].process,
         \/ task.process = 0
         \/ task.kind = launch[l].kind /\ task.packages = launch[l].packages,
         task.at # "await_game",
         TaskOK(l)'
  PROVE  LaunchInv'
<1> USE DEF game, files
<1>1. /\ launch' \in [Launches -> Tasks] /\ launch'[l] = task
      /\ \A k \in Launches \ {l} : launch'[k] = launch[k]
  BY SetTask DEF LaunchInv
<1>2. \A k \in Launches : launch[k] \in Tasks
  BY DEF LaunchInv, LaunchTypeOK
<1>3. LaunchTypeOK'
  BY <1>1 DEF LaunchInv, LaunchTypeOK
<1>4. ASSUME NEW k \in Launches  PROVE TaskOK(k)'
  <2>1. CASE k = l  BY <2>1
  <2>2. CASE k # l  BY <1>1, <2>2, OtherTask
  <2> QED  BY <2>1, <2>2
<1>5. \A k \in Launches : launch'[k].process = launch[k].process
  BY <1>1
<1>6. OneLaunchEach'
  BY <1>5 DEF LaunchInv, OneLaunchEach
<1>7. SinceAll'
  BY <1>1, <1>5 DEF LaunchInv, SinceAll
<1>8. IssuedOwn'
  BY <1>1, TicketsKept
<1>9. \A p \in Identities : ProcessOK(p)'
  BY <1>1 DEF LaunchInv, ProcessOK, FromIssued, RuntimeConsistent
<1> QED  BY <1>3, <1>4, <1>6, <1>7, <1>8, <1>9 DEF LaunchInv

-----------------------------------------------------------------------------
(* The steps of a launch.                                                    *)

\* Its ending is a task: the clean-up of a modded launch that has its process.
LEMMA EndingTask ==
  ASSUME LaunchInv, NEW l \in Launches, NEW result \in {"success", "failed"}
  PROVE  /\ Ending(l, result) \in Tasks
         /\ Ending(l, result).process = launch[l].process
         /\ Ending(l, result).kind = launch[l].kind
         /\ Ending(l, result).packages = launch[l].packages
         /\ Ending(l, result).at \in {"delete", "release"}
BY DEF LaunchInv, LaunchTypeOK, Ending, Tasks, Stages

\* A launch may fail at every stage.
LEMMA EndsStep ==
  ASSUME LaunchInv, NEW l \in Launches, NEW result \in {"success", "failed"},
         Ends(l, result), Manager,
         launch[l].at \notin {"idle", "delete", "release", "over"},
         result = "success" => launch[l].at = "record"
  PROVE  LaunchInv'
<1> DEFINE task == Ending(l, result)
<1>1. /\ task \in Tasks /\ Set(l, task)
      /\ task.process = launch[l].process /\ task.kind = launch[l].kind
      /\ task.packages = launch[l].packages /\ task.at \in {"delete", "release"}
  BY EndingTask DEF Ends
<1>2. launch'[l] = task
  BY <1>1, SetTask DEF LaunchInv
<1>3. launch[l] \in Tasks
  BY DEF LaunchInv, LaunchTypeOK
<1>4. /\ task.checked = launch[l].checked /\ task.edited = launch[l].edited
      /\ task.loaded = launch[l].loaded /\ task.result = result
      /\ task.at = "release" => launch[l].kind # "modded" \/ launch[l].process = 0
  BY <1>3 DEF Ending, Tasks
<1>5. TaskOK(l)
  BY DEF LaunchInv
<1>6. TaskOK(l)'
  <2>1. LockHeld(l)' /\ ProcessFound(l)' /\ HandoffFresh(l)'
    BY <1>1, <1>2, <1>4, <1>5 DEF TaskOK, LockHeld, ProcessFound, HandoffFresh, Manager, game,
                    Early, Late, Ending
  <2>2. ProfileRead(l)'
    BY <1>1, <1>2, <1>4, <1>5 DEF TaskOK, ProfileRead, ProcessFound, Early, Late, Manager
  <2>3. SuccessAcknowledged(l)'
    BY <1>1, <1>2, <1>4, <1>5 DEF TaskOK, SuccessAcknowledged, Acknowledged, Manager, game
  <2>4. CleanedUp(l)'
    <3>1. launch[l].at \in Early \cup Late
      BY <1>3 DEF Tasks, Stages, Early, Late
    <3> QED  BY <1>1, <1>2, <1>4, <1>5, <3>1 DEF TaskOK, CleanedUp, ProcessFound
  <2> QED  BY <2>1, <2>2, <2>3, <2>4 DEF TaskOK
<1> QED  BY <1>1, <1>6, TaskStep DEF Manager

LEMMA BeginStep ==
  ASSUME LaunchInv, NEW l \in Launches, NEW kind \in {"modded", "vanilla"}, Begin(l, kind)
  PROVE  LaunchInv'
<1>1. TaskOK(l) /\ launch[l].at = "idle" /\ launch[l].process = 0
  BY DEF LaunchInv, Begin, At, TaskOK, ProcessFound, Early
<1>2. CASE Free
  <2> DEFINE task == Task(kind, "locked")
  <2>1. task \in Tasks /\ Set(l, task) /\ lock = Nobody /\ lock' = l
    BY <1>2 DEF Begin, Free, Task, Tasks, Stages, Sets
  <2>2. launch'[l] = task
    BY <2>1, SetTask DEF LaunchInv
  <2>3. TaskOK(l)'
    BY <2>1, <2>2, <1>1 DEF LaunchInv, LaunchTypeOK, Begin, game, files, Task, TaskOK, LockHeld,
       ProcessFound, HandoffFresh, ProfileRead, SuccessAcknowledged, CleanedUp, Early, Late
  <2> QED  BY <1>1, <2>1, <2>3, TaskStep DEF Begin, Task
<1>3. CASE ~Free
  <2> DEFINE task == [Task(kind, "over") EXCEPT !.result = "failed"]
  <2>1. task \in Tasks /\ Set(l, task) /\ lock' = lock
    BY <1>3 DEF Begin, Task, Tasks, Stages, Sets
  <2>2. launch'[l] = task
    BY <2>1, SetTask DEF LaunchInv
  <2>3. TaskOK(l)'
    BY <2>1, <2>2, <1>1 DEF LaunchInv, LaunchTypeOK, Begin, game, files, Task, TaskOK, LockHeld,
       ProcessFound, HandoffFresh, ProfileRead, SuccessAcknowledged, CleanedUp, Early, Late
  <2> QED  BY <1>1, <2>1, <2>3, TaskStep DEF Begin, Task
<1> QED  BY <1>2, <1>3

\* A launch that only goes on to another stage keeps what it knows.
LEMMA GoesStep ==
  ASSUME LaunchInv, NEW l \in Launches, NEW stage \in Stages \ {"await_game"}, Goes(l, stage),
         UNCHANGED <<profile, edits, game, files, issued, stuck>>,
         \/ lock' = lock
         \/ lock \in {l, Nobody} /\ lock' \in {l, Nobody},
         TaskOK(l)'
  PROVE  LaunchInv'
<1> DEFINE task == [launch[l] EXCEPT !.at = stage]
<1>1. /\ task \in Tasks /\ task.process = launch[l].process /\ task.at = stage
      /\ task.kind = launch[l].kind /\ task.packages = launch[l].packages
  BY DEF LaunchInv, LaunchTypeOK, Tasks
<1> QED  BY <1>1, TaskStep DEF Goes

LEMMA GoesTask ==
  ASSUME LaunchInv, NEW l \in Launches, NEW stage \in Stages, Goes(l, stage)
  PROVE  /\ launch'[l] \in Tasks
         /\ launch'[l].at = stage
         /\ launch'[l].kind = launch[l].kind /\ launch'[l].process = launch[l].process
         /\ launch'[l].loaded = launch[l].loaded /\ launch'[l].packages = launch[l].packages
         /\ launch'[l].checked = launch[l].checked /\ launch'[l].edited = launch[l].edited
         /\ launch'[l].since = launch[l].since /\ launch'[l].result = launch[l].result
         /\ launch' \in [Launches -> Tasks]
         /\ \A k \in Launches \ {l} : launch'[k] = launch[k]
BY DEF LaunchInv, LaunchTypeOK, Goes, Set, Tasks

LEMMA LockedStep ==
  ASSUME LaunchInv, NEW l \in Launches, Locked(l)
  PROVE  LaunchInv'
<1>1. CASE Ends(l, "failed")
  BY <1>1, EndsStep DEF Locked, At
<1>2. CASE Goes(l, "check")
  <2>1. TaskOK(l)'
    BY <1>2, GoesTask DEF LaunchInv, Locked, At, Manager, game, files, Stages, TaskOK, LockHeld,
       ProcessFound, HandoffFresh, ProfileRead, SuccessAcknowledged, Acknowledged, CleanedUp, Early, Late
  <2> QED  BY <1>2, <2>1, GoesStep DEF Locked, Manager, Stages
<1> QED  BY <1>1, <1>2 DEF Locked

LEMMA CheckStep ==
  ASSUME LaunchInv, NEW l \in Launches, Check(l)
  PROVE  LaunchInv'
<1> USE DEF Manager, game, files
<1>1. CASE Ends(l, "failed")
  BY <1>1, EndsStep DEF Check, At
<1>2. CASE launch[l].kind = "vanilla" /\ Goes(l, "start")
  <2>1. TaskOK(l)'
    BY <1>2, GoesTask DEF LaunchInv, Check, At, Stages, TaskOK, LockHeld,
       ProcessFound, HandoffFresh, ProfileRead, SuccessAcknowledged, Acknowledged, CleanedUp, Early, Late
  <2> QED  BY <1>2, <2>1, GoesStep DEF Check, Stages
<1>3. CASE /\ profile \in ValidProfiles
           /\ Set(l, [launch[l] EXCEPT !.at = "profile", !.checked = edits])
  <2> DEFINE task == [launch[l] EXCEPT !.at = "profile", !.checked = edits]
  <2>1. /\ task \in Tasks /\ task.at = "profile" /\ task.checked = edits
        /\ task.process = launch[l].process /\ task.kind = launch[l].kind
        /\ task.packages = launch[l].packages /\ task.result = launch[l].result
    BY DEF LaunchInv, LaunchTypeOK, Tasks, Stages
  <2>2. launch'[l] = task
    BY <1>3, <2>1, SetTask DEF LaunchInv
  <2>3. TaskOK(l)'
    BY <1>3, <2>1, <2>2 DEF LaunchInv, LaunchTypeOK, Check, At, TaskOK, LockHeld,
       ProcessFound, HandoffFresh, ProfileRead, SuccessAcknowledged, Acknowledged, CleanedUp, Early, Late
  <2> QED  BY <1>3, <2>1, <2>3, TaskStep DEF Check
<1> QED  BY <1>1, <1>2, <1>3 DEF Check

LEMMA LoadProfileStep ==
  ASSUME LaunchInv, NEW l \in Launches, LoadProfile(l)
  PROVE  LaunchInv'
<1> USE DEF Manager, game, files
<1>1. CASE Ends(l, "failed")
  BY <1>1, EndsStep DEF LoadProfile, At
<1>2. CASE Set(l, [launch[l] EXCEPT !.at = "validate", !.loaded = profile])
  <2> DEFINE task == [launch[l] EXCEPT !.at = "validate", !.loaded = profile]
  <2>1. /\ task \in Tasks /\ task.at = "validate" /\ task.loaded = profile
        /\ task.process = launch[l].process /\ task.kind = launch[l].kind
        /\ task.packages = launch[l].packages /\ task.result = launch[l].result
        /\ task.checked = launch[l].checked
    BY DEF LaunchInv, LaunchTypeOK, Tasks, Stages, Sets
  <2>2. launch'[l] = task
    BY <1>2, <2>1, SetTask DEF LaunchInv
  <2>3. TaskOK(l)'
    BY <1>2, <2>1, <2>2 DEF LaunchInv, LoadProfile, At, TaskOK, LockHeld,
       ProcessFound, HandoffFresh, ProfileRead, SuccessAcknowledged, Acknowledged, CleanedUp, Early, Late
  <2> QED  BY <1>2, <2>1, <2>3, TaskStep DEF LoadProfile
<1> QED  BY <1>1, <1>2 DEF LoadProfile

LEMMA ValidateStep ==
  ASSUME LaunchInv, NEW l \in Launches, Validate(l)
  PROVE  LaunchInv'
<1> USE DEF Manager, game, files
<1> DEFINE task == [launch[l] EXCEPT !.at = "start", !.packages = Resolved(profile),
                                     !.edited = edits # launch[l].checked]
<1>1. Resolved(profile) \in Sets /\ (profile \in ValidProfiles => Resolved(profile) = profile)
  BY DEF LaunchInv, LaunchTypeOK, Resolved, Sets
<1>2. /\ task \in Tasks /\ task.at = "start" /\ task.packages = Resolved(profile)
      /\ task.edited = (edits # launch[l].checked)
      /\ task.process = launch[l].process /\ task.kind = launch[l].kind
      /\ task.loaded = launch[l].loaded /\ task.result = launch[l].result
      /\ task.checked = launch[l].checked
  BY <1>1 DEF LaunchInv, LaunchTypeOK, Tasks, Stages
<1>3. Set(l, task) /\ launch'[l] = task
  BY <1>2, SetTask DEF LaunchInv, Validate
<1>4. TaskOK(l) /\ launch[l].at = "validate" /\ launch[l].process = 0
  BY DEF LaunchInv, Validate, At, TaskOK, ProcessFound, Early
<1>5. ProfileRead(l)'
  BY <1>1, <1>2, <1>3, <1>4 DEF Validate, TaskOK, ProfileRead
<1>6. TaskOK(l)'
  BY <1>2, <1>3, <1>4, <1>5 DEF Validate, TaskOK, LockHeld, ProcessFound, HandoffFresh,
     SuccessAcknowledged, Acknowledged, CleanedUp, Early, Late
<1> QED  BY <1>2, <1>3, <1>4, <1>6, TaskStep DEF Validate

LEMMA AwaitRuntimeStep ==
  ASSUME LaunchInv, NEW l \in Launches, AwaitRuntime(l)
  PROVE  LaunchInv'
<1> USE DEF Manager, game, files
<1>1. CASE Ends(l, "failed")
  BY <1>1, EndsStep DEF AwaitRuntime, At
<1>2. CASE launch[l].process \in started /\ Goes(l, "record")
  <2>1. Acknowledged(l)
    BY <1>2 DEF LaunchInv, LaunchTypeOK, AwaitRuntime, At, TaskOK, ProcessFound, Late,
                ProcessOK, RuntimeConsistent, Acknowledged
  <2>2. TaskOK(l)'
    BY <1>2, <2>1, GoesTask DEF LaunchInv, AwaitRuntime, At, Stages, TaskOK, LockHeld,
       ProcessFound, HandoffFresh, ProfileRead, SuccessAcknowledged, Acknowledged, CleanedUp, Early, Late
  <2> QED  BY <1>2, <2>2, GoesStep DEF AwaitRuntime, Stages
<1> QED  BY <1>1, <1>2 DEF AwaitRuntime

LEMMA RecordStep ==
  ASSUME LaunchInv, NEW l \in Launches, Record(l)
  PROVE  LaunchInv'
BY EndsStep DEF Record, At

\* No other launch is waiting for its process while this one holds the lock.
LEMMA StartStep ==
  ASSUME LaunchInv, NEW l \in Launches, Start(l)
  PROVE  LaunchInv'
<1> USE DEF Manager, game, files
<1>1. CASE Ends(l, "failed")
  BY <1>1, EndsStep DEF Start, At
<1>2. CASE Set(l, [launch[l] EXCEPT !.at = "await_game", !.since = processes])
  <2> DEFINE task == [launch[l] EXCEPT !.at = "await_game", !.since = processes]
  <2>1. /\ task \in Tasks /\ task.at = "await_game" /\ task.since = processes
        /\ task.process = launch[l].process /\ task.kind = launch[l].kind
        /\ task.packages = launch[l].packages /\ task.result = launch[l].result
        /\ task.loaded = launch[l].loaded /\ task.edited = launch[l].edited
        /\ task.checked = launch[l].checked
    BY ProcessCount DEF LaunchInv, LaunchTypeOK, Tasks, Stages
  <2>2. /\ launch' \in [Launches -> Tasks] /\ launch'[l] = task
        /\ \A k \in Launches \ {l} : launch'[k] = launch[k]
    BY <1>2, <2>1, SetTask DEF LaunchInv
  <2>3. \A k \in Launches : launch'[k].process = launch[k].process
    BY <2>1, <2>2
  <2>4. LaunchTypeOK'
    BY <2>2 DEF LaunchInv, LaunchTypeOK, Start
  <2>5. ASSUME NEW k \in Launches  PROVE TaskOK(k)'
    <3>1. CASE k = l
      <4>1. TaskOK(l) /\ launch[l].at = "start" /\ launch[l].process = 0 /\ lock = l
        BY DEF LaunchInv, Start, At, TaskOK, ProcessFound, LockHeld, Early
      <4>2. LockHeld(l)' /\ ProcessFound(l)'
        <5>1. lock' = lock /\ processes' = processes
          BY DEF Start
        <5>2. 0 <= processes /\ launch[l].result # "success"
          BY <4>1, ProcessCount DEF TaskOK, ProcessFound
        <5> QED  BY <2>1, <2>2, <4>1, <5>1, <5>2 DEF LockHeld, ProcessFound, Early, Late
      <4>3. ProfileRead(l)'
        BY <2>1, <2>2, <4>1 DEF Start, TaskOK, ProfileRead
      <4>4. SuccessAcknowledged(l)'
        BY <2>1, <2>2, <4>1 DEF Start, TaskOK, SuccessAcknowledged, Acknowledged
      <4>5. HandoffFresh(l)' /\ CleanedUp(l)'
        BY <2>1, <2>2 DEF HandoffFresh, CleanedUp
      <4> QED  BY <3>1, <4>2, <4>3, <4>4, <4>5 DEF TaskOK
    <3>2. CASE k # l
      BY <2>2, <3>2, OtherTask DEF Start
    <3> QED  BY <3>1, <3>2
  <2>6. OneLaunchEach'
    BY <2>3 DEF LaunchInv, OneLaunchEach
  <2>7. SinceAll'
    <3>1. \A k \in Launches : launch[k].process <= processes
      BY DEF LaunchInv, TaskOK, ProcessFound
    <3>2. \A k, j \in Launches : launch[j].at = "await_game" => launch[k].process <= launch[j].since
      BY DEF LaunchInv, SinceAll
    <3> QED  BY <2>1, <2>2, <2>3, <3>1, <3>2 DEF SinceAll
  <2>8. IssuedOwn'
    BY <2>1, <2>2, TicketsKept DEF Start
  <2>9. \A p \in Identities : ProcessOK(p)'
    BY DEF LaunchInv, Start, ProcessOK, FromIssued, RuntimeConsistent
  <2> QED  BY <2>4, <2>5, <2>6, <2>7, <2>8, <2>9 DEF LaunchInv
<1> QED  BY <1>1, <1>2 DEF Start

\* The process found started after those of all other launches, and nothing has
\* been issued for it.
LEMMA FreshProcess ==
  ASSUME LaunchInv, NEW l \in Launches, At(l, "await_game"), NEW p \in Fresh(l)
  PROVE  /\ p \in Identities /\ p \in 1..processes /\ p \in Nat
         /\ \A k \in Launches : launch[k].process < p
         /\ issued[p] = {}
<1>1. p \in 1..processes /\ p > launch[l].since /\ p \in Identities /\ p \in Nat
  BY LaunchAssumption DEF Fresh, Running, LaunchInv, LaunchTypeOK, Identities
<1>2. \A k \in Launches : launch[k].process \in Nat /\ launch[k].since \in Nat
  BY DEF LaunchInv, LaunchTypeOK, Tasks
<1>3. \A k \in Launches : launch[k].process < p
  BY <1>1, <1>2 DEF LaunchInv, SinceAll, At
<1>4. issued[p] = {}
  BY <1>1, <1>2, <1>3, IssuedStarted
<1> QED  BY <1>1, <1>3, <1>4

LEMMA AwaitGameStep ==
  ASSUME LaunchInv, NEW l \in Launches, AwaitGame(l)
  PROVE  LaunchInv'
<1> USE DEF Manager, game, files
<1>1. CASE Ends(l, "failed")
  BY <1>1, EndsStep DEF AwaitGame, At
<1>2. ASSUME NEW p \in Fresh(l), NEW task \in Tasks, Set(l, task),
             task.process = p, task.kind = launch[l].kind,
             task.loaded = launch[l].loaded, task.packages = launch[l].packages,
             task.checked = launch[l].checked, task.edited = launch[l].edited,
             \/ task.kind = "modded" /\ task.at = "handoff" /\ task.result = launch[l].result
             \/ task.kind # "modded" /\ task.at = "release" /\ task.result = "success"
      PROVE  LaunchInv'
  <2>1. /\ launch' \in [Launches -> Tasks] /\ launch'[l] = task
        /\ \A k \in Launches \ {l} : launch'[k] = launch[k]
    BY <1>2, SetTask DEF LaunchInv
  <2>2. /\ p \in Identities /\ p \in 1..processes /\ issued[p] = {}
        /\ \A k \in Launches : launch[k].process < p
    BY FreshProcess DEF AwaitGame
  <2>3. launch[l].at = "await_game" /\ launch[l].process = 0 /\ TaskOK(l) /\ lock = l
    BY DEF LaunchInv, AwaitGame, At, TaskOK, ProcessFound, LockHeld, Early
  <2>4. LaunchTypeOK'
    BY <2>1 DEF LaunchInv, LaunchTypeOK, AwaitGame
  <2>5. ASSUME NEW k \in Launches  PROVE TaskOK(k)'
    <3>1. CASE k = l
      <4>1. /\ ticket[p] = Nothing /\ mods[p] = Nothing
        BY <2>2, NothingIssued
      <4>2. LockHeld(l)'
        BY <2>3 DEF AwaitGame, LockHeld
      <4>6. ProcessFound(l)'
        <5>1. processes' = processes
          BY DEF AwaitGame
        <5>2. p <= processes' /\ p # 0
          BY <2>2, <5>1, ProcessCount
        <5> QED  BY <1>2, <2>1, <5>2 DEF ProcessFound, Early, Late
      <4>5. HandoffFresh(l)' /\ CleanedUp(l)'
        BY <1>2, <2>1, <2>2, <4>1 DEF AwaitGame, HandoffFresh, CleanedUp
      <4>3. ProfileRead(l)'
        BY <1>2, <2>1, <2>3 DEF AwaitGame, TaskOK, ProfileRead
      <4>4. SuccessAcknowledged(l)'
        BY <1>2, <2>1, <2>3 DEF TaskOK, SuccessAcknowledged, Acknowledged
      <4> QED  BY <3>1, <4>2, <4>3, <4>4, <4>5, <4>6 DEF TaskOK
    <3>2. CASE k # l
      BY <2>1, <3>2, OtherTask DEF AwaitGame
    <3> QED  BY <3>1, <3>2
  <2>6. OneLaunchEach'
    BY <1>2, <2>1, <2>2 DEF LaunchInv, OneLaunchEach
  <2>7. SinceAll'
    <3>1. \A k \in Launches : launch'[k].at # "await_game"
      BY <1>2, <2>1, <2>3 DEF LaunchInv, TaskOK, LockHeld
    <3> QED  BY <3>1 DEF SinceAll
  <2>8. IssuedOwn'
    BY <2>1, <2>3, TicketsKept DEF AwaitGame
  <2>9. \A q \in Identities : ProcessOK(q)'
    BY DEF LaunchInv, AwaitGame, ProcessOK, FromIssued, RuntimeConsistent
  <2> QED  BY <2>4, <2>5, <2>6, <2>7, <2>8, <2>9 DEF LaunchInv
<1>3. ASSUME NEW p \in Fresh(l), launch[l].kind = "modded",
             Set(l, [launch[l] EXCEPT !.at = "handoff", !.process = p])
      PROVE  LaunchInv'
  <2> DEFINE task == [launch[l] EXCEPT !.at = "handoff", !.process = p]
  <2>1. p \in Nat
    BY FreshProcess DEF AwaitGame
  <2>2. /\ task \in Tasks /\ task.process = p /\ task.kind = launch[l].kind
        /\ task.loaded = launch[l].loaded /\ task.packages = launch[l].packages
        /\ task.checked = launch[l].checked /\ task.edited = launch[l].edited
        /\ task.at = "handoff" /\ task.result = launch[l].result
    BY <2>1 DEF LaunchInv, LaunchTypeOK, Tasks, Stages
  <2> QED  BY <1>2, <1>3, <2>2
<1>4. ASSUME NEW p \in Fresh(l), launch[l].kind # "modded",
             Set(l, [launch[l] EXCEPT !.at = "release", !.process = p, !.result = "success"])
      PROVE  LaunchInv'
  <2> DEFINE task == [launch[l] EXCEPT !.at = "release", !.process = p, !.result = "success"]
  <2>1. p \in Nat
    BY FreshProcess DEF AwaitGame
  <2>2. /\ task \in Tasks /\ task.process = p /\ task.kind = launch[l].kind
        /\ task.loaded = launch[l].loaded /\ task.packages = launch[l].packages
        /\ task.checked = launch[l].checked /\ task.edited = launch[l].edited
        /\ task.at = "release" /\ task.result = "success"
    BY <2>1 DEF LaunchInv, LaunchTypeOK, Tasks, Stages
  <2> QED  BY <1>2, <1>4, <2>2
<1> QED  BY <1>1, <1>3, <1>4 DEF AwaitGame

LEMMA TaskProcess ==
  ASSUME LaunchInv, NEW l \in Launches, launch[l].at \in Late
  PROVE  /\ launch[l].process \in Identities /\ launch[l].kind = "modded" /\ lock = l
         /\ \A k \in Launches \ {l} : launch[k].process # launch[l].process
<1>1. launch[l].process \in Nat /\ launch[l].process # 0 /\ launch[l].process <= processes
      /\ launch[l].kind = "modded"
  BY DEF LaunchInv, LaunchTypeOK, Tasks, TaskOK, ProcessFound
<1>2. launch[l].process \in Identities
  BY <1>1, ProcessCount, LaunchAssumption DEF Identities
<1>3. lock = l
  BY DEF LaunchInv, TaskOK, LockHeld, Late
<1> QED  BY <1>1, <1>2, <1>3 DEF LaunchInv, OneLaunchEach

LEMMA WriteHandoffStep ==
  ASSUME LaunchInv, NEW l \in Launches, WriteHandoff(l)
  PROVE  LaunchInv'
<1> USE DEF game, files
<1> DEFINE p == launch[l].process
           packages == launch[l].packages
<1>1. launch[l].at = "handoff" /\ p \in Identities /\ TaskOK(l) /\ launch[l].kind = "modded"
      /\ \A k \in Launches \ {l} : launch[k].process # p
  BY TaskProcess DEF LaunchInv, WriteHandoff, At, Late
<1>2. issued[p] = {}
  BY <1>1 DEF TaskOK, HandoffFresh
<1>3. ticket[p] = Nothing /\ mods[p] = Nothing
      /\ runtime[p] \notin {"seen", "claimed", "reading", "loading", "loaded"} /\ p \notin started
  BY <1>1, <1>2, NothingIssued
<1>4. CASE /\ Goes(l, "await_runtime")
           /\ ticket' = [ticket EXCEPT ![p] = packages]
           /\ issued' = [issued EXCEPT ![p] = @ \cup {<<l, packages>>}]
  <2>1. /\ launch'[l].at = "await_runtime"
        /\ launch'[l].kind = launch[l].kind /\ launch'[l].process = p
        /\ launch'[l].loaded = launch[l].loaded /\ launch'[l].packages = packages
        /\ launch'[l].checked = launch[l].checked /\ launch'[l].edited = launch[l].edited
        /\ launch'[l].since = launch[l].since /\ launch'[l].result = launch[l].result
        /\ launch' \in [Launches -> Tasks]
        /\ \A k \in Launches \ {l} : launch'[k] = launch[k]
    BY <1>4, GoesTask DEF Stages
  <2>2. UNCHANGED <<lock, profile, edits, processes, runtime, mods, claimed, started, stuck>>
    BY DEF WriteHandoff
  <2>3. packages \in Sets /\ <<l, packages>> \in Launches \X Sets
    BY DEF LaunchInv, LaunchTypeOK, Tasks
  <2>4. LaunchTypeOK'
    <3>1. ticket' \in [Identities -> Sets]
      BY <1>1, <1>4, <2>3 DEF LaunchInv, LaunchTypeOK
    <3>2. issued' \in [Identities -> SUBSET (Launches \X Sets)]
      BY <1>1, <1>4, <2>3 DEF LaunchInv, LaunchTypeOK
    <3> QED  BY <2>1, <2>2, <3>1, <3>2 DEF LaunchInv, LaunchTypeOK
  <2>5. issued'[p] = {<<l, packages>>} /\ ticket'[p] = packages
        /\ \A q \in Identities \ {p} : issued'[q] = issued[q] /\ ticket'[q] = ticket[q]
    BY <1>1, <1>2, <1>4 DEF LaunchInv, LaunchTypeOK
  <2>6. ASSUME NEW k \in Launches  PROVE TaskOK(k)'
    <3>1. CASE k = l
      BY <1>1, <2>1, <2>2, <3>1 DEF TaskOK, LockHeld, ProcessFound, HandoffFresh, ProfileRead,
         SuccessAcknowledged, Acknowledged, CleanedUp, Early, Late
    <3>2. CASE k # l
      <4>1. TaskOK(k) /\ launch'[k] = launch[k] /\ launch[k].process # p
        BY <1>1, <2>1, <3>2 DEF LaunchInv
      <4>2. LockHeld(k)' /\ ProcessFound(k)' /\ ProfileRead(k)' /\ SuccessAcknowledged(k)'
        BY <2>2, <4>1 DEF TaskOK, LockHeld, ProcessFound, ProfileRead, SuccessAcknowledged,
           Acknowledged
      <4>3. launch[k].at \notin Late
        BY <1>1, <3>2, TaskProcess DEF Late
      <4>4. launch[k].process # 0 => launch[k].process \in Identities
        BY <4>1, ProcessCount, LaunchAssumption
        DEF LaunchInv, LaunchTypeOK, Tasks, TaskOK, ProcessFound, Identities
      <4>5. HandoffFresh(k)' /\ CleanedUp(k)'
        BY <2>2, <2>5, <4>1, <4>3, <4>4 DEF TaskOK, HandoffFresh, CleanedUp, Late
      <4> QED  BY <4>2, <4>5 DEF TaskOK
    <3> QED  BY <3>1, <3>2
  <2>7. \A k \in Launches : launch'[k].process = launch[k].process
    BY <2>1
  <2>8. OneLaunchEach' /\ SinceAll'
    BY <2>1, <2>7 DEF LaunchInv, OneLaunchEach, SinceAll
  <2>9. IssuedOwn'
    <3> SUFFICES ASSUME NEW q \in Identities, NEW k \in Launches, NEW s \in Sets,
                        <<k, s>> \in issued'[q]
                 PROVE  launch'[k].process = q /\ launch'[k].packages = s
                        /\ launch'[k].kind = "modded"
      BY DEF IssuedOwn
    <3>1. CASE q = p
      BY <1>1, <2>1, <2>5, <3>1
    <3>2. CASE q # p
      <4>1. launch[k].process = q /\ launch[k].packages = s /\ launch[k].kind = "modded"
        BY <2>5, <3>2 DEF LaunchInv, IssuedOwn
      <4> QED  BY <2>1, <4>1
    <3> QED  BY <3>1, <3>2
  <2>10. ASSUME NEW q \in Identities  PROVE ProcessOK(q)'
    <3>1. CASE q = p
      BY <1>3, <2>2, <2>5, <3>1 DEF ProcessOK, FromIssued, RuntimeConsistent
    <3>2. CASE q # p
      BY <2>2, <2>5, <3>2 DEF LaunchInv, ProcessOK, FromIssued, RuntimeConsistent
    <3> QED  BY <3>1, <3>2
  <2> QED  BY <2>4, <2>6, <2>8, <2>9, <2>10 DEF LaunchInv
<1>5. CASE /\ Set(l, [launch[l] EXCEPT !.at = "release", !.result = "failed"])
           /\ UNCHANGED <<ticket, issued>>
  <2> DEFINE task == [launch[l] EXCEPT !.at = "release", !.result = "failed"]
  <2>1. /\ task \in Tasks /\ task.at = "release" /\ task.result = "failed"
        /\ task.process = p /\ task.kind = launch[l].kind /\ task.packages = packages
        /\ task.loaded = launch[l].loaded /\ task.edited = launch[l].edited
        /\ task.checked = launch[l].checked
    BY DEF LaunchInv, LaunchTypeOK, Tasks, Stages
  <2>2. launch'[l] = task
    BY <1>5, <2>1, SetTask DEF LaunchInv
  <2>3. TaskOK(l)'
    BY <1>1, <1>3, <1>5, <2>1, <2>2 DEF WriteHandoff, TaskOK, LockHeld, ProcessFound, HandoffFresh,
       ProfileRead, SuccessAcknowledged, Acknowledged, CleanedUp, Early, Late
  <2> QED  BY <1>5, <2>1, <2>3, TaskStep DEF WriteHandoff
<1> QED  BY <1>4, <1>5 DEF WriteHandoff

LEMMA ReleaseStep ==
  ASSUME LaunchInv, NEW l \in Launches, Release(l)
  PROVE  LaunchInv'
<1>1. TaskOK(l) /\ launch[l].at = "release" /\ lock = l /\ lock' = Nobody
  BY DEF LaunchInv, Release, Released, At, TaskOK, LockHeld
<1>2. TaskOK(l)'
  BY <1>1, GoesTask DEF Release, Stages, game, files, TaskOK, LockHeld, ProcessFound, HandoffFresh,
     ProfileRead, SuccessAcknowledged, Acknowledged, CleanedUp, Early, Late
<1> QED  BY <1>1, <1>2, GoesStep DEF Release, Stages

LEMMA ManagerDiesStep ==
  ASSUME LaunchInv, NEW l \in Launches, ManagerDies(l)
  PROVE  LaunchInv'
<1> DEFINE task == [launch[l] EXCEPT !.at = "over", !.result = "killed"]
<1>1. /\ task \in Tasks /\ task.at = "over" /\ task.result = "killed"
      /\ task.process = launch[l].process /\ task.kind = launch[l].kind
      /\ task.packages = launch[l].packages
      /\ task.loaded = launch[l].loaded /\ task.edited = launch[l].edited
      /\ task.checked = launch[l].checked
  BY DEF LaunchInv, LaunchTypeOK, Tasks, Stages
<1>2. Set(l, task) /\ launch'[l] = task
  BY <1>1, SetTask DEF LaunchInv, ManagerDies
<1>3. TaskOK(l) /\ lock = l /\ lock' = Nobody
  BY DEF LaunchInv, ManagerDies, At, TaskOK, LockHeld
<1>4. TaskOK(l)'
  BY <1>1, <1>2, <1>3 DEF ManagerDies, game, files, TaskOK, LockHeld, ProcessFound, HandoffFresh,
     ProfileRead, SuccessAcknowledged, Acknowledged, CleanedUp, Early, Late
<1> QED  BY <1>1, <1>2, <1>3, <1>4, TaskStep DEF ManagerDies

\* The clean-up takes the ticket first, and cannot take it while it is read.
LEMMA Deletions ==
  ASSUME NEW l, NEW n \in 0..3, Deleted(l, n)
  PROVE  /\ n = 0 => UNCHANGED files
         /\ n # 0 => ticket' = [ticket EXCEPT ![launch[l].process] = Nothing]
         /\ claimed' = claimed \/ (n # 0 /\ claimed' = claimed \ {launch[l].process})
         /\ started' \subseteq started
<1> DEFINE p == launch[l].process
           gone == {DeleteOrder[i] : i \in 1..n}
<1>1. n = 0 => gone = {}
  OBVIOUS
<1>2. n # 0 => "ticket" \in gone
  <2>1. n # 0 => 1 \in 1..n /\ DeleteOrder[1] = "ticket"  BY DEF DeleteOrder
  <2> QED  BY <2>1
<1>3. /\ ticket' = IF "ticket" \in gone THEN [ticket EXCEPT ![p] = Nothing] ELSE ticket
      /\ claimed' = IF "claimed" \in gone THEN claimed \ {p} ELSE claimed
      /\ started' = IF "started" \in gone THEN started \ {p} ELSE started
  BY DEF Deleted
<1> QED  BY <1>1, <1>2, <1>3 DEF files

LEMMA DeleteStep ==
  ASSUME LaunchInv, NEW l \in Launches, Delete(l)
  PROVE  LaunchInv'
<1> DEFINE p == launch[l].process
<1>1. /\ launch[l].at = "delete" /\ TaskOK(l) /\ p \in Identities /\ lock = l
      /\ \A k \in Launches \ {l} : launch[k].process # p
  BY TaskProcess DEF LaunchInv, Delete, At, Late
<1>2. UNCHANGED <<lock, profile, edits, processes, runtime, mods, issued>>
  BY DEF Delete, game
<1>3. ASSUME NEW n \in 0..3, Deleted(l, n), NEW task \in Tasks, Set(l, task),
             task.process = p, task.kind = launch[l].kind, task.packages = launch[l].packages,
             task.loaded = launch[l].loaded, task.edited = launch[l].edited,
             task.checked = launch[l].checked,
             task.at = "release", task.result \in {launch[l].result, "failed"},
             n # 0 => runtime[p] # "reading",
             n = 0 => runtime[p] = "reading" \/ l \in stuck',
             stuck' = stuck \/ stuck' = stuck \cup {l}
      PROVE  LaunchInv'
  <2>1. /\ launch' \in [Launches -> Tasks] /\ launch'[l] = task
        /\ \A k \in Launches \ {l} : launch'[k] = launch[k]
    BY <1>3, SetTask DEF LaunchInv
  <2>2. \A q \in Identities \ {p} : ticket'[q] = ticket[q]
    BY <1>3, Deletions DEF LaunchInv, LaunchTypeOK, files
  <2>3. ticket'[p] = Nothing \/ (n = 0 /\ UNCHANGED files)
    BY <1>1, <1>3, Deletions DEF LaunchInv, LaunchTypeOK
  <2>4. \A q \in Identities \ {p} : q \in claimed' <=> q \in claimed
    BY <1>3, Deletions
  <2>5. started' \subseteq started
    BY <1>3, Deletions
  <2>6. LaunchTypeOK'
    <3>1. ticket' \in [Identities -> Sets]
      BY <1>3, Deletions DEF LaunchInv, LaunchTypeOK, files, Sets
    <3>2. claimed' \subseteq Identities
      BY <1>3, Deletions DEF LaunchInv, LaunchTypeOK
    <3>3. stuck' \subseteq Launches
      BY <1>3 DEF LaunchInv, LaunchTypeOK
    <3> QED  BY <1>2, <2>1, <2>5, <3>1, <3>2, <3>3 DEF LaunchInv, LaunchTypeOK
  <2>7. ASSUME NEW k \in Launches  PROVE TaskOK(k)'
    <3>1. CASE k = l
      <4>1. LockHeld(l)' /\ ProcessFound(l)' /\ HandoffFresh(l)' /\ ProfileRead(l)'
            /\ SuccessAcknowledged(l)'
        BY <1>1, <1>2, <1>3, <2>1 DEF TaskOK, LockHeld, ProcessFound, HandoffFresh, ProfileRead,
           SuccessAcknowledged, Acknowledged, Early, Late
      <4>2. runtime[p] = "reading" => ticket[p] # Nothing /\ p \in claimed
        BY <1>1 DEF LaunchInv, ProcessOK, RuntimeConsistent
      <4>3. CleanedUp(l)'
        BY <1>3, <2>1, <2>3, <4>2 DEF CleanedUp, files
      <4> QED  BY <3>1, <4>1, <4>3 DEF TaskOK
    <3>2. CASE k # l
      <4>1. TaskOK(k) /\ launch'[k] = launch[k] /\ launch[k].process # p
            /\ (k \in stuck' <=> k \in stuck)
        BY <1>1, <1>3, <2>1, <3>2 DEF LaunchInv
      <4>2. launch[k].process # 0 => launch[k].process \in Identities \ {p}
        BY <4>1, ProcessCount, LaunchAssumption
        DEF LaunchInv, LaunchTypeOK, Tasks, TaskOK, ProcessFound, Identities
      <4>3. CleanedUp(k)'
        BY <2>2, <2>4, <4>1, <4>2 DEF TaskOK, CleanedUp
      <4> QED  BY <1>2, <4>1, <4>3 DEF TaskOK, LockHeld, ProcessFound, HandoffFresh, ProfileRead,
                  SuccessAcknowledged, Acknowledged
    <3> QED  BY <3>1, <3>2
  <2>8. \A k \in Launches : launch'[k].process = launch[k].process
    BY <1>3, <2>1
  <2>9. OneLaunchEach' /\ SinceAll'
    BY <1>3, <2>1, <2>8 DEF LaunchInv, OneLaunchEach, SinceAll
  <2>10. IssuedOwn'
    BY <1>2, <1>3, <2>1, TicketsKept
  <2>11. ASSUME NEW q \in Identities  PROVE ProcessOK(q)'
    <3>1. CASE q = p
      <4>1. ProcessOK(p)  BY <1>1 DEF LaunchInv
      <4>2. CASE n = 0 /\ UNCHANGED files
        BY <1>2, <3>1, <4>1, <4>2 DEF ProcessOK, FromIssued, RuntimeConsistent, files
      <4>3. CASE ticket'[p] = Nothing /\ n # 0
        BY <1>2, <1>3, <2>5, <3>1, <4>1, <4>3 DEF ProcessOK, FromIssued, RuntimeConsistent
      <4>4. n = 0 => UNCHANGED files
        BY <1>3, Deletions
      <4> QED  BY <2>3, <4>2, <4>3, <4>4
    <3>2. CASE q # p
      BY <1>2, <2>2, <2>4, <2>5, <3>2 DEF LaunchInv, ProcessOK, FromIssued, RuntimeConsistent
    <3> QED  BY <3>1, <3>2
  <2> QED  BY <2>6, <2>7, <2>9, <2>10, <2>11 DEF LaunchInv
<1>4. CASE /\ Open(p) = {} /\ Deleted(l, 3) /\ Goes(l, "release") /\ UNCHANGED stuck
  <2> DEFINE task == [launch[l] EXCEPT !.at = "release"]
  <2>1. /\ task \in Tasks /\ Set(l, task)
        /\ task.process = p /\ task.kind = launch[l].kind /\ task.packages = launch[l].packages
        /\ task.loaded = launch[l].loaded /\ task.edited = launch[l].edited
        /\ task.checked = launch[l].checked
        /\ task.at = "release" /\ task.result = launch[l].result
    BY <1>4 DEF LaunchInv, LaunchTypeOK, Tasks, Stages, Goes
  <2>2. runtime[p] # "reading"
    BY <1>4 DEF Open
  <2>3. stuck' = stuck /\ Deleted(l, 3)
    BY <1>4
  <2> HIDE DEF task
  <2> QED  BY <1>3, <2>1, <2>2, <2>3
<1>5. ASSUME NEW n \in 0..2, \A i \in 1..n : DeleteOrder[i] \notin Open(p), Deleted(l, n),
             stuck' = IF DeleteOrder[n + 1] \in Open(p) THEN stuck ELSE stuck \cup {l},
             Set(l, [launch[l] EXCEPT !.at = "release", !.result = "failed"])
      PROVE  LaunchInv'
  <2> DEFINE task == [launch[l] EXCEPT !.at = "release", !.result = "failed"]
  <2>1. /\ task \in Tasks /\ Set(l, task)
        /\ task.process = p /\ task.kind = launch[l].kind /\ task.packages = launch[l].packages
        /\ task.loaded = launch[l].loaded /\ task.edited = launch[l].edited
        /\ task.checked = launch[l].checked
        /\ task.at = "release" /\ task.result = "failed"
    BY <1>5 DEF LaunchInv, LaunchTypeOK, Tasks, Stages
  <2>2. n # 0 => runtime[p] # "reading"
    <3>1. n # 0 => 1 \in 1..n /\ DeleteOrder[1] = "ticket"  BY DEF DeleteOrder
    <3> QED  BY <1>5, <3>1 DEF Open
  <2>3. n = 0 => runtime[p] = "reading" \/ l \in stuck'
    BY <1>5 DEF Open
  <2>4. n \in 0..3 /\ Deleted(l, n) /\ (stuck' = stuck \/ stuck' = stuck \cup {l})
    BY <1>5
  <2> HIDE DEF task
  <2> QED  BY <1>3, <2>1, <2>2, <2>3, <2>4
<1> QED  BY <1>4, <1>5 DEF Delete

-----------------------------------------------------------------------------
(* The steps of the player and of the processes.                             *)

LEMMA EditProfileStep == LaunchInv /\ EditProfile => LaunchInv'
<1> SUFFICES ASSUME LaunchInv, EditProfile PROVE LaunchInv'  OBVIOUS
<1> USE DEF manager, game, files
<1>1. /\ edits' = edits + 1 /\ profile' \in SUBSET Mods /\ edits \in Nat
      /\ UNCHANGED <<launch, lock, processes, runtime, mods, ticket, claimed, started, issued, stuck>>
  BY DEF EditProfile, LaunchInv, LaunchTypeOK
<1>2. LaunchTypeOK'
  BY <1>1 DEF LaunchInv, LaunchTypeOK
<1>3. ASSUME NEW l \in Launches  PROVE TaskOK(l)'
  <2>1. TaskOK(l) /\ launch[l].checked \in Nat
    BY DEF LaunchInv, LaunchTypeOK, Tasks
  <2>2. launch[l].checked <= edits' /\ launch[l].checked # edits'
    BY <1>1, <2>1 DEF TaskOK, ProfileRead
  <2>3. ProfileRead(l)'
    BY <1>1, <2>1, <2>2 DEF TaskOK, ProfileRead
  <2> QED  BY <1>1, <2>1, <2>3 DEF TaskOK, LockHeld, ProcessFound, HandoffFresh,
              SuccessAcknowledged, Acknowledged, CleanedUp
<1>4. OneLaunchEach' /\ SinceAll' /\ IssuedOwn'
  BY <1>1 DEF LaunchInv, OneLaunchEach, SinceAll, IssuedOwn
<1>5. \A p \in Identities : ProcessOK(p)'
  BY <1>1 DEF LaunchInv, ProcessOK, FromIssued, RuntimeConsistent
<1> QED  BY <1>2, <1>3, <1>4, <1>5 DEF LaunchInv

\* A step of process p that takes nothing back: its claim stays, and so do its
\* mods once they may have been acknowledged.
LEMMA ProcessStep ==
  ASSUME LaunchInv, NEW p \in Identities, NEW stage \in RuntimeStages,
         UNCHANGED <<manager, profile, edits, issued, stuck, ticket>>,
         processes' \in processes..MaxProcesses,
         runtime' = [runtime EXCEPT ![p] = stage],
         claimed' \in {claimed, claimed \cup {p}},
         started' \in {started, started \cup {p}},
         mods' = mods
            \/ \E set \in Sets : mods' = [mods EXCEPT ![p] = set] /\ runtime[p] \in {"reading", "loading"},
         runtime[p] \in {"done", "ended"} =>
            stage = "ended" \/ \A l \in Launches : launch[l].process # p,
         ProcessOK(p)'
  PROVE  LaunchInv'
<1> USE DEF manager
<1>1. /\ \A q \in Identities \ {p} : runtime'[q] = runtime[q] /\ mods'[q] = mods[q]
      /\ runtime'[p] = stage
  BY DEF LaunchInv, LaunchTypeOK
<1>2. LaunchTypeOK'
  <2>1. runtime' \in [Identities -> RuntimeStages]
    BY DEF LaunchInv, LaunchTypeOK
  <2>2. mods' \in [Identities -> Sets]
    BY DEF LaunchInv, LaunchTypeOK
  <2>3. processes' \in 0..MaxProcesses
    BY ProcessCount, LaunchAssumption
  <2>4. claimed' \subseteq Identities /\ started' \subseteq Identities
    BY DEF LaunchInv, LaunchTypeOK
  <2> QED  BY <2>1, <2>2, <2>3, <2>4 DEF LaunchInv, LaunchTypeOK
<1>3. ASSUME NEW l \in Launches  PROVE TaskOK(l)'
  <2>1. TaskOK(l) /\ launch'[l] = launch[l]
    BY DEF LaunchInv
  <2>2. launch[l].process \in Nat /\ launch[l].process <= processes
    BY <2>1 DEF LaunchInv, LaunchTypeOK, Tasks, TaskOK, ProcessFound
  <2>3. launch[l].process <= processes'
    BY <2>2, ProcessCount, LaunchAssumption
  <2>4. Acknowledged(l) => Acknowledged(l)'
    <3>1. launch[l].process # 0 => launch[l].process \in Identities
      BY <2>2, ProcessCount, LaunchAssumption DEF Identities
    <3>2. CASE launch[l].process = p
      <4>1. Acknowledged(l) => runtime[p] \in {"done", "ended"}
        BY <3>2 DEF Acknowledged
      <4> QED  BY <1>1, <2>1, <3>2, <4>1 DEF Acknowledged
    <3>3. CASE launch[l].process # p
      BY <1>1, <2>1, <3>1, <3>3 DEF Acknowledged
    <3> QED  BY <3>2, <3>3
  <2>5. CleanedUp(l)'
    BY <2>1 DEF TaskOK, CleanedUp
  <2>6. SuccessAcknowledged(l)'
    BY <2>1, <2>4 DEF TaskOK, SuccessAcknowledged
  <2> QED  BY <2>1, <2>3, <2>5, <2>6 DEF TaskOK, LockHeld, ProcessFound, HandoffFresh, ProfileRead
<1>4. OneLaunchEach' /\ SinceAll' /\ IssuedOwn'
  BY DEF LaunchInv, OneLaunchEach, SinceAll, IssuedOwn
<1>5. ASSUME NEW q \in Identities  PROVE ProcessOK(q)'
  <2>1. CASE q = p
    BY <2>1
  <2>2. CASE q # p
    BY <1>1, <2>2 DEF LaunchInv, ProcessOK, FromIssued, RuntimeConsistent
  <2> QED  BY <2>1, <2>2
<1> QED  BY <1>2, <1>3, <1>4, <1>5 DEF LaunchInv

\* The process that starts is one no launch has, and nothing is issued for it.
LEMMA GameStartsStep == LaunchInv /\ GameStarts => LaunchInv'
<1> SUFFICES ASSUME LaunchInv, GameStarts PROVE LaunchInv'  OBVIOUS
<1>0. PICK p : p = processes + 1  OBVIOUS
<1>1. p \in Identities /\ processes' = p /\ processes' \in processes..MaxProcesses
  BY <1>0, ProcessCount, LaunchAssumption DEF GameStarts, Identities
<1>2. \A l \in Launches : launch[l].process # p
  <2> SUFFICES ASSUME NEW l \in Launches PROVE launch[l].process # p  OBVIOUS
  <2>1. launch[l].process \in Nat /\ launch[l].process <= processes
    BY DEF LaunchInv, LaunchTypeOK, Tasks, TaskOK, ProcessFound
  <2> QED  BY <1>0, <2>1, ProcessCount
<1>3. issued[p] = {}
  BY <1>0, <1>1, <1>2, ProcessCount, IssuedStarted
<1>4. /\ UNCHANGED <<manager, profile, edits, issued, stuck, ticket, claimed, started, mods>>
      /\ runtime' = [runtime EXCEPT ![p] = "waiting"]
  BY <1>1 DEF GameStarts, files
<1>5. ProcessOK(p)'
  <2>1. runtime'[p] = "waiting"
    BY <1>1, <1>4 DEF LaunchInv, LaunchTypeOK
  <2>2. ticket[p] = Nothing /\ mods[p] = Nothing /\ p \notin started
    BY <1>1, <1>3, NothingIssued
  <2> QED  BY <1>4, <2>1, <2>2 DEF ProcessOK, FromIssued, RuntimeConsistent
<1> QED  BY <1>1, <1>2, <1>4, <1>5, ProcessStep DEF RuntimeStages

LEMMA GameEndsStep ==
  ASSUME LaunchInv, NEW p \in Identities, GameEnds(p)
  PROVE  LaunchInv'
<1>1. /\ UNCHANGED <<manager, profile, edits, processes, issued, stuck, ticket, claimed, started, mods>>
      /\ runtime' = [runtime EXCEPT ![p] = "ended"]
  BY DEF GameEnds, files
<1>2. processes' \in processes..MaxProcesses
  BY <1>1, ProcessCount, LaunchAssumption
<1>3. runtime'[p] = "ended"
  BY <1>1 DEF LaunchInv, LaunchTypeOK
<1>4. ProcessOK(p)'
  BY <1>1, <1>3 DEF LaunchInv, ProcessOK, FromIssued, RuntimeConsistent
<1> QED  BY <1>1, <1>2, <1>4, ProcessStep DEF RuntimeStages

LEMMA RuntimeStepInv ==
  ASSUME LaunchInv, NEW p \in Identities, RuntimeStep(p)
  PROVE  LaunchInv'
<1> USE DEF Turns, files
<1>1. Runtime
  BY DEF RuntimeStep, Polls, Claims, Opens, Reads, Loads, Acknowledges
<1>2. processes' \in processes..MaxProcesses
  BY <1>1, ProcessCount, LaunchAssumption DEF Runtime
<1>3. ProcessOK(p) /\ runtime \in [Identities -> RuntimeStages] /\ mods \in [Identities -> Sets]
      /\ ticket[p] \in Sets
  BY DEF LaunchInv, LaunchTypeOK
<1>4. CASE Polls(p)
  <2>1. ticket[p] # Nothing => issued[p] # {}
    BY <1>3 DEF ProcessOK, FromIssued
  <2>2. ProcessOK(p)'
    BY <1>1, <1>3, <1>4, <2>1 DEF Polls, Mine, Runtime, ProcessOK, FromIssued, RuntimeConsistent
  <2> QED  BY <1>1, <1>2, <1>4, <2>2, ProcessStep DEF Polls, Runtime, RuntimeStages
<1>5. CASE Claims(p)
  <2>1. ProcessOK(p)'
    BY <1>1, <1>3, <1>5 DEF Claims, Runtime, ProcessOK, FromIssued, RuntimeConsistent
  <2> QED  BY <1>1, <1>2, <1>5, <2>1, ProcessStep DEF Claims, Runtime, RuntimeStages
<1>6. CASE Opens(p)
  <2>1. ProcessOK(p)'
    BY <1>1, <1>3, <1>6 DEF Opens, Runtime, ProcessOK, FromIssued, RuntimeConsistent
  <2> QED  BY <1>1, <1>2, <1>6, <2>1, ProcessStep DEF Opens, Runtime, RuntimeStages
<1>7. CASE Reads(p)
  <2>1. Nothing \in Sets  BY DEF Sets
  <2>2. ProcessOK(p)'
    BY <1>1, <1>3, <1>7 DEF Reads, Runtime, ProcessOK, FromIssued, RuntimeConsistent
  <2> QED  BY <1>1, <1>2, <1>3, <1>7, <2>1, <2>2, ProcessStep DEF Reads, Runtime, RuntimeStages
<1>8. CASE Loads(p)
  <2>1. Nothing \in Sets  BY DEF Sets
  <2>2. ProcessOK(p)'
    BY <1>1, <1>3, <1>8 DEF Loads, Runtime, ProcessOK, FromIssued, RuntimeConsistent
  <2> QED  BY <1>1, <1>2, <1>8, <2>1, <2>2, ProcessStep DEF Loads, Runtime, RuntimeStages
<1>9. CASE Acknowledges(p)
  <2>1. ProcessOK(p)'
    BY <1>1, <1>3, <1>9 DEF Acknowledges, Runtime, ProcessOK, FromIssued, RuntimeConsistent
  <2> QED  BY <1>1, <1>2, <1>9, <2>1, ProcessStep DEF Acknowledges, Runtime, RuntimeStages
<1> QED  BY <1>4, <1>5, <1>6, <1>7, <1>8, <1>9 DEF RuntimeStep

-----------------------------------------------------------------------------
(* The theorems.                                                             *)

LEMMA NextInv == LaunchInv /\ [Next]_vars => LaunchInv'
<1> SUFFICES ASSUME LaunchInv, [Next]_vars PROVE LaunchInv'  OBVIOUS
<1>1. ASSUME NEW l \in Launches, Begin(l, "modded") \/ Begin(l, "vanilla")  PROVE LaunchInv'
  BY <1>1, BeginStep
<1>2. ASSUME NEW l \in Launches, LaunchStep(l)  PROVE LaunchInv'
  BY <1>2, LockedStep, CheckStep, LoadProfileStep, ValidateStep, StartStep, AwaitGameStep,
     WriteHandoffStep, AwaitRuntimeStep, RecordStep, DeleteStep, ReleaseStep DEF LaunchStep
<1>3. ASSUME NEW l \in Launches, ManagerDies(l)  PROVE LaunchInv'
  BY <1>3, ManagerDiesStep
<1>4. CASE EditProfile  BY <1>4, EditProfileStep
<1>5. CASE GameStarts  BY <1>5, GameStartsStep
<1>6. ASSUME NEW p \in Identities, GameEnds(p)  PROVE LaunchInv'
  BY <1>6, GameEndsStep
<1>7. ASSUME NEW p \in Identities, RuntimeStep(p)  PROVE LaunchInv'
  BY <1>7, RuntimeStepInv
<1>8. CASE UNCHANGED vars
  <2>1. UNCHANGED <<launch, lock, profile, edits, processes, runtime, mods, ticket, claimed,
                    started, issued, stuck>>
    BY <1>8 DEF vars, manager, game, files
  <2>2. LaunchTypeOK'
    BY <2>1 DEF LaunchInv, LaunchTypeOK
  <2>3. \A l \in Launches : TaskOK(l)'
    BY <2>1 DEF LaunchInv, TaskOK, LockHeld, ProcessFound, HandoffFresh, ProfileRead,
       SuccessAcknowledged, Acknowledged, CleanedUp
  <2>4. OneLaunchEach' /\ SinceAll' /\ IssuedOwn' /\ \A p \in Identities : ProcessOK(p)'
    BY <2>1 DEF LaunchInv, OneLaunchEach, SinceAll, IssuedOwn, ProcessOK, FromIssued,
       RuntimeConsistent
  <2> QED  BY <2>2, <2>3, <2>4 DEF LaunchInv
<1> QED  BY <1>1, <1>2, <1>3, <1>4, <1>5, <1>6, <1>7, <1>8 DEF Next

\* The state of every launch keeps the inductive invariant: the launches, the
\* tickets and the runtimes agree on whose every process is.
THEOREM LaunchInvariant == Spec => []LaunchInv
BY InitInv, NextInv, PTL DEF Spec

\* All tickets of a process are of one launch, and so are one.
LEMMA OneTicket ==
  ASSUME LaunchInv, NEW p \in Identities, NEW k \in Launches, NEW l \in Launches,
         NEW s \in Sets, NEW t \in Sets, <<k, s>> \in issued[p], <<l, t>> \in issued[p]
  PROVE  k = l /\ s = t
<1>1. /\ launch[k].process = p /\ launch[k].packages = s
      /\ launch[l].process = p /\ launch[l].packages = t
  BY DEF LaunchInv, IssuedOwn
<1>2. k = l
  BY <1>1 DEF LaunchInv, OneLaunchEach, Identities
<1> QED  BY <1>1, <1>2

LEMMA InvTicketForOneProcess == LaunchInv => TicketForOneProcess
<1> SUFFICES ASSUME LaunchInv, NEW p \in Identities
             PROVE  /\ Cardinality(issued[p]) <= 1
                    /\ mods[p] # Nothing => \E l \in Launches : <<l, mods[p]>> \in issued[p]
  BY DEF TicketForOneProcess
<1>1. issued[p] \subseteq Launches \X Sets
  BY DEF LaunchInv, LaunchTypeOK
<1>2. \A pair1, pair2 \in issued[p] : pair1 = pair2
  <2> SUFFICES ASSUME NEW pair1 \in issued[p], NEW pair2 \in issued[p]
               PROVE  pair1 = pair2
    OBVIOUS
  <2>1. PICK k \in Launches, s \in Sets : pair1 = <<k, s>>  BY <1>1
  <2>2. PICK l \in Launches, t \in Sets : pair2 = <<l, t>>  BY <1>1
  <2> QED  BY <2>1, <2>2, OneTicket
<1>3. Cardinality(issued[p]) <= 1
  <2>1. CASE issued[p] = {}
    BY <2>1, FS_EmptySet
  <2>2. CASE issued[p] # {}
    <3>1. PICK pair \in issued[p] : TRUE  BY <2>2
    <3>2. issued[p] = {pair}  BY <1>2, <3>1
    <3>3. Cardinality(issued[p]) = 1  BY <3>2, FS_Singleton
    <3> QED  BY <3>3
  <2> QED  BY <2>1, <2>2
<1>4. mods[p] # Nothing => \E l \in Launches : <<l, mods[p]>> \in issued[p]
  BY DEF LaunchInv, ProcessOK, FromIssued
<1> QED  BY <1>3, <1>4

\* No ticket is for a process it was not written for, and none is a process's
\* second: whatever managers, players and runtimes do, and die doing.
THEOREM TicketForOneProcessHolds == Spec => []TicketForOneProcess
BY LaunchInvariant, InvTicketForOneProcess, PTL

LEMMA InvSuccessTruthful == LaunchInv => SuccessTruthful
<1> SUFFICES ASSUME LaunchInv, NEW l \in Launches,
                    launch[l].kind = "modded", launch[l].result = "success"
             PROVE  /\ mods[launch[l].process] = launch[l].packages
                    /\ ~launch[l].edited => mods[launch[l].process] = launch[l].loaded
  BY DEF SuccessTruthful
<1> DEFINE p == launch[l].process
<1>1. p # 0 /\ mods[p] # Nothing
  BY DEF LaunchInv, TaskOK, SuccessAcknowledged, Acknowledged
<1>2. p \in Identities
  BY <1>1, ProcessCount, LaunchAssumption
  DEF LaunchInv, LaunchTypeOK, Tasks, TaskOK, ProcessFound, Identities
<1>3. PICK k \in Launches : <<k, mods[p]>> \in issued[p]
  BY <1>1, <1>2 DEF LaunchInv, ProcessOK, FromIssued
<1>4. mods[p] \in Sets
  BY <1>2 DEF LaunchInv, LaunchTypeOK
<1>5. launch[k].process = p /\ launch[k].packages = mods[p]
  BY <1>2, <1>3, <1>4 DEF LaunchInv, IssuedOwn
<1>6. k = l
  BY <1>1, <1>5 DEF LaunchInv, OneLaunchEach
<1>7. ~launch[l].edited => launch[l].packages = launch[l].loaded
  BY <1>1 DEF LaunchInv, TaskOK, ProfileRead
<1> QED  BY <1>5, <1>6, <1>7

\* The success of a modded launch is that its game has its mods.
THEOREM SuccessTruthfulHolds == Spec => []SuccessTruthful
BY LaunchInvariant, InvSuccessTruthful, PTL


LEMMA InvVanillaStaysVanilla == LaunchInv => VanillaStaysVanilla
<1> SUFFICES ASSUME LaunchInv, NEW l \in Launches,
                    launch[l].kind = "vanilla", launch[l].result = "success",
                    mods[launch[l].process] # Nothing
             PROVE  FALSE
  BY DEF VanillaStaysVanilla
<1> DEFINE p == launch[l].process
<1>1. CASE p \in Identities
  <2>1. PICK k \in Launches : <<k, mods[p]>> \in issued[p]
    BY <1>1 DEF LaunchInv, ProcessOK, FromIssued
  <2>2. mods[p] \in Sets
    BY <1>1 DEF LaunchInv, LaunchTypeOK
  <2>3. launch[k].process = p /\ launch[k].kind = "modded"
    BY <1>1, <2>1, <2>2 DEF LaunchInv, IssuedOwn
  <2> QED  BY <1>1, <2>3 DEF LaunchInv, OneLaunchEach, Identities
<1>2. CASE p \notin Identities
  <2>1. p = 0
    BY <1>2, ProcessCount, LaunchAssumption
    DEF LaunchInv, LaunchTypeOK, Tasks, TaskOK, ProcessFound, Identities
  <2> QED  BY <2>1 DEF LaunchInv, TaskOK, ProcessFound
<1> QED  BY <1>1, <1>2

\* A game launched vanilla has no mods, though another launch may hand its own
\* game a ticket at the same time.
THEOREM VanillaStaysVanillaHolds == Spec => []VanillaStaysVanilla
BY LaunchInvariant, InvVanillaStaysVanilla, PTL

LEMMA InvNoReusableIntent == LaunchInv => NoReusableIntent
BY DEF LaunchInv, TaskOK, CleanedUp, NoReusableIntent, At

\* What a launch that has ended itself leaves cannot be claimed any more.
THEOREM NoReusableIntentHolds == Spec => []NoReusableIntent
BY LaunchInvariant, InvNoReusableIntent, PTL

=============================================================================
