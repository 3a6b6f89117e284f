------------------------------ MODULE GameLaunch ------------------------------
(***************************************************************************)
(* The launch of a game.  Managers, under a lock file in the game's        *)
(* directory, start the game, find its process, and for a modded launch    *)
(* leave a ticket for that process and wait until its runtime has loaded   *)
(* the ticket's mods and acknowledged them.  The runtime in every game     *)
(* process waits a while for a ticket of its own, claims it, and runs      *)
(* vanilla without one.  Waits end at any time, managers and games may be  *)
(* killed at any point, and the player may start the game himself or edit  *)
(* the profile meanwhile.                                                  *)
(*                                                                         *)
(* Processes are numbered as they start, so a number is an identity: a     *)
(* process ID and its start time.                                          *)
(***************************************************************************)
EXTENDS Integers, FiniteSets

CONSTANTS
    Launches,       \* launches asked for, by one manager or by several
    MaxProcesses,   \* bound on the game processes
    Mods,
    ValidProfiles,  \* sets of enabled mods that validate
    MaxEdits        \* bound on the edits of the profile

ASSUME LaunchAssumption ==
    /\ MaxProcesses \in Nat /\ MaxEdits \in Nat
    /\ ValidProfiles \subseteq SUBSET Mods
    /\ "nobody" \notin Launches /\ "nothing" \notin Mods

VARIABLES
    launch,     \* launch[l]: what the manager's task for l is doing
    lock,       \* who holds request.lock
    profile,    \* the enabled mods of the selected profile, as saved
    edits,      \* edits so far
    processes,  \* how many game processes have been started
    runtime,    \* runtime[p]: what process p is doing
    mods,       \* mods[p]: the packages its runtime has loaded
    ticket,     \* ticket[p]: the file <identity>.json
    claimed,    \* claimed: the identities with a file .claimed
    started,    \* started: ... with a file .started
    issued,     \* history: issued[p]: the tickets written for p
    stuck       \* history: launches some file of which could not be deleted

manager == <<launch, lock>>
game == <<processes, runtime, mods>>
files == <<ticket, claimed, started>>
vars == <<manager, profile, edits, game, files, issued, stuck>>

Nobody == "nobody"
Nothing == {"nothing"}   \* no file; not a set of mods
Identities == 1..MaxProcesses
Running == {p \in 1..processes : runtime[p] # "ended"}

Stages == {"idle", "locked", "check", "profile", "validate", "start", "await_game",
           "handoff", "await_runtime", "record", "delete", "release", "over"}
Task(kind, at) ==
    [kind |-> kind, at |-> at, loaded |-> Nothing, packages |-> Nothing, checked |-> 0,
     edited |-> FALSE, since |-> 0, process |-> 0, result |-> "none"]

Init ==
    /\ launch = [l \in Launches |-> Task("none", "idle")]
    /\ lock = Nobody
    /\ profile \in ValidProfiles /\ edits = 0
    /\ processes = 0
    /\ runtime = [p \in Identities |-> "ended"]
    /\ mods = [p \in Identities |-> Nothing]
    /\ ticket = [p \in Identities |-> Nothing]
    /\ claimed = {} /\ started = {}
    /\ issued = [p \in Identities |-> {}]
    /\ stuck = {}

-----------------------------------------------------------------------------
(* The manager.                                                              *)

At(l, stage) == launch[l].at = stage
Set(l, task) == launch' = [launch EXCEPT ![l] = task]
Goes(l, stage) == Set(l, [launch[l] EXCEPT !.at = stage])
\* A launch that ends with this result, through its finally blocks.
Ending(l, result) ==
    [launch[l] EXCEPT !.result = result,
        !.at = IF launch[l].kind = "modded" /\ launch[l].process # 0 THEN "delete" ELSE "release"]
Ends(l, result) == Set(l, Ending(l, result))

\* Deviation: the lock file is shared.
FreeAlways == TRUE
\* LaunchIsolation.Acquire(): the file is opened for nobody else.
Free == lock = Nobody

Begin(l, kind) ==
    /\ At(l, "idle")
    /\ IF Free
       THEN lock' = l /\ Set(l, Task(kind, "locked"))
       ELSE UNCHANGED lock /\ Set(l, [Task(kind, "over") EXCEPT !.result = "failed"])
    /\ UNCHANGED <<profile, edits, game, files, issued, stuck>>

Manager == UNCHANGED <<lock, profile, edits, game, files, issued, stuck>>

\* IsGameRunning()
Locked(l) ==
    /\ At(l, "locked")
    /\ IF Running # {} THEN Ends(l, "failed") ELSE Goes(l, "check")
    /\ Manager

\* The game, the loader and, before a modded launch, the profile validate.
Check(l) ==
    /\ At(l, "check")
    /\ \/ Ends(l, "failed")
       \/ launch[l].kind = "vanilla" /\ Goes(l, "start")
       \/ launch[l].kind = "modded" /\ profile \in ValidProfiles
          /\ Set(l, [launch[l] EXCEPT !.at = "profile", !.checked = edits])
    /\ Manager

LoadProfile(l) ==
    /\ At(l, "profile")
    /\ \/ Set(l, [launch[l] EXCEPT !.at = "validate", !.loaded = profile])
       \/ Ends(l, "failed")
    /\ Manager

\* ValidateAsync() again, on the profile as it is by now: an invalid one has no
\* packages, and is launched so.
Resolved(enabled) == IF enabled \in ValidProfiles THEN enabled ELSE {}

Validate(l) ==
    /\ At(l, "validate")
    /\ Set(l, [launch[l] EXCEPT !.at = "start", !.packages = Resolved(profile),
                                !.edited = edits # launch[l].checked])
    /\ Manager

\* Start(): the game comes up later, if it does.
Start(l) ==
    /\ At(l, "start")
    /\ \/ Set(l, [launch[l] EXCEPT !.at = "await_game", !.since = processes])
       \/ Ends(l, "failed")
    /\ Manager

\* AwaitGameProcessAsync(): any process of the game that started since, and it
\* must still be there to be asked its start time.
Fresh(l) == {p \in Running : p > launch[l].since}

AwaitGame(l) ==
    /\ At(l, "await_game")
    /\ \/ \E p \in Fresh(l) :
            IF launch[l].kind = "modded"
            THEN Set(l, [launch[l] EXCEPT !.at = "handoff", !.process = p])
            ELSE Set(l, [launch[l] EXCEPT !.at = "release", !.process = p, !.result = "success"])
       \/ Ends(l, "failed")
    /\ Manager

\* WriteRuntimeHandoffAsync(): needs the profile's entry of every package.
WriteHandoff(l) ==
    LET p == launch[l].process IN
    /\ At(l, "handoff")
    /\ \/ /\ launch[l].packages \subseteq launch[l].loaded /\ ticket[p] = Nothing
          /\ Goes(l, "await_runtime")
          /\ ticket' = [ticket EXCEPT ![p] = launch[l].packages]
          /\ issued' = [issued EXCEPT ![p] = @ \cup {<<l, launch[l].packages>>}]
       \/ /\ Set(l, [launch[l] EXCEPT !.at = "release", !.result = "failed"])
          /\ UNCHANGED <<ticket, issued>>
    /\ UNCHANGED <<lock, profile, edits, game, claimed, started, stuck>>

AwaitRuntime(l) ==
    /\ At(l, "await_runtime")
    /\ \/ launch[l].process \in started /\ Goes(l, "record")
       \/ Ends(l, "failed")
    /\ Manager

\* RecordLaunchAsync() of a launch that worked; the profile may be gone.
Record(l) ==
    /\ At(l, "record")
    /\ Ends(l, "success") \/ Ends(l, "failed")
    /\ Manager

\* The finally block: the ticket, then the claim, then the acknowledgment.  A
\* file cannot be deleted while the runtime has it open, nor sometimes for other
\* reasons; what comes after it stays, and the launch has failed.
\* Deviation: the claim goes first.
DeleteOrderReversed == <<"claimed", "ticket", "started">>
DeleteOrder == <<"ticket", "claimed", "started">>

Deleted(l, n) ==
    LET p == launch[l].process
        gone == {DeleteOrder[i] : i \in 1..n} IN
    /\ ticket' = IF "ticket" \in gone THEN [ticket EXCEPT ![p] = Nothing] ELSE ticket
    /\ claimed' = IF "claimed" \in gone THEN claimed \ {p} ELSE claimed
    /\ started' = IF "started" \in gone THEN started \ {p} ELSE started

Open(p) == IF runtime[p] = "reading" THEN {"ticket"} ELSE {}

Delete(l) ==
    /\ At(l, "delete")
    /\ \/ Open(launch[l].process) = {} /\ Deleted(l, 3) /\ Goes(l, "release") /\ UNCHANGED stuck
       \/ /\ \E n \in 0..2 :
               /\ \A i \in 1..n : DeleteOrder[i] \notin Open(launch[l].process)
               /\ Deleted(l, n)
               /\ stuck' = IF DeleteOrder[n + 1] \in Open(launch[l].process)
                           THEN stuck ELSE stuck \cup {l}
          /\ Set(l, [launch[l] EXCEPT !.at = "release", !.result = "failed"])
    /\ UNCHANGED <<lock, profile, edits, game, issued>>

\* The lock file is closed as the launch returns.
\* Deviation: a launch that failed keeps its lock.
ReleasedOnSuccess(l) == IF launch[l].result = "success" THEN Nobody ELSE lock
Released(l) == Nobody

Release(l) ==
    /\ At(l, "release")
    /\ lock' = Released(l)
    /\ Goes(l, "over")
    /\ UNCHANGED <<profile, edits, game, files, issued, stuck>>

\* The manager is killed; its files stay, and its lock is free.
ManagerDies(l) ==
    /\ ~At(l, "idle") /\ ~At(l, "over")
    /\ Set(l, [launch[l] EXCEPT !.at = "over", !.result = "killed"])
    /\ lock' = IF lock = l THEN Nobody ELSE lock
    /\ UNCHANGED <<profile, edits, game, files, issued, stuck>>

LaunchStep(l) ==
    \/ Locked(l) \/ Check(l) \/ LoadProfile(l) \/ Validate(l) \/ Start(l) \/ AwaitGame(l)
    \/ WriteHandoff(l) \/ AwaitRuntime(l) \/ Record(l) \/ Delete(l) \/ Release(l)

-----------------------------------------------------------------------------
(* The player and Steam.                                                     *)

EditProfile ==
    /\ edits < MaxEdits /\ edits' = edits + 1
    /\ profile' \in SUBSET Mods
    /\ UNCHANGED <<manager, game, files, issued, stuck>>

GameStarts ==
    /\ processes < MaxProcesses
    /\ processes' = processes + 1
    /\ runtime' = [runtime EXCEPT ![processes'] = "waiting"]
    /\ UNCHANGED <<manager, profile, edits, mods, files, issued, stuck>>

GameEnds(p) ==
    /\ p \in Running
    /\ runtime' = [runtime EXCEPT ![p] = "ended"]
    /\ UNCHANGED <<manager, profile, edits, processes, mods, files, issued, stuck>>

-----------------------------------------------------------------------------
(* The runtime of process p.                                                 *)

Turns(p, from, to) == runtime[p] = from /\ runtime' = [runtime EXCEPT ![p] = to]
Runtime == UNCHANGED <<manager, profile, edits, processes, issued, stuck>>

\* initialize_worker() polls for its own ticket, for ten seconds.
Mine(p) == ticket[p] # Nothing

Polls(p) ==
    /\ \/ Mine(p) /\ Turns(p, "waiting", "seen")
       \/ Turns(p, "waiting", "vanilla")
    /\ Runtime /\ UNCHANGED <<mods, files>>

\* consume_launch_ticket(): the claim must be a new file, ...
Claims(p) ==
    /\ IF p \in claimed
       THEN Turns(p, "seen", "vanilla") /\ UNCHANGED claimed
       ELSE Turns(p, "seen", "claimed") /\ claimed' = claimed \cup {p}
    /\ Runtime /\ UNCHANGED <<mods, ticket, started>>

\* ... the ticket must still be there, ...
Opens(p) ==
    /\ Turns(p, "claimed", IF ticket[p] # Nothing THEN "reading" ELSE "vanilla")
    /\ Runtime /\ UNCHANGED <<mods, files>>

\* Deviation: the acknowledgment is of the ticket, and loading comes after it.
ReadsAcknowledging(p) ==
    /\ Turns(p, "reading", "loading") \/ Turns(p, "reading", "vanilla")
    /\ Runtime
    /\ mods' = [mods EXCEPT ![p] = IF runtime'[p] = "loading" THEN ticket[p] ELSE Nothing]
    /\ started' \in {started, started \cup {p}}
    /\ UNCHANGED <<ticket, claimed>>

\* ... and have the right form, process, time and directory.
Reads(p) ==
    /\ Turns(p, "reading", "loading") \/ Turns(p, "reading", "vanilla")
    /\ Runtime
    /\ mods' = [mods EXCEPT ![p] = IF runtime'[p] = "loading" THEN ticket[p] ELSE Nothing]
    /\ UNCHANGED files

\* load_active_mods() loads all the packages or rolls back, ...
Loads(p) ==
    /\ \/ Turns(p, "loading", "loaded") /\ UNCHANGED mods
       \/ Turns(p, "loading", "vanilla") /\ mods' = [mods EXCEPT ![p] = Nothing]
    /\ Runtime /\ UNCHANGED files

\* ... and the acknowledgment follows, if it can be written.
Acknowledges(p) ==
    /\ Turns(p, "loaded", "done")
    /\ started' \in {started, started \cup {p}}
    /\ Runtime /\ UNCHANGED <<mods, ticket, claimed>>

RuntimeStep(p) ==
    Polls(p) \/ Claims(p) \/ Opens(p) \/ Reads(p) \/ Loads(p) \/ Acknowledges(p)

-----------------------------------------------------------------------------

Next ==
    \/ \E l \in Launches :
         Begin(l, "modded") \/ Begin(l, "vanilla") \/ LaunchStep(l) \/ ManagerDies(l)
    \/ EditProfile
    \/ GameStarts
    \/ \E p \in Identities : GameEnds(p) \/ RuntimeStep(p)

Spec == Init /\ [][Next]_vars

\* A manager that is not killed goes on, and all its waits time out.
FairSpec == Spec /\ \A l \in Launches : WF_vars(LaunchStep(l))

-----------------------------------------------------------------------------
(* Properties.                                                               *)

\* A runtime loads mods only from a ticket some launch wrote for that very
\* process, and a process gets one ticket: no intent is used for another game,
\* and none is used twice.
TicketForOneProcess ==
    \A p \in Identities :
        /\ Cardinality(issued[p]) <= 1
        /\ mods[p] # Nothing => \E l \in Launches : <<l, mods[p]>> \in issued[p]

\* A modded launch that reports success found its process with exactly the
\* packages of the profile loaded, unless the profile was edited meanwhile;
\* then it has what the profile resolved to afterwards.
SuccessTruthful ==
    \A l \in Launches : launch[l].kind = "modded" /\ launch[l].result = "success" =>
        LET p == launch[l].process IN
        /\ mods[p] = launch[l].packages
        /\ ~launch[l].edited => mods[p] = launch[l].loaded

\* The game a vanilla launch reports never has mods, whoever else is launching.
VanillaStaysVanilla ==
    \A l \in Launches : launch[l].kind = "vanilla" /\ launch[l].result = "success" =>
        mods[launch[l].process] = Nothing

\* "No reusable intent remains": a launch that is over, unless it was killed or
\* could not delete a file that nobody was reading, leaves no ticket to claim.
NoReusableIntent ==
    \A l \in Launches \ stuck :
        At(l, "over") /\ launch[l].result # "killed" /\ launch[l].process # 0 =>
            \/ ticket[launch[l].process] = Nothing
            \/ launch[l].process \in claimed

\* Every launch ends, and the lock is free again for the next one.
LaunchEnds ==
    \A l \in Launches : (~At(l, "idle")) ~> (At(l, "over") /\ lock # l)

=============================================================================
