------------------------------ MODULE ModProfiles ------------------------------
(***************************************************************************)
(* The manager's profiles and packages on disk.  A profile is a file under *)
(* its name, with the list of its mods; a package is a file under its ID   *)
(* and version.  Every click in the manager starts a task that reads,      *)
(* checks and writes without a lock (ProfileService, ProfileModService,    *)
(* ModPackageService): two tasks interleave at each await, and the manager *)
(* may end between any two steps.                                          *)
(***************************************************************************)
EXTENDS LoadOrder, Subsequences

CONSTANTS
    Names,          \* profile names
    Tasks,
    Packages,       \* records [id, version]
    Manifests,      \* the manifests the packages may have
    Stored,         \* lists the first profile may have
    Imports,        \* lists a file chosen for import may hold
    MaxOperations   \* bound: operations begun

VARIABLES
    manifest,
    file,       \* by name: Nothing or [pid, mods, checked]
    installed,  \* packages with a file
    task,
    begun,      \* operations begun
    live,       \* history: profiles created and not deleted
    raced       \* history: packages deleted by a task that overlapped another

vars == <<manifest, file, installed, task, begun, live, raced>>

Nothing == [pid |-> -1]
Idle == [at |-> "idle"]
Busy(t) == task[t] # Idle

\* The enabled mods of a list, in its order: EnabledInProfileOrder().
Enabled(mods) ==
    LET on == Among(mods, {m \in ToSet(mods) : m.enabled}) IN
    [i \in 1..Len(on) |-> [id |-> on[i].id, version |-> on[i].version]]

\* ValidateAsync() of a list, against the packages there are at that moment.
Valid(mods) ==
    ToSet(Enabled(mods)) \subseteq installed /\ Resolves(Enabled(mods), manifest)

Entry(p, enabled) == [id |-> p.id, version |-> p.version, enabled |-> enabled]
\* Lists, as they come from a profile's file or from one chosen for import.
IsEntry(m) == m.enabled \in BOOLEAN /\ m = Entry(m, m.enabled)
IsList(mods) == mods \in Seq(ToSet(mods)) /\ \A m \in ToSet(mods) : IsEntry(m)

ASSUME FiniteAssumption == IsFiniteSet(Names) /\ IsFiniteSet(Tasks)
ASSUME PackageAssumption == \A p \in Packages : p = [id |-> p.id, version |-> p.version]
ASSUME ListAssumption == \A mods \in Stored \cup Imports : IsList(mods)

Profile(pid, mods, checked) == [pid |-> pid, mods |-> mods, checked |-> checked]

Init ==
    /\ manifest \in Manifests
    /\ installed = Packages
    /\ \E n \in Names, mods \in Stored :
          /\ Valid(mods)
          /\ file = [m \in Names |-> IF m = n THEN Profile(0, mods, TRUE) ELSE Nothing]
    /\ task = [t \in Tasks |-> Idle]
    /\ begun = 0
    /\ live = {0}
    /\ raced = {}

-----------------------------------------------------------------------------
(* Tasks.  alone: no other task ran while this one did.  A task that works   *)
(* on a profile writes it under to when it makes a new file, and goes on as  *)
(* then says.                                                                *)

ProfileTask(at, n, to, then, profile) ==
    [at |-> at, name |-> n, to |-> to, then |-> then, pid |-> profile.pid,
     mods |-> profile.mods, checked |-> profile.checked, alone |-> TRUE]

Begin(t, record) ==
    LET others == {u \in Tasks \ {t} : Busy(u)} IN
    /\ ~Busy(t)
    /\ begun < MaxOperations
    /\ begun' = begun + 1
    /\ task' = [u \in Tasks |->
                  IF u = t THEN [record EXCEPT !.alone = others = {}]
                  ELSE IF u \in others THEN [task[u] EXCEPT !.alone = FALSE]
                  ELSE task[u]]

Goes(t, record) == task' = [task EXCEPT ![t] = record] /\ UNCHANGED begun
Steps(t, at) == Goes(t, [task[t] EXCEPT !.at = at])
Ends(t) == Goes(t, Idle)

\* A profile other than the task's own that a task which ran alone would not meet.
Displaced(t, n) ==
    IF task[t].alone \/ file[n] = Nothing THEN {} ELSE {file[n].pid} \ {task[t].pid}

-----------------------------------------------------------------------------
(* Changes of a profile's list: load it, check the whole new list, save it.  *)

Holding(mods, id) == {i \in 1..Len(mods) : mods[i].id = id}

\* EnableAsync(): a mod that is not in the list comes last.
Enable(mods, p) ==
    IF Holding(mods, p.id) = {} THEN Append(mods, Entry(p, TRUE))
    ELSE [i \in 1..Len(mods) |-> IF mods[i].id = p.id THEN Entry(p, TRUE) ELSE mods[i]]

Disable(mods, i) == [mods EXCEPT ![i].enabled = FALSE]
ChangeVersion(mods, i, version) == [mods EXCEPT ![i].version = version]
TakeOut(mods, i) == RemoveAt(mods, i)
Move(mods, i, j) == InsertAt(RemoveAt(mods, i), j, mods[i])

Changes(mods) ==
    {Enable(mods, p) : p \in Packages}
    \cup {Disable(mods, i) : i \in 1..Len(mods)}
    \cup {ChangeVersion(mods, i, p.version) : i \in 1..Len(mods), p \in Packages}
    \cup {TakeOut(mods, i) : i \in 1..Len(mods)}
    \cup {Move(mods, i, j) : i, j \in 1..Len(mods)}

EditLoads(t) ==
    /\ \E n \in Names : /\ file[n] # Nothing
                        /\ \E mods \in Changes(file[n].mods) :
                              Begin(t, ProfileTask("check", n, n, "idle",
                                                   Profile(file[n].pid, mods, TRUE)))
    /\ UNCHANGED <<manifest, file, installed, live, raced>>

\* TrySaveAsync(): a list that does not validate is not saved.
EditChecks(t) ==
    /\ task[t].at = "check"
    /\ IF Valid(task[t].mods) THEN Steps(t, "reload") ELSE Ends(t)
    /\ UNCHANGED <<manifest, file, installed, live, raced>>

\* SaveModsAsync() loads the profile again; what it writes is the list it is given.
SaveModsLoads(t) ==
    /\ task[t].at = "reload"
    /\ LET now == file[task[t].name] IN
       IF now = Nothing THEN Ends(t)
       ELSE Goes(t, [task[t] EXCEPT !.at = "replace", !.pid = now.pid])
    /\ UNCHANGED <<manifest, file, installed, live, raced>>

\* Deviation: the list of now with this change's list put over it, mod by mod.
ToWriteMerged(t) ==
    LET now == file[task[t].name] IN
    IF now = Nothing THEN task[t].mods
    ELSE FoldLeft(LAMBDA mods, m :
                    IF m.enabled THEN Enable(mods, [id |-> m.id, version |-> m.version])
                    ELSE mods, now.mods, task[t].mods)
ToWrite(t) == task[t].mods

Replace(t) ==
    /\ task[t].at = "replace"
    /\ file' = [file EXCEPT ![task[t].name] = Profile(task[t].pid, ToWrite(t), task[t].checked)]
    /\ live' = live \ Displaced(t, task[t].name)
    /\ Ends(t)
    /\ UNCHANGED <<manifest, installed, raced>>

\* RecordLaunchAsync(): the profile as loaded, with one more launch.
RecordLaunchLoads(t) ==
    /\ \E n \in Names : /\ file[n] # Nothing
                        /\ Begin(t, ProfileTask("replace", n, n, "idle", file[n]))
    /\ UNCHANGED <<manifest, file, installed, live, raced>>

-----------------------------------------------------------------------------
(* Profiles come, are copied, renamed and deleted.  A new file never         *)
(* replaces one that is there.                                               *)

Free(n) == file[n] = Nothing

CreateBegins(t) ==
    /\ \E n \in Names : /\ Free(n)
                        /\ Begin(t, ProfileTask("new", n, n, "idle", Profile(begun + 1, <<>>, TRUE)))
    /\ UNCHANGED <<manifest, file, installed, live, raced>>

\* ImportProfile_Click(): a new profile, then its list from the file, unchecked.
ImportBegins(t) ==
    /\ \E n \in Names, mods \in Imports :
          /\ Free(n)
          /\ Begin(t, ProfileTask("new", n, n, "reload", Profile(begun + 1, mods, FALSE)))
    /\ UNCHANGED <<manifest, file, installed, live, raced>>

DuplicateLoads(t) ==
    /\ \E n, to \in Names :
          /\ file[n] # Nothing /\ Free(to)
          /\ Begin(t, ProfileTask("new", to, to, "idle",
                                  Profile(begun + 1, file[n].mods, file[n].checked)))
    /\ UNCHANGED <<manifest, file, installed, live, raced>>

\* Deviation: the old file goes first.
RenameOrderReversed == <<"old", "new">>
\* RenameAsync(): the new file, then the old one goes.
RenameOrder == <<"new", "old">>

\* A name whose file is the profile's own only replaces it.
RenameLoads(t) ==
    /\ \E n, to \in Names :
          /\ file[n] # Nothing
          /\ \/ n = to /\ Begin(t, ProfileTask("replace", n, n, "idle", file[n]))
             \/ Free(to) /\ Begin(t, ProfileTask(RenameOrder[1], n, to, RenameOrder[2], file[n]))
    /\ UNCHANGED <<manifest, file, installed, live, raced>>

\* SaveNewAsync(): throws when the name has been taken since.
SaveNew(t) ==
    /\ task[t].at = "new"
    /\ LET written == IF task[t].then = "reload" THEN Profile(task[t].pid, <<>>, TRUE)
                      ELSE Profile(task[t].pid, task[t].mods, task[t].checked) IN
       IF ~Free(task[t].to) THEN Ends(t) /\ UNCHANGED <<file, live>>
       ELSE /\ file' = [file EXCEPT ![task[t].to] = written]
            /\ live' = IF task[t].then = "old" THEN live ELSE live \cup {task[t].pid}
            /\ IF task[t].then = "idle" THEN Ends(t)
               ELSE Goes(t, [task[t] EXCEPT !.at = task[t].then, !.then = "idle"])
    /\ UNCHANGED <<manifest, installed, raced>>

\* The old file is deleted; when that fails, the new one is.
DeleteOld(t) ==
    /\ task[t].at = "old"
    /\ \E n \in {task[t].name, task[t].to} :
          /\ file' = [file EXCEPT ![n] = Nothing]
          /\ live' = live \ Displaced(t, n)
    /\ IF task[t].then = "new" THEN Goes(t, [task[t] EXCEPT !.at = "new", !.then = "idle"]) ELSE Ends(t)
    /\ UNCHANGED <<manifest, installed, raced>>

DeleteProfile(t) ==
    /\ ~Busy(t)
    /\ \E n \in Names : /\ file[n] # Nothing
                        /\ file' = [file EXCEPT ![n] = Nothing]
                        /\ live' = live \ {file[n].pid}
    /\ UNCHANGED <<manifest, installed, task, begun, raced>>

-----------------------------------------------------------------------------
(* Packages.                                                                 *)

\* InstallAsync(): CopyAtomically() does not replace a file that is there.
Install(t) ==
    /\ ~Busy(t)
    /\ \E p \in Packages \ installed : installed' = installed \cup {p} /\ raced' = raced \ {p}
    /\ UNCHANGED <<manifest, file, task, begun, live>>

\* UninstallPackageAsync(): a profile holds a package its list names, enabled or not.
Refers(n, p) ==
    file[n] # Nothing /\ \E on \in BOOLEAN : Entry(p, on) \in ToSet(file[n].mods)

UninstallLists(t) ==
    /\ \E p \in installed :
          /\ \A n \in Names : ~Refers(n, p)
          /\ Begin(t, [at |-> "uninstall", package |-> p, alone |-> TRUE])
    /\ UNCHANGED <<manifest, file, installed, live, raced>>

UninstallDeletes(t) ==
    /\ task[t].at = "uninstall"
    /\ installed' = installed \ {task[t].package}
    /\ raced' = IF task[t].alone THEN raced ELSE raced \cup {task[t].package}
    /\ Ends(t)
    /\ UNCHANGED <<manifest, file, live>>

-----------------------------------------------------------------------------
(* The manager's process ends and is started again: files stay.              *)

Restart ==
    /\ \E t \in Tasks : Busy(t)
    /\ task' = [t \in Tasks |-> Idle]
    /\ UNCHANGED <<manifest, file, installed, begun, live, raced>>

Next ==
    \/ \E t \in Tasks :
          \/ EditLoads(t) \/ EditChecks(t) \/ SaveModsLoads(t) \/ Replace(t)
          \/ RecordLaunchLoads(t)
          \/ CreateBegins(t) \/ ImportBegins(t) \/ DuplicateLoads(t) \/ RenameLoads(t)
          \/ SaveNew(t) \/ DeleteOld(t) \/ DeleteProfile(t)
          \/ Install(t) \/ UninstallLists(t) \/ UninstallDeletes(t)
    \/ Restart

Spec == Init /\ [][Next]_vars

-----------------------------------------------------------------------------
(* Properties.                                                               *)

\* Whatever tasks overlap and wherever the manager ends, a list that was not
\* just imported resolves: its enabled mods have their dependencies at fitting
\* versions and an order, because what SaveModsAsync() writes is the very list
\* TrySaveAsync() validated.  The packages it enables are installed, unless one
\* was uninstalled by a task that overlapped another.
StoredValid ==
    \A n \in Names : (file[n] # Nothing /\ file[n].checked) =>
        /\ Resolves(Enabled(file[n].mods), manifest)
        /\ ToSet(Enabled(file[n].mods)) \subseteq installed \cup raced

\* A profile that was created and not deleted is in some file, even when the
\* manager ends in the middle of RenameAsync(); only a task that overlapped
\* another may write over or delete a profile that is not its own.
ProfileKept ==
    \A pid \in live : \E n \in Names : file[n] # Nothing /\ file[n].pid = pid

\* No overlap of tasks and no end of the manager leaves a list that does not
\* load, or takes a profile away.
ProfilesSound == StoredValid /\ ProfileKept

=============================================================================
