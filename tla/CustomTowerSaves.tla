--------------------------- MODULE CustomTowerSaves ---------------------------
(***************************************************************************)
(* The save guard: at each start guard_match_saves() moves match saves     *)
(* that name towers no mod registered out of the game's folder, and back   *)
(* once those towers are registered again.  It runs on the startup worker  *)
(* while the game, which the end of the registration has released, may     *)
(* already use the same files, and the process may end between any two     *)
(* changes of the disk.                                                    *)
(*                                                                         *)
(* A match save is the number of the save the game wrote, so that two      *)
(* files hold the same save when they hold the same number.                *)
(***************************************************************************)
EXTENDS Integers, Sequences, FiniteSets

CONSTANTS
    Towers,     \* custom towers, one public ID and native name each
    Files,      \* kMatchSaves
    MaxSaves,   \* bound on the saves the game writes
    MaxOlder    \* bound on the copies of one file kept as held.n

ASSUME SavesAssumption ==
    Files # {} /\ MaxSaves \in Nat \ {0} /\ MaxOlder \in Nat

VARIABLES
    saved,      \* saved[s]: the file save s was written to, the towers it names
    live,       \* live[f]: what the game's folder holds
    held,       \* held[f]: what the loader's folder holds
    older,      \* older[f]: what it holds under held.1, held.2, ...
    registered, \* the towers of the running game's registry
    guard,      \* how far guard_match_saves() and its move_file() have come
    given,      \* history: saves the game has replaced or deleted
    risked,     \* history: saves a move of the guard may have overwritten or
                \* deleted: see InTheWay, LeftBehind and CopyLoses
    doubled     \* history: saves a move has copied whose source was not, or
                \* not only by the guard, removed

vars == <<saved, live, held, older, registered, guard, given, risked, doubled>>
disk == <<live, held, older>>

Nothing == 0
Partial == -1   \* what is left of a copy that did not come to its end
Saves == 1..Len(saved)
Contents == {Nothing, Partial} \cup Saves
Moving == {"archive", "hold", "restore"}
Stages == {"off", "skipped", "next", "done"} \cup Moving
Steps == {"rename", "copying", "remove"}

\* The file in hand, how far its move is and what it copies, and the files
\* still to look at and those that could not be held.
Guard(stage, todo, file) ==
    [stage |-> stage, step |-> "rename", copy |-> Nothing,
     todo |-> todo, file |-> file, failed |-> {}]

Init ==
    /\ saved = <<>>
    /\ live = [f \in Files |-> Nothing]
    /\ held = [f \in Files |-> Nothing]
    /\ older = [f \in Files |-> <<>>]
    /\ registered = {}
    /\ guard = Guard("off", {}, CHOOSE f \in Files : TRUE)
    /\ given = {}
    /\ risked = {}
    /\ doubled = {}

-----------------------------------------------------------------------------
(* The game. *)

\* A game in which the loader registers some towers, whichever mods are enabled
\* and load, and then guards the saves.  Registration is over before the guard.
Starts ==
    /\ guard.stage = "off"
    /\ registered' \in SUBSET Towers
    /\ guard' = Guard("next", Files, guard.file)
    /\ UNCHANGED <<saved, disk, given, risked, doubled>>

\* A game without a guard: a vanilla launch, or the folder is not found.
StartsUnguarded ==
    /\ guard.stage = "off"
    /\ registered' \in SUBSET Towers
    /\ guard' = Guard("skipped", {}, guard.file)
    /\ UNCHANGED <<saved, disk, given, risked, doubled>>

\* The process ends, whatever the guard is doing.  A copy that was being made
\* is left as it is, and one that was made has its source still there.
Ends ==
    /\ guard.stage # "off"
    /\ guard' = Guard("off", {}, guard.file)
    /\ registered' = {}
    /\ doubled' = IF guard.step = "remove" THEN doubled \cup ({guard.copy} \cap Saves)
                  ELSE doubled
    /\ UNCHANGED <<saved, disk, given, risked>>

\* What the game saves now the guard may destroy without having looked at it:
\* its move replaces the file when it restores, and deletes it after having
\* copied what was there before when it holds.
InTheWay(f) ==
    /\ guard.file = f
    /\ \/ guard.stage = "restore" /\ guard.step # "remove"
       \/ guard.stage = "hold" /\ guard.step # "rename"

\* The player's next save replaces the one in the game's folder, and can only
\* name towers the game knows.
GameSaves(f) ==
    /\ guard.stage # "off" /\ Len(saved) < MaxSaves
    /\ \E names \in SUBSET registered :
         saved' = Append(saved, [file |-> f, names |-> names])
    /\ live' = [live EXCEPT ![f] = Len(saved')]
    /\ given' = given \cup ({live[f]} \cap Saves)
    /\ risked' = IF InTheWay(f) THEN risked \cup {Len(saved')} ELSE risked
    /\ UNCHANGED <<held, older, registered, guard, doubled>>

\* The match is over, and its save goes.
GameDeletes(f) ==
    /\ guard.stage # "off" /\ live[f] # Nothing
    /\ live' = [live EXCEPT ![f] = Nothing]
    /\ given' = given \cup ({live[f]} \cap Saves)
    /\ UNCHANGED <<saved, held, older, registered, guard, risked, doubled>>

-----------------------------------------------------------------------------
(* move_file(): a rename or, if that fails, a copy and then a removal.  The  *)
(* game may use the files between any two of these steps, and while the copy *)
(* is being made.                                                            *)

\* What a move of the guard takes and where it goes; an archive goes to a name
\* that is free.
Source == IF guard.stage = "hold" THEN live[guard.file] ELSE held[guard.file]
Target ==
    CASE guard.stage = "archive" -> older[guard.file][Len(older[guard.file])]
      [] guard.stage = "hold" -> held[guard.file]
      [] guard.stage = "restore" -> live[guard.file]

\* The source then holds from, and the target to.
Leaves(from, to) ==
    LET f == guard.file IN
    \/ /\ guard.stage = "archive"
       /\ live' = live /\ held' = [held EXCEPT ![f] = from]
       /\ older' = [older EXCEPT ![f] = IF guard.step = "rename" THEN Append(@, to)
                                        ELSE [@ EXCEPT ![Len(@)] = to]]
    \/ /\ guard.stage = "hold"
       /\ live' = [live EXCEPT ![f] = from] /\ held' = [held EXCEPT ![f] = to]
       /\ older' = older
    \/ /\ guard.stage = "restore"
       /\ live' = [live EXCEPT ![f] = to] /\ held' = [held EXCEPT ![f] = from]
       /\ older' = older

\* A move that can start; MaxOlder bounds the archives.
CanMove ==
    /\ guard.step = "rename" /\ Source # Nothing
    /\ guard.stage = "archive" => Len(older[guard.file]) < MaxOlder

Copying(step, copy) ==
    guard' = [guard EXCEPT !.step = step, !.copy = copy] /\ UNCHANGED registered

\* move_file() returns.  The result of an archive is ignored, and that of a
\* restore only logged.
Returns(moved) ==
    /\ guard' = [guard EXCEPT
         !.stage = IF @ = "archive" THEN "hold" ELSE "next",
         !.step = "rename", !.copy = Nothing,
         !.failed = IF guard.stage = "hold" /\ ~moved THEN @ \cup {guard.file} ELSE @]
    /\ UNCHANGED registered

\* The save an archive has left for the hold to replace.
LeftBehind == IF guard.stage = "archive" THEN {held[guard.file]} \cap Saves ELSE {}

Rename ==
    /\ guard.stage \in Moving /\ CanMove
    /\ Leaves(Nothing, Source)
    /\ Returns(TRUE)
    /\ UNCHANGED <<saved, given, risked, doubled>>

\* Neither the rename nor the copy can be started.
MoveFails ==
    /\ guard.stage \in Moving /\ guard.step = "rename"
    /\ Returns(FALSE)
    /\ risked' = risked \cup LeftBehind
    /\ UNCHANGED <<saved, disk, given, doubled>>

\* The copy begins, and what the target held is gone.
\* Deviation: the source is removed before the copy exists.
CopyBeginsRemoving ==
    /\ guard.stage \in Moving /\ CanMove
    /\ Leaves(Nothing, Partial)
    /\ Copying("copying", Source)
    /\ UNCHANGED <<saved, given, risked, doubled>>
CopyBegins ==
    /\ guard.stage \in Moving /\ CanMove
    /\ Leaves(Source, Partial)
    /\ Copying("copying", Source)
    /\ UNCHANGED <<saved, given, risked, doubled>>

\* The copy fails on the way and leaves a part, or nothing, or what the game
\* has made of the file since.  An archive that leaves nothing has not begun.
CopyFails ==
    /\ guard.step = "copying"
    /\ \E rest \in {Partial, Target} \cup (IF guard.stage = "archive" THEN {} ELSE {Nothing}) :
         Leaves(Source, rest)
    /\ Returns(FALSE)
    /\ risked' = risked \cup LeftBehind
    /\ UNCHANGED <<saved, given, doubled>>

\* What the copy has read when the game has used the source meanwhile: what
\* was there when it began, what is there now, or some of each.
CopyReads ==
    {guard.copy} \cup IF Source = guard.copy THEN {} ELSE {Partial, Source} \ {Nothing}

\* The copy is made.  Where the game has used the target meanwhile, either may
\* have come last; the copy is lost if the game has.
CopyLoses == Target # Partial
CopyEnds ==
    /\ guard.step = "copying"
    /\ \/ /\ \E c \in CopyReads : Leaves(Source, c) /\ Copying("remove", c)
          /\ UNCHANGED risked
       \/ /\ CopyLoses
          /\ Copying("remove", guard.copy)
          /\ risked' = risked \cup ({guard.copy} \cap Saves)
          /\ UNCHANGED disk
    /\ UNCHANGED <<saved, given, doubled>>

\* The source goes, whatever it holds by now; it may have gone already.
Removes ==
    /\ guard.step = "remove"
    /\ Leaves(Nothing, Target)
    /\ Returns(TRUE)
    /\ doubled' = IF Source = guard.copy THEN doubled
                  ELSE doubled \cup ({guard.copy} \cap Saves)
    /\ UNCHANGED <<saved, given, risked>>

RemoveFails ==
    /\ guard.step = "remove"
    /\ Returns(FALSE)
    /\ doubled' = doubled \cup ({guard.copy} \cap Saves)
    /\ UNCHANGED <<saved, disk, given, risked>>

-----------------------------------------------------------------------------
(* The guard. *)

Readable(c) == c \in Saves
Missing(c) == IF Readable(c) THEN saved[c].names \ registered ELSE {}

\* What to do with file f; the towers of one save are looked up together.
Holds(f) == live[f] # Nothing /\ Missing(live[f]) # {}
\* Deviation: a held save comes back without a look at its towers.
RestoresBlindly(f) == live[f] = Nothing /\ Readable(held[f])
Restores(f) ==
    live[f] = Nothing /\ Readable(held[f]) /\ Missing(held[f]) = {}

\* Deviation: an older held save is no reason to wait.
HoldStageOverwriting(f) == "hold"
HoldStage(f) == IF held[f] # Nothing THEN "archive" ELSE "hold"

\* The look at a file, after which its move may find another one there.
Look(f) ==
    /\ guard.stage = "next" /\ f \in guard.todo
    /\ guard' = [guard EXCEPT
         !.todo = @ \ {f},
         !.file = f,
         !.stage = IF Holds(f) THEN HoldStage(f)
                   ELSE IF Restores(f) THEN "restore" ELSE "next"]
    /\ UNCHANGED <<saved, disk, registered, given, risked, doubled>>

Finished ==
    /\ guard.stage = "next" /\ guard.todo = {}
    /\ guard' = [guard EXCEPT !.stage = "done"]
    /\ UNCHANGED <<saved, disk, registered, given, risked, doubled>>

MoveFile ==
    \/ Rename
    \/ MoveFails
    \/ CopyBegins
    \/ CopyFails
    \/ CopyEnds
    \/ Removes
    \/ RemoveFails

Next ==
    \/ Starts
    \/ StartsUnguarded
    \/ Ends
    \/ \E f \in Files : GameSaves(f) \/ GameDeletes(f) \/ Look(f)
    \/ MoveFile
    \/ Finished

Spec == Init /\ [][Next]_vars

-----------------------------------------------------------------------------
(* Properties. *)

\* The places of file f, as the contents found there.
Stored(f) == <<live[f], held[f]>> \o older[f]
Copies(s) == UNION {{<<f, i>> : i \in {j \in 1..Len(Stored(f)) : Stored(f)[j] = s}} : f \in Files}

\* Every file holds a save, a part of one, or nothing; and the guard is at
\* one file at a time.
SavesTypeOK ==
    /\ saved \in Seq([file : Files, names : SUBSET Towers])
    /\ live \in [Files -> Contents] /\ held \in [Files -> Contents]
    /\ older \in [Files -> Seq(Contents)]
    /\ registered \subseteq Towers
    /\ guard \in [stage : Stages, step : Steps, copy : Contents,
                  todo : SUBSET Files, file : Files, failed : SUBSET Files]
    /\ given \cup risked \cup doubled \subseteq Saves

\* A match save the game has not replaced itself is in one of the three places
\* of its own file, whatever the game does between the steps of a move and
\* whenever the process ends.  Three kinds of saves may be gone: one a failed
\* archive left where the next hold replaces it; one the game wrote while the
\* guard was restoring the same file, or was copying it away to remove it; and
\* a copy whose target the game used while it was being made.
SaveKept ==
    \A s \in Saves \ (given \cup risked) : \E f \in Files :
        f = saved[s].file /\ \E i \in 1..Len(Stored(f)) : Stored(f)[i] = s

\* The save a copy has been made of and whose source is about to go.
InTransit == IF guard.step = "remove" THEN {guard.copy} ELSE {}

\* A save is in one place, and nowhere once the game has replaced it: the guard
\* never brings back a match the player has left behind.  The exceptions are a
\* save that was copied and whose source could not be removed, or was not
\* reached, or had been replaced or deleted by the game before the guard came
\* to remove it.
SaveInOnePlace ==
    \A s \in Saves \ (doubled \cup InTransit) :
        Cardinality(Copies(s)) <= IF s \in given THEN 0 ELSE 1

\* Every save is kept, and kept once.
SaveKeptOnce == SaveKept /\ SaveInOnePlace

\* When the guard is done, no save the game can read names a tower it does not
\* know, except in a file it could not hold.
LiveSavesKnown ==
    guard.stage = "done" =>
        \A f \in Files \ guard.failed : Missing(live[f]) = {}

=============================================================================
