-------------------------- MODULE CustomTowerProofs --------------------------
(***************************************************************************)
(* The safety of CustomTowerSaves and of CustomTowerXp.                    *)
(*                                                                         *)
(* For all towers and files and every number of saves, the save guard      *)
(* loses no save and keeps none twice, with the exceptions that SaveKept   *)
(* and SaveInOnePlace name, and leaves no save in the game's folder that   *)
(* the game cannot read.  A move replaces its target, so that what the     *)
(* target held is lost unless something else is known of it: HoldSafe      *)
(* before the guard holds a save, RestoreSafe before it restores one.  A   *)
(* move that copies is followed by CopyUnderWay while it lasts, and by     *)
(* TransitTwice between the copy and the removal of its source.            *)
(*                                                                         *)
(* For all towers, addresses and amounts, the hooks count all XP and count *)
(* it once.  What a tower has is spread over its node, its track and its   *)
(* progress, and only the three together tell it: SeenBy, and TakenFrom    *)
(* while the game writes its profile.                                      *)
(***************************************************************************)
EXTENDS CustomTowerSaves, CustomTowerXp, InductionLemmas, FiniteSetTheorems,
        SequenceTheorems, TLAPS

-----------------------------------------------------------------------------
(* The saves.                                                                *)

InPlace(s) ==
    \/ live[saved[s].file] = s
    \/ held[saved[s].file] = s
    \/ \E i \in DOMAIN older[saved[s].file] : older[saved[s].file][i] = s

\* File f does not hold save s; it does not hold it twice.
GoneFrom(f, s) ==
    live[f] # s /\ held[f] # s /\ \A i \in DOMAIN older[f] : older[f][i] # s
SingleIn(f, s) ==
    /\ live[f] = s => held[f] # s
    /\ \A i \in DOMAIN older[f] : older[f][i] = s =>
          /\ live[f] # s
          /\ held[f] # s
          /\ \A j \in DOMAIN older[f] : older[f][j] = s => i = j

\* A file holds only saves of its own, and only such a save is copied.
Owns(f) ==
    /\ live[f] \in Saves => saved[live[f]].file = f
    /\ held[f] \in Saves => saved[held[f]].file = f
    /\ \A i \in DOMAIN older[f] : older[f][i] \in Saves => saved[older[f][i]].file = f
Own ==
    /\ \A f \in Files : Owns(f)
    /\ guard.copy \in Saves => saved[guard.copy].file = guard.file

AllKept == \A s \in Saves \ (given \cup risked) : InPlace(s)
OneEach ==
    \A s \in Saves \ (doubled \cup InTransit) : \A f \in Files :
        SingleIn(f, s) /\ (s \in given => GoneFrom(f, s))

\* What the copy under way is a copy of, and where it is made.
ArchiveCopy(f) ==
    /\ Len(older[f]) \in DOMAIN older[f]
    /\ older[f][Len(older[f])] = IF guard.step = "copying" THEN Partial ELSE guard.copy
    /\ held[f] = guard.copy
HoldCopy(f) ==
    /\ held[f] = IF guard.step = "copying" THEN Partial ELSE guard.copy
    /\ guard.copy \in Saves => live[f] = guard.copy \/ guard.copy \in given
    /\ live[f] \in Saves => live[f] = guard.copy \/ live[f] \in risked
RestoreCopy(f) ==
    /\ held[f] = guard.copy
    /\ guard.step = "remove" /\ guard.copy \in Saves =>
          live[f] = guard.copy \/ guard.copy \in given \cup risked
CopyUnderWay ==
    IF guard.step = "rename" THEN guard.copy = Nothing ELSE
        \/ guard.stage = "archive" /\ ArchiveCopy(guard.file)
        \/ guard.stage = "hold" /\ HoldCopy(guard.file)
        \/ guard.stage = "restore" /\ RestoreCopy(guard.file)

\* A save in transit is where it comes from and where it goes, and nowhere else.
TransitTwice ==
    \A s \in InTransit \cap (Saves \ doubled) :
        /\ live[guard.file] = s => guard.stage # "archive" /\ s \notin given
        /\ guard.stage = "archive" => s \notin given
        /\ \A i \in DOMAIN older[guard.file] : older[guard.file][i] = s =>
              guard.stage = "archive" /\ i = Len(older[guard.file])

\* The save the next hold replaces is archived or already risked.
HoldSafe ==
    guard.stage = "hold" /\ guard.step = "rename" /\ held[guard.file] \in Saves =>
        \/ held[guard.file] \in risked
        \/ \E i \in DOMAIN older[guard.file] : older[guard.file][i] = held[guard.file]

\* A restore replaces only a save written since the guard looked, and neither
\* that nor what it brings back names an unknown tower.
RestoreSafe ==
    guard.stage = "restore" =>
        /\ guard.step # "remove" /\ live[guard.file] \in Saves => live[guard.file] \in risked
        /\ Missing(live[guard.file]) = {}
        /\ Missing(held[guard.file]) = {}

\* What the guard has dealt with, the game can read.
LookedAt ==
    guard.stage \notin {"off", "skipped"} =>
        \A f \in Files \ (guard.failed \cup guard.todo) :
            \/ guard.stage \in Moving /\ f = guard.file
            \/ Missing(live[f]) = {}
DoneIsAll == guard.stage = "done" => guard.todo = {}

SavesInv ==
    /\ SavesTypeOK
    /\ Own
    /\ AllKept
    /\ OneEach
    /\ CopyUnderWay
    /\ TransitTwice
    /\ HoldSafe
    /\ RestoreSafe
    /\ LookedAt
    /\ DoneIsAll

----------------------------------------------------------------------------
(* Lemmas about the moves                                                  *)

\* What the guard becomes.
GuardStates ==
  [stage : Stages, step : Steps, copy : Contents,
   todo : SUBSET Files, file : Files, failed : SUBSET Files]

\* What the types say of the guard and of what the folders hold.
LEMMA Folders ==
  ASSUME SavesTypeOK
  PROVE  /\ guard \in GuardStates /\ guard.file \in Files /\ guard.copy \in Contents
         /\ live \in [Files -> Contents] /\ held \in [Files -> Contents]
         /\ \A f \in Files : live[f] \in Contents /\ held[f] \in Contents
         /\ \A f \in Files : \A i \in DOMAIN older[f] : older[f][i] \in Contents
         /\ \A f \in Files : older[f] \in Seq(Contents) /\ Len(older[f]) \in Nat
         /\ Nothing \notin Saves /\ Partial \notin Saves /\ Nothing # Partial
         /\ Nothing \in Contents /\ Partial \in Contents
         /\ ((given \cup risked) \cup doubled) \subseteq Saves
         /\ \A s \in Saves : saved[s].file \in Files /\ s \in Contents
<1>1. saved \in Seq([file : Files, names : SUBSET Towers])  BY DEF SavesTypeOK
<1>2. \A s \in Saves : saved[s].file \in Files /\ s \in Contents
  <2> TAKE s \in Saves
  <2>1. saved[s] \in [file : Files, names : SUBSET Towers]
    BY <1>1, ElementOfSeq DEF Saves
  <2> QED  BY <2>1 DEF Contents
<1>3. \A f \in Files : \A i \in DOMAIN older[f] : older[f][i] \in Contents
  BY DEF SavesTypeOK
<1>4. \A f \in Files : older[f] \in Seq(Contents) /\ Len(older[f]) \in Nat
  BY DEF SavesTypeOK
<1> QED
  BY <1>2, <1>3, <1>4 DEF SavesTypeOK, GuardStates, Saves, Contents, Nothing, Partial

\* How the guard goes on after a move, and between the steps of one.
GoesOn(stage, failed) ==
  /\ guard'.stage = stage /\ guard'.step = "rename" /\ guard'.copy = Nothing
  /\ guard'.failed = failed
StaysAt(step, copy) ==
  /\ guard'.stage = guard.stage /\ guard'.step = step /\ guard'.copy = copy
  /\ guard'.failed = guard.failed
SameFile ==
  /\ guard' \in GuardStates /\ registered' = registered
  /\ guard'.todo = guard.todo /\ guard'.file = guard.file

\* What the guard is after a move has returned.
LEMMA ReturnsShape ==
  ASSUME guard \in GuardStates, NEW moved \in BOOLEAN, Returns(moved)
  PROVE  /\ SameFile
         /\ GoesOn(IF guard.stage = "archive" THEN "hold" ELSE "next",
                   IF guard.stage = "hold" /\ ~moved THEN guard.failed \cup {guard.file}
                                                     ELSE guard.failed)
  BY DEF Returns, SameFile, GoesOn, GuardStates, Stages, Moving, Steps, Contents

\* What it is while a move copies.
LEMMA CopyingShape ==
  ASSUME guard \in GuardStates, NEW step \in Steps, NEW c \in Contents, Copying(step, c)
  PROVE  SameFile /\ StaysAt(step, c)
  BY DEF Copying, SameFile, StaysAt, GuardStates

\* The file in hand then holds l and h, its older saves have c in place n, and
\* all else is as it was.
Becomes(l, h) ==
  /\ live' \in [Files -> Contents] /\ held' \in [Files -> Contents]
  /\ live'[guard.file] = l /\ held'[guard.file] = h
  /\ \A g \in Files \ {guard.file} : live'[g] = live[g] /\ held'[g] = held[g]
Puts(n, c) ==
  /\ older' \in [Files -> Seq(Contents)]
  /\ DOMAIN older'[guard.file] = DOMAIN older[guard.file] \cup {n}
  /\ older'[guard.file][n] = c
  /\ Len(older'[guard.file]) = n
  /\ \A i \in DOMAIN older[guard.file] : i # n => older'[guard.file][i] = older[guard.file][i]
  /\ \A g \in Files \ {guard.file} : older'[g] = older[g]

\* A step that leaves the disk alone.
LEMMA Unmoved ==
  ASSUME SavesTypeOK, UNCHANGED disk
  PROVE  Becomes(live[guard.file], held[guard.file]) /\ older' = older
  BY Folders DEF disk, Becomes

\* A hold takes from the game's folder and puts in the loader's.
LEMMA LeavesHold ==
  ASSUME SavesTypeOK, guard.stage = "hold",
         NEW from \in Contents, NEW to \in Contents, Leaves(from, to)
  PROVE  Becomes(from, to) /\ older' = older
  BY Folders DEF Leaves, Becomes

\* A restore takes from the loader's folder and puts in the game's.
LEMMA LeavesRestore ==
  ASSUME SavesTypeOK, guard.stage = "restore",
         NEW from \in Contents, NEW to \in Contents, Leaves(from, to)
  PROVE  Becomes(to, from) /\ older' = older
  BY Folders DEF Leaves, Becomes

\* An archive takes from the loader's folder and puts under the last name there.
LEMMA LeavesArchive ==
  ASSUME SavesTypeOK, guard.stage = "archive",
         NEW from \in Contents, NEW to \in Contents, Leaves(from, to)
  PROVE  /\ Becomes(live[guard.file], from)
         /\ guard.step = "rename" => Puts(Len(older[guard.file]) + 1, to)
         /\ guard.step # "rename" /\ Len(older[guard.file]) \in DOMAIN older[guard.file]
               => Puts(Len(older[guard.file]), to)
<1> DEFINE f == guard.file
           n == Len(older[f])
<1>0. f \in Files /\ older[f] \in Seq(Contents) /\ n \in Nat /\ DOMAIN older[f] = 1..n
      /\ older \in [Files -> Seq(Contents)]
  BY Folders DEF SavesTypeOK
<1>1. live' = live /\ held' = [held EXCEPT ![f] = from]
      /\ older' = [older EXCEPT ![f] = IF guard.step = "rename" THEN Append(older[f], to)
                                       ELSE [older[f] EXCEPT ![n] = to]]
  BY DEF Leaves
<1>2. Becomes(live[f], from)
  BY <1>1, Folders DEF Becomes
<1>3. ASSUME guard.step = "rename" PROVE Puts(n + 1, to)
  <2>1. older'[f] = Append(older[f], to) /\ \A g \in Files \ {f} : older'[g] = older[g]
    BY <1>0, <1>1, <1>3
  <2>2. Append(older[f], to) \in Seq(Contents) /\ Len(Append(older[f], to)) = n + 1
    BY <1>0
  <2>3. older' \in [Files -> Seq(Contents)]
    BY <1>0, <1>1, <1>3, <2>2
  <2>4. /\ Append(older[f], to)[n + 1] = to /\ DOMAIN Append(older[f], to) = 1..(n + 1)
        /\ \A i \in 1..n : Append(older[f], to)[i] = older[f][i]
    BY <1>0
  <2>5. 1..(n + 1) = 1..n \cup {n + 1}
    BY <1>0
  <2> QED  BY <1>0, <2>1, <2>2, <2>3, <2>4, <2>5 DEF Puts
<1>4. ASSUME guard.step # "rename", n \in DOMAIN older[f] PROVE Puts(n, to)
  <2> DEFINE new == [older[f] EXCEPT ![n] = to]
  <2>1. older'[f] = new /\ \A g \in Files \ {f} : older'[g] = older[g]
    BY <1>0, <1>1, <1>4
  <2>2. /\ new \in Seq(Contents) /\ Len(new) = n /\ DOMAIN new = DOMAIN older[f]
        /\ new[n] = to /\ \A i \in DOMAIN older[f] : i # n => new[i] = older[f][i]
    BY <1>0, <1>4
  <2>3. older' = [older EXCEPT ![f] = new]
    BY <1>1, <1>4
  <2> HIDE DEF new
  <2>4. older' \in [Files -> Seq(Contents)]
    BY <1>0, <2>2, <2>3
  <2> QED  BY <1>4, <2>1, <2>2, <2>4 DEF Puts
<1> QED  BY <1>2, <1>3, <1>4

\* What a move leaves alone.
LEMMA MoveFrame ==
  ASSUME SavesTypeOK, MoveFile
  PROVE  /\ guard.stage \in Moving \/ guard.step # "rename"
         /\ saved' = saved /\ given' = given /\ SameFile
         /\ risked \subseteq risked' /\ risked' \subseteq Saves
         /\ doubled \subseteq doubled' /\ doubled' \subseteq Saves
         /\ Saves' = Saves /\ Contents' = Contents
<1>0. guard \in GuardStates /\ Source \in Contents /\ CopyReads \subseteq Contents
      /\ risked \subseteq Saves /\ doubled \subseteq Saves /\ guard.copy \in Contents
  BY Folders DEF Source, CopyReads
<1>1. CASE Rename
  BY <1>0, <1>1, ReturnsShape DEF Rename, Saves, Contents
<1>2. CASE MoveFails
  BY <1>0, <1>2, ReturnsShape DEF MoveFails, LeftBehind, Saves, Contents
<1>3. CASE CopyBegins
  BY <1>0, <1>3, CopyingShape DEF CopyBegins, Steps, Saves, Contents
<1>4. CASE CopyFails
  BY <1>0, <1>4, ReturnsShape DEF CopyFails, LeftBehind, Saves, Contents
<1>5. CASE CopyEnds
  BY <1>0, <1>5, CopyingShape DEF CopyEnds, Steps, Saves, Contents
<1>6. CASE Removes
  BY <1>0, <1>6, ReturnsShape DEF Removes, Saves, Contents
<1>7. CASE RemoveFails
  BY <1>0, <1>7, ReturnsShape DEF RemoveFails, Saves, Contents
<1> QED  BY <1>1, <1>2, <1>3, <1>4, <1>5, <1>6, <1>7 DEF MoveFile

\* What each step of a hold comes to.
LEMMA HoldOutcome ==
  ASSUME SavesTypeOK, CopyUnderWay, MoveFile, guard.stage = "hold",
         NEW l, NEW h, NEW c, l = live[guard.file], h = held[guard.file], c = guard.copy
  PROVE  /\ older' = older
         /\ \/ /\ guard.step = "rename" /\ l # Nothing
               /\ Becomes(Nothing, l) /\ GoesOn("next", guard.failed)
               /\ risked' = risked /\ doubled' = doubled
            \/ /\ guard.step = "rename"
               /\ Becomes(l, h) /\ GoesOn("next", guard.failed \cup {guard.file})
               /\ risked' = risked /\ doubled' = doubled
            \/ /\ guard.step = "rename" /\ l # Nothing
               /\ Becomes(l, Partial) /\ StaysAt("copying", l)
               /\ risked' = risked /\ doubled' = doubled
            \/ /\ guard.step = "copying"
               /\ Becomes(l, Partial) \/ Becomes(l, Nothing)
               /\ GoesOn("next", guard.failed \cup {guard.file})
               /\ risked' = risked /\ doubled' = doubled
            \/ /\ guard.step = "copying"
               /\ \E r \in CopyReads : Becomes(l, r) /\ StaysAt("remove", r)
               /\ risked' = risked /\ doubled' = doubled
            \/ /\ guard.step = "remove"
               /\ Becomes(Nothing, h) /\ GoesOn("next", guard.failed)
               /\ risked' = risked
               /\ doubled' = IF l = c THEN doubled ELSE doubled \cup ({c} \cap Saves)
            \/ /\ guard.step = "remove"
               /\ Becomes(l, h) /\ GoesOn("next", guard.failed \cup {guard.file})
               /\ risked' = risked /\ doubled' = doubled \cup ({c} \cap Saves)
<1>0. /\ guard \in GuardStates /\ l \in Contents /\ h \in Contents /\ c \in Contents
      /\ Source = l /\ Target = h /\ Nothing \in Contents /\ Partial \in Contents
      /\ CopyReads \subseteq Contents /\ LeftBehind = {}
  BY Folders DEF Source, Target, CopyReads, LeftBehind
<1>1. \A x, y \in Contents : Leaves(x, y) => Becomes(x, y) /\ older' = older
  BY LeavesHold
<1>2. CASE Rename
  BY <1>0, <1>1, <1>2, ReturnsShape DEF Rename, CanMove
<1>3. CASE MoveFails
  BY <1>0, <1>3, ReturnsShape, Unmoved DEF MoveFails
<1>4. CASE CopyBegins
  BY <1>0, <1>1, <1>4, CopyingShape DEF CopyBegins, CanMove, Steps
<1>5. CASE CopyFails
  <2>1. h = Partial  BY <1>5 DEF CopyFails, CopyUnderWay, HoldCopy
  <2> QED  BY <1>0, <1>1, <1>5, <2>1, ReturnsShape DEF CopyFails
<1>6. CASE CopyEnds
  <2>1. h = Partial  BY <1>6 DEF CopyEnds, CopyUnderWay, HoldCopy
  <2> QED  BY <1>0, <1>1, <1>6, <2>1, CopyingShape DEF CopyEnds, CopyLoses, Steps
<1>7. CASE Removes
  BY <1>0, <1>1, <1>7, ReturnsShape DEF Removes
<1>8. CASE RemoveFails
  BY <1>0, <1>8, ReturnsShape, Unmoved DEF RemoveFails
<1> QED  BY <1>2, <1>3, <1>4, <1>5, <1>6, <1>7, <1>8 DEF MoveFile

\* What each step of a restore comes to: what is held stays the copy's source.
LEMMA RestoreOutcome ==
  ASSUME SavesTypeOK, CopyUnderWay, MoveFile, guard.stage = "restore",
         NEW l, NEW h, NEW c, l = live[guard.file], h = held[guard.file], c = guard.copy
  PROVE  /\ older' = older
         /\ \/ /\ guard.step = "rename" /\ h # Nothing
               /\ Becomes(h, Nothing) /\ GoesOn("next", guard.failed)
               /\ risked' = risked /\ doubled' = doubled
            \/ /\ guard.step = "rename"
               /\ Becomes(l, h) /\ GoesOn("next", guard.failed)
               /\ risked' = risked /\ doubled' = doubled
            \/ /\ guard.step = "rename" /\ h # Nothing
               /\ Becomes(Partial, h) /\ StaysAt("copying", h)
               /\ risked' = risked /\ doubled' = doubled
            \/ /\ guard.step = "copying"
               /\ \/ Becomes(Partial, h)
                  \/ Becomes(Nothing, h)
                  \/ Becomes(l, h)
               /\ GoesOn("next", guard.failed)
               /\ risked' = risked /\ doubled' = doubled
            \/ /\ guard.step = "copying" /\ h = c
               /\ Becomes(h, h) /\ StaysAt("remove", h)
               /\ risked' = risked /\ doubled' = doubled
            \/ /\ guard.step = "copying" /\ h = c
               /\ Becomes(l, h) /\ StaysAt("remove", h)
               /\ risked' = risked \cup ({h} \cap Saves) /\ doubled' = doubled
            \/ /\ guard.step = "remove" /\ h = c
               /\ Becomes(l, Nothing) /\ GoesOn("next", guard.failed)
               /\ risked' = risked /\ doubled' = doubled
            \/ /\ guard.step = "remove" /\ h = c
               /\ Becomes(l, h) /\ GoesOn("next", guard.failed)
               /\ risked' = risked /\ doubled' = doubled \cup ({h} \cap Saves)
<1>0. /\ guard \in GuardStates /\ l \in Contents /\ h \in Contents /\ c \in Contents
      /\ Source = h /\ Target = l /\ Nothing \in Contents /\ Partial \in Contents
      /\ LeftBehind = {}
  BY Folders DEF Source, Target, LeftBehind
<1>1. \A x, y \in Contents : Leaves(x, y) => Becomes(y, x) /\ older' = older
  BY LeavesRestore
<1>a. guard.step # "rename" => h = c /\ CopyReads = {c}
  BY <1>0 DEF CopyUnderWay, RestoreCopy, CopyReads
<1>2. CASE Rename
  BY <1>0, <1>1, <1>2, ReturnsShape DEF Rename, CanMove
<1>3. CASE MoveFails
  BY <1>0, <1>3, ReturnsShape, Unmoved DEF MoveFails
<1>4. CASE CopyBegins
  BY <1>0, <1>1, <1>4, CopyingShape DEF CopyBegins, CanMove, Steps
<1>5. CASE CopyFails
  BY <1>0, <1>1, <1>5, ReturnsShape DEF CopyFails
<1>6. CASE CopyEnds
  <2>1. guard.step = "copying" /\ h = c  BY <1>a, <1>6 DEF CopyEnds
  <2>2. CASE Leaves(h, c) /\ Copying("remove", c) /\ risked' = risked
    BY <1>0, <1>1, <1>6, <2>1, <2>2, CopyingShape DEF CopyEnds, Steps
  <2>3. CASE Copying("remove", c) /\ risked' = risked \cup ({c} \cap Saves) /\ UNCHANGED disk
    BY <1>0, <1>6, <2>1, <2>3, CopyingShape, Unmoved DEF CopyEnds, Steps
  <2> QED  BY <1>0, <1>a, <1>6, <2>1, <2>2, <2>3 DEF CopyEnds
<1>7. CASE Removes
  BY <1>0, <1>1, <1>a, <1>7, ReturnsShape DEF Removes
<1>8. CASE RemoveFails
  BY <1>0, <1>a, <1>8, ReturnsShape, Unmoved DEF RemoveFails
<1> QED  BY <1>2, <1>3, <1>4, <1>5, <1>6, <1>7, <1>8 DEF MoveFile

\* What each step of an archive comes to: only the guard uses its two files.
LEMMA ArchiveOutcome ==
  ASSUME SavesTypeOK, CopyUnderWay, MoveFile, guard.stage = "archive",
         NEW l, NEW h, NEW c, NEW n,
         l = live[guard.file], h = held[guard.file], c = guard.copy, n = Len(older[guard.file])
  PROVE  \/ /\ guard.step = "rename" /\ h # Nothing
            /\ Becomes(l, Nothing) /\ Puts(n + 1, h) /\ GoesOn("hold", guard.failed)
            /\ risked' = risked /\ doubled' = doubled
         \/ /\ guard.step = "rename"
            /\ Becomes(l, h) /\ older' = older /\ GoesOn("hold", guard.failed)
            /\ risked' = risked \cup ({h} \cap Saves) /\ doubled' = doubled
         \/ /\ guard.step = "rename" /\ h # Nothing
            /\ Becomes(l, h) /\ Puts(n + 1, Partial) /\ StaysAt("copying", h)
            /\ risked' = risked /\ doubled' = doubled
         \/ /\ guard.step = "copying" /\ n \in DOMAIN older[guard.file]
            /\ older[guard.file][n] = Partial
            /\ Becomes(l, h) /\ Puts(n, Partial) /\ GoesOn("hold", guard.failed)
            /\ risked' = risked \cup ({h} \cap Saves) /\ doubled' = doubled
         \/ /\ guard.step = "copying" /\ n \in DOMAIN older[guard.file]
            /\ older[guard.file][n] = Partial /\ h = c
            /\ Becomes(l, h) /\ Puts(n, h) /\ StaysAt("remove", h)
            /\ risked' = risked /\ doubled' = doubled
         \/ /\ guard.step = "remove" /\ n \in DOMAIN older[guard.file]
            /\ older[guard.file][n] = h /\ h = c
            /\ Becomes(l, Nothing) /\ Puts(n, h) /\ GoesOn("hold", guard.failed)
            /\ risked' = risked /\ doubled' = doubled
         \/ /\ guard.step = "remove" /\ n \in DOMAIN older[guard.file]
            /\ older[guard.file][n] = h /\ h = c
            /\ Becomes(l, h) /\ older' = older /\ GoesOn("hold", guard.failed)
            /\ risked' = risked /\ doubled' = doubled \cup ({h} \cap Saves)
<1>0. /\ guard \in GuardStates /\ l \in Contents /\ h \in Contents /\ c \in Contents
      /\ Source = h /\ Nothing \in Contents /\ Partial \in Contents
      /\ LeftBehind = {h} \cap Saves
  BY Folders DEF Source, LeftBehind
<1>1. \A x, y \in Contents : Leaves(x, y) =>
         /\ Becomes(l, x)
         /\ guard.step = "rename" => Puts(n + 1, y)
         /\ guard.step # "rename" /\ n \in DOMAIN older[guard.file] => Puts(n, y)
  BY LeavesArchive
<1>a. guard.step # "rename" =>
         /\ h = c /\ CopyReads = {c} /\ n \in DOMAIN older[guard.file]
         /\ older[guard.file][n] = IF guard.step = "copying" THEN Partial ELSE h
         /\ Target = older[guard.file][n]
  BY <1>0 DEF CopyUnderWay, ArchiveCopy, CopyReads, Target
<1>2. CASE Rename
  BY <1>0, <1>1, <1>2, ReturnsShape DEF Rename, CanMove
<1>3. CASE MoveFails
  BY <1>0, <1>3, ReturnsShape, Unmoved DEF MoveFails
<1>4. CASE CopyBegins
  BY <1>0, <1>1, <1>4, CopyingShape DEF CopyBegins, CanMove, Steps
<1>5. CASE CopyFails
  <2>1. guard.step = "copying" /\ Target = Partial  BY <1>a, <1>5 DEF CopyFails
  <2>2. Leaves(h, Partial) /\ Returns(FALSE)
    BY <1>0, <1>5, <2>1 DEF CopyFails
  <2>3. Becomes(l, h) /\ Puts(n, Partial)
    BY <1>0, <1>1, <1>a, <2>1, <2>2
  <2> QED  BY <1>0, <1>a, <1>5, <2>1, <2>2, <2>3, ReturnsShape DEF CopyFails
<1>6. CASE CopyEnds
  <2>1. guard.step = "copying" /\ ~CopyLoses  BY <1>a, <1>6 DEF CopyEnds, CopyLoses
  <2>2. Leaves(h, c) /\ Copying("remove", c) /\ risked' = risked
    BY <1>0, <1>a, <1>6, <2>1 DEF CopyEnds
  <2>3. Becomes(l, h) /\ Puts(n, h)
    BY <1>0, <1>1, <1>a, <2>1, <2>2
  <2> QED  BY <1>0, <1>a, <1>6, <2>1, <2>2, <2>3, CopyingShape DEF CopyEnds, Steps
<1>7. CASE Removes
  <2>1. guard.step = "remove" /\ Leaves(Nothing, h) /\ Returns(TRUE)
    BY <1>a, <1>7 DEF Removes
  <2>2. Becomes(l, Nothing) /\ Puts(n, h)
    BY <1>0, <1>1, <1>a, <2>1
  <2> QED  BY <1>0, <1>a, <1>7, <2>1, <2>2, ReturnsShape DEF Removes
<1>8. CASE RemoveFails
  BY <1>0, <1>a, <1>8, ReturnsShape, Unmoved DEF RemoveFails
<1> QED  BY <1>2, <1>3, <1>4, <1>5, <1>6, <1>7, <1>8 DEF MoveFile

\* Whatever a move puts anywhere was in the file's folders, or copied, before.
InHand == {live[guard.file], held[guard.file], guard.copy, Nothing, Partial}

LEMMA MoveWithin ==
  ASSUME SavesTypeOK, CopyUnderWay, MoveFile
  PROVE  /\ guard.stage \in Moving
         /\ guard'.copy \in InHand
         /\ \E a, b \in InHand : Becomes(a, b)
         /\ older' = older \/ \E n \in Nat : \E x \in InHand : Puts(n, x)
<1>1. guard.stage \in Moving
  BY MoveFrame DEF CopyUnderWay, Moving
<1>2. CASE guard.stage = "archive"
  <2>1. Len(older[guard.file]) \in Nat /\ Len(older[guard.file]) + 1 \in Nat  BY Folders
  <2> QED  BY <1>1, <1>2, <2>1, ArchiveOutcome DEF StaysAt, GoesOn, InHand
<1>3. CASE guard.stage = "hold"
  <2>1. CopyReads \subseteq InHand  BY <1>3 DEF CopyReads, Source, InHand
  <2> QED  BY <1>1, <1>3, <2>1, HoldOutcome DEF StaysAt, GoesOn, InHand
<1>4. CASE guard.stage = "restore"
  BY <1>1, <1>4, RestoreOutcome DEF StaysAt, GoesOn, InHand
<1> QED  BY <1>1, <1>2, <1>3, <1>4 DEF Moving

\* The guard outside of its moves.
LEMMA QuietShape ==
  ASSUME SavesTypeOK, CopyUnderWay,
         Starts \/ StartsUnguarded \/ Finished \/ \E f \in Files : Look(f)
  PROVE  /\ UNCHANGED <<saved, disk, given, risked, doubled>>
         /\ guard' \in GuardStates /\ registered' \subseteq Towers
         /\ guard.stage \notin Moving /\ guard.step = "rename"
         /\ guard'.step = "rename" /\ guard'.copy = Nothing
<1>0. guard \in GuardStates /\ registered \subseteq Towers  BY Folders DEF SavesTypeOK
<1>1. Starts \/ StartsUnguarded => guard.stage \notin Moving
  BY DEF Starts, StartsUnguarded, Moving
<1>2. Finished \/ (\E f \in Files : Look(f)) => guard.stage \notin Moving
  BY DEF Finished, Look, Moving
<1>3. guard.stage \notin Moving /\ guard.step = "rename" /\ guard.copy = Nothing
  BY <1>1, <1>2 DEF CopyUnderWay, Moving
<1>4. CASE Starts \/ StartsUnguarded
  BY <1>0, <1>3, <1>4 DEF Starts, StartsUnguarded, Guard, GuardStates, Stages, Steps, Contents
<1>5. CASE Finished
  BY <1>0, <1>3, <1>5 DEF Finished, GuardStates, Stages
<1>6. ASSUME NEW f \in Files, Look(f)
      PROVE  /\ UNCHANGED <<saved, disk, given, risked, doubled>>
             /\ guard' \in GuardStates /\ registered' \subseteq Towers
             /\ guard'.step = "rename" /\ guard'.copy = Nothing
  BY <1>0, <1>3, <1>6 DEF Look, HoldStage, GuardStates, Stages, Moving
<1> QED  BY <1>3, <1>4, <1>5, <1>6

\* The look at one file.
LEMMA LookShape ==
  ASSUME guard \in GuardStates, NEW f \in Files, Look(f)
  PROVE  /\ guard'.stage = IF Holds(f) THEN HoldStage(f)
                           ELSE IF Restores(f) THEN "restore" ELSE "next"
         /\ guard'.todo = guard.todo \ {f} /\ guard'.file = f
         /\ guard'.failed = guard.failed
         /\ guard.stage = "next"
         /\ UNCHANGED <<saved, disk, registered, given, risked, doubled>>
  BY DEF Look, HoldStage, GuardStates

\* The end of the process keeps the disk, and what is in transit is there twice.
LEMMA EndShape ==
  ASSUME SavesTypeOK, Ends
  PROVE  /\ UNCHANGED <<saved, disk, given, risked>>
         /\ guard' \in GuardStates /\ guard'.stage = "off"
         /\ guard'.step = "rename" /\ guard'.copy = Nothing /\ registered' = {}
         /\ doubled' = doubled \cup (InTransit \cap Saves)
  BY Folders DEF Ends, Guard, GuardStates, Stages, Steps, Contents, InTransit

\* The save the game writes.
LEMMA SaveShape ==
  ASSUME SavesTypeOK, NEW f \in Files, GameSaves(f)
  PROVE  /\ saved' \in Seq([file : Files, names : SUBSET Towers])
         /\ Len(saved) \in Nat /\ Len(saved') = Len(saved) + 1
         /\ saved'[Len(saved')].file = f /\ saved'[Len(saved')].names \subseteq registered
         /\ \A s \in Saves : saved'[s] = saved[s]
         /\ Saves' = Saves \cup {Len(saved')} /\ Len(saved') \notin Contents
         /\ Contents' = Contents \cup {Len(saved')}
<1>1. saved \in Seq([file : Files, names : SUBSET Towers]) /\ registered \subseteq Towers
  BY DEF SavesTypeOK
<1>2. PICK names \in SUBSET registered : saved' = Append(saved, [file |-> f, names |-> names])
  BY DEF GameSaves
<1>3. [file |-> f, names |-> names] \in [file : Files, names : SUBSET Towers]
  BY <1>1
<1>4. Len(saved) \in Nat /\ Len(saved') = Len(saved) + 1
  BY <1>1, <1>2, <1>3
<1>5. /\ saved' \in Seq([file : Files, names : SUBSET Towers])
      /\ saved'[Len(saved')] = [file |-> f, names |-> names]
      /\ \A s \in Saves : saved'[s] = saved[s]
  BY <1>1, <1>2, <1>3, <1>4 DEF Saves
<1>6. Saves' = Saves \cup {Len(saved')} /\ Len(saved') \notin Contents
  BY <1>4 DEF Saves, Contents, Nothing, Partial
<1>7. Contents' = Contents \cup {Len(saved')}
  BY <1>6 DEF Contents
<1> QED  BY <1>4, <1>5, <1>6, <1>7

\* What the game's save changes otherwise.
LEMMA SaveEffect ==
  ASSUME SavesTypeOK, NEW f \in Files, GameSaves(f)
  PROVE  /\ live'[f] = Len(saved') /\ \A g \in Files \ {f} : live'[g] = live[g]
         /\ UNCHANGED <<held, older, registered, guard, doubled>>
         /\ given' = given \cup ({live[f]} \cap Saves)
         /\ risked' = IF InTheWay(f) THEN risked \cup {Len(saved')} ELSE risked
  BY Folders DEF GameSaves

\* What the game's deletion changes.
LEMMA DeleteEffect ==
  ASSUME SavesTypeOK, NEW f \in Files, GameDeletes(f)
  PROVE  /\ live'[f] = Nothing /\ \A g \in Files \ {f} : live'[g] = live[g]
         /\ UNCHANGED <<saved, held, older, registered, guard, risked, doubled>>
         /\ given' = given \cup ({live[f]} \cap Saves)
         /\ Saves' = Saves
  BY Folders DEF GameDeletes, Saves
----------------------------------------------------------------------------
(* Types                                                                   *)

\* Every action keeps the types.
LEMMA TypesKept == SavesTypeOK /\ CopyUnderWay /\ [Next]_vars => SavesTypeOK'
<1> SUFFICES ASSUME SavesTypeOK, CopyUnderWay, [Next]_vars PROVE SavesTypeOK'
  OBVIOUS
<1>0. guard \in GuardStates /\ guard.file \in Files /\ guard.copy \in Contents
  BY Folders
<1>1. CASE Starts \/ StartsUnguarded \/ Finished \/ \E f \in Files : Look(f)
  BY <1>1, QuietShape DEF SavesTypeOK, GuardStates, disk, Saves, Contents
<1>2. CASE Ends
  BY <1>0, <1>2, EndShape DEF SavesTypeOK, GuardStates, disk, Saves, Contents
<1>3. ASSUME NEW f \in Files, GameSaves(f) PROVE SavesTypeOK'
  <2>0. Contents \subseteq Contents' /\ Len(saved') \in Contents'
    BY <1>3, SaveShape
  <2>1a. \A g \in Files : older[g] \in Seq(Contents')
    BY <2>0, SeqMonotonic DEF SavesTypeOK
  <2>1. live' \in [Files -> Contents'] /\ held' \in [Files -> Contents'] /\ older' \in [Files -> Seq(Contents')]
    BY <1>3, <2>0, <2>1a DEF GameSaves, SavesTypeOK
  <2>2. given' \cup risked' \cup doubled' \subseteq Saves'
    BY <1>3, SaveShape, SaveEffect DEF SavesTypeOK
  <2>3. guard' \in [stage : Stages, step : Steps, copy : Contents',
                   todo : SUBSET Files, file : Files, failed : SUBSET Files]
    BY <1>0, <1>3, <2>0, SaveEffect DEF GuardStates
  <2> QED  BY <1>3, <2>1, <2>2, <2>3, SaveShape, SaveEffect DEF SavesTypeOK
<1>4. ASSUME NEW f \in Files, GameDeletes(f) PROVE SavesTypeOK'
  BY <1>4 DEF GameDeletes, SavesTypeOK, Saves, Contents
<1>5. CASE MoveFile
  <2>1. SameFile /\ saved' = saved /\ given' = given /\ Contents' = Contents /\ Saves' = Saves
        /\ risked' \subseteq Saves /\ doubled' \subseteq Saves
    BY <1>5, MoveFrame
  <2>2. live' \in [Files -> Contents] /\ held' \in [Files -> Contents]
    BY <1>5, MoveWithin DEF Becomes
  <2>3. older' \in [Files -> Seq(Contents)]
    BY <1>5, MoveWithin DEF Puts, SavesTypeOK
  <2> QED  BY <2>1, <2>2, <2>3 DEF SavesTypeOK, SameFile, GuardStates
<1>6. CASE UNCHANGED vars
  BY <1>6 DEF SavesTypeOK, vars, disk, Saves, Contents
<1> QED
  BY <1>1, <1>2, <1>3, <1>4, <1>5, <1>6 DEF Next
----------------------------------------------------------------------------
(* Where the saves are                                                     *)

\* What a file's own name says of a save that is stored under it.
LEMMA OwnKept == SavesTypeOK /\ CopyUnderWay /\ Own /\ [Next]_vars => Own'
<1> SUFFICES ASSUME SavesTypeOK, CopyUnderWay, Own, [Next]_vars PROVE Own'
  OBVIOUS
<1>a. (\A f \in Files : Owns(f)) /\ (guard.copy \in Saves => saved[guard.copy].file = guard.file)
  BY DEF Own
<1>1. CASE UNCHANGED <<saved, disk>> /\ guard'.copy = Nothing
  <2>1. Nothing \notin Saves' /\ Saves' = Saves  BY <1>1, Folders DEF Saves
  <2> QED  BY <1>1, <1>a, <2>1 DEF Own, Owns, disk
<1>2. ASSUME NEW f \in Files, GameSaves(f) PROVE Own'
  <2>1. \A c \in Contents : c \in Saves' => c \in Saves /\ saved'[c] = saved[c]
    BY <1>2, SaveShape DEF Contents
  <2>2. guard'.copy \in Saves' => saved'[guard'.copy].file = guard'.file
    BY <1>a, <1>2, <2>1, SaveEffect, Folders
  <2>3. ASSUME NEW g \in Files PROVE Owns(g)'
    <3>1. live'[g] = (IF g = f THEN Len(saved') ELSE live[g]) /\ held' = held /\ older' = older
      BY <1>2, SaveEffect
    <3>2. Owns(g) /\ live[g] \in Contents /\ held[g] \in Contents
          /\ \A i \in DOMAIN older[g] : older[g][i] \in Contents
      BY <1>a, Folders
    <3> QED  BY <1>2, <2>1, <3>1, <3>2, SaveShape DEF Owns
  <2> QED  BY <2>2, <2>3 DEF Own
<1>3. ASSUME NEW f \in Files, GameDeletes(f) PROVE Own'
  BY <1>a, <1>3, DeleteEffect, Folders DEF Own, Owns
<1>4. CASE MoveFile
  <2>0. guard.file \in Files /\ saved' = saved /\ Saves' = Saves /\ guard'.file = guard.file
    BY <1>4, MoveFrame, Folders DEF SameFile
  <2>1. \A x \in InHand : x \in Saves => saved[x].file = guard.file
    BY <1>a, <2>0, Folders DEF Owns, InHand
  <2>2. /\ guard'.copy \in InHand /\ \E a, b \in InHand : Becomes(a, b)
        /\ older' = older \/ \E n \in Nat : \E x \in InHand : Puts(n, x)
    BY <1>4, MoveWithin
  <2>3. ASSUME NEW g \in Files PROVE Owns(g)'
    <3>1. Owns(g)  BY <1>a
    <3>2. g # guard.file => live'[g] = live[g] /\ held'[g] = held[g]
      BY <2>2 DEF Becomes
    <3>3. g = guard.file => live'[g] \in InHand /\ held'[g] \in InHand
      BY <2>2 DEF Becomes
    <3>4. \A i \in DOMAIN older'[g] :
            \/ i \in DOMAIN older[g] /\ older'[g][i] = older[g][i]
            \/ g = guard.file /\ older'[g][i] \in InHand
      BY <2>2 DEF Puts
    <3> QED  BY <2>0, <2>1, <3>1, <3>2, <3>3, <3>4 DEF Owns
  <2> QED  BY <2>0, <2>1, <2>2, <2>3 DEF Own
<1>5. CASE UNCHANGED vars
  BY <1>5 DEF vars, Own, Owns, Saves, disk
<1> QED
  BY <1>1, <1>2, <1>3, <1>4, <1>5, QuietShape, EndShape DEF Next

\* An archive's place is a new one when the move begins.
LEMMA NewPlace ==
  ASSUME SavesTypeOK, NEW f \in Files
  PROVE  Len(older[f]) + 1 \notin DOMAIN older[f]
<1>1. older[f] \in Seq(Contents)  BY DEF SavesTypeOK
<1> QED  BY <1>1

\* An archive adds what was held and takes nothing away but a part of a copy.
LEMMA ArchiveEffect ==
  ASSUME SavesTypeOK, CopyUnderWay, MoveFile, guard.stage = "archive",
         NEW f, f = guard.file
  PROVE  /\ live'[f] = live[f]
         /\ \/ held'[f] = held[f]
            \/ held'[f] = Nothing /\ \E i \in DOMAIN older'[f] : older'[f][i] = held[f]
         /\ \A i \in DOMAIN older[f] : older[f][i] # Partial =>
               i \in DOMAIN older'[f] /\ older'[f][i] = older[f][i]
<1> DEFINE n == Len(older[f])
           l == live[f]
           h == held[f]
<1>0. f \in Files /\ n + 1 \notin DOMAIN older[f]
  BY NewPlace, Folders
<1> HIDE DEF n, l, h
<1>a. l = live[guard.file] /\ h = held[guard.file] /\ n = Len(older[guard.file])
  BY DEF l, h, n
<1>b. Becomes(l, h) \/ Becomes(l, Nothing)
  BY <1>a, ArchiveOutcome
<1>c. \/ older' = older
      \/ \E x : Puts(n + 1, x)
      \/ \E x : Puts(n, x) /\ older[guard.file][n] \in {x, Partial}
  BY <1>a, ArchiveOutcome
<1>d. Becomes(l, h) \/ Puts(n + 1, h) \/ Puts(n, h)
  BY <1>a, ArchiveOutcome
<1>1. /\ Becomes(live[f], held[f]) \/ Becomes(live[f], Nothing)
      /\ \/ older' = older
         \/ \E x : Puts(n + 1, x)
         \/ \E x : Puts(n, x) /\ older[f][n] \in {x, Partial}
      /\ Becomes(live[f], held[f]) \/ Puts(n + 1, held[f]) \/ Puts(n, held[f])
  BY <1>b, <1>c, <1>d DEF l, h
<1>2. live'[f] = live[f] /\ held'[f] \in {held[f], Nothing}
  BY <1>1 DEF Becomes
<1>3. \A i \in DOMAIN older[f] : older[f][i] # Partial =>
               i \in DOMAIN older'[f] /\ older'[f][i] = older[f][i]
  BY <1>0, <1>1 DEF Puts
<1>4. \/ held'[f] = held[f]
      \/ \E i \in DOMAIN older'[f] : older'[f][i] = held[f]
  BY <1>1 DEF Becomes, Puts
<1> QED  BY <1>2, <1>3, <1>4

\* The guard loses no save: whatever a move replaces or removes is known to be
\* elsewhere.
LEMMA AllKeptKept ==
  ASSUME SavesTypeOK, AllKept, CopyUnderWay, HoldSafe, RestoreSafe, [Next]_vars
  PROVE  AllKept'
<1> SUFFICES ASSUME NEW s \in (Saves \ (given \cup risked))' PROVE InPlace(s)'
  BY DEF AllKept
<1> DEFINE g == saved[s].file
<1>1. CASE UNCHANGED <<saved, disk, given, risked>>
  BY <1>1 DEF AllKept, InPlace, Saves, disk
<1>2. ASSUME NEW f \in Files, GameSaves(f) PROVE InPlace(s)'
  <2>1. live'[f] = Len(saved') /\ (\A h \in Files \ {f} : live'[h] = live[h])
        /\ held' = held /\ older' = older
        /\ given' = given \cup ({live[f]} \cap Saves) /\ risked \subseteq risked'
    BY <1>2, SaveEffect
  <2>2. CASE s = Len(saved')
    BY <1>2, <2>1, <2>2, SaveShape DEF InPlace
  <2>3. CASE s \in Saves
    <3>1. g \in Files /\ saved'[s].file = g /\ InPlace(s) /\ s # live[f]
      BY <1>2, <2>1, <2>3, SaveShape, Folders DEF AllKept
    <3>2. QED  BY <2>1, <3>1 DEF InPlace
  <2> QED  BY <1>2, <2>2, <2>3, SaveShape
<1>3. ASSUME NEW f \in Files, GameDeletes(f) PROVE InPlace(s)'
  BY <1>3, DeleteEffect, Folders DEF AllKept, InPlace
<1>4. CASE MoveFile
  <2>1. /\ s \in Saves /\ s \in Contents /\ s # Nothing /\ s # Partial
        /\ s \notin given /\ s \notin risked /\ s \notin risked'
        /\ g \in Files /\ InPlace(s) /\ saved' = saved
    BY <1>4, MoveFrame, Folders DEF AllKept
  <2>2. CASE g # guard.file
    <3>1. live'[g] = live[g] /\ held'[g] = held[g] /\ older'[g] = older[g]
      BY <1>4, <2>1, <2>2, MoveWithin DEF Becomes, Puts
    <3> QED  BY <2>1, <3>1 DEF InPlace
  <2>3. CASE g = guard.file
    <3>0. /\ live[g] = s \/ held[g] = s \/ \E i \in DOMAIN older[g] : older[g][i] = s
          /\ live'[g] = s \/ held'[g] = s \/ (\E i \in DOMAIN older'[g] : older'[g][i] = s)
               => InPlace(s)'
      BY <2>1 DEF InPlace
    <3>1. CASE guard.stage = "archive"
      BY <1>4, <2>1, <2>3, <3>0, <3>1, ArchiveEffect
    <3>2. CASE guard.stage = "hold"
      <4>1. guard.step = "rename" /\ held[g] = s =>
              \E i \in DOMAIN older[g] : older[g][i] = s
        BY <2>1, <2>3, <3>2 DEF HoldSafe
      <4>2. guard.step = "copying" => held[g] # s
        BY <2>1, <2>3, <3>2 DEF CopyUnderWay, HoldCopy
      <4>3. guard.step = "remove" /\ live[g] = s => held[g] = s
        BY <2>1, <2>3, <3>2 DEF CopyUnderWay, HoldCopy
      <4> QED  BY <1>4, <2>1, <2>3, <3>0, <3>2, <4>1, <4>2, <4>3, HoldOutcome DEF Becomes
    <3>3. CASE guard.stage = "restore"
      <4>1. guard.step # "remove" => live[g] # s
        BY <2>1, <2>3, <3>3 DEF RestoreSafe
      <4>2. guard.step = "remove" /\ held[g] = s => live[g] = s
        BY <2>1, <2>3, <3>3 DEF CopyUnderWay, RestoreCopy
      <4> QED  BY <1>4, <2>1, <2>3, <3>0, <3>3, <4>1, <4>2, RestoreOutcome DEF Becomes
    <3> QED  BY <1>4, <3>1, <3>2, <3>3, MoveWithin DEF Moving
  <2> QED  BY <2>2, <2>3
<1>5. Ends => UNCHANGED <<saved, disk, given, risked>>
  BY EndShape
<1> QED
  BY <1>1, <1>2, <1>3, <1>4, <1>5, QuietShape DEF Next, vars, disk

\* The copy under way is followed through every step of the game and the guard.
LEMMA CopyKept ==
  ASSUME SavesTypeOK, CopyUnderWay, RestoreSafe, [Next]_vars
  PROVE  CopyUnderWay'
<1> USE DEF CopyUnderWay, ArchiveCopy, HoldCopy, RestoreCopy
<1>0. guard.file \in Files /\ guard.copy \in Contents  BY Folders
<1>1. CASE guard'.step = "rename" /\ guard'.copy = Nothing
  BY <1>1
<1>2. ASSUME NEW f \in Files, GameSaves(f) PROVE CopyUnderWay'
  <2>1. /\ given \subseteq given' /\ risked \subseteq risked'
        /\ UNCHANGED <<held, older, guard>>
        /\ f # guard.file => live'[guard.file] = live[guard.file]
        /\ f = guard.file => live'[guard.file] = Len(saved')
        /\ f = guard.file => (live[guard.file] \in Saves => live[guard.file] \in given')
    BY <1>0, <1>2, SaveEffect
  <2>2. /\ guard.copy \in Saves' => guard.copy \in Saves
        /\ live[guard.file] \in Saves' => live[guard.file] \in Saves
    BY <1>0, <1>2, SaveShape, Folders
  <2>3. CASE guard.step = "rename"
    BY <2>1, <2>3
  <2>4. CASE guard.step # "rename" /\ guard.stage = "archive"
    BY <2>1, <2>4
  <2>5. CASE guard.step # "rename" /\ guard.stage = "hold"
    <3>1. f = guard.file => Len(saved') \in risked'
      BY <1>2, <2>5, SaveEffect DEF InTheWay
    <3>2. HoldCopy(guard.file)
      BY <2>5
    <3>3. HoldCopy(guard.file)'
      BY <2>1, <2>2, <3>1, <3>2
    <3> QED  BY <2>1, <2>5, <3>3
  <2>6. CASE guard.step # "rename" /\ guard.stage = "restore"
    <3>1. RestoreCopy(guard.file)
      BY <2>6
    <3>2. RestoreCopy(guard.file)'
      BY <2>1, <2>2, <3>1
    <3> QED  BY <2>1, <2>6, <3>2
  <2> QED  BY <2>3, <2>4, <2>5, <2>6
<1>3. ASSUME NEW f \in Files, GameDeletes(f) PROVE CopyUnderWay'
  <2>1. /\ given \subseteq given' /\ risked' = risked /\ Saves' = Saves
        /\ UNCHANGED <<held, older, guard>> /\ Nothing \notin Saves
        /\ f # guard.file => live'[guard.file] = live[guard.file]
        /\ f = guard.file => live'[guard.file] = Nothing
        /\ f = guard.file => (live[guard.file] \in Saves => live[guard.file] \in given')
    BY <1>0, <1>3, DeleteEffect, Folders
  <2>2. CASE guard.step = "rename"
    BY <2>1, <2>2
  <2>3. CASE guard.step # "rename" /\ guard.stage = "archive"
    BY <2>1, <2>3
  <2>4. CASE guard.step # "rename" /\ guard.stage = "hold"
    <3>1. HoldCopy(guard.file)  BY <2>4
    <3>2. HoldCopy(guard.file)'  BY <2>1, <3>1
    <3> QED  BY <2>1, <2>4, <3>2
  <2>5. CASE guard.step # "rename" /\ guard.stage = "restore"
    <3>1. RestoreCopy(guard.file)  BY <2>5
    <3>2. RestoreCopy(guard.file)'  BY <2>1, <3>1
    <3> QED  BY <2>1, <2>5, <3>2
  <2> QED  BY <2>2, <2>3, <2>4, <2>5
<1>4. CASE MoveFile
  <2>0. Saves' = Saves /\ given' = given /\ guard'.file = guard.file
        /\ risked \subseteq risked'
    BY <1>4, MoveFrame DEF SameFile
  <2>1. CASE guard.stage = "archive"
    <3> DEFINE f == guard.file
               h == held[f]
               n == Len(older[f])
    <3>1. \/ guard'.step = "rename" /\ guard'.copy = Nothing
          \/ StaysAt("copying", h) /\ Becomes(live[f], h) /\ Puts(n + 1, Partial)
          \/ StaysAt("remove", h) /\ Becomes(live[f], h) /\ Puts(n, h)
      BY <1>4, <2>1, ArchiveOutcome DEF GoesOn
    <3>2. StaysAt("copying", h) \/ StaysAt("remove", h) => guard'.stage = "archive" /\ guard'.copy = h
      BY <2>1 DEF StaysAt
    <3>3. Becomes(live[f], h) => held'[f] = h
      BY DEF Becomes
    <3>4. \A m, x : Puts(m, x) =>
            Len(older'[f]) = m /\ m \in DOMAIN older'[f] /\ older'[f][m] = x
      BY DEF Puts
    <3>5. StaysAt("copying", h) => guard'.step = "copying"
      BY DEF StaysAt
    <3>6. StaysAt("remove", h) => guard'.step = "remove"
      BY DEF StaysAt
    <3>7. ASSUME guard'.step # "rename" PROVE ArchiveCopy(guard.file)'
      BY <2>0, <3>1, <3>2, <3>3, <3>4, <3>5, <3>6, <3>7
    <3> QED  BY <1>1, <2>0, <3>1, <3>2, <3>5, <3>6, <3>7
  <2>2. CASE guard.stage = "hold"
    <3>1. guard.step = "copying" => \A r \in CopyReads :
             r \in Saves => live[guard.file] = r \/ r \in given
      BY <2>2, Folders DEF CopyReads, Source
    <3>2. guard.step = "copying" => \A r \in CopyReads :
             live[guard.file] \in Saves => live[guard.file] = r \/ live[guard.file] \in risked
      BY <2>2, Folders DEF CopyReads, Source
    <3> QED  BY <1>0, <1>4, <2>0, <2>2, <3>1, <3>2, HoldOutcome DEF Becomes, GoesOn, StaysAt
  <2>3. CASE guard.stage = "restore"
    BY <1>0, <1>4, <2>0, <2>3, RestoreOutcome DEF Becomes, GoesOn, StaysAt
  <2> QED  BY <1>4, <2>1, <2>2, <2>3, MoveWithin DEF Moving
<1>5. CASE UNCHANGED vars
  BY <1>5 DEF vars, disk, Saves
<1> QED
  BY <1>1, <1>2, <1>3, <1>4, <1>5, QuietShape, EndShape DEF Next

\* A save in transit is in the file in hand only.
LEMMA TransitElsewhere ==
  ASSUME SavesTypeOK, Own, NEW s \in InTransit \cap Saves, NEW g \in Files \ {guard.file}
  PROVE  GoneFrom(g, s)
<1>1. s = guard.copy /\ saved[s].file # g  BY DEF InTransit, Own
<1>2. Owns(g)  BY DEF Own
<1> QED  BY <1>1, <1>2 DEF Owns, GoneFrom

\* The guard keeps no save twice.  What is in transit when a move returns has
\* lost its source, or counts as doubled.
LEMMA OneEachKept ==
  ASSUME SavesTypeOK, Own, OneEach, CopyUnderWay, TransitTwice, [Next]_vars
  PROVE  OneEach'
<1> SUFFICES ASSUME NEW s \in (Saves \ (doubled \cup InTransit))', NEW g \in Files
             PROVE  (SingleIn(g, s) /\ (s \in given => GoneFrom(g, s)))'
  BY DEF OneEach
<1> DEFINE Good == (SingleIn(g, s) /\ (s \in given => GoneFrom(g, s)))'
<1>1. CASE UNCHANGED <<saved, disk, given>> /\ s \notin doubled \cup InTransit
  BY <1>1 DEF OneEach, SingleIn, GoneFrom, Saves, disk
<1>2. ASSUME s \in Saves, s \notin doubled \cup InTransit
      PROVE  /\ s # Nothing /\ s # Partial
             /\ SingleIn(g, s) /\ (s \in given => GoneFrom(g, s))
  BY <1>2, Folders DEF OneEach
<1>3. CASE Starts \/ StartsUnguarded \/ Finished \/ \E f \in Files : Look(f)
  BY <1>1, <1>3, QuietShape DEF InTransit
<1>4. CASE Ends
  <2>1. Saves' = Saves /\ s \notin doubled \cup InTransit
    BY <1>4, EndShape DEF Saves
  <2> QED  BY <1>1, <1>4, <2>1, EndShape
<1>5. ASSUME NEW f \in Files, GameDeletes(f) PROVE Good
  <2>0. s \in Saves /\ s \notin doubled \cup InTransit
    BY <1>5, DeleteEffect DEF InTransit
  <2>1. s \in given' => s \in given \/ s = live[f]
    BY <1>5, DeleteEffect
  <2>2. s = live[f] => g = f \/ GoneFrom(g, s)
    BY <2>0 DEF Own, Owns, GoneFrom
  <2>3. live'[g] = (IF g = f THEN Nothing ELSE live[g]) /\ held' = held /\ older' = older
    BY <1>5, DeleteEffect
  <2> QED  BY <1>2, <2>0, <2>1, <2>2, <2>3 DEF SingleIn, GoneFrom
<1>6. ASSUME NEW f \in Files, GameSaves(f) PROVE Good
  <2>1. /\ live'[g] = (IF g = f THEN Len(saved') ELSE live[g]) /\ held' = held /\ older' = older
        /\ given' = given \cup ({live[f]} \cap Saves) /\ doubled' = doubled /\ guard' = guard
    BY <1>6, SaveEffect
  <2>2. CASE s = Len(saved')
    <3>1. s \notin Contents /\ s \notin Saves /\ s \notin given'
      BY <1>6, <2>1, <2>2, SaveShape, Folders
    <3>2. held[g] # s /\ \A i \in DOMAIN older[g] : older[g][i] # s
      BY <3>1, Folders
    <3> QED  BY <2>1, <3>1, <3>2 DEF SingleIn
  <2>3. CASE s \in Saves
    <3>1. s \notin doubled \cup InTransit /\ s # Len(saved')
      BY <1>6, <2>1, <2>3, SaveShape, Folders DEF InTransit
    <3>2. s \in given' => s \in given \/ s = live[f]  BY <2>1
    <3>3. s = live[f] => g = f \/ GoneFrom(g, s)
      BY <2>3 DEF Own, Owns, GoneFrom
    <3> QED  BY <1>2, <2>1, <2>3, <3>1, <3>2, <3>3 DEF SingleIn, GoneFrom
  <2> QED  BY <1>6, <2>2, <2>3, SaveShape
<1>7. CASE MoveFile
  <2> DEFINE l == live[guard.file]
             h == held[guard.file]
             c == guard.copy
  <2>0. s \in Saves /\ s \notin doubled /\ s \notin doubled' /\ given' = given
        /\ s # Nothing /\ s # Partial
    BY <1>7, MoveFrame, Folders
  <2>1. guard'.step = "remove" => s # guard'.copy
    BY DEF InTransit
  <2>2. CASE g # guard.file
    <3>1. live'[g] = live[g] /\ held'[g] = held[g] /\ older'[g] = older[g]
      BY <1>7, <2>2, MoveWithin DEF Becomes, Puts
    <3>2. s \in InTransit => GoneFrom(g, s)
      BY <2>0, <2>2, TransitElsewhere
    <3> QED  BY <1>2, <2>0, <3>1, <3>2 DEF SingleIn, GoneFrom
  <2>3. CASE g = guard.file /\ s \notin InTransit
    <3>0. SingleIn(g, s) /\ (s \in given => GoneFrom(g, s))
      BY <1>2, <2>0, <2>3
    <3>1. guard.step = "remove" => s # c
      BY <2>3 DEF InTransit
    <3>2. CASE guard.stage = "archive"
      <4> DEFINE n == Len(older[g])
      <4>0. n + 1 \notin DOMAIN older[g]
        BY NewPlace, <2>3
      <4>a. n = Len(older[guard.file]) /\ l = live[guard.file] /\ h = held[guard.file]
            /\ c = guard.copy
        BY <2>3
      <4> HIDE DEF n, l, h, c
      <4>1. \/ Becomes(l, Nothing) /\ Puts(n + 1, h)
            \/ Becomes(l, Nothing) /\ Puts(n, h) /\ s # h
            \/ Becomes(l, h) /\ older' = older
            \/ Becomes(l, h) /\ Puts(n + 1, Partial)
            \/ Becomes(l, h) /\ Puts(n, Partial)
            \/ Becomes(l, h) /\ Puts(n, h) /\ s # h
        <5>1. StaysAt("remove", h) => s # h
          BY <2>1 DEF StaysAt
        <5> QED  BY <1>7, <3>1, <3>2, <4>a, <5>1, ArchiveOutcome
      <4>2. CASE Becomes(l, Nothing) /\ Puts(n + 1, h)
        BY <2>0, <2>3, <3>0, <4>0, <4>2 DEF l, h, Becomes, Puts, SingleIn, GoneFrom
      <4>3. CASE Becomes(l, Nothing) /\ Puts(n, h) /\ s # h
        BY <2>0, <2>3, <3>0, <4>0, <4>3 DEF l, h, Becomes, Puts, SingleIn, GoneFrom
      <4>4. CASE Becomes(l, h) /\ older' = older
        BY <2>0, <2>3, <3>0, <4>0, <4>4 DEF l, h, Becomes, Puts, SingleIn, GoneFrom
      <4>5. CASE Becomes(l, h) /\ Puts(n + 1, Partial)
        BY <2>0, <2>3, <3>0, <4>0, <4>5 DEF l, h, Becomes, Puts, SingleIn, GoneFrom
      <4>6. CASE Becomes(l, h) /\ Puts(n, Partial)
        BY <2>0, <2>3, <3>0, <4>0, <4>6 DEF l, h, Becomes, Puts, SingleIn, GoneFrom
      <4>7. CASE Becomes(l, h) /\ Puts(n, h) /\ s # h
        BY <2>0, <2>3, <3>0, <4>0, <4>7 DEF l, h, Becomes, Puts, SingleIn, GoneFrom
      <4> QED  BY <4>1, <4>2, <4>3, <4>4, <4>5, <4>6, <4>7
    <3>3. CASE guard.stage = "hold"
      <4>0. guard.step = "remove" => h = c
        BY <3>3 DEF CopyUnderWay, HoldCopy
      <4>1. /\ older' = older
            /\ \/ Becomes(Nothing, l)
               \/ Becomes(l, h) \/ Becomes(l, Partial) \/ Becomes(l, Nothing)
               \/ \E r : Becomes(l, r) /\ s # r
               \/ Becomes(Nothing, h)
        BY <1>7, <2>1, <3>1, <3>3, <4>0, HoldOutcome DEF StaysAt
      <4> QED  BY <2>0, <2>3, <3>0, <4>1 DEF Becomes, SingleIn, GoneFrom
    <3>4. CASE guard.stage = "restore"
      <4>1. /\ older' = older
            /\ \/ Becomes(h, Nothing)
               \/ Becomes(l, h) \/ Becomes(Partial, h) \/ Becomes(Nothing, h)
               \/ Becomes(h, h) /\ s # h
               \/ Becomes(l, Nothing)
        BY <1>7, <2>1, <3>1, <3>4, RestoreOutcome DEF StaysAt
      <4> QED  BY <2>0, <2>3, <3>0, <4>1 DEF Becomes, SingleIn, GoneFrom
    <3> QED  BY <1>7, <3>2, <3>3, <3>4, MoveWithin DEF Moving
  <2>4. CASE g = guard.file /\ s \in InTransit
    <3>0. guard.step = "remove" /\ s = c
      BY <2>4 DEF InTransit
    <3>1. /\ l = s => guard.stage # "archive" /\ s \notin given
          /\ guard.stage = "archive" => s \notin given
          /\ \A i \in DOMAIN older[g] : older[g][i] = s =>
                guard.stage = "archive" /\ i = Len(older[g])
      BY <2>0, <2>4 DEF TransitTwice
    <3>2. CASE guard.stage = "archive"
      <4> DEFINE n == Len(older[g])
      <4>1. h = c => s \in {h} \cap Saves
        BY <2>0, <3>0
      <4>2. Becomes(l, Nothing) /\ Puts(n, h)
        BY <1>7, <2>0, <2>4, <3>0, <3>2, <4>1, ArchiveOutcome
      <4> HIDE DEF n
      <4>3. \A i \in DOMAIN older[g] : older[g][i] = s => i = n
        BY <3>1 DEF n
      <4> QED  BY <2>0, <2>4, <3>1, <3>2, <4>2, <4>3 DEF Becomes, Puts, SingleIn, GoneFrom
    <3>3. CASE guard.stage = "hold"
      <4>0. h = c
        BY <3>0, <3>3 DEF CopyUnderWay, HoldCopy
      <4>1. older' = older /\ Becomes(Nothing, h) /\ l = c
        BY <1>7, <2>0, <3>0, <3>3, HoldOutcome
      <4> QED  BY <2>0, <2>4, <3>0, <3>1, <3>3, <4>1 DEF Becomes, SingleIn, GoneFrom
    <3>4. CASE guard.stage = "restore"
      <4>1. h = c => s \in {h} \cap Saves
        BY <2>0, <3>0
      <4>2. older' = older /\ Becomes(l, Nothing)
        BY <1>7, <2>0, <3>0, <3>4, <4>1, RestoreOutcome
      <4> QED  BY <2>0, <2>4, <3>0, <3>1, <3>4, <4>2 DEF Becomes, SingleIn, GoneFrom
    <3> QED  BY <1>7, <3>2, <3>3, <3>4, MoveWithin DEF Moving
  <2> QED  BY <2>2, <2>3, <2>4
<1>8. CASE UNCHANGED vars
  BY <1>1, <1>8 DEF vars, disk, Saves, InTransit
<1> QED
  BY <1>3, <1>4, <1>5, <1>6, <1>7, <1>8 DEF Next

\* A save that is copied was in one place when its copy came to an end.
LEMMA TransitTwiceKept ==
  ASSUME SavesTypeOK, Own, OneEach, CopyUnderWay, TransitTwice, [Next]_vars
  PROVE  TransitTwice'
<1>0. guard.file \in Files /\ guard.copy \in Contents
  BY Folders
<1>1. CASE guard'.step = "rename"
  BY <1>1 DEF TransitTwice, InTransit
<1>2. ASSUME NEW f \in Files, GameSaves(f) \/ GameDeletes(f) PROVE TransitTwice'
  <2> SUFFICES ASSUME NEW s \in (InTransit \cap (Saves \ doubled))'
               PROVE  /\ live'[guard.file] = s => guard.stage # "archive" /\ s \notin given'
                      /\ guard.stage = "archive" => s \notin given'
                      /\ \A i \in DOMAIN older[guard.file] : older[guard.file][i] = s =>
                            guard.stage = "archive" /\ i = Len(older[guard.file])
    BY <1>2, SaveEffect, DeleteEffect DEF TransitTwice
  <2>1. /\ UNCHANGED <<held, older, guard, doubled>>
        /\ given' = given \cup ({live[f]} \cap Saves)
        /\ live'[f] \in {Len(saved'), Nothing}
        /\ \A g \in Files \ {f} : live'[g] = live[g]
    BY <1>2, SaveEffect, DeleteEffect
  <2>2. s = guard.copy /\ s \in InTransit /\ s \notin doubled
    BY <2>1 DEF InTransit
  <2>3. s \in Saves /\ s # live'[f]
    BY <1>0, <1>2, <2>1, <2>2, SaveShape, SaveEffect, DeleteEffect, Folders
  <2>4. f # guard.file => live[f] # s
    BY <1>0, <2>2, <2>3, TransitElsewhere DEF GoneFrom
  <2>5. /\ live[guard.file] = s => guard.stage # "archive" /\ s \notin given
        /\ guard.stage = "archive" => s \notin given
        /\ \A i \in DOMAIN older[guard.file] : older[guard.file][i] = s =>
              guard.stage = "archive" /\ i = Len(older[guard.file])
    BY <2>2, <2>3 DEF TransitTwice
  <2> QED  BY <1>0, <2>1, <2>3, <2>4, <2>5
<1>3. CASE MoveFile /\ guard'.step # "rename"
  <2> DEFINE f == guard.file
             l == live[f]
             h == held[f]
  <2> SUFFICES ASSUME NEW s \in (InTransit \cap (Saves \ doubled))'
               PROVE  /\ live'[f] = s => guard'.stage # "archive" /\ s \notin given
                      /\ guard'.stage = "archive" => s \notin given
                      /\ \A i \in DOMAIN older'[f] : older'[f][i] = s =>
                            guard'.stage = "archive" /\ i = Len(older'[f])
    BY <1>3, MoveFrame DEF TransitTwice, SameFile
  <2>0. /\ s = guard'.copy /\ guard'.step = "remove" /\ s \in Saves
        /\ s \notin doubled /\ s # Nothing /\ s # Partial
    BY <1>3, MoveFrame, Folders DEF InTransit
  <2>1. guard.step = "copying"
    BY <1>3, <2>0, ArchiveOutcome, HoldOutcome, RestoreOutcome, MoveWithin
       DEF Moving, StaysAt, GoesOn
  <2>2. SingleIn(f, s) /\ (s \in given => GoneFrom(f, s))
    BY <1>0, <2>0, <2>1 DEF OneEach, InTransit
  <2>3. CASE guard.stage = "archive"
    <3> DEFINE n == Len(older[f])
    <3>1. Becomes(l, h) /\ Puts(n, h) /\ StaysAt("remove", h) /\ older[f][n] = Partial
      BY <1>3, <2>0, <2>1, <2>3, ArchiveOutcome DEF StaysAt, GoesOn
    <3> HIDE DEF n
    <3>2. s = h /\ guard'.stage = "archive"
      BY <2>0, <2>3, <3>1 DEF StaysAt
    <3>3. live'[f] # s /\ s \notin given /\ \A i \in DOMAIN older[f] : older[f][i] # s
      BY <2>2, <3>1, <3>2 DEF Becomes, SingleIn, GoneFrom
    <3>4. Len(older'[f]) = n /\ \A i \in DOMAIN older'[f] : i # n => older'[f][i] # s
      BY <3>1, <3>3 DEF Puts
    <3> QED  BY <3>2, <3>3, <3>4
  <2>4. CASE guard.stage = "hold"
    <3>1. \E r \in CopyReads : Becomes(l, r) /\ StaysAt("remove", r) /\ older' = older
      BY <1>3, <2>0, <2>1, <2>4, HoldOutcome DEF StaysAt, GoesOn
    <3>2. s \in CopyReads /\ live'[f] = l /\ guard'.stage = "hold" /\ older' = older
      BY <2>0, <2>4, <3>1 DEF StaysAt, Becomes
    <3>3. s = l \/ s \in given
      BY <2>0, <2>1, <2>4, <3>2 DEF CopyReads, Source, CopyUnderWay, HoldCopy
    <3> QED  BY <2>2, <3>2, <3>3 DEF SingleIn, GoneFrom
  <2>5. CASE guard.stage = "restore"
    <3>1. StaysAt("remove", h) /\ older' = older
      BY <1>3, <2>0, <2>1, <2>5, RestoreOutcome DEF StaysAt, GoesOn
    <3>2. s = h /\ guard'.stage = "restore"
      BY <2>0, <2>5, <3>1 DEF StaysAt
    <3> QED  BY <2>2, <3>1, <3>2 DEF SingleIn, GoneFrom
  <2> QED  BY <1>3, <2>3, <2>4, <2>5, MoveWithin DEF Moving
<1>4. CASE UNCHANGED vars
  BY <1>4 DEF TransitTwice, InTransit, vars, disk, Saves
<1> QED
  BY <1>1, <1>2, <1>3, <1>4, QuietShape, EndShape DEF Next
----------------------------------------------------------------------------
(* What the guard is about to do                                           *)

\* What is no save lacks no tower.
LEMMA NothingMissing ==
  ASSUME SavesTypeOK
  PROVE  Missing(Nothing) = {} /\ Missing(Partial) = {}
  BY Folders DEF Missing, Readable

\* Saves are written once: what a save lacks only changes with the towers.
LEMMA MissingStays ==
  ASSUME SavesTypeOK, registered' = registered, NEW c \in Contents,
         saved' = saved \/ \E f \in Files : GameSaves(f)
  PROVE  Missing(c)' = Missing(c)
<1>1. c \in Saves => c \in Saves' /\ saved'[c] = saved[c]
  BY SaveShape DEF Saves
<1>2. c \in Saves' => c \in Saves
  BY SaveShape, Folders DEF Saves, Contents
<1> QED  BY <1>1, <1>2 DEF Missing, Readable

\* What the game saves names only towers it knows.
LEMMA MissingAfter ==
  ASSUME SavesTypeOK, NEW f \in Files, GameSaves(f) \/ GameDeletes(f)
  PROVE  /\ Missing(live[f])' = {}
         /\ \A g \in Files : /\ g # f => Missing(live[g])' = Missing(live[g])
                             /\ Missing(held[g])' = Missing(held[g])
<1>1. /\ registered' = registered /\ held' = held
      /\ saved' = saved \/ \E g \in Files : GameSaves(g)
      /\ \A g \in Files \ {f} : live'[g] = live[g]
  BY SaveEffect, DeleteEffect
<1>2. \A c \in Contents : Missing(c)' = Missing(c)
  BY <1>1, MissingStays
<1>3. GameSaves(f) => Missing(live[f])' = {}
  <2> SUFFICES ASSUME GameSaves(f) PROVE Missing(live[f])' = {}
    OBVIOUS
  <2>1. live'[f] = Len(saved') /\ saved'[Len(saved')].names \subseteq registered'
    BY <1>1, SaveEffect, SaveShape
  <2> QED  BY <2>1 DEF Missing, Readable
<1>4. GameDeletes(f) => Missing(live[f])' = {}
  <2> SUFFICES ASSUME GameDeletes(f) PROVE Missing(live[f])' = {}
    OBVIOUS
  <2>1. live'[f] = Nothing /\ Nothing \notin Saves'
    BY DeleteEffect, Folders
  <2> QED  BY <2>1 DEF Missing, Readable
<1>5. \A g \in Files : live[g] \in Contents /\ held[g] \in Contents
  BY Folders
<1>6. \A g \in Files \ {f} : Missing(live[g])' = Missing(live[g])
  BY <1>1, <1>2, <1>5 DEF Missing, Readable
<1>7. \A g \in Files : Missing(held[g])' = Missing(held[g])
  BY <1>1, <1>2, <1>5 DEF Missing, Readable
<1> QED  BY <1>3, <1>4, <1>6, <1>7

\* Actions that leave the guard no move to make.
LEMMA IdleShape ==
  ASSUME SavesTypeOK, Starts \/ StartsUnguarded \/ Finished \/ Ends
  PROVE  guard'.stage \notin Moving
  BY Folders DEF Starts, StartsUnguarded, Finished, Ends, Guard, GuardStates, Moving

\* What the next hold replaces stays archived, or risked.
LEMMA HoldSafeKept ==
  ASSUME SavesTypeOK, CopyUnderWay, HoldSafe, [Next]_vars
  PROVE  HoldSafe'
<1>1. CASE UNCHANGED vars
  BY <1>1 DEF HoldSafe, vars, disk, Saves
<1>2. CASE guard'.stage # "hold" \/ guard'.step # "rename"
  BY <1>2 DEF HoldSafe
<1>3. ASSUME NEW f \in Files, GameSaves(f) \/ GameDeletes(f) PROVE HoldSafe'
  <2>1. UNCHANGED <<guard, held, older>> /\ risked \subseteq risked'
    BY <1>3, SaveEffect, DeleteEffect
  <2>2. held[guard.file] \in Saves' => held[guard.file] \in Saves
    BY <1>3, SaveShape, DeleteEffect, Folders
  <2> QED  BY <2>1, <2>2 DEF HoldSafe
<1>4. ASSUME NEW f \in Files, Look(f) PROVE HoldSafe'
  <2>0. guard \in GuardStates  BY Folders
  <2>1. guard'.stage = "hold" => held[f] = Nothing
    BY <1>4, <2>0, LookShape DEF HoldStage
  <2>2. guard'.file = f /\ held' = held /\ Nothing \notin Saves'
    BY <1>4, <2>0, LookShape, Folders DEF disk, Saves, Nothing
  <2> QED  BY <2>1, <2>2 DEF HoldSafe
<1>5. CASE MoveFile /\ guard'.stage = "hold" /\ guard'.step = "rename"
  <2> DEFINE g == guard.file
             h == held[g]
             n == Len(older[g])
  <2>0. g \in Files /\ Nothing \notin Saves /\ Saves' = Saves /\ guard'.file = g
    BY <1>5, MoveFrame, Folders DEF SameFile
  <2>a. h = held[guard.file] /\ n = Len(older[guard.file])
    OBVIOUS
  <2>1. guard.stage = "archive"
    BY <1>5, HoldOutcome, RestoreOutcome, MoveWithin DEF Moving, GoesOn, StaysAt
  <2> HIDE DEF n, h
  <2>2. \/ Becomes(live[g], Nothing)
        \/ Becomes(live[g], h) /\ risked' = risked \cup ({h} \cap Saves)
        \/ Becomes(live[g], h) /\ older' = older /\ n \in DOMAIN older[g] /\ older[g][n] = h
    BY <1>5, <2>1, <2>a, ArchiveOutcome DEF GoesOn, StaysAt
  <2> QED  BY <1>5, <2>0, <2>2 DEF h, Becomes, HoldSafe
<1>6. CASE Starts \/ StartsUnguarded \/ Finished \/ Ends
  BY <1>2, <1>6, IdleShape DEF Moving
<1> QED  BY <1>1, <1>3, <1>4, <1>5, <1>2, <1>6 DEF Next

\* A restore replaces nothing of the game's but what it saves meanwhile.
LEMMA RestoreSafeKept ==
  ASSUME SavesTypeOK, CopyUnderWay, RestoreSafe, [Next]_vars
  PROVE  RestoreSafe'
<1>0. guard \in GuardStates /\ guard.file \in Files
      /\ \A f \in Files : live[f] \in Contents /\ held[f] \in Contents
  BY Folders
<1>1. CASE UNCHANGED vars
  BY <1>1 DEF RestoreSafe, Missing, Readable, vars, disk, Saves
<1>2. CASE guard'.stage # "restore"
  BY <1>2 DEF RestoreSafe
<1>3. ASSUME NEW f \in Files, GameSaves(f) \/ GameDeletes(f) PROVE RestoreSafe'
  <2>1. guard' = guard /\ risked \subseteq risked' /\ live'[f] \in {Len(saved'), Nothing}
        /\ \A g \in Files \ {f} : live'[g] = live[g]
    BY <1>3, SaveEffect, DeleteEffect
  <2>2. \A c \in Contents : c \in Saves' => c \in Saves
    BY <1>3, SaveShape, DeleteEffect
  <2>3. f = guard.file /\ guard.stage = "restore" /\ guard.step # "remove" =>
           (live'[f] \in Saves' => live'[f] \in risked')
    BY <1>3, SaveEffect, DeleteEffect, Folders DEF InTheWay
  <2>4. ASSUME guard.stage = "restore", guard.step # "remove", live'[guard.file] \in Saves'
        PROVE  live'[guard.file] \in risked'
    BY <1>0, <2>1, <2>2, <2>3, <2>4 DEF RestoreSafe
  <2>5. ASSUME guard.stage = "restore"
        PROVE  Missing(live[guard.file])' = {} /\ Missing(held[guard.file])' = {}
    <3>1. Missing(live[guard.file]) = {} /\ Missing(held[guard.file]) = {}
      BY <2>5 DEF RestoreSafe
    <3>2. Missing(live[f])' = {}
      BY <1>3, MissingAfter
    <3>3. \A g \in Files : g # f => Missing(live[g])' = Missing(live[g])
      BY <1>3, MissingAfter
    <3>4. \A g \in Files : Missing(held[g])' = Missing(held[g])
      BY <1>3, MissingAfter
    <3> QED  BY <1>0, <2>1, <3>1, <3>2, <3>3, <3>4 DEF Missing, Readable
  <2> QED  BY <2>1, <2>4, <2>5 DEF RestoreSafe
<1>4. ASSUME NEW f \in Files, Look(f) PROVE RestoreSafe'
  <2>1. guard'.stage = "restore" => live[f] = Nothing /\ Missing(held[f]) = {}
    BY <1>0, <1>4, LookShape DEF HoldStage, Restores
  <2>2. guard'.file = f /\ UNCHANGED <<saved, live, held, registered>>
    BY <1>0, <1>4, LookShape DEF disk
  <2>3. Missing(held[f])' = Missing(held[f]) /\ Nothing \notin Saves'
    BY <2>2, <1>0, MissingStays, Folders DEF Saves, Nothing
  <2>4. guard'.stage = "restore" => Missing(live[f])' = {}
    BY <2>1, <2>2, <2>3 DEF Missing, Readable
  <2> QED  BY <2>1, <2>2, <2>3, <2>4 DEF RestoreSafe
<1>5. CASE MoveFile /\ guard'.stage = "restore"
  <2> DEFINE f == guard.file
             l == live[f]
             h == held[f]
  <2>0. /\ Nothing \notin Saves /\ Partial \notin Saves /\ Saves' = Saves
        /\ saved' = saved /\ registered' = registered /\ guard'.file = f
    BY <1>5, MoveFrame, Folders DEF SameFile
  <2>1. guard.stage = "restore"
    BY <1>5, ArchiveOutcome, HoldOutcome, MoveWithin DEF Moving, GoesOn, StaysAt
  <2>2. \/ Becomes(Partial, h)
        \/ (Becomes(h, h) \/ Becomes(l, h)) /\ guard'.step = "remove"
    BY <1>5, <2>1, RestoreOutcome DEF GoesOn, StaysAt
  <2>3. Missing(l) = {} /\ Missing(h) = {} /\ Missing(Partial) = {}
    BY <2>1, NothingMissing DEF RestoreSafe
  <2>4. \A x \in {l, h, Partial} : Missing(x)' = {}
    BY <1>0, <2>0, <2>3, MissingStays, Folders
  <2>5. \A x, y : Becomes(x, y) => live'[f] = x /\ held'[f] = y
    BY DEF Becomes
  <2>6. live'[f] \in {l, h, Partial} /\ held'[f] = h
    BY <2>2, <2>5
  <2>7. Missing(live[f])' = {} /\ Missing(held[f])' = {}
    BY <2>0, <2>4, <2>6 DEF Missing, Readable
  <2> QED  BY <2>0, <2>2, <2>5, <2>7 DEF RestoreSafe
<1>6. CASE Starts \/ StartsUnguarded \/ Finished \/ Ends
  BY <1>2, <1>6, IdleShape DEF Moving
<1> QED  BY <1>1, <1>3, <1>4, <1>5, <1>2, <1>6 DEF Next

\* What the guard has dealt with stays readable: the game saves no match it
\* cannot read.
LEMMA LookedAtKept ==
  ASSUME SavesTypeOK, CopyUnderWay, RestoreSafe, LookedAt, DoneIsAll, [Next]_vars
  PROVE  LookedAt' /\ DoneIsAll'
<1> USE DEF Moving
<1>0. guard \in GuardStates /\ guard.file \in Files /\ \A f \in Files : live[f] \in Contents
  BY Folders
<1>1. CASE UNCHANGED vars
  BY <1>1 DEF LookedAt, DoneIsAll, Missing, Readable, Saves, vars, disk
<1>2. CASE Starts \/ StartsUnguarded
  BY <1>2 DEF Starts, StartsUnguarded, Guard, LookedAt, DoneIsAll
<1>3. CASE Ends
  BY <1>3, EndShape DEF LookedAt, DoneIsAll
<1>4. ASSUME NEW f \in Files, GameSaves(f) \/ GameDeletes(f) PROVE LookedAt' /\ DoneIsAll'
  <2>1. guard' = guard
    BY <1>4, SaveEffect, DeleteEffect
  <2>2. \A g \in Files : Missing(live[g])' = {} \/ Missing(live[g])' = Missing(live[g])
    BY <1>4, MissingAfter
  <2> QED  BY <2>1, <2>2 DEF LookedAt, DoneIsAll
<1>5. ASSUME saved' = saved, registered' = registered
      PROVE  \A c \in Contents : Missing(c)' = Missing(c)
  BY <1>5, MissingStays
<1>6. ASSUME NEW f \in Files, Look(f) PROVE LookedAt' /\ DoneIsAll'
  <2>1. /\ saved' = saved /\ live' = live /\ registered' = registered
        /\ guard.stage = "next" /\ guard'.stage \in {"archive", "hold", "restore", "next"}
        /\ guard'.todo = guard.todo \ {f} /\ guard'.file = f /\ guard'.failed = guard.failed
    BY <1>0, <1>6, LookShape DEF disk, HoldStage
  <2>2. guard'.stage = "next" => Missing(live[f]) = {}
    BY <1>0, <1>6, LookShape, NothingMissing DEF HoldStage, Holds
  <2>3. \A g \in Files : Missing(live[g])' = Missing(live[g])
    BY <1>0, <1>5, <2>1
  <2> QED  BY <2>1, <2>2, <2>3 DEF LookedAt, DoneIsAll
<1>7. CASE Finished
  <2>1. /\ saved' = saved /\ live' = live /\ registered' = registered
        /\ guard.stage = "next" /\ guard.todo = {} /\ guard'.stage = "done"
        /\ guard'.todo = guard.todo /\ guard'.failed = guard.failed
    BY <1>0, <1>7 DEF Finished, disk, GuardStates
  <2>2. \A g \in Files : Missing(live[g])' = Missing(live[g])
    BY <1>0, <1>5, <2>1
  <2> QED  BY <2>1, <2>2 DEF LookedAt, DoneIsAll
<1>8. CASE MoveFile
  <2> DEFINE f == guard.file
             l == live[f]
             h == held[f]
  <2>0. /\ saved' = saved /\ registered' = registered
        /\ guard'.todo = guard.todo /\ guard'.file = f /\ guard.stage \in Moving
    BY <1>8, MoveFrame, MoveWithin DEF SameFile
  <2>1. \A g \in Files \ {f} : Missing(live[g])' = Missing(live[g])
    <3>1. \A g \in Files \ {f} : live'[g] = live[g]
      BY <1>8, MoveWithin DEF Becomes
    <3>2. \A c \in Contents : Missing(c)' = Missing(c)
      BY <1>5, <2>0
    <3> QED  BY <1>0, <3>1, <3>2 DEF Missing, Readable
  <2>2. /\ guard.failed \subseteq guard'.failed
        /\ \/ guard'.stage \in Moving
           \/ guard'.stage = "next" /\ (f \in guard'.failed \/ Missing(live[f])' = {})
    <3>1. CASE guard.stage = "archive"
      BY <1>8, <3>1, ArchiveOutcome DEF GoesOn, StaysAt
    <3>2. CASE guard.stage = "hold"
      <4>1. \/ GoesOn("next", guard.failed \cup {f})
            \/ \E x : StaysAt("copying", x) \/ StaysAt("remove", x)
            \/ GoesOn("next", guard.failed) /\ \E x : Becomes(Nothing, x)
        BY <1>8, <3>2, HoldOutcome
      <4>2. (\E x : Becomes(Nothing, x)) => live'[f] = Nothing
        BY DEF Becomes
      <4>3. Nothing \notin Saves'
        BY <1>8, MoveFrame, Folders
      <4>4. (\E x : Becomes(Nothing, x)) => Missing(live[f])' = {}
        BY <2>0, <4>2, <4>3 DEF Missing, Readable
      <4> QED  BY <3>2, <4>1, <4>4 DEF GoesOn, StaysAt
    <3>3. CASE guard.stage = "restore"
      <4>1. \/ \E x : StaysAt("copying", x) \/ StaysAt("remove", x)
            \/ GoesOn("next", guard.failed)
               /\ \E x : \E y \in {h, l, Partial, Nothing} : Becomes(y, x)
        BY <1>8, <3>3, RestoreOutcome
      <4>2. (\E x : \E y \in {h, l, Partial, Nothing} : Becomes(y, x)) =>
               live'[f] \in {h, l, Partial, Nothing}
        BY DEF Becomes
      <4>3. \A c \in {h, l, Partial, Nothing} : Missing(c)' = {}
        <5>1. \A c \in {h, l, Partial, Nothing} : c \in Contents /\ Missing(c) = {}
          BY <3>3, NothingMissing, Folders DEF RestoreSafe
        <5> QED  BY <1>5, <2>0, <5>1
      <4>4. live'[f] \in {h, l, Partial, Nothing} => Missing(live[f])' = {}
        BY <2>0, <4>3 DEF Missing, Readable
      <4> QED  BY <3>3, <4>1, <4>2, <4>4 DEF GoesOn, StaysAt
    <3> QED  BY <2>0, <3>1, <3>2, <3>3
  <2> QED  BY <2>0, <2>1, <2>2 DEF LookedAt, DoneIsAll
<1> QED
  BY <1>1, <1>2, <1>3, <1>4, <1>6, <1>7, <1>8 DEF Next
----------------------------------------------------------------------------
(* SavesInv is an inductive invariant of the specification: whatever the   *)
(* game writes or deletes between the steps of a move, wherever the move   *)
(* fails and whenever the process ends.                                    *)
THEOREM SavesInvariant == Spec => []SavesInv
<1>1. Init => SavesInv
  <2> SUFFICES ASSUME Init PROVE SavesInv
    OBVIOUS
  <2>1. /\ saved = <<>> /\ Saves = {} /\ given = {} /\ risked = {} /\ doubled = {}
        /\ registered = {} /\ \A f \in Files : live[f] = Nothing /\ held[f] = Nothing /\ older[f] = <<>>
    BY DEF Init, Saves
  <2>2. /\ guard \in GuardStates /\ guard.stage = "off"
        /\ guard.step = "rename" /\ guard.copy = Nothing
    BY SavesAssumption DEF Init, Guard, GuardStates, Stages, Steps, Contents
  <2>3. SavesTypeOK
    BY <2>1, <2>2 DEF Init, SavesTypeOK, GuardStates, Contents
  <2> QED
    BY <2>1, <2>2, <2>3
       DEF SavesInv, Own, Owns, AllKept, OneEach, CopyUnderWay, TransitTwice,
           HoldSafe, RestoreSafe, LookedAt, DoneIsAll
<1>2. SavesInv /\ [Next]_vars => SavesInv'
  BY TypesKept, OwnKept, AllKeptKept, OneEachKept, CopyKept, TransitTwiceKept,
     HoldSafeKept, RestoreSafeKept, LookedAtKept
     DEF SavesInv
<1> QED  BY <1>1, <1>2, PTL DEF Spec

(* The variables of the save guard keep their types, for all files, towers *)
(* and numbers of saves.                                                   *)
THEOREM SavesTyped == Spec => []SavesTypeOK
<1>1. SavesInv => SavesTypeOK  BY DEF SavesInv
<1> QED  BY <1>1, SavesInvariant, PTL

\* The places of a file: its own folder, the loader's, and the older ones.
LEMMA StoredFacts ==
  ASSUME SavesTypeOK, NEW f \in Files
  PROVE  /\ Len(older[f]) \in Nat /\ DOMAIN older[f] = 1..Len(older[f])
         /\ Len(Stored(f)) = 2 + Len(older[f])
         /\ Stored(f)[1] = live[f] /\ Stored(f)[2] = held[f]
         /\ \A i \in 1..Len(older[f]) : Stored(f)[i + 2] = older[f][i]
         /\ \A i \in 3..(2 + Len(older[f])) : Stored(f)[i] = older[f][i - 2]
<1>1. older[f] \in Seq(Contents) /\ live[f] \in Contents /\ held[f] \in Contents
  BY DEF SavesTypeOK
<1>2. <<live[f], held[f]>> \in Seq(Contents)
  BY <1>1
<1>3. Len(<<live[f], held[f]>>) = 2
  OBVIOUS
<1> QED  BY <1>1, <1>2, <1>3, ConcatProperties DEF Stored

(* guard_match_saves() keeps each match save in one place of its own file, *)
(* for every crash between two changes of the disk and whatever the game   *)
(* does between the steps of a move, with the exceptions SaveKept and      *)
(* SaveInOnePlace name: lost may be a save left in the way of a failed     *)
(* archive, one the game wrote to a file the guard was restoring or        *)
(* removing, and a copy whose target the game used; kept in two places, or *)
(* after the game gave it up, may be a copied save whose source the guard  *)
(* did not remove, and a save between its copy and its removal.            *)
THEOREM SavesKeptOnce == Spec => []SaveKeptOnce
<1>1. ASSUME SavesInv PROVE SaveKept
  <2> SUFFICES ASSUME NEW s \in Saves \ (given \cup risked)
               PROVE  \E i \in 1..Len(Stored(saved[s].file)) : Stored(saved[s].file)[i] = s
    BY <1>1, Folders DEF SaveKept, SavesInv
  <2> DEFINE f == saved[s].file
  <2>1. f \in Files /\ InPlace(s)
    BY <1>1, Folders DEF SavesInv, AllKept
  <2> HIDE DEF f
  <2>2. /\ 1 \in 1..Len(Stored(f)) /\ 2 \in 1..Len(Stored(f))
        /\ Stored(f)[1] = live[f] /\ Stored(f)[2] = held[f]
        /\ \A i \in DOMAIN older[f] : i + 2 \in 1..Len(Stored(f)) /\ Stored(f)[i + 2] = older[f][i]
    BY <1>1, <2>1, StoredFacts DEF SavesInv
  <2>3. live[f] = s \/ held[f] = s \/ \E i \in DOMAIN older[f] : older[f][i] = s
    BY <2>1 DEF InPlace, f
  <2>4. \E i \in 1..Len(Stored(f)) : Stored(f)[i] = s
    BY <2>2, <2>3
  <2> QED  BY <2>4 DEF f
<1>2. ASSUME SavesInv PROVE SaveInOnePlace
  <2> SUFFICES ASSUME NEW s \in Saves \ (doubled \cup InTransit)
               PROVE  Cardinality(Copies(s)) <= IF s \in given THEN 0 ELSE 1
    BY DEF SaveInOnePlace
  <2>1. \A p \in Copies(s) : \E f \in Files : \E i \in 1..Len(Stored(f)) :
            p = <<f, i>> /\ Stored(f)[i] = s
    BY DEF Copies
  <2>2. ASSUME NEW f \in Files, NEW i \in 1..Len(Stored(f)), Stored(f)[i] = s
        PROVE  /\ s \notin given /\ f = saved[s].file
               /\ \A j \in 1..Len(Stored(f)) : Stored(f)[j] = s => i = j
    <3>1. SingleIn(f, s) /\ (s \in given => GoneFrom(f, s)) /\ Owns(f)
      BY <1>2 DEF SavesInv, OneEach, Own
    <3>2. \A j \in 1..Len(Stored(f)) :
             \/ j = 1 /\ Stored(f)[j] = live[f]
             \/ j = 2 /\ Stored(f)[j] = held[f]
             \/ j - 2 \in DOMAIN older[f] /\ Stored(f)[j] = older[f][j - 2]
      BY <1>2, StoredFacts DEF SavesInv
    <3>3. s \notin given
      BY <2>2, <3>1, <3>2 DEF GoneFrom
    <3>4. f = saved[s].file
      BY <2>2, <3>1, <3>2 DEF Owns
    <3>5. ASSUME NEW j \in 1..Len(Stored(f)), Stored(f)[j] = s PROVE i = j
      <4>1. i \in Int /\ j \in Int  BY <1>2, StoredFacts DEF SavesInv
      <4>2. i - 2 = j - 2 => i = j  BY <4>1
      <4> QED  BY <2>2, <3>1, <3>2, <3>5, <4>2 DEF SingleIn
    <3> QED  BY <3>3, <3>4, <3>5
  <2>3. CASE Copies(s) = {}
    BY <2>3, FS_EmptySet
  <2>4. CASE Copies(s) # {}
    <3>1. PICK p \in Copies(s) : TRUE  BY <2>4
    <3>2. Copies(s) = {p} /\ s \notin given
      BY <2>1, <2>2, <3>1
    <3>3. Cardinality({p}) = 1  BY FS_Singleton
    <3> QED  BY <3>2, <3>3
  <2> QED  BY <2>3, <2>4
<1> QED  BY <1>1, <1>2, SavesInvariant, PTL DEF SaveKeptOnce

(* When the guard is done, no save in the game's folder names a tower the  *)
(* game does not know, unless a move of that file failed.                  *)
THEOREM DoneSavesKnown == Spec => []LiveSavesKnown
<1>1. SavesInv => LiveSavesKnown
  BY DEF SavesInv, LookedAt, DoneIsAll, LiveSavesKnown, Moving
<1> QED  BY <1>1, SavesInvariant, PTL

-----------------------------------------------------------------------------
(* Sums: SumFunction of natural numbers.  Its recursion has a solution on    *)
(* the subsets of a finite set, by the number of their elements.             *)

\* The element SumFunction takes from a set first, and how it goes on.
Pick(s) == CHOOSE x \in s : TRUE
SumStep(f, S, g) ==
  [s \in SUBSET S |-> IF s = {} THEN 0 ELSE f[Pick(s)] + g[s \ {Pick(s)}]]

LEMMA PickSmaller ==
  ASSUME NEW S, IsFiniteSet(S), NEW s \in SUBSET S, s # {}
  PROVE  /\ Pick(s) \in s /\ s \ {Pick(s)} \in SUBSET S
         /\ IsFiniteSet(s) /\ Cardinality(s) \in Nat \ {0}
         /\ Cardinality(s \ {Pick(s)}) = Cardinality(s) - 1
<1>1. Pick(s) \in s  BY DEF Pick
<1>2. IsFiniteSet(s) /\ Cardinality(s) \in Nat /\ Cardinality(s) # 0
  BY FS_Subset, FS_CardinalityType, FS_EmptySet
<1>3. Cardinality(s \ {Pick(s)}) = Cardinality(s) - 1
  BY <1>1, <1>2, FS_RemoveElement
<1> QED  BY <1>1, <1>2, <1>3

\* The recursion of SumFunction has a solution on the subsets of a finite set.
LEMMA SumExists ==
  ASSUME NEW S, IsFiniteSet(S), NEW f \in [S -> Nat]
  PROVE  \E g : g = SumStep(f, S, g)
<1> DEFINE n == Cardinality(S)
           V == [SUBSET S -> Nat]
           nought == [s \in SUBSET S |-> 0]
           G == [x \in (1 .. n + 1) \X V |-> SumStep(f, S, x[2])]
<1>1. n \in Nat  BY FS_CardinalityType
<1>2. ASSUME NEW g \in V PROVE SumStep(f, S, g) \in V
  <2>1. ASSUME NEW s \in SUBSET S
        PROVE  (IF s = {} THEN 0 ELSE f[Pick(s)] + g[s \ {Pick(s)}]) \in Nat
    BY PickSmaller
  <2> QED  BY <2>1 DEF SumStep
<1>3. nought \in V /\ G \in [(1 .. n + 1) \X V -> V]  BY <1>2
<1>4. PICK h \in [0 .. n + 1 -> V] : Iterates(h, n + 1, nought, G)
  <2> HIDE DEF nought, G, V, n
  <2>1. n + 1 \in Nat  BY <1>1
  <2> QED  BY <1>3, <2>1, Iteration
<1>5. ASSUME NEW k \in 1 .. n + 1 PROVE h[k] = SumStep(f, S, h[k - 1])
  <2>1. h[k] = G[<<k, h[k - 1]>>]  BY <1>4 DEF Iterates
  <2>2. k - 1 \in 0 .. n + 1  BY <1>1
  <2> HIDE DEF V, n
  <2> QED  BY <2>1, <2>2
\* The sums of sets of k elements are settled after k rounds.
<1> DEFINE D == {k \in 0 .. n : \A s \in SUBSET S : Cardinality(s) <= k => h[k + 1][s] = h[k][s]}
<1>6. 0 \in D
  <2>1. ASSUME NEW s \in SUBSET S, Cardinality(s) <= 0 PROVE h[1][s] = h[0][s]
    <3>1. s = {}
      <4>1. s # {} => Cardinality(s) \in Nat \ {0}  BY PickSmaller
      <4> QED  BY <2>1, <4>1
    <3>2. h[1] = SumStep(f, S, h[0])
      <4>1. 1 \in 1 .. n + 1 /\ 1 - 1 = 0  BY <1>1
      <4> QED  BY <1>5, <4>1
    <3>3. h[1][s] = 0
      <4> HIDE DEF n, V, nought, G
      <4> QED  BY <3>1, <3>2 DEF SumStep
    <3>4. h[0][s] = 0  BY <1>4 DEF Iterates
    <3> QED  BY <3>3, <3>4
  <2>2. 0 \in 0 .. n /\ 0 + 1 = 1  BY <1>1
  <2> HIDE DEF n, V, nought, G
  <2> QED  BY <2>1, <2>2
<1>7. ASSUME NEW k \in 1 .. n, k - 1 \in D PROVE k \in D
  <2>0. k \in 1 .. n + 1 /\ k + 1 \in 1 .. n + 1 /\ k + 1 - 1 = k /\ k - 1 + 1 = k /\ k \in 0 .. n
    BY <1>1
  <2>1. h[k + 1] = SumStep(f, S, h[k]) /\ h[k] = SumStep(f, S, h[k - 1])
    <3>1. h[k + 1] = SumStep(f, S, h[k + 1 - 1])
      <4> HIDE DEF n, V, G
      <4> QED  BY <1>5, <2>0
    <3>2. h[k] = SumStep(f, S, h[k - 1])
      <4> HIDE DEF n, V, G
      <4> QED  BY <1>5, <2>0
    <3> QED  BY <2>0, <3>1, <3>2
  <2>2. \A s \in SUBSET S : Cardinality(s) <= k - 1 => h[k][s] = h[k - 1][s]
    BY <1>7, <2>0
  <2>3. ASSUME NEW s \in SUBSET S, Cardinality(s) <= k PROVE h[k + 1][s] = h[k][s]
    <3>1. CASE s = {}
      <4> HIDE DEF n, V, G
      <4> QED  BY <2>1, <3>1 DEF SumStep
    <3>2. CASE s # {}
      <4> DEFINE r == s \ {Pick(s)}
      <4>1. r \in SUBSET S /\ Cardinality(r) = Cardinality(s) - 1 /\ Cardinality(s) \in Nat
        BY <3>2, PickSmaller
      <4>2. Cardinality(r) <= k - 1
        <5> HIDE DEF r, n
        <5> QED  BY <2>0, <2>3, <4>1
      <4>3. h[k][r] = h[k - 1][r]  BY <2>2, <4>1, <4>2
      <4>4. h[k + 1][s] = f[Pick(s)] + h[k][r] /\ h[k][s] = f[Pick(s)] + h[k - 1][r]
        <5> HIDE DEF n, V, G
        <5> QED  BY <2>1, <3>2 DEF SumStep
      <4> QED  BY <4>3, <4>4
    <3> QED  BY <3>1, <3>2
  <2> HIDE DEF n, V, G
  <2> QED  BY <2>0, <2>3
<1>8. n \in D
  <2> HIDE DEF D, n
  <2>1. 0 .. n \subseteq D  BY <1>1, <1>6, <1>7, UpTo
  <2> QED  BY <1>1, <2>1
<1>9. h[n + 1] = h[n]
  <2>1. n \in 0 .. n + 1 /\ n + 1 \in 0 .. n + 1  BY <1>1
  <2>2. h[n] \in V /\ h[n + 1] \in V
    <3> HIDE DEF n, V
    <3> QED  BY <2>1
  <2>3. ASSUME NEW s \in SUBSET S PROVE h[n + 1][s] = h[n][s]
    <3>1. Cardinality(s) <= n  BY FS_Subset
    <3> QED  BY <1>8, <3>1
  <2> HIDE DEF n
  <2> QED  BY <2>2, <2>3
<1>10. h[n + 1] = SumStep(f, S, h[n])
  <2> DEFINE k == n + 1
  <2>1. k \in 1 .. n + 1 /\ k - 1 = n  BY <1>1
  <2> HIDE DEF k
  <2>2. h[k] = SumStep(f, S, h[k - 1])  BY <1>5, <2>1
  <2> QED  BY <2>1, <2>2 DEF k
<1> QED  BY <1>9, <1>10

\* The sum of finitely many natural numbers is one, and none exceeds it.
LEMMA SumOfNats ==
  ASSUME NEW S, IsFiniteSet(S), NEW f \in [S -> Nat]
  PROVE  /\ SumFunction(f) \in Nat
         /\ \A x \in S : f[x] <= SumFunction(f)
         /\ (\A x \in S : f[x] = 0) => SumFunction(f) = 0
<1> DEFINE g == CHOOSE g : g = SumStep(f, S, g)
<1>1. g = SumStep(f, S, g)
  <2>1. \E c : c = SumStep(f, S, c)  BY SumExists
  <2> QED  BY <2>1
<1>2. SumFunction(f) = g[S]
  BY DEF SumFunction, SumFunctionOnSet, FoldFunctionOnSet, MapThenFoldSet, SumStep, Pick
<1> HIDE DEF g
<1>3. g[{}] = 0  BY <1>1 DEF SumStep
<1>4. ASSUME NEW s \in SUBSET S, s # {} PROVE g[s] = f[Pick(s)] + g[s \ {Pick(s)}]
  BY <1>1, <1>4 DEF SumStep
<1> DEFINE Right(s) == /\ g[s] \in Nat /\ \A x \in s : f[x] <= g[s]
                       /\ (\A x \in s : f[x] = 0) => g[s] = 0
           Wrong == {k \in Nat : \E s \in SUBSET S : Cardinality(s) = k /\ ~Right(s)}
<1>5. Wrong = {}
  <2>1. SUFFICES ASSUME Wrong # {} PROVE FALSE  OBVIOUS
  <2>2. PICK k \in Wrong : \A j \in Wrong : k <= j
    <3>1. Wrong \in SUBSET Nat  OBVIOUS
    <3> HIDE DEF Wrong
    <3> QED  BY <2>1, <3>1, LeastNat
  <2>3. PICK s \in SUBSET S : Cardinality(s) = k /\ ~Right(s)  BY <2>2
  <2>4. s # {}  BY <1>3, <2>3
  <2> DEFINE p == Pick(s)
             r == s \ {p}
  <2>5. /\ p \in s /\ r \in SUBSET S /\ k \in Nat \ {0} /\ Cardinality(r) = k - 1
        /\ f[p] \in Nat
    BY <2>3, <2>4, PickSmaller
  <2>6. Right(r)
    <3>1. k - 1 \in Nat /\ k - 1 \notin Wrong
      <4> HIDE DEF Wrong
      <4> QED  BY <2>2, <2>5
    <3> HIDE DEF Right, r
    <3> QED  BY <2>5, <3>1
  <2>7. g[s] = f[p] + g[r]  BY <1>4, <2>4
  <2>8. \A x \in s : x = p \/ x \in r  OBVIOUS
  <2>9. \A x \in r : x \in s  OBVIOUS
  <2>10. \A x \in s : f[x] \in Nat  OBVIOUS
  <2> HIDE DEF p, r
  <2>11. g[s] \in Nat /\ f[p] <= g[s] /\ g[r] <= g[s]  BY <2>5, <2>6, <2>7
  <2>12. \A x \in s : f[x] <= g[s]  BY <2>6, <2>8, <2>10, <2>11
  <2>13. (\A x \in s : f[x] = 0) => g[s] = 0  BY <2>5, <2>6, <2>7, <2>9
  <2> QED  BY <2>3, <2>11, <2>12, <2>13
<1>6. Right(S)
  <2>1. S \in SUBSET S /\ Cardinality(S) \in Nat  BY FS_CardinalityType
  <2> HIDE DEF Right
  <2> QED  BY <1>5, <2>1
<1> QED  BY <1>2, <1>6

-----------------------------------------------------------------------------
(* The XP of one tower.                                                      *)

\* A tower's node and its track, and what the two make of its XP: the
\* operators of the model, of values instead of the state.
NodeSet == [at : Addresses \cup {0}, xp : Nat]
TrackSet == [node : Addresses, total : Nat] \cup {NoTrack}
Rec(k, p) == IF k = NoTrack THEN p ELSE k.total
Reb(n, k, p) == n.at # k.node \/ n.xp < Rec(k, p)
Val(n, k, p) == IF Reb(n, k, p) THEN n.xp + Rec(k, p) ELSE n.xp

\* A tower t with node n, track k, progress p, of which al are aliased.
TowerOK(t, n, k, p, al) ==
    /\ n \in NodeSet /\ k \in TrackSet /\ p \in Nat
    /\ n.at = 0 => n.xp = 0 /\ t \notin al
    /\ p <= Rec(k, p)
\* Its XP is the o it should have, as far as the nodes tell.
SeenBy(t, n, k, p, o, al) ==
    /\ o \in Nat /\ Val(n, k, p) <= o
    /\ (t \notin al \/ Reb(n, k, p)) => Val(n, k, p) = o
    /\ (k # NoTrack /\ n.at = k.node /\ n.xp < k.total) => t \in al
\* It was taken from its node, to be put back as h.
TakenFrom(t, n, k, p, h, o, al) ==
    /\ n.at \in Addresses /\ n.xp = 0 /\ k = [node |-> n.at, total |-> h]
    /\ p = h /\ h \in Nat /\ o \in Nat /\ h <= o /\ (t \notin al => h = o)

LEMMA TrackFacts ==
  ASSUME NEW k \in TrackSet, NEW p \in Nat
  PROVE  /\ Rec(k, p) \in Nat
         /\ k # NoTrack => k.node \in Addresses /\ k.total \in Nat
         /\ k = NoTrack => k.node = 0 /\ Rec(k, p) = p
  BY DEF TrackSet, Rec, NoTrack

LEMMA ValueFacts ==
  ASSUME NEW t, NEW n, NEW k, NEW p, NEW al, TowerOK(t, n, k, p, al)
  PROVE  /\ Val(n, k, p) \in Nat /\ Rec(k, p) \in Nat /\ Rec(k, p) <= Val(n, k, p)
         /\ n.at = 0 => Val(n, k, p) = Rec(k, p)
         /\ n.at \in Addresses \cup {0} /\ n.xp \in Nat
<1>1. Rec(k, p) \in Nat /\ n.xp \in Nat /\ n.at \in Addresses \cup {0}
  BY TrackFacts DEF TowerOK, NodeSet
<1>2. n.at = 0 => n.xp = 0  BY DEF TowerOK
<1> QED  BY <1>1, <1>2 DEF Val, Reb

\* A node that was just looked at.
LEMMA TrackedValue ==
  ASSUME NEW a \in Addresses, NEW x \in Nat, NEW n, n = [at |-> a, xp |-> x], NEW p \in Nat
  PROVE  /\ Tracked(n) \in TrackSet /\ Tracked(n) # NoTrack /\ Rec(Tracked(n), p) = x
         /\ Val(n, Tracked(n), p) = x /\ ~Reb(n, Tracked(n), p)
         /\ Tracked(n) = [node |-> a, total |-> x]
<1> DEFINE k == Tracked(n)
<1>1. k = [node |-> a, total |-> x]  BY DEF Tracked
<1>2. k.total # NoTrack.total  BY <1>1 DEF NoTrack
<1>3. k # NoTrack /\ k \in TrackSet  BY <1>1, <1>2 DEF TrackSet
<1> HIDE DEF k
<1>4. Rec(k, p) = x /\ k.node = a  BY <1>1, <1>3 DEF Rec
<1>5. ~Reb(n, k, p)  BY <1>4 DEF Reb
<1> QED  BY <1>1, <1>3, <1>4, <1>5 DEF Val, k

\* The XP of a node that was just looked at is what the hooks made of it.
LEMMA NodeSeen ==
  ASSUME NEW t, NEW n, NEW k, NEW p, NEW o, NEW al, NEW a \in Addresses, NEW g \in Nat,
         NEW m, m = [at |-> a, xp |-> Val(n, k, p) + g], NEW al2, 
         TowerOK(t, n, k, p, al), SeenBy(t, n, k, p, o, al),
         t \in al2 <=> t \in al /\ ~Reb(n, k, p)
  PROVE  /\ TowerOK(t, m, Tracked(m), p, al2)
         /\ SeenBy(t, m, Tracked(m), p, o + g, al2)
<1> DEFINE v == Val(n, k, p)
           x == v + g
           q == Tracked(m)
<1>1. v \in Nat /\ Rec(k, p) \in Nat /\ Rec(k, p) <= v /\ p \in Nat /\ p <= Rec(k, p)
  BY ValueFacts DEF TowerOK
<1>2. o \in Nat /\ v <= o /\ (t \notin al2 => v = o)
  BY DEF SeenBy
<1> HIDE DEF v
<1>3. x \in Nat  BY <1>1
<1>4. m = [at |-> a, xp |-> x]  BY DEF v
<1> HIDE DEF x
<1>5. /\ q \in TrackSet /\ q # NoTrack /\ Rec(q, p) = x /\ Val(m, q, p) = x /\ ~Reb(m, q, p)
      /\ q = [node |-> a, total |-> x]
  BY <1>1, <1>3, <1>4, TrackedValue
<1>6. m \in NodeSet /\ m.at = a /\ m.xp = x /\ a # 0
  BY <1>3, <1>4, XpAssumption DEF NodeSet
<1>7. q.total = x  BY <1>5
<1> HIDE DEF q
<1>8. TowerOK(t, m, q, p, al2)
  BY <1>1, <1>3, <1>5, <1>6 DEF TowerOK, x
<1>9. SeenBy(t, m, q, p, o + g, al2)
  <2>1. o + g \in Nat /\ x <= o + g /\ (t \notin al2 => x = o + g)
    BY <1>1, <1>2 DEF x
  <2>2. ~(m.xp < q.total)  BY <1>3, <1>6, <1>7
  <2> QED  BY <1>5, <2>1, <2>2 DEF SeenBy
<1> QED  BY <1>8, <1>9 DEF q

\* XP the game adds, to the node or to a new one at a.
LEMMA GainSeen ==
  ASSUME NEW t, NEW n, NEW k, NEW p, NEW o, NEW al, NEW a \in Addresses, NEW g \in Nat \ {0},
         NEW m, NEW al2, TowerOK(t, n, k, p, al), SeenBy(t, n, k, p, o, al),
         m = IF n.at = 0 THEN [at |-> a, xp |-> g] ELSE [at |-> n.at, xp |-> n.xp + g],
         al2 = IF n.at = 0 /\ a = k.node THEN al \cup {t} ELSE al
  PROVE  /\ TowerOK(t, m, k, p, al2)
         /\ SeenBy(t, m, k, p, o + g, al2)
<1>1. /\ Rec(k, p) \in Nat /\ n.xp \in Nat /\ n.at \in Addresses \cup {0} /\ o \in Nat
      /\ p \in Nat /\ p <= Rec(k, p) /\ k \in TrackSet
      /\ n.at = 0 => n.xp = 0 /\ t \notin al
      /\ k # NoTrack => k.node \in Addresses /\ k.total \in Nat /\ Rec(k, p) = k.total
      /\ k = NoTrack => k.node = 0
  BY ValueFacts, TrackFacts DEF TowerOK, SeenBy, Rec
<1>2. /\ Val(n, k, p) <= o
      /\ (t \notin al \/ Reb(n, k, p)) => Val(n, k, p) = o
      /\ (k # NoTrack /\ n.at = k.node /\ n.xp < k.total) => t \in al
  BY DEF SeenBy
<1>3. CASE n.at = 0
  <2>1. m.at = a /\ m.xp = g /\ m \in NodeSet /\ a # 0
    BY <1>3, XpAssumption DEF NodeSet
  <2>2. Val(n, k, p) = Rec(k, p) /\ o = Rec(k, p)
    BY <1>1, <1>2, <1>3, ValueFacts
  <2>3. a = k.node => t \in al2 /\ k # NoTrack
    BY <1>1, <1>3, <2>1
  <2>4. TowerOK(t, m, k, p, al2)
    BY <1>1, <2>1 DEF TowerOK
  <2>5. SeenBy(t, m, k, p, o + g, al2)
    BY <1>1, <2>1, <2>2, <2>3 DEF SeenBy, Val, Reb
  <2> QED  BY <2>4, <2>5
<1>4. CASE n.at # 0
  <2>1. m.at = n.at /\ m.xp = n.xp + g /\ m \in NodeSet /\ al2 = al
    BY <1>1, <1>4 DEF NodeSet
  <2>2. TowerOK(t, m, k, p, al2)
    BY <1>1, <1>4, <2>1 DEF TowerOK
  <2>3. SeenBy(t, m, k, p, o + g, al2)
    <3>1. CASE n.at # k.node
      <4>1. Reb(n, k, p) /\ Reb(m, k, p)  BY <2>1, <3>1 DEF Reb
      <4> QED  BY <1>1, <1>2, <2>1, <3>1, <4>1 DEF SeenBy, Val
    <3>2. CASE n.at = k.node
      <4>1. k # NoTrack /\ Rec(k, p) = k.total  BY <1>1, <1>4, <3>2
      <4>2. CASE n.xp < k.total
        <5>1. t \in al /\ Val(n, k, p) = n.xp + k.total /\ o = n.xp + k.total
          BY <1>2, <3>2, <4>1, <4>2 DEF Val, Reb
        <5> QED  BY <1>1, <2>1, <3>2, <4>1, <5>1 DEF SeenBy, Val, Reb
      <4>3. CASE ~(n.xp < k.total)
        <5>1. Val(n, k, p) = n.xp /\ ~(m.xp < k.total)
          BY <1>1, <2>1, <3>2, <4>1, <4>3 DEF Val, Reb
        <5>2. ~Reb(m, k, p)  BY <2>1, <3>2, <4>1, <5>1 DEF Reb
        <5> QED  BY <1>1, <1>2, <2>1, <5>1, <5>2 DEF SeenBy, Val
      <4> QED  BY <4>2, <4>3
    <3> QED  BY <3>1, <3>2
  <2> QED  BY <2>2, <2>3
<1> QED  BY <1>3, <1>4

\* A tower without a node has what is recorded.
LEMMA NothingAdded ==
  ASSUME NEW t, NEW k \in TrackSet, NEW p \in Nat, p <= Rec(k, p), NEW al, t \notin al
  PROVE  /\ TowerOK(t, NoNode, k, p, al)
         /\ Val(NoNode, k, p) = Rec(k, p)
         /\ SeenBy(t, NoNode, k, p, Rec(k, p), al)
<1>1. NoNode.at = 0 /\ NoNode.xp = 0 /\ NoNode \in NodeSet  BY DEF NoNode, NodeSet
<1>2. TowerOK(t, NoNode, k, p, al)  BY <1>1 DEF TowerOK
<1>3. Val(NoNode, k, p) = Rec(k, p) /\ Rec(k, p) \in Nat  BY <1>1, <1>2, ValueFacts
<1>4. k # NoTrack => k.node # 0  BY TrackFacts, XpAssumption
<1> QED  BY <1>1, <1>2, <1>3, <1>4 DEF SeenBy

\* The XP of a node is taken out, and put back.
LEMMA TakenSeen ==
  ASSUME NEW t, NEW n, NEW k, NEW p, NEW h, NEW o, NEW al, NEW m,
         n \in NodeSet, TakenFrom(t, n, k, p, h, o, al), m = [at |-> n.at, xp |-> h]
  PROVE  TowerOK(t, m, k, p, al) /\ SeenBy(t, m, k, p, o, al)
<1>1. /\ n.at \in Addresses /\ n.at # 0 /\ h \in Nat /\ p = h /\ o \in Nat /\ h <= o
      /\ (t \notin al => h = o) /\ k = [node |-> n.at, total |-> h]
  BY XpAssumption DEF TakenFrom
<1>2. k = Tracked(m)  BY <1>1 DEF Tracked
<1>3. k \in TrackSet /\ Rec(k, p) = h /\ Val(m, k, p) = h /\ ~Reb(m, k, p)
  BY <1>1, <1>2, TrackedValue
<1>4. m \in NodeSet /\ m.at = n.at /\ m.xp = h /\ k.total = h  BY <1>1 DEF NodeSet
<1>5. TowerOK(t, m, k, p, al)  BY <1>1, <1>3, <1>4 DEF TowerOK
<1>6. SeenBy(t, m, k, p, o, al)  BY <1>1, <1>3, <1>4 DEF SeenBy
<1> QED  BY <1>5, <1>6

-----------------------------------------------------------------------------
\* The inductive invariant.
Emptying == saving # "no" /\ Tracking /\ started
XpTypes ==
    /\ towers \subseteq XpTowers
    /\ nodes \in [XpTowers -> NodeSet] /\ tracks \in [XpTowers -> TrackSet]
    /\ progress \in [XpTowers -> Nat] /\ owed \in [XpTowers -> Nat]
    /\ hidden \in [XpTowers -> Nat \cup {-1}]
    /\ file \in [XpTowers -> Nat] \cup {Damaged}
TowersOK == \A t \in XpTowers : TowerOK(t, nodes[t], tracks[t], progress[t], aliased)
Unregistered == \A t \in XpTowers \ towers : nodes[t] = NoNode
\* What every tower should have is in its node, or was taken from it, until the
\* hooks are taken down.
Accounted ==
    hooks # "off" => \A t \in towers :
        IF Emptying
        THEN TakenFrom(t, nodes[t], tracks[t], progress[t], hidden[t], owed[t], aliased)
        ELSE SeenBy(t, nodes[t], tracks[t], progress[t], owed[t], aliased)
\* Values to put back are those of a save that began with the hooks on.
HiddenOnly ==
    \A t \in XpTowers : hidden[t] # -1 =>
        /\ t \in towers /\ nodes[t].at # 0 /\ saving # "no"
        /\ Emptying \/ hooks = "off"
NothingYet ==
    hooks = "none" =>
        /\ saving = "no" /\ towers = {} /\ aliased = {}
        /\ \A t \in XpTowers : nodes[t] = NoNode /\ tracks[t] = NoTrack
StartedOn == started => hooks = "on"
FileBelow ==
    hooks # "none" /\ file # Damaged => \A t \in XpTowers : file[t] <= progress[t]
InvalidEmpty == saving = "written" /\ Emptying => gameFile.invalid = 0
XpInv ==
    /\ XpTypes /\ TowersOK /\ Unregistered /\ Accounted /\ HiddenOnly /\ NothingYet
    /\ StartedOn /\ FileBelow /\ InvalidEmpty /\ zero = zeroOwed

\* The operators of the model are those of values.
LEMMA OfValues ==
  /\ \A t : Recorded(t) = Rec(tracks[t], progress[t])
  /\ \A t, n : Rebuilt(t, n) <=> Reb(n, tracks[t], progress[t])
  /\ \A t, n : Value(t, n) = Val(n, tracks[t], progress[t])
<1>1. \A t : Recorded(t) = Rec(tracks[t], progress[t])  BY DEF Recorded, Rec
<1>2. \A t, n : Rebuilt(t, n) <=> Reb(n, tracks[t], progress[t])  BY <1>1 DEF Rebuilt, Reb
<1>3. \A t, n : Value(t, n) = Val(n, tracks[t], progress[t])  BY <1>1, <1>2 DEF Value, Val
<1> QED  BY <1>1, <1>2, <1>3

\* What the accessor and track_xp() make of a node.
LEMMA KeptIs ==
  ASSUME NEW t, TowerOK(t, nodes[t], tracks[t], progress[t], aliased), NEW a \in Addresses
  PROVE  \E b \in Addresses :
           Kept(t, a) = [at |-> b, xp |-> Val(nodes[t], tracks[t], progress[t])]
<1> DEFINE n == nodes[t]
           k == tracks[t]
           p == progress[t]
           m == Accessed(t, a)
<1>1. n \in NodeSet /\ k \in TrackSet /\ Rec(k, p) \in Nat
  BY ValueFacts DEF TowerOK
<1>2. n.at = 0 => Val(n, k, p) = Rec(k, p)  BY ValueFacts
<1>3. Kept(t, a) = [m EXCEPT !.xp = Val(m, k, p)]  BY OfValues DEF Kept
<1>4. CASE n.at = 0
  <2>1. m = [at |-> a, xp |-> 0]  BY <1>4 DEF Accessed
  <2>2. Val(m, k, p) = Rec(k, p)  BY <1>1, <2>1 DEF Val, Reb
  <2> HIDE DEF n, k, p
  <2>3. Kept(t, a) = [at |-> a, xp |-> Rec(k, p)]
    <3> DEFINE r == Rec(k, p)
    <3>1. Kept(t, a) = [m EXCEPT !.xp = r]  BY <1>3, <2>2
    <3> HIDE DEF r
    <3> QED  BY <2>1, <3>1 DEF r
  <2> QED  BY <1>2, <1>4, <2>3 DEF n, k, p
<1>5. CASE n.at # 0
  <2>1. m = n  BY <1>5 DEF Accessed
  <2>2. n.at \in Addresses  BY <1>1, <1>5 DEF NodeSet
  <2> DEFINE v == Val(n, k, p)
  <2>3. Kept(t, a) = [n EXCEPT !.xp = v]  BY <1>3, <2>1
  <2> HIDE DEF v, n
  <2>4. Kept(t, a) = [at |-> n.at, xp |-> v]  BY <1>1, <2>3 DEF NodeSet
  <2> QED  BY <2>2, <2>4 DEF v, n
<1> QED  BY <1>4, <1>5

\* The facts of one tower outside of a save.
LEMMA Outside ==
  ASSUME XpInv, ~Emptying, NEW t \in XpTowers
  PROVE  /\ TowerOK(t, nodes[t], tracks[t], progress[t], aliased)
         /\ hooks # "off" /\ t \in towers =>
              SeenBy(t, nodes[t], tracks[t], progress[t], owed[t], aliased)
         /\ t \notin towers => nodes[t] = NoNode
  BY DEF XpInv, TowersOK, Accounted, Unregistered

LEMMA XpInitial == XpInit => XpInv
<1> SUFFICES ASSUME XpInit PROVE XpInv  OBVIOUS
<1>1. NoTrack \in TrackSet /\ NoNode \in NodeSet  BY DEF TrackSet, NoNode, NodeSet
<1>2. XpTypes  BY <1>1 DEF XpInit, XpTypes
<1>3. ASSUME NEW t \in XpTowers PROVE TowerOK(t, nodes[t], tracks[t], progress[t], aliased)
  <2>1. nodes[t] = NoNode /\ tracks[t] = NoTrack /\ progress[t] = 0 /\ t \notin aliased
    BY DEF XpInit
  <2>2. 0 <= Rec(NoTrack, 0)  BY DEF Rec
  <2> QED  BY <1>1, <2>1, <2>2, NothingAdded
<1>4. ~Emptying /\ towers = {} /\ hooks = "none" /\ started = FALSE /\ saving = "no"
  BY DEF XpInit, Emptying
<1>5. Unregistered /\ HiddenOnly /\ zero = zeroOwed  BY DEF XpInit, Unregistered, HiddenOnly
<1>6. NothingYet  BY DEF XpInit, NothingYet
<1> QED
  BY <1>2, <1>3, <1>4, <1>5, <1>6 DEF XpInv, TowersOK, Accounted, StartedOn, FileBelow, InvalidEmpty

LEMMA NewGameKeeps ==
  ASSUME XpInv, NewGame PROVE XpInv'
<1>1. /\ hooks' = "wait" /\ towers' \subseteq XpTowers /\ progress' = Loaded(towers')
      /\ owed' = progress' /\ zeroOwed' = zero' /\ aliased' = {}
      /\ nodes' = nodes /\ tracks' = tracks /\ started' = started /\ saving' = saving
      /\ hidden' = hidden /\ file' = file /\ gameFile' = gameFile
  BY DEF NewGame, files
<1>2. /\ saving = "no" /\ \A t \in XpTowers : nodes[t] = NoNode /\ tracks[t] = NoTrack
      /\ started # TRUE
  BY DEF XpInv, NothingYet, NewGame, StartedOn
<1>3. ~Emptying /\ ~Emptying'  BY <1>1, <1>2 DEF Emptying
<1>4. progress' \in [XpTowers -> Nat]
      /\ (file # Damaged => \A t \in XpTowers : progress'[t] = file[t])
  BY <1>1 DEF XpInv, XpTypes, Loaded
<1>5. XpTypes'  BY <1>1, <1>4 DEF XpInv, XpTypes
<1>6. ASSUME NEW t \in XpTowers
      PROVE  /\ TowerOK(t, nodes'[t], tracks'[t], progress'[t], aliased')
             /\ SeenBy(t, nodes'[t], tracks'[t], progress'[t], owed'[t], aliased')
  <2>1. NoTrack \in TrackSet /\ Rec(NoTrack, progress'[t]) = progress'[t] /\ progress'[t] \in Nat
    BY <1>4 DEF TrackSet, Rec
  <2>2. nodes'[t] = NoNode /\ tracks'[t] = NoTrack /\ owed'[t] = progress'[t] /\ t \notin aliased'
    BY <1>1, <1>2
  <2>3. progress'[t] <= Rec(NoTrack, progress'[t])  BY <2>1
  <2> QED  BY <2>1, <2>2, <2>3, NothingAdded
<1>7. HiddenOnly'
  BY <1>1, <1>2 DEF XpInv, HiddenOnly
<1>8. Unregistered'  BY <1>1, <1>2 DEF Unregistered
<1>9. FileBelow'  BY <1>1, <1>4 DEF FileBelow, XpInv, XpTypes
<1>10. (zero = zeroOwed)'  BY <1>1
<1>11. NothingYet' /\ StartedOn' /\ InvalidEmpty'
  BY <1>1, <1>2, <1>3 DEF NothingYet, StartedOn, InvalidEmpty, XpInv
<1> QED
  BY <1>3, <1>5, <1>6, <1>7, <1>8, <1>9, <1>10, <1>11 DEF XpInv, TowersOK, Accounted, XpTypes

LEMMA FinishKeeps ==
  ASSUME XpInv, FinishRegistration PROVE XpInv'
<1>1. /\ hooks = "wait" /\ hooks' \in {"on", "failed"}
      /\ UNCHANGED <<towers, nodes, zero, tracks, started, progress, dirty, saving, hidden>>
      /\ UNCHANGED <<file, gameFile, owed, zeroOwed, aliased, gained>>
  BY DEF FinishRegistration, files, history
<1>2. started # TRUE /\ ~Emptying  BY <1>1 DEF XpInv, StartedOn, Emptying
<1>3. ~Emptying'  BY <1>1, <1>2 DEF Emptying
<1>4. Accounted' /\ HiddenOnly'
  BY <1>1, <1>2, <1>3 DEF XpInv, Accounted, HiddenOnly
<1>5. StartedOn' /\ InvalidEmpty' /\ NothingYet' /\ FileBelow'
  BY <1>1, <1>2, <1>3 DEF XpInv, StartedOn, InvalidEmpty, NothingYet, FileBelow
<1>6. XpTypes' /\ TowersOK' /\ Unregistered' /\ (zero = zeroOwed)'
  BY <1>1 DEF XpInv, XpTypes, TowersOK, Unregistered
<1> QED  BY <1>4, <1>5, <1>6 DEF XpInv

\* The hooks are taken down, maybe inside of a save.
LEMMA RemovalKeeps ==
  ASSUME XpInv, HooksRemoved PROVE XpInv'
<1>1. /\ hooks # "none" /\ hooks' = "off" /\ started' = FALSE /\ aliased' = {}
      /\ tracks' = [t \in XpTowers |-> NoTrack]
      /\ UNCHANGED <<towers, nodes, zero, progress, saving, hidden, file, gameFile, owed, zeroOwed>>
  BY DEF HooksRemoved, files
<1>2. NoTrack \in TrackSet  BY DEF TrackSet
<1>3. XpTypes'  BY <1>1, <1>2 DEF XpInv, XpTypes
<1>4. ASSUME NEW t \in XpTowers
      PROVE  TowerOK(t, nodes[t], NoTrack, progress[t], {})
  <2>1. TowerOK(t, nodes[t], tracks[t], progress[t], aliased)  BY DEF XpInv, TowersOK
  <2> QED  BY <1>2, <2>1 DEF TowerOK, Rec
<1>5. TowersOK'  BY <1>1, <1>4 DEF TowersOK
<1>6. ~Emptying'  BY <1>1 DEF Emptying
<1>7. Accounted' /\ HiddenOnly'  BY <1>1 DEF XpInv, Accounted, HiddenOnly
<1>8. Unregistered' /\ NothingYet' /\ StartedOn' /\ FileBelow' /\ InvalidEmpty' /\ (zero = zeroOwed)'
  BY <1>1, <1>6 DEF XpInv, Unregistered, NothingYet, StartedOn, FileBelow, InvalidEmpty
<1> QED  BY <1>3, <1>5, <1>7, <1>8 DEF XpInv

LEMMA EndKeeps ==
  ASSUME XpInv, XpEnds PROVE XpInv'
<1>1. /\ hooks' = "none" /\ towers' = {} /\ zero' = 0 /\ started' = FALSE /\ saving' = "no"
      /\ zeroOwed' = 0 /\ aliased' = {} /\ file' = file /\ gameFile' = gameFile
      /\ nodes' = [t \in XpTowers |-> NoNode] /\ tracks' = [t \in XpTowers |-> NoTrack]
      /\ progress' = [t \in XpTowers |-> 0] /\ hidden' = [t \in XpTowers |-> -1]
      /\ owed' = [t \in XpTowers |-> 0]
  BY DEF XpEnds, files
<1>2. NoTrack \in TrackSet /\ NoNode \in NodeSet  BY DEF TrackSet, NoNode, NodeSet
<1>3. XpTypes'  BY <1>1, <1>2 DEF XpInv, XpTypes
<1>4. ASSUME NEW t \in XpTowers
      PROVE  TowerOK(t, nodes'[t], tracks'[t], progress'[t], aliased')
  <2>1. nodes'[t] = NoNode /\ tracks'[t] = NoTrack /\ progress'[t] = 0 /\ t \notin aliased'
    BY <1>1
  <2>2. 0 <= Rec(NoTrack, 0)  BY DEF Rec
  <2> QED  BY <1>2, <2>1, <2>2, NothingAdded
<1>5. Unregistered' /\ Accounted' /\ HiddenOnly' /\ NothingYet' /\ StartedOn' /\ FileBelow'
      /\ InvalidEmpty' /\ (zero = zeroOwed)'
  BY <1>1 DEF Unregistered, Accounted, HiddenOnly, NothingYet, StartedOn, FileBelow, InvalidEmpty
<1> QED  BY <1>3, <1>4, <1>5 DEF XpInv, TowersOK

LEMMA DamageKeeps ==
  ASSUME XpInv, Damage PROVE XpInv'
<1>1. /\ file' = Damaged
      /\ UNCHANGED <<hooks, towers, nodes, zero, tracks, started, progress, dirty, saving, hidden>>
      /\ UNCHANGED <<gameFile, owed, zeroOwed, aliased, gained>>
  BY DEF Damage, memory, history
<1> QED
  BY <1>1 DEF XpInv, XpTypes, TowersOK, Unregistered, Accounted, HiddenOnly, NothingYet, StartedOn,
              FileBelow, InvalidEmpty, Emptying, Tracking

\* The game drops its map.
LEMMA RebuildKeeps ==
  ASSUME XpInv, Rebuild PROVE XpInv'
<1>1. /\ hooks # "none" /\ saving = "no" /\ aliased' = {}
      /\ nodes' = [t \in XpTowers |-> NoNode]
      /\ owed' = [t \in XpTowers |-> IF nodes[t].at # 0 THEN Recorded(t) ELSE owed[t]]
      /\ UNCHANGED <<hooks, towers, zero, tracks, started, progress, dirty, saving, hidden>>
      /\ UNCHANGED <<file, gameFile, zeroOwed, gained>>
  BY DEF Rebuild, Playing, files
<1>2. ~Emptying /\ ~Emptying'  BY <1>1 DEF Emptying
<1>3. ASSUME NEW t \in XpTowers
      PROVE  /\ TowerOK(t, nodes'[t], tracks'[t], progress'[t], aliased')
             /\ owed'[t] \in Nat
             /\ hooks # "off" /\ t \in towers =>
                  SeenBy(t, nodes'[t], tracks'[t], progress'[t], owed'[t], aliased')
  <2> DEFINE n == nodes[t]
             k == tracks[t]
             p == progress[t]
  <2>1. /\ TowerOK(t, n, k, p, aliased)
        /\ hooks # "off" /\ t \in towers => SeenBy(t, n, k, p, owed[t], aliased)
    BY <1>2, Outside
  <2>2. nodes'[t] = NoNode /\ tracks'[t] = k /\ progress'[t] = p /\ t \notin aliased'
    BY <1>1
  <2>3. owed'[t] = IF n.at # 0 THEN Rec(k, p) ELSE owed[t]
    BY <1>1, OfValues
  <2>4. Rec(k, p) \in Nat /\ owed[t] \in Nat
    BY <2>1, ValueFacts DEF XpInv, XpTypes
  <2> HIDE DEF n, k, p
  <2>5. ASSUME hooks # "off", t \in towers PROVE owed'[t] = Rec(k, p)
    <3>1. CASE n.at # 0  BY <2>3, <3>1
    <3>2. CASE n.at = 0
      <4>1. Val(n, k, p) = Rec(k, p) /\ t \notin aliased  BY <2>1, <3>2, ValueFacts DEF TowerOK
      <4> QED  BY <2>1, <2>3, <2>5, <3>2, <4>1 DEF SeenBy
    <3> QED  BY <3>1, <3>2
  <2>6. TowerOK(t, NoNode, k, p, aliased') /\ SeenBy(t, NoNode, k, p, Rec(k, p), aliased')
    BY <2>1, <2>2, NothingAdded DEF TowerOK
  <2> QED  BY <2>2, <2>3, <2>4, <2>5, <2>6
<1>4. NoNode \in NodeSet  BY DEF NoNode, NodeSet
<1>5. XpTypes'
  <2>1. owed' \in [XpTowers -> Nat]  BY <1>1, <1>3
  <2> QED  BY <1>1, <1>4, <2>1 DEF XpInv, XpTypes
<1>6. TowersOK' /\ Accounted'
  BY <1>1, <1>2, <1>3 DEF TowersOK, Accounted, XpInv, XpTypes
<1>7. Unregistered' /\ HiddenOnly' /\ NothingYet' /\ StartedOn' /\ FileBelow' /\ InvalidEmpty'
      /\ (zero = zeroOwed)'
  BY <1>1, <1>2 DEF XpInv, Unregistered, HiddenOnly, NothingYet, StartedOn, FileBelow, InvalidEmpty
<1> QED  BY <1>5, <1>6, <1>7 DEF XpInv

\* What happens between two saves, when it keeps every tower's XP.
XpPlays ==
    /\ hooks # "none" /\ saving = "no"
    /\ UNCHANGED <<hooks, towers, started, progress, saving, hidden, file, gameFile>>

LEMMA PlayingKeeps ==
  ASSUME XpInv, XpPlays,
         nodes' \in [XpTowers -> NodeSet], tracks' \in [XpTowers -> TrackSet],
         owed' \in [XpTowers -> Nat], zero' = zeroOwed',
         \A t \in XpTowers :
           /\ TowerOK(t, nodes'[t], tracks'[t], progress[t], aliased')
           /\ hooks # "off" /\ t \in towers =>
                SeenBy(t, nodes'[t], tracks'[t], progress[t], owed'[t], aliased')
           /\ t \notin towers => nodes'[t] = nodes[t]
  PROVE  XpInv'
<1>1. /\ hooks # "none" /\ saving = "no"
      /\ UNCHANGED <<hooks, towers, started, progress, saving, hidden, file, gameFile>>
  BY DEF XpPlays
<1>2. ~Emptying /\ ~Emptying'  BY <1>1 DEF Emptying
<1>3. XpTypes'  BY <1>1 DEF XpInv, XpTypes
<1>4. TowersOK'  BY <1>1 DEF TowersOK
<1>5. Accounted'  BY <1>1, <1>2 DEF Accounted, XpInv, XpTypes
<1>6. Unregistered'  BY <1>1 DEF XpInv, Unregistered
<1>7. HiddenOnly' /\ NothingYet' /\ StartedOn' /\ FileBelow' /\ InvalidEmpty' /\ (zero = zeroOwed)'
  BY <1>1, <1>2 DEF XpInv, HiddenOnly, NothingYet, StartedOn, FileBelow, InvalidEmpty
<1> QED  BY <1>3, <1>4, <1>5, <1>6, <1>7 DEF XpInv

\* Only whether a tower itself is aliased matters to it.
LEMMA AliasedSame ==
  ASSUME NEW t, NEW n, NEW k, NEW p, NEW o, NEW al, NEW al2, t \in al <=> t \in al2,
         TowerOK(t, n, k, p, al)
  PROVE  /\ TowerOK(t, n, k, p, al2)
         /\ SeenBy(t, n, k, p, o, al) => SeenBy(t, n, k, p, o, al2)
  BY DEF TowerOK, SeenBy

LEMMA GameAddsKeeps ==
  ASSUME XpInv, NEW x \in XpTowers, NEW gain \in Gains, GameAdds(x, gain) PROVE XpInv'
<1>1. PICK a \in Addresses :
        LET n == Accessed(x, a) IN
        /\ nodes' = [nodes EXCEPT ![x] = [n EXCEPT !.xp = @ + gain]]
        /\ aliased' = IF nodes[x].at = 0 /\ a = tracks[x].node THEN aliased \cup {x} ELSE aliased
  BY DEF GameAdds
<1>2. /\ XpPlays /\ x \in towers /\ owed' = [owed EXCEPT ![x] = @ + gain]
      /\ UNCHANGED <<tracks, zero, zeroOwed>>
  BY DEF GameAdds, Playing, XpPlays, files
<1>3. ~Emptying /\ gain \in Nat \ {0}  BY <1>2, XpAssumption DEF XpPlays, Emptying
<1> DEFINE n == nodes[x]
           k == tracks[x]
           p == progress[x]
           m == IF n.at = 0 THEN [at |-> a, xp |-> gain] ELSE [at |-> n.at, xp |-> n.xp + gain]
<1>4. n \in NodeSet /\ nodes \in [XpTowers -> NodeSet]  BY DEF XpInv, XpTypes
<1>5. [Accessed(x, a) EXCEPT !.xp = @ + gain] = m
  <2>1. CASE n.at = 0
    <3>1. Accessed(x, a) = [at |-> a, xp |-> 0]  BY <2>1 DEF Accessed
    <3> QED  BY <1>3, <2>1, <3>1
  <2>2. CASE n.at # 0
    <3>1. Accessed(x, a) = n  BY <2>2 DEF Accessed
    <3> HIDE DEF n
    <3> QED  BY <1>4, <2>2, <3>1 DEF NodeSet
  <2> QED  BY <2>1, <2>2
<1>6. nodes' = [nodes EXCEPT ![x] = m]
  <2> HIDE DEF m
  <2> QED  BY <1>1, <1>5
<1>7. /\ TowerOK(x, n, k, p, aliased)
      /\ hooks # "off" => SeenBy(x, n, k, p, owed[x], aliased)
  BY <1>2, <1>3, Outside
<1>8. aliased' = IF n.at = 0 /\ a = k.node THEN aliased \cup {x} ELSE aliased
  BY <1>1
<1>9. /\ TowerOK(x, m, k, p, aliased')
      /\ hooks # "off" => SeenBy(x, m, k, p, owed[x] + gain, aliased')
  <2>1. a # 0  BY XpAssumption
  <2> HIDE DEF n, k, p
  <2>2. TowerOK(x, m, k, p, aliased')
    BY <1>3, <1>7, <1>8, <2>1 DEF TowerOK, NodeSet
  <2>3. hooks # "off" => SeenBy(x, m, k, p, owed[x] + gain, aliased')
    BY <1>3, <1>7, <1>8, GainSeen
  <2> QED  BY <2>2, <2>3
<1>10. owed \in [XpTowers -> Nat] /\ owed' \in [XpTowers -> Nat]
  BY <1>2, <1>3 DEF XpInv, XpTypes
<1>11. ASSUME NEW t \in XpTowers
       PROVE  /\ TowerOK(t, nodes'[t], tracks'[t], progress[t], aliased')
              /\ hooks # "off" /\ t \in towers =>
                   SeenBy(t, nodes'[t], tracks'[t], progress[t], owed'[t], aliased')
              /\ t \notin towers => nodes'[t] = nodes[t]
  <2>1. CASE t = x
    <3>1. nodes'[t] = m /\ owed'[t] = owed[x] + gain /\ tracks'[t] = k /\ t \in towers
      <4> HIDE DEF m
      <4> QED  BY <1>2, <1>4, <1>6, <1>10, <2>1
    <3> HIDE DEF m, k, p
    <3> QED  BY <1>9, <2>1, <3>1 DEF p
  <2>2. CASE t # x
    <3>1. nodes'[t] = nodes[t] /\ owed'[t] = owed[t] /\ tracks'[t] = tracks[t]
      <4> HIDE DEF m
      <4> QED  BY <1>2, <1>6, <2>2, <1>4, <1>10
    <3>2. t \in aliased <=> t \in aliased'  BY <1>8, <2>2
    <3>3. /\ TowerOK(t, nodes[t], tracks[t], progress[t], aliased)
          /\ hooks # "off" /\ t \in towers =>
               SeenBy(t, nodes[t], tracks[t], progress[t], owed[t], aliased)
      BY <1>3, Outside
    <3> QED  BY <3>1, <3>2, <3>3, AliasedSame
  <2> QED  BY <2>1, <2>2
<1>12. nodes' \in [XpTowers -> NodeSet] /\ tracks' \in [XpTowers -> TrackSet]
  <2>1. m \in NodeSet  BY <1>9 DEF TowerOK
  <2> HIDE DEF m
  <2> QED  BY <1>2, <1>4, <1>6, <2>1 DEF XpInv, XpTypes
<1>13. zero' = zeroOwed'  BY <1>2 DEF XpInv
<1> QED  BY <1>2, <1>10, <1>11, <1>12, <1>13, PlayingKeeps

\* The accessor and track_xp() on one tower, and XP g added after them.
LEMMA KeptSeen ==
  ASSUME XpInv, ~Emptying, hooks # "off", NEW t \in towers, NEW a \in Addresses, NEW g \in Nat,
         NEW m, m = [Kept(t, a) EXCEPT !.xp = @ + g], NEW al2,
         t \in al2 <=> t \in aliased /\ ~Rebuilt(t, nodes[t])
  PROVE  /\ TowerOK(t, m, Tracked(m), progress[t], al2)
         /\ SeenBy(t, m, Tracked(m), progress[t], owed[t] + g, al2)
         /\ m.at \in Addresses
<1> DEFINE n == nodes[t]
           k == tracks[t]
           p == progress[t]
           v == Val(n, k, p)
<1>1. t \in XpTowers  BY DEF XpInv, XpTypes
<1>2. TowerOK(t, n, k, p, aliased) /\ SeenBy(t, n, k, p, owed[t], aliased)
  BY <1>1, Outside
<1>3. PICK b \in Addresses : Kept(t, a) = [at |-> b, xp |-> v]
  <2> QED  BY <1>2, KeptIs
<1>4. m = [at |-> b, xp |-> v + g]
  <2>1. v \in Nat  BY <1>2, ValueFacts
  <2> HIDE DEF v
  <2> QED  BY <1>3, <2>1
<1>5. t \in al2 <=> t \in aliased /\ ~Reb(n, k, p)  BY OfValues
<1>6. m.at \in Addresses  BY <1>4
<1> HIDE DEF n, k, p
<1>7. m = [at |-> b, xp |-> Val(n, k, p) + g]  BY <1>4
<1> HIDE DEF v
<1>8. /\ TowerOK(t, m, Tracked(m), p, al2)
      /\ SeenBy(t, m, Tracked(m), p, owed[t] + g, al2)
  BY <1>2, <1>5, <1>7, NodeSeen
<1> QED  BY <1>6, <1>8 DEF p

\* ... where nothing is added.
LEMMA KeptAlone ==
  ASSUME XpInv, ~Emptying, hooks # "off", NEW t \in towers, NEW a \in Addresses, NEW al2,
         t \in al2 <=> t \in aliased /\ ~Rebuilt(t, nodes[t])
  PROVE  /\ TowerOK(t, Kept(t, a), Tracked(Kept(t, a)), progress[t], al2)
         /\ SeenBy(t, Kept(t, a), Tracked(Kept(t, a)), progress[t], owed[t], al2)
         /\ Kept(t, a).at \in Addresses
         /\ Kept(t, a).xp = Val(nodes[t], tracks[t], progress[t])
<1> DEFINE m == Kept(t, a)
           v == Val(nodes[t], tracks[t], progress[t])
<1>1. t \in XpTowers  BY DEF XpInv, XpTypes
<1>2. TowerOK(t, nodes[t], tracks[t], progress[t], aliased) /\ owed[t] \in Nat
  BY <1>1, Outside DEF XpInv, XpTypes
<1>3. PICK b \in Addresses : m = [at |-> b, xp |-> v]  BY <1>2, KeptIs
<1>4. [m EXCEPT !.xp = @ + 0] = m
  <2>1. v \in Nat  BY <1>2, ValueFacts
  <2> HIDE DEF v, m
  <2> QED  BY <1>3, <2>1
<1>5. owed[t] + 0 = owed[t]  BY <1>2
<1>6. m.xp = v
  <2> HIDE DEF v, m
  <2> QED  BY <1>3
<1>7. m = [Kept(t, a) EXCEPT !.xp = @ + 0]  BY <1>4
<1> HIDE DEF m
<1>8. /\ TowerOK(t, m, Tracked(m), progress[t], al2)
      /\ SeenBy(t, m, Tracked(m), progress[t], owed[t] + 0, al2)
      /\ m.at \in Addresses
  BY <1>7, KeptSeen
<1> QED  BY <1>5, <1>6, <1>8 DEF m

LEMMA TowerXpKeeps ==
  ASSUME XpInv, NEW x \in XpTowers, TowerXp(x) PROVE XpInv'
<1>1. PICK a \in Addresses :
        /\ nodes' = [nodes EXCEPT ![x] = Kept(x, a)]
        /\ tracks' = [tracks EXCEPT ![x] = Tracked(Kept(x, a))]
  BY DEF TowerXp
<1>2. /\ hooks = "on" /\ saving = "no" /\ x \in towers /\ started' = TRUE
      /\ aliased' = StillAliased(x)
      /\ UNCHANGED <<hooks, towers, progress, saving, hidden, file, gameFile, owed, zero, zeroOwed>>
  BY DEF TowerXp, Playing, Tracking, files
<1>3. ~Emptying /\ ~Emptying'  BY <1>2 DEF Emptying
<1>4. \A t : t \in aliased' <=> t \in aliased /\ (t # x \/ ~Rebuilt(x, nodes[x]))
  BY <1>2 DEF StillAliased
<1> DEFINE m == Kept(x, a)
<1>5. /\ TowerOK(x, m, Tracked(m), progress[x], aliased')
      /\ SeenBy(x, m, Tracked(m), progress[x], owed[x], aliased')
  BY <1>2, <1>3, <1>4, KeptAlone
<1>6. m \in NodeSet /\ Tracked(m) \in TrackSet  BY <1>5 DEF TowerOK
<1> HIDE DEF m
<1>7. nodes' = [nodes EXCEPT ![x] = m] /\ tracks' = [tracks EXCEPT ![x] = Tracked(m)]
  BY <1>1 DEF m
<1>8. nodes \in [XpTowers -> NodeSet] /\ tracks \in [XpTowers -> TrackSet]
  BY DEF XpInv, XpTypes
<1>9. XpTypes'  BY <1>2, <1>6, <1>7, <1>8 DEF XpInv, XpTypes
<1>10. ASSUME NEW t \in XpTowers
       PROVE  /\ TowerOK(t, nodes'[t], tracks'[t], progress[t], aliased')
              /\ t \in towers => SeenBy(t, nodes'[t], tracks'[t], progress[t], owed[t], aliased')
              /\ t \notin towers => nodes'[t] = nodes[t]
  <2>1. CASE t = x
    <3>1. nodes'[t] = m /\ tracks'[t] = Tracked(m)  BY <1>7, <1>8, <2>1
    <3> QED  BY <1>2, <1>5, <2>1, <3>1
  <2>2. CASE t # x
    <3>1. nodes'[t] = nodes[t] /\ tracks'[t] = tracks[t]  BY <1>7, <1>8, <2>2
    <3>2. t \in aliased <=> t \in aliased'  BY <1>4, <2>2
    <3>3. /\ TowerOK(t, nodes[t], tracks[t], progress[t], aliased)
          /\ t \in towers => SeenBy(t, nodes[t], tracks[t], progress[t], owed[t], aliased)
      BY <1>2, <1>3, Outside
    <3> QED  BY <3>1, <3>2, <3>3, AliasedSame
  <2> QED  BY <2>1, <2>2
<1>11. TowersOK' /\ Accounted'
  BY <1>2, <1>3, <1>10 DEF TowersOK, Accounted, XpInv, XpTypes
<1>12. Unregistered'  BY <1>2, <1>10 DEF XpInv, Unregistered
<1>13. HiddenOnly' /\ NothingYet' /\ StartedOn' /\ FileBelow' /\ InvalidEmpty' /\ (zero = zeroOwed)'
  BY <1>2, <1>3 DEF XpInv, HiddenOnly, NothingYet, StartedOn, FileBelow, InvalidEmpty
<1> QED  BY <1>9, <1>11, <1>12, <1>13 DEF XpInv

\* A tower's share is a natural number: its pops are counted in what divides.
LEMMA ShareIsNat ==
  ASSUME NEW S, IsFiniteSet(S), NEW pops \in [S -> Nat], NEW others \in Nat, NEW gain \in Nat,
         NEW t \in S
  PROVE  Share(gain, pops, others, t) \in Nat
<1>1. CASE pops[t] = 0  BY <1>1 DEF Share
<1>2. CASE pops[t] # 0
  <2> DEFINE s == SumFunction(pops)
             d == s + others
             z == gain * pops[t]
  <2>1. s \in Nat /\ pops[t] <= s /\ pops[t] \in Nat  BY SumOfNats
  <2>2. d \in Nat \ {0}
    <3> HIDE DEF s
    <3> QED  BY <1>2, <2>1
  <2>3. z \in Nat
    <3> DEFINE q == pops[t]
    <3>1. q \in Nat  BY <2>1
    <3> HIDE DEF q
    <3>2. gain * q \in Nat  BY <3>1
    <3> QED  BY <3>2 DEF q
  <2>4. Share(gain, pops, others, t) = z \div d  BY <1>2 DEF Share
  <2> HIDE DEF z, d
  <2>5. z \div d \in Nat  BY <2>2, <2>3
  <2> QED  BY <2>4, <2>5
<1> QED  BY <1>1, <1>2

LEMMA XpAwardKeeps ==
  ASSUME XpInv, NEW gain \in Gains, XpAward(gain) PROVE XpInv'
<1>1. PICK pops \in [XpTowers -> Pops], others \in Pops, at \in [XpTowers -> Addresses] :
        LET counted == {t \in towers : Tracking /\ pops[t] > 0}
            shares == [t \in XpTowers |->
                IF t \in counted THEN Share(gain, [u \in counted |-> pops[u]], others, t) ELSE 0]
            new == [t \in XpTowers |->
                IF t \in counted THEN [Kept(t, at[t]) EXCEPT !.xp = @ + shares[t]] ELSE nodes[t]] IN
        /\ \E t \in XpTowers : pops[t] + others > 0
        /\ nodes' = new
        /\ tracks' = [t \in XpTowers |-> IF t \in counted THEN Tracked(new[t]) ELSE tracks[t]]
        /\ zero' = KeyZeroAfter(gain, shares)
        /\ owed' = [t \in XpTowers |-> owed[t] + shares[t]]
        /\ zeroOwed' = zeroOwed + gain - SumFunction(shares)
        /\ aliased' = aliased \ {t \in counted : Rebuilt(t, nodes[t])}
  BY Zenon DEF XpAward
<1> DEFINE counted == {t \in towers : Tracking /\ pops[t] > 0}
           cp == [u \in counted |-> pops[u]]
           shares == [t \in XpTowers |-> IF t \in counted THEN Share(gain, cp, others, t) ELSE 0]
           N(t) == IF t \in counted THEN [Kept(t, at[t]) EXCEPT !.xp = @ + shares[t]] ELSE nodes[t]
<1>2. /\ nodes' = [t \in XpTowers |-> N(t)]
      /\ tracks' = [t \in XpTowers |-> IF t \in counted THEN Tracked(N(t)) ELSE tracks[t]]
      /\ zero' = KeyZeroAfter(gain, shares) /\ zeroOwed' = zeroOwed + gain - SumFunction(shares)
      /\ owed' = [t \in XpTowers |-> owed[t] + shares[t]]
      /\ aliased' = aliased \ {t \in counted : Rebuilt(t, nodes[t])}
  <2> DEFINE new == [t \in XpTowers |-> N(t)]
  <2>1. /\ nodes' = new
        /\ tracks' = [t \in XpTowers |-> IF t \in counted THEN Tracked(new[t]) ELSE tracks[t]]
        /\ zero' = KeyZeroAfter(gain, shares)
        /\ zeroOwed' = zeroOwed + gain - SumFunction(shares)
        /\ owed' = [t \in XpTowers |-> owed[t] + shares[t]]
        /\ aliased' = aliased \ {t \in counted : Rebuilt(t, nodes[t])}
    BY <1>1
  <2>2. \A t \in XpTowers : new[t] = N(t)
    <3> HIDE DEF N
    <3> QED  OBVIOUS
  <2> HIDE DEF N, counted, shares
  <2>3. [t \in XpTowers |-> IF t \in counted THEN Tracked(new[t]) ELSE tracks[t]]
          = [t \in XpTowers |-> IF t \in counted THEN Tracked(N(t)) ELSE tracks[t]]
    BY <2>2
  <2> QED  BY <2>1, <2>3
<1>3. XpPlays  BY DEF XpAward, Playing, XpPlays, files
<1>4. ~Emptying /\ gain \in Nat  BY <1>3, XpAssumption DEF XpPlays, Emptying
<1>5. counted \subseteq towers /\ towers \subseteq XpTowers /\ IsFiniteSet(counted)
  <2>1. counted \subseteq towers /\ towers \subseteq XpTowers  BY DEF XpInv, XpTypes
  <2>2. IsFiniteSet(XpTowers)  BY XpAssumption
  <2> HIDE DEF counted
  <2> QED  BY <2>1, <2>2, FS_Subset
<1>6. cp \in [counted -> Nat] /\ others \in Nat
  <2>1. Pops \subseteq Nat  BY XpAssumption
  <2> HIDE DEF counted
  <2> QED  BY <1>5, <2>1
<1>a. \A t \in counted : hooks # "off"  BY DEF Tracking
<1> HIDE DEF cp, counted
<1>7. \A t \in XpTowers : shares[t] \in Nat
  <2>1. ASSUME NEW t \in counted PROVE Share(gain, cp, others, t) \in Nat
    BY <1>4, <1>5, <1>6, ShareIsNat
  <2> QED  BY <2>1
<1> HIDE DEF shares
<1>8. zero' = zeroOwed'  BY <1>2 DEF KeyZeroAfter, XpInv
<1>9. owed' \in [XpTowers -> Nat]  BY <1>2, <1>7 DEF XpInv, XpTypes
<1>10. ASSUME NEW t \in counted
       PROVE  /\ TowerOK(t, N(t), Tracked(N(t)), progress[t], aliased')
              /\ SeenBy(t, N(t), Tracked(N(t)), progress[t], owed[t] + shares[t], aliased')
  <2>1. at[t] \in Addresses /\ shares[t] \in Nat /\ t \in towers  BY <1>5, <1>7
  <2>2. t \in aliased' <=> t \in aliased /\ ~Rebuilt(t, nodes[t])  BY <1>2
  <2>3. N(t) = [Kept(t, at[t]) EXCEPT !.xp = @ + shares[t]]  OBVIOUS
  <2> HIDE DEF N
  <2> QED  BY <1>4, <1>a, <2>1, <2>2, <2>3, KeptSeen
<1>11. ASSUME NEW t \in XpTowers
       PROVE  /\ TowerOK(t, nodes'[t], tracks'[t], progress[t], aliased')
              /\ hooks # "off" /\ t \in towers =>
                   SeenBy(t, nodes'[t], tracks'[t], progress[t], owed'[t], aliased')
              /\ t \notin towers => nodes'[t] = nodes[t]
              /\ nodes'[t] \in NodeSet /\ tracks'[t] \in TrackSet
  <2>1. CASE t \in counted
    <3>1. nodes'[t] = N(t) /\ tracks'[t] = Tracked(N(t)) /\ owed'[t] = owed[t] + shares[t]
      <4> HIDE DEF N
      <4> QED  BY <1>2, <2>1
    <3>2. /\ TowerOK(t, N(t), Tracked(N(t)), progress[t], aliased')
          /\ SeenBy(t, N(t), Tracked(N(t)), progress[t], owed[t] + shares[t], aliased')
      <4> HIDE DEF N
      <4> QED  BY <1>10, <2>1
    <3> HIDE DEF N
    <3> QED  BY <1>5, <2>1, <3>1, <3>2 DEF TowerOK
  <2>2. CASE t \notin counted
    <3>1. shares[t] = 0  BY <2>2 DEF shares
    <3>2. owed'[t] = owed[t]  BY <1>2, <3>1 DEF XpInv, XpTypes
    <3>3. nodes'[t] = nodes[t] /\ tracks'[t] = tracks[t]
      <4>1. N(t) = nodes[t]  BY <2>2
      <4> HIDE DEF N
      <4> QED  BY <1>2, <2>2, <4>1
    <3>4. t \in aliased <=> t \in aliased'  BY <1>2, <2>2
    <3>5. /\ TowerOK(t, nodes[t], tracks[t], progress[t], aliased)
          /\ hooks # "off" /\ t \in towers =>
               SeenBy(t, nodes[t], tracks[t], progress[t], owed[t], aliased)
      BY <1>4, Outside
    <3> HIDE DEF N
    <3> QED  BY <3>2, <3>3, <3>4, <3>5, AliasedSame DEF TowerOK
  <2> QED  BY <2>1, <2>2
<1>12. nodes' \in [XpTowers -> NodeSet] /\ tracks' \in [XpTowers -> TrackSet]
  <2> HIDE DEF N
  <2> QED  BY <1>2, <1>11
<1> QED  BY <1>3, <1>8, <1>9, <1>11, <1>12, PlayingKeeps

\* The nodes give up their XP, where the hooks have seen any.
LEMMA SaveBeginsKeeps ==
  ASSUME XpInv, SaveBegins PROVE XpInv'
<1>1. /\ hooks # "none" /\ saving = "no" /\ saving' = "write"
      /\ UNCHANGED <<hooks, towers, zero, started, file, gameFile, owed, zeroOwed>>
  BY DEF SaveBegins, Playing, files
<1>2. ~Emptying  BY <1>1 DEF Emptying
<1>3. CASE ~(Tracking /\ started)
  <2>1. UNCHANGED <<nodes, tracks, hidden, progress, aliased>>  BY <1>3 DEF SaveBegins
  <2>2. ~Emptying'  BY <1>1, <1>3 DEF Emptying, Tracking
  <2>3. Accounted' /\ HiddenOnly'
    BY <1>1, <1>2, <2>1, <2>2 DEF XpInv, Accounted, HiddenOnly
  <2>4. XpTypes' /\ TowersOK' /\ Unregistered' /\ NothingYet' /\ StartedOn' /\ FileBelow'
        /\ InvalidEmpty' /\ (zero = zeroOwed)'
    BY <1>1, <2>1 DEF XpInv, XpTypes, TowersOK, Unregistered, NothingYet, StartedOn, FileBelow,
                      InvalidEmpty
  <2> QED  BY <2>3, <2>4 DEF XpInv
<1>4. CASE Tracking /\ started
  <2>1. PICK at \in [XpTowers -> Addresses] :
          LET kept == [t \in towers |-> Kept(t, at[t])] IN
          /\ nodes' = [t \in XpTowers |-> IF t \in towers THEN Emptied(kept[t]) ELSE nodes[t]]
          /\ tracks' = [t \in XpTowers |-> IF t \in towers THEN Tracked(kept[t]) ELSE tracks[t]]
          /\ hidden' = [t \in XpTowers |-> IF t \in towers THEN kept[t].xp ELSE -1]
          /\ progress' = [t \in XpTowers |-> IF t \in towers THEN kept[t].xp ELSE progress[t]]
          /\ aliased' = aliased \ {t \in towers : Rebuilt(t, nodes[t])}
    BY <1>4 DEF SaveBegins
  <2> DEFINE K(t) == Kept(t, at[t])
             v(t) == Val(nodes[t], tracks[t], progress[t])
  <2>2. ASSUME NEW t \in towers
        PROVE  /\ nodes'[t] = Emptied(K(t)) /\ tracks'[t] = Tracked(K(t))
               /\ hidden'[t] = K(t).xp /\ progress'[t] = K(t).xp
    <3>1. t \in XpTowers  BY DEF XpInv, XpTypes
    <3> QED  BY <2>1, <3>1
  <2>3. ASSUME NEW t \in XpTowers \ towers
        PROVE  /\ nodes'[t] = nodes[t] /\ tracks'[t] = tracks[t]
               /\ hidden'[t] = -1 /\ progress'[t] = progress[t] /\ (t \in aliased <=> t \in aliased')
    BY <2>1
  <2>4. Emptying' /\ towers \subseteq XpTowers
    BY <1>1, <1>4 DEF Emptying, Tracking, XpInv, XpTypes
  <2>5. ASSUME NEW t \in towers
        PROVE  /\ TakenFrom(t, nodes'[t], tracks'[t], progress'[t], hidden'[t], owed[t], aliased')
               /\ TowerOK(t, nodes'[t], tracks'[t], progress'[t], aliased')
               /\ progress[t] <= progress'[t]
    <3>1. /\ TowerOK(t, K(t), Tracked(K(t)), progress[t], aliased')
          /\ SeenBy(t, K(t), Tracked(K(t)), progress[t], owed[t], aliased')
          /\ K(t).at \in Addresses /\ K(t).xp = v(t)
      <4>1. at[t] \in Addresses  BY <2>4
      <4>2. t \in aliased' <=> t \in aliased /\ ~Rebuilt(t, nodes[t])  BY <2>1
      <4>3. hooks # "off"  BY <1>4 DEF Tracking
      <4> QED  BY <1>2, <4>1, <4>2, <4>3, KeptAlone
    <3> DEFINE a == K(t).at
               x == K(t).xp
               q == Tracked(K(t))
    <3>2. K(t) \in NodeSet /\ x \in Nat /\ a \in Addresses  BY <3>1 DEF TowerOK, NodeSet
    <3>3. K(t) = [at |-> a, xp |-> x]
      <4> HIDE DEF K
      <4> QED  BY <3>2 DEF NodeSet
    <3>4. /\ nodes'[t] = [at |-> a, xp |-> 0] /\ tracks'[t] = q
          /\ hidden'[t] = x /\ progress'[t] = x
      <4>1. Emptied(K(t)) = [at |-> a, xp |-> 0]
        <5> HIDE DEF K
        <5> QED  BY <3>2 DEF NodeSet, Emptied
      <4> HIDE DEF K
      <4> QED  BY <2>2, <4>1
    <3>5. progress[t] <= x
      <4>1. TowerOK(t, nodes[t], tracks[t], progress[t], aliased)  BY <1>2, <2>4, Outside
      <4>2. /\ v(t) \in Nat /\ Rec(tracks[t], progress[t]) <= v(t)
            /\ Rec(tracks[t], progress[t]) \in Nat
        BY <4>1, ValueFacts
      <4>3. progress[t] \in Nat /\ progress[t] <= Rec(tracks[t], progress[t])  BY <4>1 DEF TowerOK
      <4>4. x = v(t)  BY <3>1
      <4> HIDE DEF x, v
      <4> QED  BY <4>2, <4>3, <4>4
    <3>6. Tracked(K(t)) = [node |-> a, total |-> x]
      <4> HIDE DEF K
      <4> QED  BY DEF Tracked
    <3>7. q \in TrackSet /\ Rec(q, x) = x /\ ~Reb(K(t), q, progress[t])
          /\ Val(K(t), q, progress[t]) = x
      <4> HIDE DEF K
      <4> QED  BY <3>1, <3>2, <3>3, TrackedValue DEF TowerOK
    <3>8. owed[t] \in Nat /\ x <= owed[t] /\ (t \notin aliased' => x = owed[t])
      <4> HIDE DEF K
      <4> QED  BY <3>1, <3>7 DEF SeenBy
    <3>9. a # 0  BY <3>2, XpAssumption
    <3> HIDE DEF K, a, x
    <3>10. [at |-> a, xp |-> 0] \in NodeSet  BY <3>2 DEF NodeSet
    <3>11. TowerOK(t, nodes'[t], tracks'[t], progress'[t], aliased')
      BY <3>2, <3>4, <3>7, <3>9, <3>10 DEF TowerOK
    <3>12. TakenFrom(t, nodes'[t], tracks'[t], progress'[t], hidden'[t], owed[t], aliased')
      BY <3>2, <3>4, <3>6, <3>8 DEF TakenFrom
    <3> QED  BY <3>4, <3>5, <3>11, <3>12
  <2> HIDE DEF K, v
  <2>6. ASSUME NEW t \in XpTowers
        PROVE  /\ TowerOK(t, nodes'[t], tracks'[t], progress'[t], aliased')
               /\ nodes'[t] \in NodeSet /\ tracks'[t] \in TrackSet /\ progress'[t] \in Nat
               /\ hidden'[t] \in Nat \cup {-1} /\ progress[t] <= progress'[t]
    <3>1. CASE t \in towers
      BY <2>5, <3>1 DEF TowerOK, TakenFrom
    <3>2. CASE t \notin towers
      <4>1. TowerOK(t, nodes[t], tracks[t], progress[t], aliased) /\ progress[t] \in Nat
        BY <1>2, Outside DEF TowerOK
      <4> QED  BY <2>3, <3>2, <4>1, AliasedSame DEF TowerOK
    <3> QED  BY <3>1, <3>2
  <2>7. XpTypes'
    <3>1. nodes' \in [XpTowers -> NodeSet] /\ tracks' \in [XpTowers -> TrackSet]
          /\ progress' \in [XpTowers -> Nat] /\ hidden' \in [XpTowers -> Nat \cup {-1}]
      BY <2>1, <2>6
    <3> QED  BY <1>1, <3>1 DEF XpInv, XpTypes
  <2>8. Accounted' /\ TowersOK'
    BY <1>1, <2>4, <2>5, <2>6 DEF Accounted, TowersOK
  <2>9. HiddenOnly'
    <3>1. \A t \in towers : nodes'[t].at # 0  BY <2>5, XpAssumption DEF TakenFrom
    <3> QED  BY <1>1, <2>3, <2>4, <3>1 DEF HiddenOnly
  <2>10. Unregistered'  BY <1>1, <2>3 DEF XpInv, Unregistered
  <2>11. FileBelow'
    <3>1. ASSUME file # Damaged, NEW t \in XpTowers PROVE file[t] <= progress'[t]
      <4>1. file[t] \in Nat /\ progress[t] \in Nat /\ file[t] <= progress[t]
        BY <1>1, <3>1 DEF XpInv, XpTypes, FileBelow
      <4> QED  BY <2>6, <4>1
    <3> QED  BY <1>1, <3>1 DEF FileBelow
  <2>12. NothingYet' /\ StartedOn' /\ InvalidEmpty' /\ (zero = zeroOwed)'
    BY <1>1 DEF XpInv, NothingYet, StartedOn, InvalidEmpty
  <2> QED  BY <2>7, <2>8, <2>9, <2>10, <2>11, <2>12 DEF XpInv
<1> QED  BY <1>3, <1>4

\* The game writes what is in its map.
LEMMA GameWritesKeeps ==
  ASSUME XpInv, GameWrites PROVE XpInv'
<1>1. /\ saving = "write" /\ saving' = "written"
      /\ gameFile' = [zero |-> zero, invalid |-> SumFunction([t \in XpTowers |-> nodes[t].xp])]
      /\ UNCHANGED <<hooks, towers, nodes, zero, tracks, started, progress, dirty, hidden>>
      /\ UNCHANGED <<file, owed, zeroOwed, aliased, gained>>
  BY DEF GameWrites, history
<1>2. Emptying' <=> Emptying  BY <1>1 DEF Emptying, Tracking
<1>3. Accounted' /\ HiddenOnly'  BY <1>1, <1>2 DEF XpInv, Accounted, HiddenOnly
<1>4. InvalidEmpty'
  <2> SUFFICES ASSUME Emptying PROVE gameFile'.invalid = 0  BY <1>2 DEF InvalidEmpty
  <2> DEFINE f == [t \in XpTowers |-> nodes[t].xp]
  <2>1. ASSUME NEW t \in XpTowers PROVE nodes[t].xp = 0
    <3>0. hooks # "off"  BY DEF Emptying, Tracking
    <3>1. CASE t \in towers  BY <3>0, <3>1 DEF XpInv, Accounted, TakenFrom
    <3>2. CASE t \notin towers  BY <3>2 DEF XpInv, Unregistered, NoNode
    <3> QED  BY <3>1, <3>2
  <2>2. f \in [XpTowers -> Nat] /\ \A t \in XpTowers : f[t] = 0  BY <2>1
  <2>3. gameFile'.invalid = SumFunction(f)  BY <1>1
  <2>4. IsFiniteSet(XpTowers)  BY XpAssumption
  <2> HIDE DEF f
  <2> QED  BY <2>2, <2>3, <2>4, SumOfNats
<1>5. XpTypes' /\ TowersOK' /\ Unregistered' /\ NothingYet' /\ StartedOn' /\ FileBelow'
      /\ (zero = zeroOwed)'
  BY <1>1 DEF XpInv, XpTypes, TowersOK, Unregistered, NothingYet, StartedOn, FileBelow
<1> QED  BY <1>3, <1>4, <1>5 DEF XpInv

\* The nodes get their XP back.
LEMMA SaveEndsKeeps ==
  ASSUME XpInv, SaveEnds PROVE XpInv'
<1>1. /\ saving = "written" /\ saving' = "no" /\ nodes' = Restored
      /\ hidden' = [t \in XpTowers |-> -1]
      /\ (Tracking /\ started /\ file' = progress) \/ file' = file
      /\ UNCHANGED <<hooks, towers, zero, tracks, started, progress, gameFile>>
      /\ UNCHANGED <<owed, zeroOwed, aliased, gained>>
  BY DEF SaveEnds, history
<1>2. ~Emptying' /\ hooks # "none"  BY <1>1 DEF Emptying, XpInv, NothingYet
<1>3. ASSUME NEW t \in XpTowers
      PROVE  /\ TowerOK(t, nodes'[t], tracks[t], progress[t], aliased)
             /\ hooks # "off" /\ t \in towers =>
                  SeenBy(t, nodes'[t], tracks[t], progress[t], owed[t], aliased)
             /\ t \notin towers => nodes'[t] = nodes[t]
  <2> DEFINE n == nodes[t]
             h == hidden[t]
  <2>0. n \in NodeSet /\ h \in Nat \cup {-1} /\ TowerOK(t, n, tracks[t], progress[t], aliased)
    BY DEF XpInv, XpTypes, TowersOK
  <2>1. nodes'[t] = IF h # -1 THEN [n EXCEPT !.xp = h] ELSE n  BY <1>1 DEF Restored
  <2>2. CASE hooks # "off" /\ Emptying /\ t \in towers
    <3>1. TakenFrom(t, n, tracks[t], progress[t], h, owed[t], aliased)
      BY <2>2 DEF XpInv, Accounted
    <3>2. h # -1  BY <3>1 DEF TakenFrom
    <3> HIDE DEF n, h
    <3>3. nodes'[t] = [at |-> n.at, xp |-> h]  BY <2>0, <2>1, <3>2 DEF NodeSet
    <3> QED  BY <2>0, <2>2, <3>1, <3>3, TakenSeen
  <2>3. CASE hooks # "off" /\ ~(Emptying /\ t \in towers)
    <3>1. h = -1  BY <2>3 DEF XpInv, HiddenOnly
    <3>2. nodes'[t] = n  BY <2>1, <3>1
    <3>3. t \in towers => SeenBy(t, n, tracks[t], progress[t], owed[t], aliased)
      BY <2>3 DEF XpInv, Accounted
    <3> QED  BY <2>0, <3>2, <3>3
  <2>4. CASE hooks = "off"
    <3>1. h # -1 => n.at # 0 /\ t \in towers  BY DEF XpInv, HiddenOnly
    <3> HIDE DEF n, h
    <3>2. nodes'[t] = n \/ (h # -1 /\ nodes'[t] = [at |-> n.at, xp |-> h])
      BY <2>0, <2>1 DEF NodeSet
    <3>3. TowerOK(t, nodes'[t], tracks[t], progress[t], aliased)
      BY <2>0, <3>1, <3>2 DEF TowerOK, NodeSet
    <3>4. t \notin towers => nodes'[t] = n  BY <3>1, <3>2
    <3> QED  BY <2>4, <3>3, <3>4 DEF n
  <2> QED  BY <2>2, <2>3, <2>4
<1>4. nodes' \in [XpTowers -> NodeSet]
  <2>1. nodes' = [t \in XpTowers |-> nodes'[t]]  BY <1>1 DEF Restored
  <2>2. \A t \in XpTowers : nodes'[t] \in NodeSet  BY <1>3 DEF TowerOK
  <2> QED  BY <2>1, <2>2
<1>5. XpTypes'  BY <1>1, <1>4 DEF XpInv, XpTypes
<1>6. TowersOK' /\ Accounted' /\ Unregistered'
  BY <1>1, <1>2, <1>3 DEF TowersOK, Accounted, Unregistered, XpInv, XpTypes
<1>7. FileBelow'
  BY <1>1, <1>2 DEF FileBelow, XpInv, XpTypes
<1>8. HiddenOnly' /\ NothingYet' /\ StartedOn' /\ InvalidEmpty' /\ (zero = zeroOwed)'
  BY <1>1, <1>2 DEF XpInv, HiddenOnly, NothingYet, StartedOn, InvalidEmpty
<1> QED  BY <1>5, <1>6, <1>7, <1>8 DEF XpInv

LEMMA XpNextInv == XpInv /\ [XpNext]_xpVars => XpInv'
<1> SUFFICES ASSUME XpInv, [XpNext]_xpVars PROVE XpInv'  OBVIOUS
<1>1. CASE NewGame  BY <1>1, NewGameKeeps
<1>2. CASE FinishRegistration  BY <1>2, FinishKeeps
<1>3. CASE XpEnds  BY <1>3, EndKeeps
<1>4. CASE Damage  BY <1>4, DamageKeeps
<1>5. CASE Rebuild  BY <1>5, RebuildKeeps
<1>6. ASSUME NEW t \in XpTowers, TowerXp(t) PROVE XpInv'  BY <1>6, TowerXpKeeps
<1>7. ASSUME NEW t \in XpTowers, NEW gain \in Gains, GameAdds(t, gain) PROVE XpInv'
  BY <1>7, GameAddsKeeps
<1>8. ASSUME NEW gain \in Gains, XpAward(gain) PROVE XpInv'  BY <1>8, XpAwardKeeps
<1>9. CASE SaveBegins  BY <1>9, SaveBeginsKeeps
<1>10. CASE GameWrites  BY <1>10, GameWritesKeeps
<1>11. CASE SaveEnds  BY <1>11, SaveEndsKeeps
<1>12. CASE HooksRemoved  BY <1>12, RemovalKeeps
<1>13. CASE UNCHANGED xpVars
  BY <1>13 DEF xpVars, memory, files, history, XpInv, XpTypes, TowersOK, Unregistered, Accounted,
               HiddenOnly, NothingYet, StartedOn, FileBelow, InvalidEmpty, Emptying, Tracking
<1> QED
  BY <1>1, <1>2, <1>3, <1>4, <1>5, <1>6, <1>7, <1>8, <1>9, <1>10, <1>11, <1>12,
     <1>13 DEF XpNext

LEMMA XpInvariant == XpSpec => []XpInv
  BY XpInitial, XpNextInv, PTL DEF XpSpec

\* XP is sound (XpSound): whatever the game does to its map, and with every
\* number of towers, what the next look at a node makes of it is what the tower
\* should have, and the game's own profile gets none of it.
THEOREM XpAlwaysSound == XpSpec => []XpSound
<1>1. XpInv => XpSound
  <2> SUFFICES ASSUME XpInv PROVE XpSound  OBVIOUS
  <2>1. ASSUME hooks # "none", saving = "no"
        PROVE  /\ zero = zeroOwed
               /\ hooks # "off" => \A t \in towers :
                    /\ Value(t, nodes[t]) <= owed[t]
                    /\ t \notin aliased => Value(t, nodes[t]) = owed[t]
    <3>1. ~Emptying  BY <2>1 DEF Emptying
    <3> QED  BY <3>1, OfValues DEF XpInv, Accounted, SeenBy
  <2>2. ASSUME saving # "no", Tracking, started
        PROVE  /\ \A t \in towers : nodes[t].xp = 0 /\ (t \notin aliased => progress[t] = owed[t])
               /\ saving = "written" => gameFile.invalid = 0
    <3>1. Emptying /\ hooks # "off"  BY <2>2 DEF Emptying, Tracking
    <3> QED  BY <3>1 DEF XpInv, Accounted, TakenFrom, InvalidEmpty
  <2> QED  BY <2>1, <2>2 DEF XpSound, XpAccounted, TakenBeforeWrite
<1> QED  BY <1>1, XpInvariant, PTL

\* The progress file never loses XP (FileKeepsXp), until something else damages it.
THEOREM XpKeptOnDisk == XpSpec => FileKeepsXp
<1>1. XpInv /\ [XpNext]_xpVars =>
        [file # Damaged /\ file' # Damaged => \A t \in XpTowers : file'[t] >= file[t]]_xpVars
  <2> SUFFICES ASSUME XpInv, [XpNext]_xpVars, file # Damaged, file' # Damaged, NEW t \in XpTowers
               PROVE  file'[t] >= file[t]
    OBVIOUS
  <2>1. file[t] \in Nat  BY DEF XpInv, XpTypes
  <2>2. CASE file' = file  BY <2>1, <2>2
  <2>3. CASE SaveEnds
    <3>1. file' = progress \/ file' = file  BY <2>3 DEF SaveEnds
    <3>2. hooks # "none"  BY <2>3 DEF SaveEnds, XpInv, NothingYet
    <3>3. file[t] <= progress[t] /\ progress[t] \in Nat  BY <3>2 DEF XpInv, FileBelow, XpTypes
    <3> QED  BY <2>1, <3>1, <3>3
  <2>4. file' = file \/ SaveEnds
    BY DEF XpNext, xpVars, files, NewGame, FinishRegistration, XpEnds, Damage, Rebuild, TowerXp,
           GameAdds, XpAward, SaveBegins, GameWrites, HooksRemoved
  <2> QED  BY <2>2, <2>3, <2>4
<1> QED  BY <1>1, XpInvariant, PTL DEF XpSpec, FileKeepsXp

=============================================================================
