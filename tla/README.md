# A verification project for the BTD5 mod loader

This directory models the native runtime of the mod loader in TLA+: the code
that lives inside the game's process, hands Lua scripts references to native
objects, delivers gameplay events to them, keeps the XP and the saves of custom
towers, and starts and stops around the game without its cooperation; and the
manager that installs the loader, keeps profiles and packages and launches the
game. Paths below are relative to the repository's
`src/native/runtime/` unless they say otherwise.

## Inventory

| Component | State | Operations | Talks to |
| --- | --- | --- | --- |
| Game object registry (`game_object.*`) | slots, index by (kind, address), free stack, scene counter | `add`, `find_or_add`, `find`, `resolve`, `invalidate`, `begin_scene` | event handlers and Lua wrappers, from any thread, under its own mutex |
| Gameplay event handlers (`object_events.hpp`) | handles of the match and round in progress, the announced purchase | `match_event`, `begin_round`, `round_event`, `player`, `object_event`, `rejectable_object_event`, `purchase_delivered`, `take_purchase`, `object_created`, `object_destroying`, `reset_scene` | called by the hooks' callbacks in `runtime.cpp`; call the registry and deliver to the mods |
| Teardown ledger (`teardown_ledger.*`) | watched and outstanding addresses, counts and fates | `capture`, `destroyed`, `constructed`, `settle`, `record_site`, `forget` | object lifetime hook, match hook |
| Native hooks (`*_hook.*`) | one detour each, the cancelled purchase | install, remove, the detour | game thread on one side, callbacks in `runtime.cpp` on the other |
| Start and shutdown (`runtime.cpp`) | state machine, lifecycle mutex, loaded mods, session directory, shutdown flag | `initialize_worker`, `load_active_mods`, `shutdown_runtime`, `dispatch_frame`, `dispatch_*` | startup worker, game thread, a host thread that asks for shutdown |
| Dispatch gate (`mod_lifecycle.hpp`) | mutex, owner thread, stop flag | `enter`, lease release, `exclusive`, `request_stop` | every path that runs Lua |
| Hook transaction (`hook_transaction.*`) | operations, installed ones | `add`, `commit`, `rollback` | start, shutdown |
| Lua host (`lua_mod.*`) | one Lua state per mod, handlers, timers, budgets, storage | scripts, lifecycle callbacks, event dispatch, timers, about thirty API functions | gate, registry, and through `set_cash` the native money update that dispatches to it again |
| Cash capture (`cash_capture.*`) | sixteen slots, depth | `capture`, `value`, `release` | money binding of the native event hook |
| Lives change (`mod_dispatch.hpp`, `lives_hook.*`, `lives_write_hook.*`) | none of its own; the game's stored value | two handler detours, two write detours, the fold over the mods' answers | native gain and loss handlers, Lua host |
| Custom tower saves (`custom_tower_saves.*`) | match saves in the game's folder and those set aside | `guard_match_saves`: hold, archive, restore | worker; the game, which uses the same files |
| Custom tower XP (`custom_tower_hooks.*`, `tower_progress.*`) | tracks of the game's XP nodes, progress in memory and on disk | accessor hook, award hook, profile save hook, load, save | game thread, the game's XP map and profile |
| Custom tower registry, content, art (`tower_registry.*`, `custom_tower_content.*`, `custom_tower_art.*`, `custom_tower_assets.*`) | registered towers and sounds, generated files | `add`, lookups, generation | scripts while they load, hooks of the game thread |
| Launch (`launch_ticket.*`, `active_profile.*`, manager `GameLaunchService`, `LaunchIsolation`) | lock, ticket, claim and acknowledgment files | lock, start, hand over, await, acknowledge, clean up; poll, claim, read, load | manager processes, game processes, the player |
| Packages and manifests (`mod_package.*`, `mod_manifest.*`) | none | validate, extract, version and order rules | start |
| Compatibility and symbols (`compatibility.*`, `symbol_resolver.*`, `pattern.*`) | none | fingerprint, scan | start |
| Loader installation (manager, `LoaderInstallationService`) | installation record and operation journal on disk, the game directory | install, repair, uninstall, inspect, reconcile an interrupted operation | the game directory, which the player and other programs change too |
| Profiles and packages (manager, `ProfileService`, `ProfileModService`, `ModPackageService`) | a file per profile, a file per package | create, edit, import, rename, copy, delete, install, uninstall, record a launch | each other, through files, without a lock |
| The rest of the manager's core (`src/manager/BTD5ModLoader.Manager.Core`) | settings | discover, diagnose, migrate | files shared with the runtime |

What is hard about it:

* **Three threads without a scheduler.** The startup worker installs hooks and
  loads mods while the game already runs and renders; a host thread may ask for
  shutdown at any time; the game's own exit arrives through a hook.
* **Re-entry.** A Lua callback may change the game, which raises native events,
  which are dispatched to the same mods before the callback returns.
* **Lifetimes the loader does not own.** The game creates, destroys and reuses
  memory on paths that raise no event; Lua may keep a wrapper for ever.
* **Partial failure.** Each step of the start may fail after hooks are live.
* **Crashes between two writes.** The manager may be killed anywhere in an
  installation or a repair, and the next start has to finish or undo it.
* **Two programs and their files.** Manager and runtime talk through files, and
  each may time out or end between two of them; the game and the save guard use
  the same saves; two tasks of the manager the same profiles.
* **State the game keeps and rebuilds.** XP of custom towers lives in nodes the
  game drops and allocates again, perhaps at the same address.
* **Memory between two native calls.** A purchase is decided in one detour,
  refused in a second and completed in a third, with an address as the link.

`PROJECT.json` lists the hazards with the line where each bites and the
properties that would catch it.

## Modules

| Module | What it is |
| --- | --- |
| `HandleTable` | what the registry promises: handles are bound once, retired singly or all together, never bound again |
| `GameObjectRegistry` | the registry as coded: slots, index, free stack, generations that wrap |
| `GameObjectEvents` | event handlers, teardown ledger and native hooks over the registry's contract |
| `GameObjectProofs` | the theorems of both |
| `ModContract` | what a mod is promised about `on_load`, `on_ready`, `on_shutdown` |
| `RuntimeLifecycle` | start, dispatch and shutdown on three threads |
| `RuntimeLifecycleProofs` | its theorems |
| `HookInstallation` | how the parts of all fourteen hooks go into the running game and out of it again |
| `LuaEventDispatch` | event dispatch inside each mod, its limits, and the money updates it nests with |
| `LivesChange` | a gain or a loss of lives: what is announced, decided, stored and reported |
| `EventDispatchProofs` | the theorems of both |
| `LoaderInstallation` | the manager's operations on one game directory, with crashes, failures and other programs |
| `LoaderInstallationProofs` | its theorems |
| `CustomTowerSaves` | saves set aside and brought back across games, failures and ends of the process |
| `CustomTowerXp` | the XP of custom towers, in the game's map and in the loader's file |
| `CustomTowerProofs` | the theorems of both |
| `GameLaunch` | a launch, from the manager's lock to the runtime's acknowledgment, between several managers and game processes |
| `GameLaunchProofs` | its theorems |
| `LoadOrder` | the version rule and the load order as functions, with a reference definition |
| `ModProfiles` | the manager's tasks on profiles and packages |
| `ModProfilesProofs` | the theorems of both |
| `Subsequences` | `Among`, what an erasure or a filter leaves of a list |
| `InductionLemmas` | inductions by a least counterexample, and what they show of `Among` |
| `MC*` | symmetry sets and configurations for TLC |

What composes with what. `GameObjectRegistry` implements `HandleTable`, and
`GameObjectEvents` relies on just that contract: its handles are numbers never
issued again. `RuntimeLifecycle` implements `ModContract` and keeps of a mod
only which lifecycle callbacks it was given. It installs a hook in one step and
looks at four of them; `HookInstallation` takes the same transaction apart, for
all fourteen, and keeps of the mods only whether they were loaded.
`LuaEventDispatch` is what happens
inside one of its dispatches, on the one thread that holds the gate, and keeps
of the gate only whether a stop was requested. `LivesChange` takes of a dispatch
only the mod's answer. `GameLaunch` takes of the start only the load that works
or is rolled back (`RuntimeLifecycle`) and of the profile only whether its set of
mods validates; `ModProfiles` says how that set comes about, over `LoadOrder`.

Operators introduced by a comment that begins "Deviation:" are plausible
mistakes in the definition that follows them. No action uses them; they are
substituted for the definition to see that a property would notice.

### GameObjectRegistry

`size`, `slots`, `index` and `freeIds` are the members `slots_`, `index_` and
`free_ids_`; ids are 1-based as in the code. Each public member function holds
the mutex for its whole body and is one action. Two history variables make the
contract expressible: `issued` keeps every handle ever returned with its object,
`reuse` counts how often a slot was freed in the running scene. `GenMod` stands
for 2^32: generations wrap and skip 0. A slot is freed at most `MaxReuse` times
in a scene, with `MaxReuse + 2 <= GenMod`: the 64-bit scene number protects
handles across scenes, and within one scene the code is correct only up to
2^32 - 1 reuses of one slot, which the assumption states.

### GameObjectEvents

The registry appears by its contract: handles are numbers never issued again.
`obj` is the game: which object lives at an address and how far the game has
taken it. An address freed by the game is used again for a later object, and an
object the match left behind may lose its memory without a destructor. `call` is
the delivery in progress; an action that delivers splits into the part before
and the part after delivery, and mods may cancel where the code allows it. All
native steps run on the game thread and a native step is not interrupted by
another, except where a purchase runs through its free check, cost check and
placement. A nested event raised by a Lua setter during a delivery (only money
updates) carries no object and is left to `LuaEventDispatch`.

### RuntimeLifecycle

`pc` holds the position of the worker (`initialize_worker`), the game thread
(its detours and the exit hook) and a host thread (`BTD5Loader_Shutdown`). A step
runs from one access of shared state to the next. `lifecycle` is
`g_lifecycle_mutex`, `gate` and `owner` are the two members of the dispatch
gate, kept apart as in the code: `exclusive()` takes the mutex without setting
the owner. `lua` is the stack of dispatches on the game thread, each at a mod of
`g_mods`; a callback may raise a nested event. Four hooks stand for the
transaction: the exit call (first), the optional custom tower hooks, the frame
hook, and one for all hooks that dispatch events. Anything that can fail may
fail: thread creation, ticket, compatibility, each hook, each mod, the
acknowledgment. How one hook goes on and off is left to `HookInstallation`.

### HookInstallation

A hook consists of parts: `Way(h, s)` is what its detour needs to go on in the
game at the site `s` (a MinHook trampoline, or addresses in globals), `Active(h)`
the object the detour finds its callbacks through, `Site(h, s)` the patch itself.
For each hook the module has the order in which `install()` puts the parts on
(`on`) and the one in which `remove()` takes them off (`off`); they differ from
hook to hook. `inForce` are the parts that are on, `installed` is `installed_` of
the transaction, and `todo` the parts the running `install()`, `remove()` or
clean-up after a failure still handles. The worker installs in the order of
`initialize_worker`, loads the mods (which may fail, and may ask for the two XP
slots of the custom towers) and rolls back; the game makes calls and, when its
main function returns, removes the hooks through the exit hook; an explicit
shutdown stops the mods and leaves the hooks alone.

One call of the game is in flight at a time: what is claimed is claimed of each
call by itself. Writing a patch is one step, and restoring one does not fail.
Slots of the custom towers that some builds of the game lack are taken as
present. Addresses in globals stay until `remove()` clears them, so that a clean-up of
a hook that never became active leaves them (`CleanUp`). When the game's process is
over, nothing goes on.

### LuaEventDispatch

All of it runs on the thread that holds the gate, so the state is a call stack,
`stack`, of three kinds of frames: an emission (`hooked_dispatch` for a money
update, with the token its capture returned), a dispatch (the loop of
`dispatch_game_event` over `g_mods` and, while `serving`, `dispatch_event_impl`
of one mod with what is left of its snapshot) and a callback
(`execute_at_stack_top`). `mods` holds the members of each `LuaMod`:
`handlers` is `event_handlers_`, `next` is `next_event_token_`, `budget` is
`instructions_remaining_`, `failure` is `budget_failure_`, `callbacks` and
`events` are the two depths. `captures` is the `CashCaptureStack`; a token is
the number of a slot and 0 is `nullptr`.

What the Lua code of a callback does is any sequence of `events.on`,
`events.off`, `set_cash` and runs of the instruction hook, ended by a return or
an error. The deadline is a choice: wherever the code compares the clock, it may
have passed (`late`). Between two runs of the instruction hook the model grants
one API call (`credit`), because the hook counts instructions and an API call
costs some. `DispatchBreaks` is a Lua error in the host's own code (out of
memory while the event's table is built, for one), which `protect` catches.

### LivesChange

`change` is the native handler in progress: the value `LivesHook` read on entry
(`entry`), the one the write detour read (`before`), the one it announces
(`proposed`), and the fold of `dispatch_profile_lives` (`new`, `cancelled`).
`lives` is the stored 32-bit value and `told` the last `lives.changed`. `Half`
stands for 2^31: sums wrap at it. The native handlers are external: they may
reject an update before the instruction, and the loss handler clamps a negative
result (`dispatch_loss` announces the clamped value, and
`docs/gameplay-events.md` says so).

### LoaderInstallation

`files` is the game directory, `record` and `journal` are the two JSON files of
the directory, `release` is what lies beside the manager. A file is its content
and a content stands for its hash, so that copying, hashing and comparing are
assignments and equalities; all files of a release have the content named after
it, and `Absent` and `Foreign` are in no release. `task` is the operation in
progress: `todo`, `done` and `kept` are the lists `prepared`, `installed` or
`restored`, and `preserved` or `conflicts`; `wroteJournal` and `wroteRecord` are
the two flags of `InstallAsync`. The record says which files the loader owns;
the empty manifest is no record.

A step runs from one change of the disk to the next: write the journal, copy a
file, write the record, delete a file, the record, or the journal. `Crash` may
come between any two. `Fails` is an error or a cancellation inside the `try` of
an installation or a repair, and leads into the roll back of the `catch` blocks;
`Aborts` is one outside it, which propagates. `Edit` is another program that
changes the directory, during an operation too. Two windows are left out: the
hash of a file and the deletion that depends on it are one step, and so is the
reading of all files in one verification. The order of the files is left open,
which covers both orders of the code.

`placed`, `left` and `result` are history: the files that are as the manager put
them, those a roll back could not delete, and how the last operation ended, with
the directory and the record it had started from.

### CustomTowerSaves

`live`, `held` and `older` are the game's folder, `held-saves` and the files
`held.1`, `held.2`, … in it, each the number of the save it holds (`Partial` is
what a copy that was cut short leaves). `guard` is the position of
`guard_match_saves()` on the worker, and of `move_file()` inside it. A move is a
rename (`Rename`, `MoveFails`) or a copy and a removal, and these are steps of
their own: the copy begins and what the target held is gone (`CopyBegins`), it
fails on the way or comes to its end (`CopyFails`, `CopyEnds`), and the source is
removed or cannot be (`Removes`, `RemoveFails`). The game writes and deletes saves
at any time in between, since the end of the registration has released it before
the guard starts, and the process may end there; a new game may register other
towers. `names.json` serves only the lines of the log and is left out.

Because the game is not stopped, no match save is safe at every moment, and three
histories name what may happen to one. `given` has the saves the game replaced or
deleted itself. `risked` has those a move may destroy:

* a save that was in the way of an archive that failed, whose result
  `custom_tower_saves.cpp:155` ignores before the next move replaces the file;
* a save the game wrote while the guard restored the same file, which the restore
  replaces;
* a save the game wrote while the guard was copying the one before it away, which
  `remove()` deletes (`custom_tower_saves.cpp:72`) without a look at what it is;
* a save whose copy was replaced, because the game used its target meanwhile.

`doubled` has those that are copied while their source stays or was gone
already: the removal failed or was not reached, or the game replaced or deleted
the source after it was copied, so that the copy is of a match the player has
left. Without any one of the three TLC finds a save that is lost or in two places.

### CustomTowerXp

`nodes` and `zero` are the game's XP map, `tracks` is `g_xp_tracks`, `progress`
and `dirty` the members of `CustomTowerProgress`, `file` is `progress.json` and
`gameFile` the game's own profile. The game drops its nodes and makes new ones
at new or old addresses (`Rebuild`, `GameAdds`), and the hooks see only the
address and the value. `owed` is what each tower should have. XP is counted in
whole numbers, one profile object is in use, and a round's award gives a share
by integer division, where the code uses floats; what is on key 0 and what was
moved off it still add up. What the histories say in words: XP the game added
since a hook last looked goes with a node that is dropped, and a new node on
the old one's address that outgrew the old value before a hook looked
(`aliased`) cannot be told from the old one.

`started` matters: an award before the first call of the accessor is tracked but
not taken out of the profile at the next save (`g_xp_tracking_started`,
`custom_tower_hooks.cpp:470`), so `TakenBeforeWrite` speaks of games in which it
is set.

A failed load of the mods takes the hooks down while the game runs on
(`HooksRemoved`: `runtime.cpp:1761-1763`, `custom_tower_hooks.cpp:699-716`).
Nothing looks at the nodes after that; what they hold goes into the game's own
profile with the next save and is reloaded onto key 0. `XpAccounted` therefore
speaks of the towers only until the hooks are off, and `FileKeepsXp` of the
progress file throughout. A call of a hook is one step; `remove()` clears
`g_xp_tracks` without a lock that a hook in progress would hold, and a removal in
the middle of a call is not modelled.

### GameLaunch

`launch[l]` is a task of `LaunchModdedAsync` or `LaunchVanillaAsync`, `lock` the
holder of `request.lock`, and `runtime[p]` the position of `initialize_worker` in
game process `p`. Processes are numbered as they start, so that a number is the
identity of the code, process ID and start time. `ticket`, `claimed` and
`started` are the files beside the game. A wait may end at any step; managers
and games are killed anywhere; the player starts games and edits the profile.
A deletion fails while the runtime has the ticket open, or for another reason
(`stuck`), and the `finally` block then leaves the files that come after it.

Two details of the code show in the model. The profile is loaded once and
validated twice (`GameLaunchService.cs:256-267`) and the second result is not
looked at: a profile made invalid in between has no packages, and is launched
so, which `SuccessTruthful` states as the exception for an edited profile. And a
launch that timed out may still load: the runtime has the ticket open, or has
claimed it, and loads the mods of a launch that was reported as failed
(`NoReusableIntent` says that no *unclaimed* ticket stays).

The deletion of `.started.tmp` (`GameLaunchService.cs:313`) is left out: the file
exists only while the runtime renames it, and nobody reads it.

### ModProfiles and LoadOrder

`file[n]` is the profile stored under name `n` (a name stands for its storage
key): an identity, its list of mods, and whether that list was ever validated.
Every click starts a task; tasks interleave at the awaits, and the manager may
end anywhere (`Restart`). An edit loads, validates the whole new list
(`TrySaveAsync`), loads again and writes (`SaveModsAsync`); nothing locks the
profile, so edits are lost, but what is written is a list that was validated.
`LoadOrder` has the version rule, the edges and the loop that works them off as
functions, with the definition they are checked against (`LeastOrders`): the
order that respects every edge and otherwise keeps closest to the profile.

Two histories carry what the properties excuse. `raced` are packages
uninstalled by a task that overlapped another: the profiles are listed, the
package is deleted, and a list that enables it may be saved in between.
`Displaced` takes out of `live` a profile that an overlapping task wrote over or
deleted: `RecordLaunchAsync` loads a profile, the profile is deleted, another is
created at that name, and is replaced. Both excuses are needed: TLC finds the
losses without them. An imported list is stored unvalidated
(`MainWindow.xaml.cs:641-642`) and is checked at its next edit (`checked`).

## Runs

| Run | Question | Bounds | Result |
| --- | --- | --- | --- |
| `registry` | Do index, free stack and generations stay consistent, and is the contract kept? | two slots, two objects, two kinds, generations 1..2, two scenes | holds, 229 062 states |
| `events` | Does every event carry the handle the documentation promises? | two addresses, three constructions, five handles, two matches; towers, attacks, bloons | holds, 693 236 states |
| `lifecycle` | Is Lua exclusive, the lifecycle contract kept, the exit clean, whatever fails or races? Does everything that was started or asked for finish? | three mods, nesting of three | holds, 12 681 states, no deadlock; the liveness properties under fairness |
| `hooks` | Does a patch that is in force always find what it needs, is the transaction all or nothing, and does a call in flight get back into the game? | none: all fourteen hooks with all their parts | holds, 117 311 states |
| `lua_dispatch` | Does each event carry its own balance, each handler get its turn, one allowance cover all that is nested? Do captures and depths match the stack, and does feedback end? | one mod, two handlers, one capture slot, nesting of two, allowance of two hook runs, two balances | holds, 919 638 states; `DispatchEnds` under fairness |
| `lua_disabled` | Are only handlers disabled that failed? | one mod | violated |
| `lives` | Is what is stored and reported what was announced and decided? | three mods, 3-bit lives, amounts 0, 1, 3, answers at and beyond both ends | holds, 299 437 states |
| `installation` | Is every copy accounted for, everything foreign left alone, and what is reported true? | two files, two releases | holds, 453 968 states, no deadlock |
| `tower_saves` | Is every save kept, in one place, and can the game read what it finds? | one tower, two of the three files, two saves, one archived copy per file | holds, 595 946 states, no deadlock |
| `tower_xp` | Is no XP lost or counted twice, and none left in the game's profile? | two towers, two addresses, gains of 1 and 2, 3 XP in all and at most 3 on key 0 when a game starts | holds, 345 821 states, no deadlock |
| `launch` | Does a ticket start mods in its own process once, is the report true, does every launch end? | two launches, two processes, one mod, one edit | holds, 664 805 states; `LaunchEnds` under fairness |
| `profiles` | Do stored lists stay valid and profiles stay, whatever overlaps? Is the load order the least one? | two names, two tasks, three packages, two manifests, three operations; three mods with every set of constraints | holds, 584 270 states |

Why the bounds are enough. Registry: the second object and the second slot are
what a free stack and an index collision need, one reuse and a wrap of
generations are reached with two generations, and the second scene is the one
that may confuse handles with the first. The theorems cover every larger
instance. Events: an address is reused by a third object after two, a purchase
can fail and another object take its place, and the second match settles the
ledger of the first. Lifecycle: three mods are needed to tell a reverse order
from a rotation; nesting of three tells the outermost lease from the others.
Hooks: there is nothing to bound, the hooks and their parts are those of the
code. Lua dispatch: one slot is full as soon as a second update is nested, and
free again for the next one. Two handlers are what an order, a removal of the one
not served yet, and an erasure under a walk need; two balances tell one update
from another. One mod is enough for what concerns one mod's handlers, since mods
share only the stack and the captures; for these, and for the depths and the
allowance, the theorems cover every number of mods and slots. That a feedback
between two mods ends is not run by itself: what bounds it, the nesting limit of
each mod and its allowance, is the same. Lives: with
`Half = 4` a gain of 3 overflows, a loss of 3 is clamped, and every integer a mod
may answer is a case of the five; three mods are what "last accepted" needs.
Installation: two files are what a half done copy, roll back or uninstallation
needs, and two releases what a record of an older version beside newer files
needs; the theorems cover every number of both.

Tower saves: the two files of one tower are what a guard between two files
needs, a second save what an older held one needs, and one archived copy what a
number that is taken needs; the third file is treated like the others and the
number of games is not bounded. Tower XP: a share of another tower needs two, a
node at the old address and one at a new one need two addresses; awards, saves
and games are not bounded, only the XP handed out and what a game starts with on
key 0, where the nodes of games without hooks pile up. Launch: a second launch
competes for the lock and for the process, a second process is the one the player
started, and one edit changes the profile between any two readings. Profiles: a
lost update, a rename and a deletion that overlap need two tasks and two names;
two versions of one package and one that depends on it make every way a list can
be invalid; three operations are what the races above need. Three mods are the
smallest number with a choice after a placement and with a cycle that is not a
pair.

`CHECK_DEADLOCK FALSE` where the bounds stop the system: `MCGameObjectEvents`
(constructions, handles, matches), `MCGameLaunch` (launches and processes) and
`MCModProfiles` (operations); and in `MCHookInstallation`, where the process
ends. All other runs are checked for deadlock; the
lifecycle stops only when the process has ended.

Fairness in `lifecycle`. The worker and a game thread inside a detour
keep running while they can: weak fairness, the operating system schedules them.
A thread waiting for the lifecycle mutex or the gate eventually gets it: strong
fairness, because the frame detour takes and leaves the gate once per frame, so
the gate is free again and again but not continuously. No frame, event, exit,
shutdown request or timeout is assumed to happen: the registration wait is
released without the help of its 20 second timeout.

Fairness in `lua_dispatch`. The thread goes on with the frame it is in:
weak fairness of `FrameStep`, since nothing in a dispatch waits. It does not say
that a callback returns: the instruction hook is a step like the others, and the
allowance runs out. One thing is assumed of the scripts. A script may catch the
error of the instruction hook with `pcall` and go on; each further run of the
hook raises it again, and a script that catches it for ever hangs the game's
thread. Such a run of the hook changes nothing in the model, so fairness rules
it out.

Fairness in `launch`. A launch whose manager is not killed goes on: weak fairness
of `LaunchStep`. All its waits have a deadline in the code
(`GameLaunchService.cs:32,58`), and the end of a wait is a step. Nothing is
assumed of the game, the runtime, the player or the killing of managers.

## What the runs found

* `lua_disabled`: `docs/gameplay-events.md:139-140` says that only the handler
  with an error is disabled. A callback that has used up its allowance or its
  time and then raises a money update gets its mod's cash handlers refused
  (`lua_mod.cpp:1403`) and disabled for good (`lua_mod.cpp:418-429`), although
  none of them has run. What does hold is checked in `SubscriptionsHonoured`: the mod
  itself had exceeded a limit.

Disagreements met on the way, which no run of the project depends on:

* `docs/gameplay-events.md:28-31` promises `tower.placing` for a tower the game
  adds without a purchase. `purchased_tower_` survives a purchase the game
  refuses for its cost and the destruction of the preview; a tower the game then
  adds at the same address is taken for the purchase (`runtime.cpp:1508`) and is
  not announced.
* The sale's patch is written to the running game before the global its detour
  goes on through is assigned (`tower_sale_hook.cpp:77-84`); a tower sold in
  between jumps to address zero. All other hooks make the way back known first.
  `WaysKnown` and `NativeKept` excuse this one window and no other.
* A failed start rolls the hooks back (`runtime.cpp:1762`) while a frame may be
  inside the detour, waiting for the gate. The detour then finds no original
  function and the frame is dropped (`frame_hook.cpp:95-96`). Shutdown is careful
  about exactly this (`runtime.cpp:1835-1837`, part of `OrderlyEnd`).
* `guard_custom_tower_saves()` is said to run before the menus can open a save
  (`runtime.cpp:566-569`); it runs after the registration has released the game
  (`runtime.cpp:1759-1760`). `CustomTowerSaves` lets the game use its saves
  throughout.
* `docs/manager-revamp.md:109` reserves `InvalidRecord` for a damaged record or
  journal. `UninstallAsync` does not look at the journal: after an interrupted
  repair it deletes the record and leaves the repair's journal, which every later
  inspection and installation refuses (`LoaderInstallationService.cs:658-663`)
  until it is deleted by hand.
* A failed archive of an older held save is ignored, and the next move replaces
  that save (`custom_tower_saves.cpp:150-159`), although the comment says "Keep
  an older held save rather than overwrite it".
* `move_file()` removes the source "only once the copy exists"
  (`custom_tower_saves.cpp:70-72`), and removes whatever the source holds by then.
  A save the game writes between the copy and the removal is deleted; one the
  game deletes in between stays in the copy and may come back. Both are excused by
  name in `SaveKeptOnce` (`risked`, `doubled`).
* A damaged `progress.json` is reported and then written over at the next profile
  save (`runtime.cpp:1062-1066`, `tower_progress.cpp:37-41`).

## What is proved

`GameObjectProofs` proves of the registry, for every set of kinds and objects, every
number of slots, generations and scenes that satisfies the assumptions of
`GameObjectRegistry`:

* `RegistryInvariant`: the inductive invariant `RegistryInv`, which the run
  checks too;
* from it `RegistryTypeOK`, `IndexSound`, `FreeListExact`, which it consists of,
  and `ResolvesToItsObject` and `StaleStaysStale`;
* `RegistryImplementsTable`: every behaviour of the registry is one of
  `HandleTable`.

None of the properties is inductive alone. `ResolvesToItsObject` needs to know
that a slot whose generation, scene and kind equal a handle's still holds the
handle's object, and that is only so because the slot has not been freed since
the handle was issued. `IssuedTracked` says so by counting: the generation of a
slot is the handle's generation advanced by the number of times the slot was
freed since (`Advance`), and since that number is smaller than the modulus, equal
generations mean it is zero. `LiveInScene` and `LiveIssued` tie live slots to
the running scene and to a handle that was issued, which the refinement needs,
and `UnusedFresh` describes the slots `push_back` will create. The proof has one
lemma per action and conjunct; the temporal theorems follow with PTL.

`EventDispatchProofs` proves of `LivesChange`, for every `Half`, every number of mods, every set of
amounts below `Half` and every set of integers the mods may answer:

* `LivesTypeCorrect`: `LivesTypeOK`, that is, no value leaves 32 bits;
* `DecisionCorrect`: `DecisionFollowsAnswers`;
* `StoredCorrect`: `StoredAsDecided`.

`StoredAsDecided` relates what the mods were told before the write to what is
stored after it, and the code computes the two separately: `dispatch_gain` and
`dispatch_loss` the announced value, the rerun instruction and the native clamp
the stored one. The inductive invariant `LInv` carries the relation through the
stages (`Fresh`, `Asking`, `Finishing`, `Leaving`): while the mods answer, the
announced value is `Proposed` of the stored one; after the write, the value the
rest of the handler will leave (`Pending`) is the decided one. `WrapIdentity`
and `InstructionAgrees` are the arithmetic: a subtraction of an amount from a
value that is not negative does not wrap, so wrapping and clamping afterwards
equals clamping at once.

`LoaderInstallationProofs` proves, for every set of files and releases:

* `InstallationTypeCorrect`: `InstallationTypeOK`;
* `CopiesTrackedCorrect`: `CopiesTracked`;
* `ContentsRespectedCorrect`: `ContentsRespected`;
* `OutcomeCorrect`: `OutcomeTruthful`.

`CopiesTracked` alone does not survive the removal of the journal. What lets it
go is `Accounted`: by then every file the manager placed is in the record, rolled
back or given up. That rests on `JournalOfTask` (the journal lists exactly the
plan the operation copies from, and nothing is copied before it is written) and
on `PlanWithinRecord` (a repair copies only what the record lists; an
installation starts from no record and writes its plan as the record).
`OutcomeTruthful` needs in addition what is left to undo at each stage
(`Undone`): while files are copied, the directory differs from the one the
operation started from by the files in `done`; while they are rolled back, by
those in `todo` and those given up. The proof of each part has one step per
action.

`GameLaunchProofs` proves, for every set of launches and mods, every number of
game processes and of edits, and every set of profiles that validate:

* `LaunchInvariant`: the inductive invariant `LaunchInv`;
* `TicketForOneProcessHolds`, `SuccessTruthfulHolds`, `VanillaStaysVanillaHolds`
  and `NoReusableIntentHolds`: the safety properties the run checks.

All four rest on a fact that none of them states: no two launches ever have the
same process (`OneLaunchEach`). A launch takes a process that started after it
had looked how many there were, and it looked with the lock held, when every
earlier launch already had its process (`SinceAll`, `LockHeld`). So every pair in
`issued[p]` is of the one launch whose process is `p` (`IssuedOwn`), with the
packages that launch still has, and mods in a process are that launch's
(`ProcessOK`). A launch that comes to write its ticket is the first for its
process (`HandoffFresh`), so no runtime can have acted for that process before.
`NoReusableIntent` needs that a runtime which has the ticket's file open has
claimed it (`RuntimeConsistent`), because then the clean-up of the launch removes
nothing. `SuccessTruthful` needs in addition that an acknowledgment is only ever
of mods that are loaded, and what was read of the profile at each stage
(`ProfileRead`). The assumptions are those of `GameLaunch`, among them that the
markers for "no lock" and "no file" are neither a launch nor a mod. The proof has
one lemma per action; `TaskStep`, `EndsStep` and `ProcessStep` hold what most of
them share. TLC has checked `LaunchInv` on the instance of the run `launch`.

`RuntimeLifecycleProofs` proves, for every number of mods and every depth of
nested dispatches (`ModCountAssumption`, `MaxDepthAssumption`):

* `RuntimeInvariant`: the inductive invariant `RuntimeInv`;
* `LifecycleTypeCorrect`: the type invariant;
* `OneThreadInLua`, `DeliveredToReadyMods` and `EndsOrderly`: `LuaExclusive`,
  `DeliveredWhileReady` and `OrderlyEnd`;
* `RuntimeHonoursContract`: every behaviour is one of `ModContract`.

The argument has two layers. Who holds the gate and the lifecycle mutex can be
read off the threads' places (`GateHeld`, `LifecycleHeld`), so places under the
same mutex exclude one another; the gate's owner is read without the mutex by
`enter`, and the proof shows that only the thread itself can find its own name
there. On top of that, how far each mod has come can be read off the place of the
one thread that may move it (`LifeFollows`, `ModsFollow`), and so can the state
machine, the stop flag and the hooks (`StateFollows`, `StopFollows`,
`StoppedSoFar`, `DetoursFollow`). `DispatchFollows` says of the stack of nested
dispatches which frame holds the lease and that callbacks are given to ready mods
only. Each property is then one case of that table, and the refinement is a
reading of it: a step moves at most one mod, by one step of the contract.

`GameObjectProofs` proves of the events, for all addresses and kinds and every
number of objects, handles and matches (`NativeKindAssumption`,
`NoObjectAssumption`, `BoundsAssumption`, `AddressAssumption`):

* `EventsInvariant`: the inductive invariant `EventsInv`;
* `HandlesStayConsistent`, `WrapperValidInDelivery`, `PurchaseOnce`,
  `LedgerIsBalanced` and `HandleIsKept`: the five properties of the run `events`,
  the last of them an action property.

What the handlers rely on without saying so is in the invariant: index and live
handles are each other's inverse (`RegistryOK`), a live handle names the object
that now lives at its address and not an earlier one (`NamesLive`), a handle kept
in `round_` is the indexed one (`RoundIndexed`), only the purchase path is under
way while an event is delivered, about the very object that is being bought
(`Delivering`, `ObjectCall`, `PurchaseOK`), and the ledger's counts add up to what
was captured until it is settled (`LedgerAdds`). There is one lemma per native
step and one per delivery that comes back.

`CustomTowerProofs` proves of the saves, for all files, every number of towers and saves
and every number of archived copies (`SavesAssumption`):

* `SavesInvariant`: the inductive invariant `SavesInv`, which TLC has checked on
  the instance of the run `tower_saves`;
* `SavesTyped`: its type invariant;
* `SavesKeptOnce` and `DoneSavesKnown`: `SaveKeptOnce`, with the exceptions that
  `given`, `risked` and `doubled` name, and `LiveSavesKnown`.

A move replaces its target, so that what the target held is lost unless something
else is known of it. `HoldSafe` says what is known of the held save the next hold
replaces (it is archived, or the archive failed and the save is excused), and
`RestoreSafe` what is known of the live save the next restore replaces. A move
that copies has a save in two places until its source is removed: `CopyUnderWay`
says, for each of the three moves, what source and target may hold while the game
uses them, and `TransitTwice` that the save being moved is in these two places
and no other. `Own` keeps saves of different files apart, `OneEach` says where a
save cannot be while it is somewhere else, and `LookedAt` with `DoneIsAll` carry what the guard has
seen of each file to the end of its pass.

`EventDispatchProofs` proves of `LuaEventDispatch`, for every number of mods, handlers, capture slots,
nested events and callbacks (`ProfileAssumption`, `LimitAssumption`,
`CashAssumption`):

* `DispatchInvariant`: the inductive invariant `DispatchInv`;
* `StackCounted`, `EventsOwnBalance` and `AllowanceOfNested`: `StackAccounted`,
  `CashOwnBalance` and the action property `AllowanceShared`;
* `HandlersGetTheirTurn`: `HandlersOwed`;
* `SubscriptionsKept`: the action property `SubscriptionsHonoured`, whose first
  part, `NoCallAfterOff`, is `CalledWhileSubscribed`.

A step pops the last frame of the call stack, replaces it or puts one on top.
Every action is shown to be of one of eight such kinds (`Touches`, `Raises`,
`Delivers`, `Settles`, `Turns`, `Enters`, `Calls`, `Returns`), and the parts of
the invariant are proved for the kinds. `Counted` ties the two depths of each mod
to the frames on the stack. `Nested` says that every callback but the host's lies
directly on a dispatch to its mod, so a mod has at most one callback more than
events, and the callback limit, which is larger, is never what stops a nested event.
`CapturesMatch` gives the n-th update that holds a slot the slot n with its own
balance; `Unheld` says of an update without a slot that all slots were taken when
it started or that it has no finite balance; `OwnBalance` follows for the events
it raises. That nothing nested is served beyond the limits makes the remaining
allowance go down only, until the outermost callback is over.

Which handlers there are is a second invariant over the first, `HandlersInv`, and
TLC has checked it on the run's instance. The tokens of a mod's list rise and lie
below the next one (`ListOK`), so a subscription is found again by its token
whatever is taken out before it, and no token is given twice. A list only
`Evolves`: what is subscribed afterwards was subscribed before or has a new token.
Of a dispatch that serves a mod, `Serves` says that the rest of its snapshot rises
from the handler served last, that all of it is older than the dispatch, and that
whoever is owed the event is still in it. The snapshot establishes that, every
step to the next handler keeps it, and no nested call of `events.on` or
`events.off` can break it. `HandlersOwed` compares the rest of the queue with the
list at that moment and follows.

`CustomTowerProofs` proves of the XP, for every finite set of towers, all
addresses and all amounts (`XpAssumption`):

* `XpAlwaysSound`: `XpSound`, that is, `XpAccounted` and `TakenBeforeWrite`;
* `XpKeptOnDisk`: the action property `FileKeepsXp`.

Of the towers the invariant speaks until the hooks are taken down; a removal in
the middle of a save leaves only values to put back (`HiddenOnly`). What a tower has is in three places, its node in the game's map, its track and its
progress, and no one of them is enough. `Val` is what the next look will make of
the three. `SeenBy` says that it is what the tower should have, unless a node that
took the old one's address has outgrown it, and that a tracked node whose value
fell is such a node; `TakenFrom` says the same while the nodes are empty for the
game's own save. One lemma for each thing that may happen to a tower (`GainSeen`,
`NodeSeen`, `NothingAdded`, `TakenSeen`) carries them on, and the actions only say
to which towers it happens. That the file never falls behind rests on a tower's
progress never exceeding what is recorded for it (`TowerOK`, `FileBelow`). A share
is well defined because the tower's own pops are part of the sum it is divided by;
`SumOfNats` shows that `SumFunction` of natural numbers over a finite set is a
natural number, bounds its parts and is 0 when they are.

`ModProfilesProofs` proves of the load order:

* `OrderAlwaysLeast`: for every list without duplicates and every set of
  constraints, `OrderIsLeast`; `OrdersCorrect` is its case for the three mods of
  `OrderCorrect`;
* `CaretsAlwaysRanges`: `CaretIsARange` for all versions, of which the run's
  assumption `CaretsAreRanges` is a part.

Every prefix of the order is `Greedy`: each mod in it is the first of those that
were ready before it. Such an order respects every constraint; compared with any
other that does, the first difference is in its favour, because the other's mod was
ready as well; and `Earlier` never holds both ways, so no second order is least.
Where the loop stops early nobody is ready, so every order of all mods has a first
one that comes before a predecessor.

And of the tasks on profiles, for every finite set of names and tasks, every set of
packages, manifests and lists, and any number of operations (`FiniteAssumption`,
`PackageAssumption`, `ListAssumption`):

* `ProfilesAlwaysSound`: `ProfilesSound`.

The inductive invariant `ProfilesInv` says what each task carries. What it is going
to write was validated against packages that are still installed, or were deleted by
a task that overlapped another (`WillWrite`); a task that runs alone finds the files as
it loaded them (`Undisturbed`), which is what makes an undisturbed uninstallation or
replacement harmless; and the identity of a profile under creation is nobody else's
(`Fresh`). No profile disappears because it always has more files than renamings that
are about to delete one (`Spared`): a count, since two renamings of one profile may
overlap. The cases of a step are those of the task that moves and those of all others,
which at most lose their claim to have run alone.

Inductions over data are taken where they are needed by a least counterexample
(`LeastNat`), since the library's induction theorems need an operator as parameter:
`UpTo` and `Iteration` of `InductionLemmas` give the solution of a recursive function
on an interval, `Picks` what `Among` takes of a list, and in `CustomTowerProofs`
`SumExists` the solution of the recursion in `SumFunction`.

Only model-checked:

* the installation of hooks (`SitesOrdered`, `AllOrNothing`, `NativeKept`).
  `HookInstallation` has no constants and its state space is finite: the hooks are
  the fourteen tables of the code, and the run visits every state they allow, so
  that a proof would cover nothing the run leaves out;
* all liveness: `ShutdownCompletes`, `WaitReleased`, `DispatchEnds` and
  `LaunchEnds`. Liveness under fairness and `ENABLED` are beyond the prover.

## Not modelled, and why

* The validation and encoding of instructions and symbol scanning: no state the
  properties tell apart; each is a step that succeeds or fails. A thread that
  executes an instruction while it is being written.
* Logging, type watch and creation sites: diagnostics.
* A race on the plain members of `GameObjectEvents` between an explicit shutdown
  and a native hook (`runtime.cpp:1832`), and on the callback object a removed
  hook destroys: undefined behaviour without a state to continue from. Nothing
  in the repository calls the shutdown export while the game runs.
* File system failures of the session's removal.
* Of the Lua host: the order of timers that are due together, storage and
  resources, memory accounting, validation of event payloads, and the conversion
  of event fields back from Lua. A stack of Lua frames that is too deep
  (`lua_mod.cpp:526-535`) is an error like any other.
* A change of lives that starts below zero, which only a gain that overflowed
  can leave behind: `StoredAsDecided` claims nothing of it. Memory the lives
  hooks cannot read: they then do nothing.
* Generated custom tower content, art and text: transformations of files. The
  tower registry: checks of arguments and appends; a race between the worker that
  registers and a hook that looks up is undefined behaviour without a state to
  continue from.
* Of the custom towers' saves and XP: `names.json`, the encoding of saves, XP as
  floating point numbers, and a second profile object.
* Of the launch: discovery of Steam, the state of the loader and of the game
  (a check that passes or fails), the contents of a ticket beyond its packages.
* Of profiles and packages: the configuration of mods, damaged profiles and
  packages, temporary files, and names that share a storage key. A package is
  taken to keep its manifest; the native parser of manifests and ZIP archives is
  left out.
* Of the loader installation: temporary copies (`*.btd5ml-*.tmp`) and their
  removal, JSON that is damaged or names unsafe paths (refused when read, nothing
  is written), the validation of the game build, artifacts that are replaced while
  an operation copies them, and how an inspection classifies what it finds.
* The manager's interface, discovery and diagnostics.

## Plan

1. The rest of the Lua host: timers that are due together, and storage.
2. The manager's settings and the migration of its state.
