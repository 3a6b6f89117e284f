-------------------------- MODULE HookInstallation --------------------------
(***************************************************************************)
(* How the runtime puts its hooks into the running game and takes them off *)
(* again: every hook of the transaction g_hooks, in the order in which     *)
(* initialize_worker adds them, part by part, while the game runs through  *)
(* the code that is being patched.                                         *)
(*                                                                         *)
(* A hook is made of three sorts of parts. Way(h, s) is what a detour      *)
(* needs to go on in the game at the site s: a MinHook trampoline, or the  *)
(* continuation addresses of a detour that replaces instructions.          *)
(* Active(h) is the object a detour looks up to find its callbacks.        *)
(* Site(h, s) is the patch itself: once it is in force, the game enters    *)
(* the detour. Each hook puts its parts on in an order of its own and      *)
(* takes them off in another.                                              *)
(*                                                                         *)
(* Three threads: the worker installs, loads the mods and rolls back; an   *)
(* explicit shutdown only stops the mods; the game makes calls and, when   *)
(* its main function returns, removes the hooks through the exit hook.     *)
(* Writing one patch is one step, and restoring a patch does not fail.     *)
(***************************************************************************)
EXTENDS Naturals, Sequences, SequencesExt

Way(h, s) == <<"way", h, s>>
Site(h, s) == <<"site", h, s>>
Active(h) == <<"active", h>>

Ways(h, ss) == [i \in DOMAIN ss |-> Way(h, ss[i])]
Sites(h, ss) == [i \in DOMAIN ss |-> Site(h, ss[i])]

(***************************************************************************)
(* The hooks: the order in which install() puts the parts on, and the one  *)
(* in which remove() takes them off.                                       *)
(***************************************************************************)
MinHook(h, ss) ==
    [on  |-> Ways(h, ss) \o <<Active(h)>> \o Sites(h, ss),
     off |-> Sites(h, ss) \o <<Active(h)>> \o Ways(h, Reverse(ss))]

FrameHook == MinHook("frame", <<"swapBuffers">>)
MatchHook == MinHook("match", <<"init", "uninit">>)
RoundHook == MinHook("round", <<"start">>)
PlacementHook == MinHook("placement", <<"place">>)
EventHook == MinHook("events", <<"dispatch">>)
LivesHook == MinHook("lives", <<"gain", "loss">>)

\* last_predicate outlives the hook: a thread may have fetched the old call.
ExitHook ==
    [on  |-> <<Way("exit", "call"), Active("exit"), Site("exit", "call")>>,
     off |-> <<Site("exit", "call"), Active("exit")>>]

PurchaseHook ==
    [on  |-> Ways("purchase", <<"free", "cost">>) \o <<Active("purchase")>>
             \o Sites("purchase", <<"cost", "free">>),
     off |-> Sites("purchase", <<"free", "cost">>) \o <<Active("purchase")>>
             \o Ways("purchase", <<"free", "cost">>)]

UpgradeHook ==
    [on  |-> <<Way("upgrade", "commit"), Site("upgrade", "commit"), Active("upgrade")>>,
     off |-> <<Site("upgrade", "commit"), Active("upgrade"), Way("upgrade", "commit")>>]

\* The patch is written before the detour knows where to go on.
SaleHook ==
    [on  |-> <<Site("sale", "commit"), Way("sale", "commit"), Active("sale")>>,
     off |-> <<Site("sale", "commit"), Active("sale"), Way("sale", "commit")>>]

BloonHook ==
    [on  |-> Ways("bloons", <<"lethal", "leak", "primary", "secondary">>)
             \o <<Active("bloons")>>
             \o Sites("bloons", <<"primary", "secondary", "leak", "lethal">>),
     off |-> Sites("bloons", <<"lethal", "leak", "primary">>)
             \o <<Way("bloons", "primary"), Site("bloons", "secondary"),
                  Way("bloons", "secondary"), Active("bloons")>>
             \o Ways("bloons", <<"leak", "lethal">>)]

Constructors == {"attackNew", "projectileNew1", "projectileNew2", "projectileNew3"}
Destructors == {"attackDelete", "projectileDelete", "towerDelete", "bloonDelete"}

LifetimeTargets ==
    <<"attackNew", "attackDelete", "projectileNew1", "projectileNew2",
      "projectileNew3", "projectileDelete", "towerDelete", "bloonDelete">>

EnableOrder ==
    <<"attackDelete", "projectileDelete", "towerDelete", "bloonDelete",
      "attackNew", "projectileNew1", "projectileNew2", "projectileNew3">>

\* Deviation: the sites are enabled in the order of the targets.
LifetimeHookInIndexOrder ==
    [on  |-> Ways("lifetime", LifetimeTargets) \o <<Active("lifetime")>>
             \o Sites("lifetime", LifetimeTargets),
     off |-> Sites("lifetime", Reverse(LifetimeTargets)) \o <<Active("lifetime")>>
             \o Ways("lifetime", LifetimeTargets)]

LifetimeHook ==
    [on  |-> Ways("lifetime", LifetimeTargets) \o <<Active("lifetime")>>
             \o Sites("lifetime", EnableOrder),
     off |-> Sites("lifetime", Reverse(EnableOrder)) \o <<Active("lifetime")>>
             \o Ways("lifetime", LifetimeTargets)]

LivesWriteHook ==
    [on  |-> Ways("livesWrite", <<"gain", "loss">>) \o <<Active("livesWrite")>>
             \o Sites("livesWrite", <<"gain", "loss">>),
     off |-> Sites("livesWrite", <<"loss", "gain">>) \o <<Active("livesWrite")>>
             \o Ways("livesWrite", <<"gain", "loss">>)]

\* The custom towers' thirteen core slots, and the two that are put on later
\* when a mod registered a tower with XP progression.
TowerSlots ==
    <<"nameToFlag", "flagToName", "openFile", "profileUnlocked", "shopUnlocked",
      "shopAvailable", "upgradeUnlocked", "profileSave", "textLookup",
      "fileExists", "spriteIndex", "getSprite", "mmioOpen">>
XpSlots == <<"towerXp", "xpAward">>

SlotsOn(ss) == FlattenSeq([i \in DOMAIN ss |-> <<Way("towers", ss[i]), Site("towers", ss[i])>>])
SlotsOff(ss) == FlattenSeq([i \in DOMAIN ss |-> <<Site("towers", ss[i]), Way("towers", ss[i])>>])

TowersHook ==
    [on  |-> <<Active("towers")>> \o SlotsOn(TowerSlots),
     off |-> SlotsOff(TowerSlots \o XpSlots) \o <<Active("towers")>>]

HookOrder ==
    <<"exit", "towers", "frame", "match", "round", "placement", "purchase",
      "upgrade", "sale", "bloons", "lifetime", "events", "livesWrite", "lives">>

Hooks ==
    [exit |-> ExitHook, towers |-> TowersHook, frame |-> FrameHook,
     match |-> MatchHook, round |-> RoundHook, placement |-> PlacementHook,
     purchase |-> PurchaseHook, upgrade |-> UpgradeHook, sale |-> SaleHook,
     bloons |-> BloonHook, lifetime |-> LifetimeHook, events |-> EventHook,
     livesWrite |-> LivesWriteHook, lives |-> LivesHook]

Required(h) == h # "towers"

\* Addresses in globals: assigning them cannot fail, and only remove() clears them.
Addresses ==
    {Way("upgrade", "commit"), Way("sale", "commit"),
     Way("bloons", "leak"), Way("bloons", "lethal")}
    \cup {Way(h, s) : h \in {"exit", "purchase", "livesWrite"},
                      s \in {"call", "free", "cost", "gain", "loss"}}

\* install() can fail before its first part, at MH_CreateHook and
\* MH_EnableHook, and when a page cannot be made writable.
MayFail(h, p) ==
    \/ p = Hooks[h].on[1]
    \/ p[1] = "way" /\ p \notin Addresses
    \/ p[1] = "site" /\ h # "exit"

VARIABLES
    inForce,    \* the parts that are in force
    installed,  \* installed_: the hooks the transaction has installed
    todo,       \* the parts the running install(), remove() or clean-up still handles
    worker,     \* initialize_worker: what it does, at which hook, and the mods' outcome
    game,       \* what the game's thread does, and in which detour
    stopping    \* the explicit shutdown: "no", "asked" or "done"

vars == <<inForce, installed, todo, worker, game, stopping>>
----------------------------------------------------------------------------
Playing == [stage |-> "play", at |-> <<>>]

Init ==
    /\ inForce = {}
    /\ installed = <<>>
    /\ todo = ExitHook.on
    /\ worker = [mode |-> "install", at |-> 1, loaded |-> FALSE]
    /\ game = Playing
    /\ stopping = "no"

Running == game.stage # "over"

InForce(parts) == SelectSeq(parts, LAMBDA p : p \in inForce)

\* remove() of an installed hook.
Removal(h) == InForce(Hooks[h].off)

\* Deviation: only a hook that is already installed is cleaned up.
CleanUpIfInstalled(h) ==
    IF \E i \in DOMAIN installed : installed[i] = h THEN Removal(h) ELSE <<>>

\* What install() does when one of its steps failed: the same as remove(), but
\* as long as the hook is not active, addresses stay as they are.
CleanUp(h) ==
    SelectSeq(Removal(h), LAMBDA p : Active(h) \in inForce \/ p \notin Addresses)

\* commit() goes to the next hook; after the last one the mods are loaded.
NextHook ==
    IF worker.at = Len(HookOrder)
    THEN /\ worker' = [worker EXCEPT !.mode = "load"]
         /\ todo' = <<>>
    ELSE /\ worker' = [worker EXCEPT !.mode = "install", !.at = @ + 1]
         /\ todo' = Hooks[HookOrder[worker.at + 1]].on

(***************************************************************************)
(* The worker                                                              *)
(***************************************************************************)
PutOn ==
    /\ Running
    /\ worker.mode \in {"install", "xp"}
    /\ todo # <<>>
    /\ inForce' = inForce \cup {Head(todo)}
    /\ todo' = Tail(todo)
    /\ UNCHANGED <<installed, worker, game, stopping>>

HookInstalled ==
    /\ Running
    /\ worker.mode = "install"
    /\ todo = <<>>
    /\ installed' = Append(installed, HookOrder[worker.at])
    /\ NextHook
    /\ UNCHANGED <<inForce, game, stopping>>

InstallFails ==
    /\ Running
    /\ worker.mode = "install"
    /\ todo # <<>>
    /\ MayFail(HookOrder[worker.at], Head(todo))
    /\ todo' = CleanUp(HookOrder[worker.at])
    /\ worker' = [worker EXCEPT !.mode = "clean"]
    /\ UNCHANGED <<inForce, installed, game, stopping>>

\* A hook that is not required is left out; otherwise everything is rolled back.
CleanedUp ==
    /\ Running
    /\ worker.mode = "clean"
    /\ todo = <<>>
    /\ IF Required(HookOrder[worker.at])
       THEN /\ worker' = [worker EXCEPT !.mode = "rollback"]
            /\ UNCHANGED todo
       ELSE NextHook
    /\ UNCHANGED <<inForce, installed, game, stopping>>

\* load_active_mods(), then finish_registration(), which wants the XP slots
\* only while the towers' hook has its registry.
ModsLoaded ==
    /\ Running
    /\ worker.mode = "load"
    /\ \E loaded, wantsXp \in BOOLEAN :
          /\ wantsXp => Active("towers") \in inForce
          /\ worker' = [worker EXCEPT !.mode = "xp", !.loaded = loaded]
          /\ todo' = IF wantsXp THEN SlotsOn(XpSlots) ELSE <<>>
    /\ UNCHANGED <<inForce, installed, game, stopping>>

XpFails ==
    /\ Running
    /\ worker.mode = "xp"
    /\ todo # <<>>
    /\ todo' = InForce(SlotsOff(XpSlots))
    /\ worker' = [worker EXCEPT !.mode = "xpClean"]
    /\ UNCHANGED <<inForce, installed, game, stopping>>

\* When the mods could not be loaded, the hooks go, unless a shutdown that is
\* under way takes care of them.
Settle ==
    /\ Running
    /\ worker.mode \in {"xp", "xpClean"}
    /\ todo = <<>>
    /\ worker' = [worker EXCEPT !.mode = CASE worker.loaded -> "ready"
                                           [] ~worker.loaded /\ stopping = "no" -> "rollback"
                                           [] OTHER -> "failed"]
    /\ UNCHANGED <<inForce, installed, todo, game, stopping>>

RolledBack ==
    /\ Running
    /\ worker.mode = "rollback"
    /\ todo = <<>>
    /\ installed = <<>>
    /\ worker' = [worker EXCEPT !.mode = "failed"]
    /\ UNCHANGED <<inForce, installed, todo, game, stopping>>

WorkerStep ==
    \/ PutOn \/ HookInstalled \/ InstallFails \/ CleanedUp
    \/ ModsLoaded \/ XpFails \/ Settle \/ RolledBack

(***************************************************************************)
(* HookTransaction::rollback(), by the worker or by the game's thread;     *)
(* g_lifecycle_mutex keeps the two apart.                                  *)
(***************************************************************************)
RollingBack == worker.mode = "rollback" \/ game.stage = "remove"

\* Deviation: the hooks are rolled back in the order of their installation.
FirstInstalled == Head(installed)
LastInstalled == Last(installed)

TakeOff ==
    /\ Running
    /\ RollingBack \/ worker.mode \in {"clean", "xpClean"}
    /\ todo # <<>>
    /\ inForce' = inForce \ {Head(todo)}
    /\ todo' = Tail(todo)
    /\ UNCHANGED <<installed, worker, game, stopping>>

RollbackHook ==
    /\ Running
    /\ RollingBack
    /\ todo = <<>>
    /\ installed # <<>>
    /\ todo' = Removal(LastInstalled)
    /\ installed' = Remove(installed, LastInstalled)
    /\ UNCHANGED <<inForce, worker, game, stopping>>

(***************************************************************************)
(* An explicit shutdown                                                    *)
(***************************************************************************)
WorkerDone == worker.mode \in {"ready", "failed"}

StopRequested ==
    /\ Running
    /\ stopping = "no"
    /\ stopping' = "asked"
    /\ UNCHANGED <<inForce, installed, todo, worker, game>>

\* Deviation: an explicit shutdown removes the hooks as well.
ShutDownRemoving ==
    /\ Running
    /\ stopping = "asked"
    /\ WorkerDone
    /\ game.stage # "remove"
    /\ stopping' = "done"
    /\ worker' = [worker EXCEPT !.mode = "rollback"]
    /\ UNCHANGED <<inForce, installed, todo, game>>

\* The mods are shut down; the hooks stay, for a detour may be running.
ShutDown ==
    /\ Running
    /\ stopping = "asked"
    /\ WorkerDone
    /\ game.stage # "remove"
    /\ stopping' = "done"
    /\ UNCHANGED <<inForce, installed, todo, worker, game>>

(***************************************************************************)
(* The game                                                                *)
(***************************************************************************)
\* The game runs through a site that is in force.
Call ==
    /\ game.stage = "play"
    /\ \E p \in inForce :
          /\ p[1] = "site"
          /\ p[2] # "exit"
          /\ game' = [stage |-> "detour", at |-> p]
    /\ UNCHANGED <<inForce, installed, todo, worker, stopping>>

\* The detour goes on in the game.
Return ==
    /\ game.stage = "detour"
    /\ game' = Playing
    /\ UNCHANGED <<inForce, installed, todo, worker, stopping>>

\* The game's main function returned.
MainReturns ==
    /\ game.stage = "play"
    /\ game' = [game EXCEPT !.stage =
                    IF Site("exit", "call") \in inForce THEN "exit" ELSE "over"]
    /\ UNCHANGED <<inForce, installed, todo, worker, stopping>>

\* install() and remove() of the exit hook hold its mutex.
ExitHookLocked == \E i \in DOMAIN todo : todo[i][2] = "exit"

ExitDispatch ==
    /\ game.stage = "exit"
    /\ ~ExitHookLocked
    /\ IF Active("exit") \in inForce
       THEN /\ game' = [game EXCEPT !.stage = "shutdown"]
            /\ stopping' = IF stopping = "no" THEN "asked" ELSE stopping
       ELSE /\ game' = [game EXCEPT !.stage = "leave"]
            /\ UNCHANGED stopping
    /\ UNCHANGED <<inForce, installed, todo, worker>>

\* shutdown_runtime(true) with the lifecycle mutex.
ExitLocked ==
    /\ game.stage = "shutdown"
    /\ WorkerDone
    /\ game' = [game EXCEPT !.stage = "remove"]
    /\ stopping' = "done"
    /\ UNCHANGED <<inForce, installed, todo, worker>>

HooksRemoved ==
    /\ game.stage = "remove"
    /\ todo = <<>>
    /\ installed = <<>>
    /\ game' = [game EXCEPT !.stage = "leave"]
    /\ UNCHANGED <<inForce, installed, todo, worker, stopping>>

\* dispatch() calls the predicate, and the process ends.
Leave ==
    /\ game.stage = "leave"
    /\ game' = [game EXCEPT !.stage = "over"]
    /\ UNCHANGED <<inForce, installed, todo, worker, stopping>>

GameStep ==
    \/ Call \/ Return \/ MainReturns \/ ExitDispatch \/ ExitLocked
    \/ HooksRemoved \/ Leave

Next == WorkerStep \/ TakeOff \/ RollbackHook \/ StopRequested \/ ShutDown \/ GameStep

Spec == Init /\ [][Next]_vars
----------------------------------------------------------------------------
SitesInForce == {p \in inForce : p[1] = "site"}

(***************************************************************************)
(* However far the installation or the removal is: while the construction  *)
(* of an object can be reported, so can every destruction, and the check   *)
(* that a purchase is free is only redirected while the check of its cost  *)
(* is, which takes up the mods' cancellation. A detour the game can enter  *)
(* knows its way back, but for the sale's while it is being installed.     *)
(* The exit hook is the first on and the last off.                         *)
(***************************************************************************)
ConstructionsEnd ==
    (\E c \in Constructors : Site("lifetime", c) \in inForce)
        => /\ \A d \in Destructors : Site("lifetime", d) \in inForce
           /\ Active("lifetime") \in inForce

CancellationConsumed ==
    Site("purchase", "free") \in inForce => Site("purchase", "cost") \in inForce

InstallingSale == worker.mode = "install" /\ HookOrder[worker.at] = "sale"

WaysKnown ==
    \A p \in SitesInForce :
        \/ Way(p[2], p[3]) \in inForce
        \/ p[2] = "sale" /\ InstallingSale

ExitCovers == SitesInForce # {} => Site("exit", "call") \in inForce

SitesOrdered ==
    /\ ConstructionsEnd
    /\ CancellationConsumed
    /\ WaysKnown
    /\ ExitCovers

(***************************************************************************)
(* Hooks are installed transactionally. From the commit on, every required *)
(* hook is complete and the custom towers' hook is complete or absent;     *)
(* after a failed start either nothing is in force, or a shutdown has kept *)
(* everything until the game exits; and when the game leaves through the   *)
(* exit hook, nothing is left.                                             *)
(***************************************************************************)
Complete(h) == \A i \in DOMAIN Hooks[h].on : Hooks[h].on[i] \in inForce
Absent(h) ==
    /\ Active(h) \notin inForce
    /\ \A p \in inForce : p[2] = h => p \in Addresses

NothingInForce == \A i \in DOMAIN HookOrder : Absent(HookOrder[i])

EverythingInForce ==
    /\ \A i \in DOMAIN HookOrder : Required(HookOrder[i]) => Complete(HookOrder[i])
    /\ Complete("towers") \/ Absent("towers")
    /\ WorkerDone => (Site("towers", "towerXp") \in inForce
                        <=> Site("towers", "xpAward") \in inForce)

AllOrNothing ==
    /\ worker.mode \in {"load", "xp", "xpClean", "ready"}
          /\ game.stage \notin {"remove", "leave", "over"} => EverythingInForce
    /\ worker.mode = "failed" /\ game.stage \notin {"remove", "leave", "over"}
          => NothingInForce \/ (EverythingInForce /\ stopping # "no")
    /\ game.stage = "leave" => NothingInForce

(***************************************************************************)
(* A call that is inside a detour finds its way back into the game,        *)
(* whatever is installed or removed meanwhile. Only three things can cost  *)
(* it: a start that failed, a hook of the custom towers that could not be  *)
(* completed, and the window in the installation of the sale's hook. In    *)
(* particular an explicit shutdown and a running game never do, and the    *)
(* exit predicate is known until the process ends.                         *)
(***************************************************************************)
StartFailed == ~worker.loaded /\ worker.mode \in {"clean", "rollback", "failed"}

TowersIncomplete(s) ==
    \/ \A i \in DOMAIN installed : installed[i] # "towers"
    \/ /\ \E i \in DOMAIN XpSlots : XpSlots[i] = s
       /\ \E i \in DOMAIN XpSlots : Site("towers", XpSlots[i]) \notin inForce

NativeKept ==
    /\ game.stage = "detour" =>
          LET h == game.at[2]
              s == game.at[3]
          IN  \/ Way(h, s) \in inForce
              \/ StartFailed
              \/ h = "towers" /\ TowersIncomplete(s)
              \/ h = "sale" /\ InstallingSale
    /\ game.stage \in {"exit", "shutdown", "remove", "leave"}
          => Way("exit", "call") \in inForce
=============================================================================
