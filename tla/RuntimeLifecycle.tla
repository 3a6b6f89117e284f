-------------------------- MODULE RuntimeLifecycle --------------------------
(***************************************************************************)
(* Start and shutdown of the runtime (src/native/runtime/runtime.cpp) and  *)
(* the three threads that meet there: the startup worker, the game's main  *)
(* thread with the native detours it runs, and a host thread that calls    *)
(* BTD5Loader_Shutdown.  They share g_lifecycle_mutex, g_dispatch_gate     *)
(* (mod_lifecycle.hpp), the state machine (runtime_state.cpp), g_mods, the *)
(* installed hooks (hook_transaction.cpp) and the registration flag of     *)
(* CustomTowerHooks.                                                       *)
(*                                                                         *)
(* A step runs from one access to shared state to the next.  Mods are      *)
(* numbered in load order, so g_mods is known by its length.  Of the hooks *)
(* four are kept: the exit call, the custom tower file hooks, the frame    *)
(* hook, and one for every hook that dispatches a gameplay event.  The     *)
(* process ends when the game's main has returned and the exit continues.  *)
(*                                                                         *)
(* Bounds.  MaxDepth bounds the nesting of dispatches, event_recursion_    *)
(* limit in LuaMod; a callback raises at most one nested event, where the  *)
(* code's instruction budget allows finitely many.                         *)
(***************************************************************************)
EXTENDS Naturals, FiniteSets, Sequences, SequencesExt

CONSTANTS
  ModCount,   \* mods in the launch ticket's profile
  MaxDepth    \* bound: dispatches nested in one another

ASSUME ModCountAssumption == ModCount \in Nat
ASSUME MaxDepthAssumption == MaxDepth \in Nat \ {0}

VARIABLES
  pc,             \* where each thread is
  state,          \* g_state
  stopping,       \* ModDispatchGate::stopping_
  lifecycle,      \* the thread that holds g_lifecycle_mutex
  gate,           \* the thread that holds ModDispatchGate::mutex_
  owner,          \* ModDispatchGate::owner_
  starter,        \* g_shutdown_started: the thread that set it
  hooks,          \* the hooks installed, in order
  tried,          \* hooks the transaction has tried
  mods,           \* g_mods.size()
  cursor,         \* the iterator of shutdown_mods()
  session,        \* g_session_directory exists
  loadedAll,      \* load_active_mods()'s result
  registered,     \* g_registration_finished
  lua,            \* the game thread's dispatches in progress, innermost last
  life,           \* history: how far each mod has come
  assets,         \* history: the game read the shared assets, and how
  cut             \* history: a frame's detour found no original function

gateVars == <<stopping, gate, owner>>
hookVars == <<hooks, tried, registered>>
modVars == <<mods, cursor, session, loadedAll, life>>
gameVars == <<lua, assets, cut>>
vars == <<pc, state, gateVars, lifecycle, starter, hookVars, modVars,
          gameVars>>

Worker == "worker"
Game == "game"
Host == "host"
Thread == {Worker, Game, Host}
NoThread == "none"
Mod == 1 .. ModCount

HookOrder == <<"exit", "customTower", "frame", "event">>
Installed(h) == \E i \in 1 .. Len(hooks) : hooks[i] = h

-----------------------------------------------------------------------------
(* is_valid_transition() and transition_to(). *)
ValidTransition(from, to) ==
  \/ to = "Failed" /\ from # "ShuttingDown"
  \/ to = "ShuttingDown" /\ from \notin {"NotStarted", "ShuttingDown"}
  \/ <<from, to>> \in
       { <<"NotStarted", "Bootstrap">>, <<"Bootstrap", "CompatibilityCheck">>,
         <<"CompatibilityCheck", "HooksReady">>,
         <<"HooksReady", "ModsLoading">>, <<"ModsLoading", "GameReady">> }
TransitionTo(to) == state' = IF ValidTransition(state, to) THEN to ELSE state

(* A thread may enter the gate when it is free or already its own.  A      *)
(* nested entry holds no lock, so leaving it releases nothing.             *)
CanEnter(t) == owner = t \/ gate = NoThread
Leased(t) == owner # t
Enter(t) == IF Leased(t) THEN gate' = t /\ owner' = t
                         ELSE UNCHANGED <<gate, owner>>
(* Deviations.  An operator introduced by "Deviation" is a plausible       *)
(* mistake in the definition that follows it; no action uses it.           *)
(* Deviation: the lease unlocks the gate and leaves owner_ behind. *)
LeaveKeepingOwner(leased) ==
  UNCHANGED owner /\ gate' = IF leased THEN NoThread ELSE gate

Leave(leased) == IF leased THEN gate' = NoThread /\ owner' = NoThread
                           ELSE UNCHANGED <<gate, owner>>
(* Deviation: the gate is taken without waiting for it. *)
TakeGateAtOnce(t) == gate' = t /\ UNCHANGED owner

(* exclusive() takes the mutex and leaves owner_ alone. *)
TakeGate(t) == gate = NoThread /\ gate' = t /\ UNCHANGED owner
FreeGate == gate' = NoThread /\ UNCHANGED owner

Goto(t, to) == pc' = [pc EXCEPT ![t] = to]
(* Return from the function that locked g_lifecycle_mutex. *)
Return(t, to) == Goto(t, to) /\ lifecycle' = NoThread

(* The last mod's on_shutdown, then the one before it. *)
ShutdownOne ==
  /\ cursor > 0
  /\ life' = [life EXCEPT ![cursor] = "down"]
  /\ cursor' = cursor - 1

(* rollback(): the last hook installed goes first; the removal of the      *)
(* custom tower hooks calls finish_registration().                         *)
RemoveLastHook ==
  /\ hooks # <<>>
  /\ hooks' = Front(hooks)
  /\ registered' = (registered \/ Last(hooks) = "customTower")
  /\ UNCHANGED tried

Init ==
  /\ pc = [t \in Thread |-> IF t = Game THEN "start" ELSE "idle"]
  /\ state = "NotStarted"
  /\ stopping = FALSE /\ gate = NoThread /\ owner = NoThread
  /\ lifecycle = NoThread /\ starter = NoThread
  /\ hooks = <<>> /\ tried = 0 /\ registered = FALSE
  /\ mods = 0 /\ cursor = 0 /\ session = FALSE /\ loadedAll = FALSE
  /\ life = [m \in Mod |-> "absent"]
  /\ lua = <<>> /\ assets = "unread" /\ cut = FALSE

-----------------------------------------------------------------------------
(* BTD5Loader_Initialize(), from the bootstrap library. *)
Initialize ==
  /\ pc[Game] = "start"
  /\ \/ state' = "Bootstrap"
        /\ pc' = [pc EXCEPT ![Game] = "run", ![Worker] = "locking"]
     \/ state' = "Failed" /\ Goto(Game, "run")   \* CreateThread failed
  /\ UNCHANGED <<gateVars, lifecycle, starter, hookVars, modVars, gameVars>>

(* initialize_worker(). *)
WorkerLock ==
  /\ pc[Worker] = "locking" /\ lifecycle = NoThread
  /\ IF stopping THEN Goto(Worker, "done") /\ UNCHANGED lifecycle
     ELSE Goto(Worker, "ticket") /\ lifecycle' = Worker
  /\ UNCHANGED <<state, gateVars, starter, hookVars, modVars, gameVars>>

(* The wait for a launch ticket: the logger may fail, without a ticket the *)
(* runtime stays vanilla, without the executable it fails.                 *)
AwaitTicket ==
  /\ pc[Worker] = "ticket"
  /\ \/ /\ ValidTransition(state, "CompatibilityCheck")
        /\ TransitionTo("CompatibilityCheck")
        /\ Goto(Worker, "check") /\ UNCHANGED lifecycle
     \/ Return(Worker, "done") /\ UNCHANGED state
     \/ Return(Worker, "done") /\ TransitionTo("Failed")
  /\ UNCHANGED <<gateVars, starter, hookVars, modVars, gameVars>>

(* The build is known and every required symbol resolves, or not. *)
CheckCompatibility ==
  /\ pc[Worker] = "check"
  /\ \/ Goto(Worker, "install") /\ UNCHANGED <<state, lifecycle>>
     \/ Return(Worker, "done") /\ TransitionTo("Failed")
  /\ UNCHANGED <<gateVars, starter, hookVars, modVars, gameVars>>

(* commit(): the next operation's install() succeeds, *)
InstallHook ==
  /\ pc[Worker] = "install" /\ tried < Len(HookOrder)
  /\ tried' = tried + 1
  /\ hooks' = Append(hooks, HookOrder[tried + 1])
  /\ UNCHANGED <<pc, state, gateVars, lifecycle, starter, registered, modVars,
                 gameVars>>
(* or fails, which only the custom tower hooks may. *)
InstallFails ==
  /\ pc[Worker] = "install" /\ tried < Len(HookOrder)
  /\ tried' = tried + 1
  /\ IF HookOrder[tried + 1] = "customTower"
     THEN registered' \in {registered, TRUE} /\ UNCHANGED pc
     ELSE Goto(Worker, "unwind") /\ UNCHANGED registered
  /\ UNCHANGED <<state, gateVars, lifecycle, starter, hooks, modVars, gameVars>>
(* A profile made for another build is refused before the gate is taken. *)
HooksCommitted ==
  /\ pc[Worker] = "install" /\ tried = Len(HookOrder)
  /\ TransitionTo("HooksReady")
  /\ \E to \in IF ValidTransition(state, "HooksReady")
              THEN {"load", "finish"} ELSE {"unwind"} : Goto(Worker, to)
  /\ UNCHANGED <<gateVars, lifecycle, starter, hookVars, modVars, gameVars>>

-----------------------------------------------------------------------------
(* load_active_mods(): a failure before the first mod just returns. *)
BeginLoading ==
  /\ pc[Worker] = "load" /\ gate = NoThread
  /\ TransitionTo("ModsLoading")
  /\ \/ /\ ValidTransition(state, "ModsLoading")
        /\ TakeGate(Worker)
        /\ session' = TRUE
        /\ Goto(Worker, "mods")
     \/ Goto(Worker, "finish") /\ UNCHANGED <<gate, owner, session>>
  /\ UNCHANGED <<stopping, lifecycle, starter, hookVars, mods, cursor,
                 loadedAll, life, gameVars>>

(* The head of the loop over the profile. *)
NextMod ==
  /\ pc[Worker] = "mods" /\ mods < ModCount
  /\ IF stopping THEN Goto(Worker, "undo") /\ cursor' = mods
     ELSE Goto(Worker, "package") /\ UNCHANGED cursor
  /\ UNCHANGED <<state, gateVars, lifecycle, starter, hookVars, mods, session,
                 loadedAll, life, gameVars>>
(* Validate, extract, run the script, on_load, push_back. *)
LoadMod ==
  /\ pc[Worker] = "package"
  /\ mods' = mods + 1
  /\ life' = [life EXCEPT ![mods + 1] = "loaded"]
  /\ Goto(Worker, "mods")
  /\ UNCHANGED <<state, gateVars, lifecycle, starter, hookVars, cursor,
                 session, loadedAll, gameVars>>
LoadFails ==
  /\ pc[Worker] = "package"
  /\ cursor' = mods
  /\ Goto(Worker, "undo")
  /\ UNCHANGED <<state, gateVars, lifecycle, starter, hookVars, mods, session,
                 loadedAll, life, gameVars>>
LoadDone ==
  /\ pc[Worker] = "mods" /\ mods = ModCount
  /\ loadedAll' = TRUE
  /\ FreeGate
  /\ Goto(Worker, "finish")
  /\ UNCHANGED <<state, stopping, lifecycle, starter, hookVars, mods, cursor,
                 session, life, gameVars>>

(* The rollback lambda. *)
UndoMod ==
  /\ pc[Worker] = "undo" /\ ShutdownOne
  /\ UNCHANGED <<pc, state, gateVars, lifecycle, starter, hookVars, mods,
                 session, loadedAll, gameVars>>
(* Deviation: the mods shut down stay in g_mods. *)
UndoDoneKeepingMods ==
  /\ pc[Worker] = "undo" /\ cursor = 0
  /\ session' = FALSE
  /\ FreeGate
  /\ Goto(Worker, "finish")
  /\ UNCHANGED <<state, stopping, lifecycle, starter, hookVars, mods, cursor,
                 loadedAll, life, gameVars>>

UndoDone ==
  /\ pc[Worker] = "undo" /\ cursor = 0
  /\ mods' = 0 /\ session' = FALSE
  /\ FreeGate
  /\ Goto(Worker, "finish")
  /\ UNCHANGED <<state, stopping, lifecycle, starter, hookVars, cursor,
                 loadedAll, life, gameVars>>

-----------------------------------------------------------------------------
(* What the worker does when load_active_mods() has returned. *)
(* Deviation: the registration flag is not set. *)
FinishRegistrationUnset ==
  /\ pc[Worker] = "finish"
  /\ Goto(Worker, "guard")
  /\ UNCHANGED <<state, gateVars, lifecycle, starter, hookVars, modVars,
                 gameVars>>

FinishRegistration ==
  /\ pc[Worker] = "finish"
  /\ registered' = TRUE
  /\ Goto(Worker, "guard")
  /\ UNCHANGED <<state, gateVars, lifecycle, starter, hooks, tried, modVars,
                 gameVars>>
GuardSaves ==
  /\ pc[Worker] = "guard"
  /\ Goto(Worker, IF loadedAll THEN "ack" ELSE "failing")
  /\ UNCHANGED <<state, gateVars, lifecycle, starter, hookVars, modVars,
                 gameVars>>
Acknowledge ==
  /\ pc[Worker] = "ack"
  /\ Return(Worker, "done")
  /\ UNCHANGED <<state, gateVars, starter, hookVars, modVars, gameVars>>
(* The hooks stay for a shutdown already requested to remove. *)
LoadingFailed ==
  /\ pc[Worker] = "failing"
  /\ Goto(Worker, IF stopping THEN "failed" ELSE "unwind")
  /\ UNCHANGED <<state, gateVars, lifecycle, starter, hookVars, modVars,
                 gameVars>>
UnwindHook ==
  /\ pc[Worker] = "unwind" /\ RemoveLastHook
  /\ UNCHANGED <<pc, state, gateVars, lifecycle, starter, modVars, gameVars>>
UnwindDone ==
  /\ pc[Worker] = "unwind" /\ hooks = <<>>
  /\ Goto(Worker, "failed")
  /\ UNCHANGED <<state, gateVars, lifecycle, starter, hookVars, modVars,
                 gameVars>>
WorkerFailed ==
  /\ pc[Worker] = "failed"
  /\ TransitionTo("Failed")
  /\ Return(Worker, "done")
  /\ UNCHANGED <<gateVars, starter, hookVars, modVars, gameVars>>

-----------------------------------------------------------------------------
(* shutdown_runtime(), by the host thread at any time or by the game       *)
(* thread in the exit hook (normal_exit).                                  *)
RequestStop(t) ==
  /\ \/ t = Host /\ pc[Host] = "idle" /\ state # "NotStarted"
     \/ t = Game /\ pc[Game] = "exit"
  /\ stopping' = TRUE
  /\ Goto(t, "stopLock")
  /\ UNCHANGED <<state, gate, owner, lifecycle, starter, hookVars, modVars,
                 gameVars>>

(* Where a call of shutdown_runtime() returns to. *)
Back(t) == IF t = Game THEN "leaving" ELSE "done"

(* Deviation: a second request does nothing. *)
ShutdownLockOnce(t) ==
  /\ pc[t] = "stopLock" /\ lifecycle = NoThread
  /\ starter' = IF starter = NoThread THEN t ELSE starter
  /\ IF starter = NoThread THEN Goto(t, "stopGate") /\ lifecycle' = t
                            ELSE Return(t, Back(t))
  /\ UNCHANGED <<state, gateVars, hookVars, modVars, gameVars>>

(* A second request only removes the hooks, at the normal exit. *)
ShutdownLock(t) ==
  /\ pc[t] = "stopLock" /\ lifecycle = NoThread
  /\ starter' = IF starter = NoThread THEN t ELSE starter
  /\ \/ starter = NoThread /\ Goto(t, "stopGate") /\ lifecycle' = t
     \/ starter # NoThread /\ t = Game /\ Goto(t, "stopHooks") /\ lifecycle' = t
     \/ starter # NoThread /\ t = Host /\ Return(t, Back(t))
  /\ UNCHANGED <<state, gateVars, hookVars, modVars, gameVars>>
ShutdownGate(t) ==
  /\ pc[t] = "stopGate" /\ TakeGate(t)
  /\ TransitionTo("ShuttingDown")
  /\ cursor' = mods
  /\ Goto(t, "stopMods")
  /\ UNCHANGED <<stopping, lifecycle, starter, hookVars, mods, session,
                 loadedAll, life, gameVars>>
(* Deviation: the loop over the mods does not advance. *)
ShutdownModForever(t) ==
  /\ pc[t] = "stopMods" /\ cursor > 0
  /\ life' = [life EXCEPT ![cursor] = "down"]
  /\ UNCHANGED <<pc, state, gateVars, lifecycle, starter, hookVars, mods,
                 cursor, session, loadedAll, gameVars>>

ShutdownMod(t) ==
  /\ pc[t] = "stopMods" /\ ShutdownOne
  /\ UNCHANGED <<pc, state, gateVars, lifecycle, starter, hookVars, mods,
                 session, loadedAll, gameVars>>
ShutdownModsDone(t) ==
  /\ pc[t] = "stopMods" /\ cursor = 0
  /\ mods' = 0
  /\ FreeGate
  /\ Goto(t, IF t = Game THEN "stopHooks" ELSE "stopSession")
  /\ UNCHANGED <<state, stopping, lifecycle, starter, hookVars, cursor,
                 session, loadedAll, life, gameVars>>
ShutdownHook(t) ==
  /\ pc[t] = "stopHooks" /\ RemoveLastHook
  /\ UNCHANGED <<pc, state, gateVars, lifecycle, starter, modVars, gameVars>>
ShutdownHooksDone(t) ==
  /\ pc[t] = "stopHooks" /\ hooks = <<>>
  /\ IF starter = t THEN Goto(t, "stopSession") /\ UNCHANGED lifecycle
                    ELSE Return(t, Back(t))
  /\ UNCHANGED <<state, gateVars, starter, hookVars, modVars, gameVars>>
ShutdownSession(t) ==
  /\ pc[t] = "stopSession"
  /\ session' = FALSE
  /\ Return(t, Back(t))
  /\ UNCHANGED <<state, gateVars, starter, hookVars, mods, cursor, loadedAll,
                 life, gameVars>>

-----------------------------------------------------------------------------
(* The game's main thread.  Each detour is entered, does the loader's work *)
(* and goes on to the function it replaced.                                *)
FrameEnters ==
  /\ pc[Game] = "run" /\ Installed("frame")
  /\ Goto(Game, "frame")
  /\ UNCHANGED <<state, gateVars, lifecycle, starter, hookVars, modVars,
                 gameVars>>

Loop(what, leased) == [what |-> what, i |-> 1, leased |-> leased, raised |-> FALSE]

(* dispatch_frame() enters the gate: the first frame after loading makes   *)
(* the game ready and calls on_ready, later ones advance the timers.       *)
FrameDispatch ==
  /\ pc[Game] = "frame" /\ CanEnter(Game)
  /\ \/ /\ ~stopping /\ state \in {"ModsLoading", "GameReady"}
        /\ Enter(Game)
        /\ TransitionTo("GameReady")
        /\ lua' = <<Loop(IF state = "ModsLoading" THEN "ready" ELSE "timer",
                         Leased(Game))>>
        /\ Goto(Game, "lua")
     \/ /\ stopping \/ state \notin {"ModsLoading", "GameReady"}
        /\ Leave(Leased(Game))
        /\ Goto(Game, "frameEnd")
        /\ UNCHANGED <<state, lua>>
  /\ UNCHANGED <<stopping, lifecycle, starter, hookVars, modVars, assets, cut>>
(* The callback was removed before the detour called it. *)
FrameSkipped ==
  /\ pc[Game] = "frame" /\ ~Installed("frame")
  /\ Goto(Game, "frameEnd")
  /\ UNCHANGED <<state, gateVars, lifecycle, starter, hookVars, modVars,
                 gameVars>>
(* hooked_swap_buffers() calls original_, or returns FALSE without one. *)
FrameEnds ==
  /\ pc[Game] = "frameEnd"
  /\ cut' = (cut \/ ~Installed("frame"))
  /\ Goto(Game, "run")
  /\ UNCHANGED <<state, gateVars, lifecycle, starter, hookVars, modVars, lua,
                 assets>>

(* A gameplay event: dispatch_game_event() looks at the state first and    *)
(* then waits for the gate.                                                *)
EventEnters ==
  /\ pc[Game] = "run" /\ Installed("event") /\ state = "GameReady"
  /\ Goto(Game, "event")
  /\ UNCHANGED <<state, gateVars, lifecycle, starter, hookVars, modVars,
                 gameVars>>
EventDispatch ==
  /\ pc[Game] = "event" /\ CanEnter(Game)
  /\ IF stopping
     THEN Leave(Leased(Game)) /\ Goto(Game, "run") /\ UNCHANGED lua
     ELSE /\ Enter(Game) /\ Goto(Game, "lua")
          /\ lua' = <<Loop("event", Leased(Game))>>
  /\ UNCHANGED <<state, stopping, lifecycle, starter, hookVars, modVars,
                 assets, cut>>

(* The callback of mod i is running.  A setter in it may raise a native    *)
(* event that is dispatched before the callback goes on.                   *)
Top == lua[Len(lua)]
InCallback == pc[Game] = "lua" /\ lua # <<>> /\ Top.i <= mods
NestedEvent ==
  /\ InCallback /\ Top.what # "ready" /\ ~Top.raised /\ Len(lua) < MaxDepth
  /\ Installed("event") /\ state = "GameReady" /\ CanEnter(Game)
  /\ LET outer == [lua EXCEPT ![Len(lua)].raised = TRUE]
     IN  IF stopping
         THEN Leave(Leased(Game)) /\ lua' = outer
         ELSE Enter(Game) /\ lua' = Append(outer, Loop("event", Leased(Game)))
  /\ UNCHANGED <<pc, state, stopping, lifecycle, starter, hookVars, modVars,
                 assets, cut>>
(* The callback returns and the next mod's begins. *)
Advanced(loop) == [loop EXCEPT !.i = @ + 1, !.raised = FALSE]
CallbackReturns ==
  /\ InCallback
  /\ life' = IF Top.what = "ready" THEN [life EXCEPT ![Top.i] = "ready"] ELSE life
  /\ lua' = [lua EXCEPT ![Len(lua)] = Advanced(Top)]
  /\ UNCHANGED <<pc, state, gateVars, lifecycle, starter, hookVars, mods,
                 cursor, session, loadedAll, assets, cut>>
(* After on_ready the same frame advances the timers; any other dispatch   *)
(* ends, and the outermost one leaves the gate.                            *)
DispatchReturns ==
  /\ pc[Game] = "lua" /\ Top.i > mods
  /\ IF Top.what = "ready"
     THEN /\ lua' = <<Loop("timer", Top.leased)>>
          /\ UNCHANGED <<pc, gate, owner>>
     ELSE /\ lua' = Front(lua)
          /\ Leave(Top.leased)
          /\ IF Len(lua) > 1 THEN UNCHANGED pc
             ELSE Goto(Game, IF Top.what = "timer" THEN "frameEnd" ELSE "run")
  /\ UNCHANGED <<state, stopping, lifecycle, starter, hookVars, modVars,
                 assets, cut>>

(* hooked_open_file() for a file built with every mod's towers: it waits   *)
(* for the registration to finish, up to kRegistrationWait.                *)
OpenAssets ==
  /\ pc[Game] = "run" /\ Installed("customTower") /\ assets = "unread"
  /\ Goto(Game, "assets")
  /\ UNCHANGED <<state, gateVars, lifecycle, starter, hookVars, modVars,
                 gameVars>>
AssetsServed ==
  /\ pc[Game] = "assets" /\ registered
  /\ assets' = "complete"
  /\ Goto(Game, "run")
  /\ UNCHANGED <<state, gateVars, lifecycle, starter, hookVars, modVars, lua,
                 cut>>
AssetsTimeOut ==
  /\ pc[Game] = "assets" /\ ~registered
  /\ assets' = "early"
  /\ Goto(Game, "run")
  /\ UNCHANGED <<state, gateVars, lifecycle, starter, hookVars, modVars, lua,
                 cut>>

(* The game's main returns to the CRT, which calls the exit predicate; an  *)
(* installed exit hook shuts the runtime down first.  The exit continues   *)
(* while the other threads still run.                                      *)
MainReturns ==
  /\ pc[Game] = "run"
  /\ Goto(Game, IF Installed("exit") THEN "exit" ELSE "gone")
  /\ UNCHANGED <<state, gateVars, lifecycle, starter, hookVars, modVars,
                 gameVars>>
ProcessEnds ==
  /\ pc[Game] = "leaving"
  /\ Goto(Game, "gone")
  /\ UNCHANGED <<state, gateVars, lifecycle, starter, hookVars, modVars,
                 gameVars>>

-----------------------------------------------------------------------------
WorkerNext ==
  \/ WorkerLock \/ AwaitTicket \/ CheckCompatibility
  \/ InstallHook \/ InstallFails \/ HooksCommitted
  \/ BeginLoading \/ NextMod \/ LoadMod \/ LoadFails \/ LoadDone
  \/ UndoMod \/ UndoDone
  \/ FinishRegistration \/ GuardSaves \/ Acknowledge
  \/ LoadingFailed \/ UnwindHook \/ UnwindDone \/ WorkerFailed
ShutdownNext(t) ==
  \/ ShutdownLock(t) \/ ShutdownGate(t) \/ ShutdownMod(t)
  \/ ShutdownModsDone(t) \/ ShutdownHook(t) \/ ShutdownHooksDone(t)
  \/ ShutdownSession(t)
(* What the game thread does next when it is inside a detour. *)
DetourNext ==
  \/ FrameDispatch \/ FrameSkipped \/ FrameEnds
  \/ EventDispatch \/ NestedEvent \/ CallbackReturns \/ DispatchReturns
  \/ AssetsServed
GameNext ==
  \/ Initialize \/ FrameEnters \/ EventEnters \/ OpenAssets \/ AssetsTimeOut
  \/ MainReturns \/ ProcessEnds

Running == pc[Game] # "gone"
Exited == ~Running /\ UNCHANGED vars

Next ==
  \/ Running /\ WorkerNext
  \/ Running /\ DetourNext
  \/ Running /\ GameNext
  \/ Running /\ \E t \in {Game, Host} : RequestStop(t) \/ ShutdownNext(t)
  \/ Exited

Spec == Init /\ [][Next]_vars

(* Every thread that can go on does.  A mutex goes to a thread that keeps  *)
(* asking for it while others take turns: the frame detour enters the gate *)
(* once per frame and leaves it free in between.  Nothing makes a frame,   *)
(* an event, an exit, a timeout or a shutdown request happen.              *)
Fairness ==
  /\ WF_vars(Running /\ WorkerNext)
  /\ WF_vars(Running /\ DetourNext)
  /\ SF_vars(Running /\ (WorkerLock \/ BeginLoading))
  /\ SF_vars(Running /\ (FrameDispatch \/ EventDispatch))
  /\ WF_vars(Running /\ RequestStop(Game))
  /\ \A t \in {Game, Host} : SF_vars(Running /\ ShutdownNext(t))

FairSpec == Spec /\ Fairness

-----------------------------------------------------------------------------
(* Every variable keeps its type. *)
LifecycleTypeOK ==
  /\ state \in {"NotStarted", "Bootstrap", "CompatibilityCheck", "HooksReady",
                "ModsLoading", "GameReady", "Failed", "ShuttingDown"}
  /\ stopping \in BOOLEAN /\ session \in BOOLEAN /\ registered \in BOOLEAN
  /\ {lifecycle, gate, owner, starter} \subseteq Thread \cup {NoThread}
  /\ mods \in 0 .. ModCount /\ cursor \in 0 .. ModCount
  /\ \A i \in 1 .. Len(lua) :
       lua[i] \in [what : {"ready", "timer", "event"}, i : 1 .. (ModCount + 1),
                   leased : BOOLEAN, raised : BOOLEAN]
  /\ life \in [Mod -> {"absent", "loaded", "ready", "down"}]

(* The threads that run Lua code now. *)
InLua ==
  {t \in Thread : pc[t] \in {"lua", "mods", "package", "undo", "stopMods"}}

(* mod_lifecycle.hpp:15-18: the gate is shared by every dispatch, by        *)
(* loading and by shutdown, and a nested entry is one of the thread inside.*)
(* No two threads are ever inside Lua together.                            *)
LuaExclusive == Cardinality(InLua) <= 1

(* docs/architecture.md:24-27: timers and events go to a mod only after    *)
(* its on_ready and never after its on_shutdown, whatever stop request or  *)
(* failed load the dispatch races with.                                    *)
DeliveredWhileReady ==
  \A i \in 1 .. Len(lua) :
    lua[i].i <= mods =>
      life[lua[i].i] = IF lua[i].what = "ready" THEN "loaded" ELSE "ready"

(* docs/native-internals.md:224-226: packaged resources stay until every   *)
(* callback of every mod has finished.                                     *)
ResourcesOutliveMods ==
  \A m \in Mod : life[m] \in {"loaded", "ready"} => session

(* docs/architecture.md:26-27 and native-internals.md:219-228: when the    *)
(* exit hook lets the CRT go on, whichever thread asked for the shutdown   *)
(* first and however far the start had come, every mod is shut down and no *)
(* hook and no session directory is left.                                  *)
CleanExit ==
  pc[Game] = "leaving" =>
    /\ \A m \in Mod : life[m] \in {"absent", "down"}
    /\ hooks = <<>>
    /\ ~session

(* runtime.cpp:1835-1837: a shutdown, explicit or at exit, never takes the *)
(* hooks away from a detour that is still running.  Only a failed start    *)
(* does.                                                                   *)
ShutdownKeepsDetours ==
  cut => pc[Worker] \in {"unwind", "failed"} \/ (pc[Worker] = "done" /\ ~loadedAll)

(* What an end of the runtime may never leave or take, together.           *)
OrderlyEnd == ResourcesOutliveMods /\ CleanExit /\ ShutdownKeepsDetours

(* The lifecycle callbacks come in the order the contract allows. *)
Contract == INSTANCE ModContract
HonoursContract == Contract!ContractSpec

(* A shutdown that was asked for completes. *)
ShutdownCompletes ==
  \A t \in {Game, Host} :
    pc[t] = "stopLock" ~> pc[t] = Back(t) \/ ~Running

(* custom_tower_hooks.cpp:259-264: a file the game waits for is served     *)
(* without the timeout, since every path of the worker finishes the        *)
(* registration.                                                           *)
WaitReleased == pc[Game] = "assets" ~> pc[Game] # "assets"

=============================================================================
