------------------------ MODULE RuntimeLifecycleProofs ------------------------
(***************************************************************************)
(* The safety of RuntimeLifecycle, for every number of mods and every      *)
(* depth of nested dispatches: Lua runs in one thread, callbacks go to     *)
(* ready mods, the end is orderly, and the mods' lifecycle is the one      *)
(* ModContract promises.                                                   *)
(*                                                                         *)
(* The argument has two layers.  Who holds the two mutexes can be read off *)
(* the threads' places (GateHeld, LifecycleHeld), so that places under the *)
(* same mutex exclude one another.  On top of that, how far every mod has  *)
(* come can be read off the place of the one thread that may move it       *)
(* (LifeFollows), and each property is one case of that table.             *)
(***************************************************************************)
EXTENDS RuntimeLifecycle, FiniteSetTheorems, SequenceTheorems, TLAPS

Frames ==
    [what : {"ready", "timer", "event"}, i : 1..(ModCount + 1),
     leased : BOOLEAN, raised : BOOLEAN]

WorkerEarly == {"idle", "locking", "ticket", "check", "install", "load"}
WorkerInGate == {"mods", "package", "undo"}
WorkerLate == {"finish", "guard", "ack", "failing", "unwind", "failed"}
WorkerLocked == ((WorkerEarly \cup WorkerInGate) \cup WorkerLate) \ {"idle", "locking"}
WorkerPlaces == ((WorkerEarly \cup WorkerInGate) \cup WorkerLate) \cup {"done"}
StopLocked == {"stopGate", "stopMods", "stopHooks", "stopSession"}
GamePlaces ==
    {"start", "run", "frame", "frameEnd", "event", "lua", "assets", "exit",
     "stopLock", "leaving", "gone"} \cup StopLocked
HostPlaces == {"idle", "stopLock", "stopGate", "stopMods", "stopSession", "done"}

Hooks == {"exit", "customTower", "frame", "event"}
Places == (WorkerPlaces \cup GamePlaces) \cup HostPlaces

PlacesOK ==
    /\ pc \in [Thread -> Places]
    /\ pc[Worker] \in WorkerPlaces /\ pc[Game] \in GamePlaces /\ pc[Host] \in HostPlaces
ValuesOK ==
    /\ state \in {"NotStarted", "Bootstrap", "CompatibilityCheck", "HooksReady",
                  "ModsLoading", "GameReady", "Failed", "ShuttingDown"}
    /\ stopping \in BOOLEAN /\ session \in BOOLEAN /\ registered \in BOOLEAN
    /\ loadedAll \in BOOLEAN /\ cut \in BOOLEAN
    /\ lifecycle \in Thread \cup {NoThread} /\ gate \in Thread \cup {NoThread}
    /\ owner \in Thread \cup {NoThread} /\ starter \in Thread \cup {NoThread}
    /\ mods \in 0..ModCount /\ cursor \in 0..ModCount /\ tried \in 0..4
    /\ life \in [Mod -> {"absent", "loaded", "ready", "down"}]
SequencesOK == lua \in Seq(Frames) /\ hooks \in Seq(Hooks)
Types == PlacesOK /\ ValuesOK /\ SequencesOK

\* The thread inside the gate, and the one a nested entry is for.
GateHeld ==
    /\ gate = Worker <=> pc[Worker] \in WorkerInGate
    /\ gate = Game <=> pc[Game] \in {"lua", "stopMods"}
    /\ gate = Host <=> pc[Host] = "stopMods"
    /\ owner = IF pc[Game] = "lua" THEN Game ELSE NoThread

LifecycleHeld ==
    /\ lifecycle = Worker <=> pc[Worker] \in WorkerLocked
    /\ lifecycle = Game <=> pc[Game] \in StopLocked
    /\ lifecycle = Host <=> pc[Host] \in StopLocked

\* What the state machine says of the loading, and what it says of mods.
StateFollows ==
    /\ state = "NotStarted" <=> pc[Game] = "start"
    /\ pc[Game] = "start" => pc[Worker] = "idle" /\ pc[Host] = "idle"
    /\ pc[Worker] \in WorkerInGate => state = "ModsLoading" /\ session
    /\ pc[Game] \in {"event", "lua"} => state \in {"GameReady", "Failed", "ShuttingDown"}
    /\ state = "ShuttingDown" =>
          starter # NoThread /\ (mods = 0 \/ pc[Game] = "stopMods" \/ pc[Host] = "stopMods")
    /\ loadedAll =>
          state \in {"ModsLoading", "GameReady", "ShuttingDown"} /\ pc[Worker] \notin WorkerInGate
    /\ pc[Worker] \in WorkerEarly \cup {"failing", "unwind", "failed"} => ~loadedAll
    /\ pc[Worker] = "ack" => loadedAll

\* A shutdown begins after a stop request, when no worker is loading.
StopFollows ==
    /\ ~stopping => starter = NoThread
    /\ pc[Host] # "idle" \/ pc[Game] \in StopLocked \cup {"stopLock", "leaving"} => stopping
    /\ starter # NoThread => pc[Worker] \in {"idle", "locking", "done"}
    /\ starter # Worker
    /\ starter = Game => pc[Game] \in StopLocked \cup {"leaving", "gone"}
    /\ starter = Host => pc[Host] \in StopLocked \cup {"done"}
    /\ \A t \in {Game, Host} : pc[t] \in StopLocked \ {"stopHooks"} => starter = t
    /\ pc[Game] \in {"stopHooks", "leaving"} => starter # NoThread

\* What a shutdown has brought down when it has come so far.
StoppedSoFar ==
    /\ pc[Game] \in {"stopHooks", "stopSession", "leaving"} => mods = 0
    /\ pc[Host] = "stopSession" => mods = 0
    /\ starter = Host /\ pc[Host] = "done" => mods = 0 /\ ~session
    /\ pc[Game] \in {"stopSession", "leaving"} => hooks = <<>>
    /\ pc[Game] = "leaving" => ~session

\* g_mods is empty, being filled, or complete.
ModsFollow ==
    /\ pc[Worker] \in WorkerEarly => \A m \in Mod : life[m] = "absent"
    /\ pc[Worker] \notin WorkerInGate /\ mods # 0 => mods = ModCount /\ loadedAll
    /\ pc[Worker] = "package" => mods < ModCount
    /\ mods # 0 => session

\* Only a dispatch of the outermost level holds the lease, and on_ready is
\* called by an outermost one with nothing inside.
DispatchFollows ==
    /\ pc[Game] = "lua" <=> lua # <<>>
    /\ \A k \in 1..Len(lua) :
          /\ k = 1 => lua[k].leased = TRUE
          /\ k # 1 => lua[k].leased = FALSE /\ lua[k].what = "event"
          /\ lua[k].what = "ready" => Len(lua) = 1
          /\ lua[k].i <= mods + 1

\* How far mod m, of those in g_mods, has come.
TearingDown == pc[Worker] = "undo" \/ pc[Game] = "stopMods" \/ pc[Host] = "stopMods"
Announced(m) ==
    IF lua # <<>> /\ lua[1].what = "ready" THEN m < lua[1].i ELSE state = "GameReady"
LifeFollows ==
    /\ TearingDown => cursor <= mods
    /\ \A m \in Mod :
          /\ m > mods =>
                life[m] \in IF pc[Worker] \in {"mods", "package"} THEN {"absent"}
                            ELSE {"absent", "down"}
          /\ m <= mods =>
                IF TearingDown
                THEN IF m <= cursor THEN life[m] \in {"loaded", "ready"} ELSE life[m] = "down"
                ELSE life[m] = IF Announced(m) THEN "ready" ELSE "loaded"

\* A frame's detour has its original, but for a start that has failed.
Unwinding ==
    pc[Worker] \in {"unwind", "failed"} \/ (pc[Worker] = "done" /\ ~loadedAll)
InFrame ==
    \/ pc[Game] \in {"frame", "frameEnd"}
    \/ pc[Game] = "lua" /\ lua[1].what # "event"
DetoursFollow ==
    /\ InFrame => Installed("frame") \/ Unwinding
    /\ cut => Unwinding

RuntimeInv ==
    /\ Types /\ GateHeld /\ LifecycleHeld /\ StateFollows /\ StopFollows
    /\ StoppedSoFar /\ ModsFollow /\ DispatchFollows /\ LifeFollows /\ DetoursFollow

-----------------------------------------------------------------------------
\* The sets of places, the tuples of variables and the helpers that only name a
\* step of an action are always expanded.
USE DEF WorkerEarly, WorkerInGate, WorkerLate, WorkerLocked, WorkerPlaces, GamePlaces,
        HostPlaces, StopLocked, Places, Thread, Worker, Game, Host, NoThread,
        gateVars, hookVars, modVars, gameVars
USE DEF Types, Goto, Return, TransitionTo, ValidTransition, Enter, Leave, Leased, CanEnter,
        TakeGate, FreeGate, ShutdownOne, RemoveLastHook, Back, Loop, Top, InCallback

(* Lemmas about the two sequences.                                           *)

LEMMA FrontFacts ==
  ASSUME NEW S, NEW s \in Seq(S), s # <<>>
  PROVE  /\ Front(s) \in Seq(S) /\ Len(Front(s)) = Len(s) - 1 /\ Len(s) \in Nat \ {0}
         /\ \A k \in 1..(Len(s) - 1) : Front(s)[k] = s[k]
<1>1. Len(s) \in Nat \ {0}  BY EmptySeq
<1> DEFINE n == Len(s) - 1
<1>2. n \in Nat /\ \A k \in 1..n : s[k] \in S  BY <1>1, ElementOfSeq
<1>3. /\ SubSeq(s, 1, n) \in Seq(S)
      /\ Len(SubSeq(s, 1, n)) = IF 1 <= n THEN n - 1 + 1 ELSE 0
      /\ \A k \in 1..(n - 1 + 1) : SubSeq(s, 1, n)[k] = s[1 + k - 1]
  <2> HIDE DEF n
  <2> QED  BY <1>2, SubSeqProperties
<1>4. Front(s) = SubSeq(s, 1, n)  BY DEF Front
<1> HIDE DEF n
<1>5. Len(Front(s)) = n  BY <1>2, <1>3, <1>4
<1>6. ASSUME NEW k \in 1..n PROVE Front(s)[k] = s[k]
  <2>1. 1 + k - 1 = k /\ k \in 1..(n - 1 + 1)  BY <1>2
  <2> QED  BY <1>3, <1>4, <2>1
<1> QED  BY <1>1, <1>3, <1>4, <1>5, <1>6 DEF n

(* A stack that is not empty. *)
LEMMA MoreThanOne == \A k \in Nat \ {0} : k > 1 <=> k # 1
  OBVIOUS

LEMMA Singleton ==
  ASSUME NEW S, NEW e \in S
  PROVE  <<e>> \in Seq(S) /\ Len(<<e>>) = 1 /\ <<e>>[1] = e /\ <<e>> # <<>>
OBVIOUS

LEMMA ReplaceTop ==
  ASSUME NEW S, NEW s \in Seq(S), s # <<>>, NEW e \in S
  PROVE  LET r == [s EXCEPT ![Len(s)] = e]
         IN  /\ r \in Seq(S) /\ Len(r) = Len(s) /\ r[Len(s)] = e /\ r # <<>>
             /\ \A k \in 1..(Len(s) - 1) : r[k] = s[k]
OBVIOUS

LEMMA LoopFacts ==
  ASSUME NEW what \in {"ready", "timer", "event"}, NEW leased \in BOOLEAN
  PROVE  /\ Loop(what, leased) \in Frames
         /\ Loop(what, leased).what = what /\ Loop(what, leased).i = 1
         /\ Loop(what, leased).leased = leased
BY ModCountAssumption DEF Frames

LEMMA FrameFields ==
  ASSUME NEW f \in Frames
  PROVE  /\ f.i \in 1..(ModCount + 1) /\ f.leased \in BOOLEAN /\ f.raised \in BOOLEAN
         /\ f.what \in {"ready", "timer", "event"}
BY DEF Frames

LEMMA RaisedFields ==
  ASSUME NEW f \in Frames, NEW raised \in BOOLEAN
  PROVE  LET g == [f EXCEPT !.raised = raised]
         IN  g \in Frames /\ g.i = f.i /\ g.leased = f.leased /\ g.what = f.what
BY DEF Frames

LEMMA AdvancedFields ==
  ASSUME NEW f \in Frames, f.i <= ModCount
  PROVE  LET g == Advanced(f)
         IN  g \in Frames /\ g.i = f.i + 1 /\ g.leased = f.leased /\ g.what = f.what
<1> DEFINE h == [f EXCEPT !.i = f.i + 1]
<1>1. f.i + 1 \in 1..(ModCount + 1)  BY ModCountAssumption, FrameFields
<1>2. h \in Frames /\ h.i = f.i + 1 /\ h.leased = f.leased /\ h.what = f.what
  BY <1>1 DEF Frames
<1>3. Advanced(f) = [h EXCEPT !.raised = FALSE]  BY DEF Advanced
<1> HIDE DEF h
<1> QED  BY <1>2, <1>3, RaisedFields

LEMMA HooksShrink ==
  ASSUME SequencesOK, RemoveLastHook
  PROVE  hooks' \in Seq(Hooks)
BY FrontFacts DEF SequencesOK

\* The dispatch in progress: the innermost one, and the outermost one's lease.
LEMMA TopFacts ==
  ASSUME RuntimeInv, lua # <<>>, NEW n, n = Len(lua)
  PROVE  /\ lua \in Seq(Frames) /\ n \in Nat \ {0} /\ lua[n] \in Frames
         /\ pc[Game] = "lua" /\ gate = Game /\ owner = Game
         /\ n = 1 => lua[n].leased = TRUE
         /\ n # 1 => lua[n].leased = FALSE /\ lua[n].what = "event" /\ lua[1].what # "ready"
<1>1. lua \in Seq(Frames) /\ n \in Nat \ {0} /\ lua[n] \in Frames
  BY EmptySeq DEF RuntimeInv, SequencesOK
<1>2. pc[Game] = "lua" /\ gate = Game /\ owner = Game
  BY DEF RuntimeInv, DispatchFollows, GateHeld
<1>3. n \in 1..n /\ 1 \in 1..n  BY <1>1
<1> QED  BY <1>1, <1>2, <1>3 DEF RuntimeInv, DispatchFollows

-----------------------------------------------------------------------------
(* One lemma per action.                                                     *)

USE DEF PlacesOK, GateHeld, LifecycleHeld, TearingDown, Announced, InFrame, Unwinding, Mod

LEMMA WorkerLockInv == ASSUME RuntimeInv, WorkerLock PROVE RuntimeInv'
<1> USE ModCountAssumption DEF RuntimeInv, WorkerLock
<1>1. PlacesOK' /\ GateHeld' /\ LifecycleHeld'
  OBVIOUS
<1>2. ValuesOK' /\ SequencesOK'
  BY DEF ValuesOK, SequencesOK
<1>3. StateFollows' /\ StopFollows' /\ StoppedSoFar' /\ ModsFollow'
  BY DEF ValuesOK, StateFollows, StopFollows, StoppedSoFar, ModsFollow, LifeFollows
<1>4. DispatchFollows' /\ LifeFollows' /\ DetoursFollow'
  BY DEF ValuesOK, SequencesOK, StateFollows, StopFollows, ModsFollow,
         DispatchFollows, LifeFollows, DetoursFollow, Installed
<1> QED  BY <1>1, <1>2, <1>3, <1>4

LEMMA AwaitTicketInv == ASSUME RuntimeInv, AwaitTicket PROVE RuntimeInv'
<1> USE ModCountAssumption DEF RuntimeInv, AwaitTicket
<1>1. PlacesOK' /\ GateHeld' /\ LifecycleHeld'
  OBVIOUS
<1>2. ValuesOK' /\ SequencesOK'
  BY DEF ValuesOK, SequencesOK
<1>3. StateFollows' /\ StopFollows' /\ StoppedSoFar' /\ ModsFollow'
  BY DEF ValuesOK, StateFollows, StopFollows, StoppedSoFar, ModsFollow, LifeFollows
<1>4. DispatchFollows' /\ LifeFollows' /\ DetoursFollow'
  BY DEF ValuesOK, SequencesOK, StateFollows, StopFollows, ModsFollow,
         DispatchFollows, LifeFollows, DetoursFollow, Installed
<1> QED  BY <1>1, <1>2, <1>3, <1>4

LEMMA CheckCompatibilityInv == ASSUME RuntimeInv, CheckCompatibility PROVE RuntimeInv'
<1> USE ModCountAssumption DEF RuntimeInv, CheckCompatibility
<1>1. PlacesOK' /\ GateHeld' /\ LifecycleHeld'
  OBVIOUS
<1>2. ValuesOK' /\ SequencesOK'
  BY DEF ValuesOK, SequencesOK
<1>3. StateFollows' /\ StopFollows' /\ StoppedSoFar' /\ ModsFollow'
  BY DEF ValuesOK, StateFollows, StopFollows, StoppedSoFar, ModsFollow, LifeFollows
<1>4. DispatchFollows' /\ LifeFollows' /\ DetoursFollow'
  BY DEF ValuesOK, SequencesOK, StateFollows, StopFollows, ModsFollow,
         DispatchFollows, LifeFollows, DetoursFollow, Installed
<1> QED  BY <1>1, <1>2, <1>3, <1>4

LEMMA InstallHookInv == ASSUME RuntimeInv, InstallHook PROVE RuntimeInv'
<1> USE ModCountAssumption DEF RuntimeInv, InstallHook
<1>1. PlacesOK' /\ GateHeld' /\ LifecycleHeld'
  OBVIOUS
<1>2. ValuesOK'
  BY DEF ValuesOK, HookOrder
<1>3. SequencesOK'
  <2>1. HookOrder[tried + 1] \in Hooks  BY DEF ValuesOK, HookOrder, Hooks
  <2> QED  BY <2>1, AppendProperties DEF SequencesOK
<1>4. StateFollows' /\ StopFollows' /\ StoppedSoFar' /\ ModsFollow'
  BY DEF ValuesOK, StateFollows, StopFollows, StoppedSoFar, ModsFollow, LifeFollows
<1>5. DispatchFollows' /\ LifeFollows' /\ DetoursFollow'
  BY DEF ValuesOK, SequencesOK, StateFollows, StopFollows, ModsFollow,
         DispatchFollows, LifeFollows, DetoursFollow, Installed
<1> QED  BY <1>1, <1>2, <1>3, <1>4, <1>5

LEMMA InstallFailsInv == ASSUME RuntimeInv, InstallFails PROVE RuntimeInv'
<1> USE ModCountAssumption DEF RuntimeInv, InstallFails
<1>1. PlacesOK' /\ GateHeld' /\ LifecycleHeld'
  <2>1. pc' = pc \/ pc' = [pc EXCEPT ![Worker] = "unwind"]  OBVIOUS
  <2>2. pc[Worker] = "install" /\ UNCHANGED <<state, stopping, gateVars, lifecycle, lua>>
    OBVIOUS
  <2> HIDE DEF InstallFails
  <2> QED  BY <2>1, <2>2
<1>2. ValuesOK'
  <2>1. registered' \in BOOLEAN  BY DEF ValuesOK
  <2>2. tried' \in 0..4  BY DEF ValuesOK, HookOrder
  <2> QED  BY <2>1, <2>2 DEF ValuesOK
<1>3. SequencesOK'
  BY DEF SequencesOK
<1>4. StateFollows' /\ StopFollows' /\ StoppedSoFar' /\ ModsFollow'
  <2>1. pc' = pc \/ pc' = [pc EXCEPT ![Worker] = "unwind"]  OBVIOUS
  <2>2. pc[Worker] = "install" /\ UNCHANGED <<state, stopping, starter, hooks, mods, session, loadedAll, life>>
    OBVIOUS
  <2> HIDE DEF InstallFails
  <2> QED  BY <2>1, <2>2 DEF ValuesOK, StateFollows, StopFollows, StoppedSoFar,
         ModsFollow, LifeFollows
<1>5. DispatchFollows' /\ LifeFollows' /\ DetoursFollow'
  <2>1. pc' = pc \/ pc' = [pc EXCEPT ![Worker] = "unwind"]  OBVIOUS
  <2>2. pc[Worker] = "install" /\ UNCHANGED <<state, gateVars, lua, life, hooks, mods, cut, loadedAll>>
    OBVIOUS
  <2> HIDE DEF InstallFails
  <2> QED  BY <2>1, <2>2 DEF ValuesOK, SequencesOK, StateFollows, StopFollows, ModsFollow,
         DispatchFollows, LifeFollows, DetoursFollow, Installed
<1> QED  BY <1>1, <1>2, <1>3, <1>4, <1>5

LEMMA HooksCommittedInv == ASSUME RuntimeInv, HooksCommitted PROVE RuntimeInv'
<1> USE ModCountAssumption DEF RuntimeInv, HooksCommitted
<1>1. PlacesOK' /\ GateHeld' /\ LifecycleHeld'
  OBVIOUS
<1>2. ValuesOK' /\ SequencesOK'
  BY DEF ValuesOK, SequencesOK
<1>3. StateFollows' /\ StopFollows' /\ StoppedSoFar' /\ ModsFollow'
  BY DEF ValuesOK, StateFollows, StopFollows, StoppedSoFar, ModsFollow, LifeFollows
<1>4. DispatchFollows' /\ LifeFollows' /\ DetoursFollow'
  BY DEF ValuesOK, SequencesOK, StateFollows, StopFollows, ModsFollow,
         DispatchFollows, LifeFollows, DetoursFollow, Installed
<1> QED  BY <1>1, <1>2, <1>3, <1>4

LEMMA BeginLoadingInv == ASSUME RuntimeInv, BeginLoading PROVE RuntimeInv'
<1> USE ModCountAssumption DEF RuntimeInv, BeginLoading
<1>1. PlacesOK' /\ GateHeld' /\ LifecycleHeld'
  OBVIOUS
<1>2. ValuesOK'
  BY DEF ValuesOK
<1>3. SequencesOK'
  BY DEF SequencesOK
<1>4. StateFollows' /\ StopFollows' /\ StoppedSoFar' /\ ModsFollow'
  BY DEF ValuesOK, StateFollows, StopFollows, StoppedSoFar, ModsFollow, LifeFollows
<1>5. DispatchFollows' /\ LifeFollows' /\ DetoursFollow'
  BY DEF ValuesOK, SequencesOK, StateFollows, StopFollows, ModsFollow,
         DispatchFollows, LifeFollows, DetoursFollow, Installed
<1> QED  BY <1>1, <1>2, <1>3, <1>4, <1>5

LEMMA NextModInv == ASSUME RuntimeInv, NextMod PROVE RuntimeInv'
<1> USE ModCountAssumption DEF RuntimeInv, NextMod
<1>1. PlacesOK' /\ GateHeld' /\ LifecycleHeld'
  OBVIOUS
<1>2. ValuesOK'
  BY DEF ValuesOK
<1>3. SequencesOK'
  BY DEF SequencesOK
<1>4. StateFollows' /\ StopFollows' /\ StoppedSoFar' /\ ModsFollow'
  BY DEF ValuesOK, StateFollows, StopFollows, StoppedSoFar, ModsFollow, LifeFollows
<1>5. DispatchFollows' /\ LifeFollows' /\ DetoursFollow'
  BY DEF ValuesOK, SequencesOK, StateFollows, StopFollows, ModsFollow,
         DispatchFollows, LifeFollows, DetoursFollow, Installed
<1> QED  BY <1>1, <1>2, <1>3, <1>4, <1>5

LEMMA LoadModInv == ASSUME RuntimeInv, LoadMod PROVE RuntimeInv'
<1> USE ModCountAssumption DEF RuntimeInv, LoadMod
<1>1. PlacesOK' /\ GateHeld' /\ LifecycleHeld'
  OBVIOUS
<1>2. ValuesOK'
  BY DEF ValuesOK, ModsFollow
<1>3. SequencesOK'
  BY DEF SequencesOK
<1>4. StateFollows' /\ StopFollows' /\ StoppedSoFar' /\ ModsFollow'
  BY DEF ValuesOK, StateFollows, StopFollows, StoppedSoFar, ModsFollow, LifeFollows
<1>5. DispatchFollows' /\ LifeFollows' /\ DetoursFollow'
  BY DEF ValuesOK, SequencesOK, StateFollows, StopFollows, ModsFollow,
         DispatchFollows, LifeFollows, DetoursFollow, Installed
<1> QED  BY <1>1, <1>2, <1>3, <1>4, <1>5

LEMMA LoadFailsInv == ASSUME RuntimeInv, LoadFails PROVE RuntimeInv'
<1> USE ModCountAssumption DEF RuntimeInv, LoadFails
<1>1. PlacesOK' /\ GateHeld' /\ LifecycleHeld'
  OBVIOUS
<1>2. ValuesOK' /\ SequencesOK'
  BY DEF ValuesOK, SequencesOK
<1>3. StateFollows' /\ StopFollows' /\ StoppedSoFar' /\ ModsFollow'
  BY DEF ValuesOK, StateFollows, StopFollows, StoppedSoFar, ModsFollow, LifeFollows
<1>4. DispatchFollows' /\ LifeFollows' /\ DetoursFollow'
  BY DEF ValuesOK, SequencesOK, StateFollows, StopFollows, ModsFollow,
         DispatchFollows, LifeFollows, DetoursFollow, Installed
<1> QED  BY <1>1, <1>2, <1>3, <1>4

LEMMA LoadDoneInv == ASSUME RuntimeInv, LoadDone PROVE RuntimeInv'
<1> USE ModCountAssumption DEF RuntimeInv, LoadDone
<1>1. PlacesOK' /\ GateHeld' /\ LifecycleHeld'
  OBVIOUS
<1>2. ValuesOK' /\ SequencesOK'
  BY DEF ValuesOK, SequencesOK
<1>3. StateFollows' /\ StopFollows' /\ StoppedSoFar' /\ ModsFollow'
  BY DEF ValuesOK, StateFollows, StopFollows, StoppedSoFar, ModsFollow, LifeFollows
<1>4. DispatchFollows' /\ LifeFollows' /\ DetoursFollow'
  BY DEF ValuesOK, SequencesOK, StateFollows, StopFollows, ModsFollow,
         DispatchFollows, LifeFollows, DetoursFollow, Installed
<1> QED  BY <1>1, <1>2, <1>3, <1>4

LEMMA UndoModInv == ASSUME RuntimeInv, UndoMod PROVE RuntimeInv'
<1> USE ModCountAssumption DEF RuntimeInv, UndoMod
<1>1. PlacesOK' /\ GateHeld' /\ LifecycleHeld'
  OBVIOUS
<1>2. ValuesOK'
  BY DEF ValuesOK
<1>3. SequencesOK'
  BY DEF SequencesOK
<1>4. StateFollows' /\ StopFollows' /\ StoppedSoFar' /\ ModsFollow'
  BY DEF ValuesOK, StateFollows, StopFollows, StoppedSoFar, ModsFollow, LifeFollows
<1>5. DispatchFollows' /\ LifeFollows' /\ DetoursFollow'
  BY DEF ValuesOK, SequencesOK, StateFollows, StopFollows, ModsFollow,
         DispatchFollows, LifeFollows, DetoursFollow, Installed
<1> QED  BY <1>1, <1>2, <1>3, <1>4, <1>5

LEMMA UndoDoneInv == ASSUME RuntimeInv, UndoDone PROVE RuntimeInv'
<1> USE ModCountAssumption DEF RuntimeInv, UndoDone
<1>1. PlacesOK' /\ GateHeld' /\ LifecycleHeld'
  OBVIOUS
<1>2. ValuesOK'
  <2>1. session' \in BOOLEAN  OBVIOUS
  <2> QED  BY <2>1 DEF ValuesOK
<1>3. SequencesOK'
  BY DEF SequencesOK
<1>4. StateFollows' /\ StopFollows' /\ StoppedSoFar' /\ ModsFollow'
  BY DEF ValuesOK, StateFollows, StopFollows, StoppedSoFar, ModsFollow, LifeFollows
<1>5. DispatchFollows' /\ LifeFollows' /\ DetoursFollow'
  BY DEF ValuesOK, SequencesOK, StateFollows, StopFollows, ModsFollow,
         DispatchFollows, LifeFollows, DetoursFollow, Installed
<1> QED  BY <1>1, <1>2, <1>3, <1>4, <1>5

LEMMA FinishRegistrationInv == ASSUME RuntimeInv, FinishRegistration PROVE RuntimeInv'
<1> USE ModCountAssumption DEF RuntimeInv, FinishRegistration
<1>1. PlacesOK' /\ GateHeld' /\ LifecycleHeld'
  OBVIOUS
<1>2. ValuesOK' /\ SequencesOK'
  BY DEF ValuesOK, SequencesOK
<1>3. StateFollows' /\ StopFollows' /\ StoppedSoFar' /\ ModsFollow'
  BY DEF ValuesOK, StateFollows, StopFollows, StoppedSoFar, ModsFollow, LifeFollows
<1>4. DispatchFollows' /\ LifeFollows' /\ DetoursFollow'
  BY DEF ValuesOK, SequencesOK, StateFollows, StopFollows, ModsFollow,
         DispatchFollows, LifeFollows, DetoursFollow, Installed
<1> QED  BY <1>1, <1>2, <1>3, <1>4

LEMMA GuardSavesInv == ASSUME RuntimeInv, GuardSaves PROVE RuntimeInv'
<1> USE ModCountAssumption DEF RuntimeInv, GuardSaves
<1>1. PlacesOK' /\ GateHeld' /\ LifecycleHeld'
  OBVIOUS
<1>2. ValuesOK' /\ SequencesOK'
  BY DEF ValuesOK, SequencesOK
<1>3. StateFollows' /\ StopFollows' /\ StoppedSoFar' /\ ModsFollow'
  BY DEF ValuesOK, StateFollows, StopFollows, StoppedSoFar, ModsFollow, LifeFollows
<1>4. DispatchFollows' /\ LifeFollows' /\ DetoursFollow'
  BY DEF ValuesOK, SequencesOK, StateFollows, StopFollows, ModsFollow,
         DispatchFollows, LifeFollows, DetoursFollow, Installed
<1> QED  BY <1>1, <1>2, <1>3, <1>4

LEMMA AcknowledgeInv == ASSUME RuntimeInv, Acknowledge PROVE RuntimeInv'
<1> USE ModCountAssumption DEF RuntimeInv, Acknowledge
<1>1. PlacesOK' /\ GateHeld' /\ LifecycleHeld'
  OBVIOUS
<1>2. ValuesOK' /\ SequencesOK'
  BY DEF ValuesOK, SequencesOK
<1>3. StateFollows' /\ StopFollows' /\ StoppedSoFar' /\ ModsFollow'
  BY DEF ValuesOK, StateFollows, StopFollows, StoppedSoFar, ModsFollow, LifeFollows
<1>4. DispatchFollows' /\ LifeFollows' /\ DetoursFollow'
  BY DEF ValuesOK, SequencesOK, StateFollows, StopFollows, ModsFollow,
         DispatchFollows, LifeFollows, DetoursFollow, Installed
<1> QED  BY <1>1, <1>2, <1>3, <1>4

LEMMA LoadingFailedInv == ASSUME RuntimeInv, LoadingFailed PROVE RuntimeInv'
<1> USE ModCountAssumption DEF RuntimeInv, LoadingFailed
<1>1. PlacesOK' /\ GateHeld' /\ LifecycleHeld'
  OBVIOUS
<1>2. ValuesOK' /\ SequencesOK'
  BY DEF ValuesOK, SequencesOK
<1>3. StateFollows' /\ StopFollows' /\ StoppedSoFar' /\ ModsFollow'
  BY DEF ValuesOK, StateFollows, StopFollows, StoppedSoFar, ModsFollow, LifeFollows
<1>4. DispatchFollows' /\ LifeFollows' /\ DetoursFollow'
  BY DEF ValuesOK, SequencesOK, StateFollows, StopFollows, ModsFollow,
         DispatchFollows, LifeFollows, DetoursFollow, Installed
<1> QED  BY <1>1, <1>2, <1>3, <1>4

LEMMA UnwindHookInv == ASSUME RuntimeInv, UnwindHook PROVE RuntimeInv'
<1> USE ModCountAssumption DEF RuntimeInv, UnwindHook
<1>1. PlacesOK' /\ GateHeld' /\ LifecycleHeld'
  OBVIOUS
<1>2. ValuesOK'
  BY DEF ValuesOK
<1>3. SequencesOK'
  BY HooksShrink DEF SequencesOK
<1>4. StateFollows' /\ StopFollows' /\ StoppedSoFar' /\ ModsFollow'
  BY DEF ValuesOK, StateFollows, StopFollows, StoppedSoFar, ModsFollow, LifeFollows
<1>5. DispatchFollows' /\ LifeFollows' /\ DetoursFollow'
  BY DEF ValuesOK, SequencesOK, StateFollows, StopFollows, ModsFollow,
         DispatchFollows, LifeFollows, DetoursFollow, Installed
<1> QED  BY <1>1, <1>2, <1>3, <1>4, <1>5

LEMMA UnwindDoneInv == ASSUME RuntimeInv, UnwindDone PROVE RuntimeInv'
<1> USE ModCountAssumption DEF RuntimeInv, UnwindDone
<1>1. PlacesOK' /\ GateHeld' /\ LifecycleHeld'
  OBVIOUS
<1>2. ValuesOK' /\ SequencesOK'
  BY DEF ValuesOK, SequencesOK
<1>3. StateFollows' /\ StopFollows' /\ StoppedSoFar' /\ ModsFollow'
  BY DEF ValuesOK, StateFollows, StopFollows, StoppedSoFar, ModsFollow, LifeFollows
<1>4. DispatchFollows' /\ LifeFollows' /\ DetoursFollow'
  BY DEF ValuesOK, SequencesOK, StateFollows, StopFollows, ModsFollow,
         DispatchFollows, LifeFollows, DetoursFollow, Installed
<1> QED  BY <1>1, <1>2, <1>3, <1>4

LEMMA WorkerFailedInv == ASSUME RuntimeInv, WorkerFailed PROVE RuntimeInv'
<1> USE ModCountAssumption DEF RuntimeInv, WorkerFailed
<1>1. PlacesOK' /\ GateHeld' /\ LifecycleHeld'
  OBVIOUS
<1>2. ValuesOK' /\ SequencesOK'
  BY DEF ValuesOK, SequencesOK
<1>3. StateFollows' /\ StopFollows' /\ StoppedSoFar' /\ ModsFollow'
  BY DEF ValuesOK, StateFollows, StopFollows, StoppedSoFar, ModsFollow, LifeFollows
<1>4. DispatchFollows' /\ LifeFollows' /\ DetoursFollow'
  BY DEF ValuesOK, SequencesOK, StateFollows, StopFollows, ModsFollow,
         DispatchFollows, LifeFollows, DetoursFollow, Installed
<1> QED  BY <1>1, <1>2, <1>3, <1>4

LEMMA FrameDispatchInv == ASSUME RuntimeInv, FrameDispatch PROVE RuntimeInv'
<1> USE ModCountAssumption DEF RuntimeInv, FrameDispatch
<1>a. owner # Game /\ lua = <<>>  BY DEF DispatchFollows
<1>b. \/ pc'[Game] = "frameEnd" /\ lua' = lua
      \/ /\ pc'[Game] = "lua"
         /\ \E w \in {"ready", "timer"} : lua' = <<Loop(w, TRUE)>>
  BY <1>a
<1>1. PlacesOK' /\ GateHeld' /\ LifecycleHeld'
  OBVIOUS
<1>2. ValuesOK'
  BY DEF ValuesOK
<1>3. SequencesOK'
  <2>1. CASE lua' = lua  BY <2>1 DEF SequencesOK
  <2>2. CASE lua' # lua
    <3>1. PICK w \in {"ready", "timer"} : lua' = <<Loop(w, TRUE)>>  BY <1>b, <2>2
    <3>2. Loop(w, TRUE) \in Frames  BY LoopFacts
    <3> QED  BY <3>1, <3>2 DEF SequencesOK
  <2> QED  BY <2>1, <2>2
<1>4. StateFollows' /\ StopFollows' /\ StoppedSoFar' /\ ModsFollow'
  BY DEF ValuesOK, StateFollows, StopFollows, StoppedSoFar, ModsFollow, LifeFollows
<1>5. DispatchFollows'
  <2>1. CASE lua' = lua  BY <1>a, <1>b, <2>1 DEF DispatchFollows
  <2>2. CASE lua' # lua
    <3>1. PICK w \in {"ready", "timer"} : lua' = <<Loop(w, TRUE)>>  BY <1>b, <2>2
    <3>2. Len(lua') = 1 /\ lua'[1] = Loop(w, TRUE) /\ lua' # <<>>  BY <3>1
    <3>3. lua'[1].what = w /\ lua'[1].i = 1 /\ lua'[1].leased = TRUE  BY <3>2, LoopFacts
    <3>4. mods' \in Nat  BY DEF ValuesOK
    <3> QED  BY <1>b, <2>2, <3>2, <3>3, <3>4 DEF DispatchFollows
  <2> QED  BY <2>1, <2>2
<1>6. LifeFollows'
  BY DEF ValuesOK, StateFollows, StopFollows, ModsFollow, DispatchFollows, LifeFollows
<1>7. DetoursFollow'
  BY DEF StateFollows, StopFollows, SequencesOK, DispatchFollows, DetoursFollow,
         Installed
<1> QED  BY <1>1, <1>2, <1>3, <1>4, <1>5, <1>6, <1>7

LEMMA FrameSkippedInv == ASSUME RuntimeInv, FrameSkipped PROVE RuntimeInv'
<1> USE ModCountAssumption DEF RuntimeInv, FrameSkipped
<1>1. PlacesOK' /\ GateHeld' /\ LifecycleHeld'
  OBVIOUS
<1>2. ValuesOK' /\ SequencesOK'
  BY DEF ValuesOK, SequencesOK
<1>3. StateFollows' /\ StopFollows' /\ StoppedSoFar' /\ ModsFollow'
  BY DEF ValuesOK, StateFollows, StopFollows, StoppedSoFar, ModsFollow, LifeFollows
<1>4. DispatchFollows' /\ LifeFollows' /\ DetoursFollow'
  BY DEF ValuesOK, SequencesOK, StateFollows, StopFollows, ModsFollow,
         DispatchFollows, LifeFollows, DetoursFollow, Installed
<1> QED  BY <1>1, <1>2, <1>3, <1>4

LEMMA FrameEndsInv == ASSUME RuntimeInv, FrameEnds PROVE RuntimeInv'
<1> USE ModCountAssumption DEF RuntimeInv, FrameEnds
<1>1. PlacesOK' /\ GateHeld' /\ LifecycleHeld'
  OBVIOUS
<1>2. ValuesOK' /\ SequencesOK'
  BY DEF ValuesOK, SequencesOK
<1>3. StateFollows' /\ StopFollows' /\ StoppedSoFar' /\ ModsFollow'
  BY DEF ValuesOK, StateFollows, StopFollows, StoppedSoFar, ModsFollow, LifeFollows
<1>4. DispatchFollows' /\ LifeFollows' /\ DetoursFollow'
  BY DEF ValuesOK, SequencesOK, StateFollows, StopFollows, ModsFollow,
         DispatchFollows, LifeFollows, DetoursFollow, Installed
<1> QED  BY <1>1, <1>2, <1>3, <1>4

LEMMA EventDispatchInv == ASSUME RuntimeInv, EventDispatch PROVE RuntimeInv'
<1> USE ModCountAssumption DEF RuntimeInv, EventDispatch
<1>a. owner # Game /\ lua = <<>>  BY DEF DispatchFollows
<1>b. \/ pc'[Game] = "run" /\ lua' = lua
      \/ pc'[Game] = "lua" /\ lua' = <<Loop("event", TRUE)>>
  BY <1>a
<1>1. PlacesOK' /\ GateHeld' /\ LifecycleHeld'
  OBVIOUS
<1>2. ValuesOK'
  BY DEF ValuesOK
<1>3. SequencesOK'
  <2> DEFINE f == Loop("event", TRUE)
  <2>1. f \in Frames /\ (lua' = lua \/ lua' = <<f>>)  BY <1>b, LoopFacts
  <2>2. hooks' = hooks /\ hooks \in Seq(Hooks)  BY DEF SequencesOK
  <2> HIDE DEF f, EventDispatch
  <2>3. lua' \in Seq(Frames)
    <3>1. CASE lua' = lua  BY <3>1 DEF SequencesOK
    <3>2. CASE lua' = <<f>>  BY <2>1, <3>2, Singleton
    <3> QED  BY <2>1, <3>1, <3>2
  <2> QED  BY <2>2, <2>3 DEF SequencesOK
<1>4. StateFollows' /\ StopFollows' /\ StoppedSoFar' /\ ModsFollow'
  BY DEF ValuesOK, StateFollows, StopFollows, StoppedSoFar, ModsFollow, LifeFollows
<1>5. DispatchFollows'
  <2>1. CASE lua' = lua  BY <1>a, <1>b, <2>1 DEF DispatchFollows
  <2>2. CASE lua' # lua
    <3> DEFINE f == Loop("event", TRUE)
    <3>1. lua' = <<f>> /\ pc'[Game] = "lua"  BY <1>b, <2>2
    <3>2. f.what = "event" /\ f.i = 1 /\ f.leased = TRUE  BY LoopFacts
    <3>3. mods' \in Nat  BY DEF ValuesOK
    <3> HIDE DEF f, EventDispatch
    <3>4. Len(lua') = 1 /\ lua'[1] = f /\ lua' # <<>>  BY <3>1
    <3> QED  BY <3>1, <3>2, <3>3, <3>4 DEF DispatchFollows
  <2> QED  BY <2>1, <2>2
<1>6. LifeFollows'
  BY DEF ValuesOK, StateFollows, StopFollows, ModsFollow, DispatchFollows, LifeFollows
<1>7. DetoursFollow'
  BY DEF StateFollows, StopFollows, SequencesOK, DispatchFollows, DetoursFollow,
         Installed
<1> QED  BY <1>1, <1>2, <1>3, <1>4, <1>5, <1>6, <1>7

LEMMA NestedEventInv == ASSUME RuntimeInv, NestedEvent PROVE RuntimeInv'
<1> USE ModCountAssumption DEF RuntimeInv, NestedEvent
<1> DEFINE n == Len(lua)
           outer == [lua EXCEPT ![n].raised = TRUE]
<1>a. owner = Game /\ lua # <<>> /\ Top.what # "ready"  BY DEF DispatchFollows
<1>b. lua \in Seq(Frames) /\ n \in Nat \ {0} /\ Top \in Frames  BY <1>a, EmptySeq DEF SequencesOK
<1>c. /\ outer \in Seq(Frames) /\ Len(outer) = n /\ outer # <<>>
      /\ \A k \in 1..n : /\ outer[k].what = lua[k].what /\ outer[k].i = lua[k].i
                         /\ outer[k].leased = lua[k].leased
  <2> DEFINE e == [Top EXCEPT !.raised = TRUE]
  <2>1. outer = [lua EXCEPT ![n] = e]  OBVIOUS
  <2>2. e \in Frames /\ e.i = Top.i /\ e.leased = Top.leased /\ e.what = Top.what
    BY <1>b, RaisedFields
  <2> HIDE DEF e, outer
  <2>3. /\ outer \in Seq(Frames) /\ Len(outer) = n /\ outer[n] = e /\ outer # <<>>
        /\ \A k \in 1..(n - 1) : outer[k] = lua[k]
    BY <1>a, <1>b, <2>1, <2>2, ReplaceTop
  <2> QED  BY <1>b, <2>2, <2>3
<1>d. UNCHANGED <<pc, state, gate, owner>> /\ (lua' = outer \/ lua' = Append(outer, Loop("event", FALSE)))
  BY <1>a
<1> HIDE DEF outer
<1>e. /\ lua' \in Seq(Frames) /\ lua' # <<>> /\ Len(lua') \in {n, n + 1}
      /\ \A k \in 1..n : /\ lua'[k].what = lua[k].what /\ lua'[k].i = lua[k].i
                         /\ lua'[k].leased = lua[k].leased
      /\ Len(lua') = n + 1 =>
            lua'[n + 1].what = "event" /\ lua'[n + 1].i = 1 /\ lua'[n + 1].leased = FALSE
  <2>1. CASE lua' = outer  BY <1>b, <1>c, <2>1
  <2>2. CASE lua' = Append(outer, Loop("event", FALSE))
    <3> DEFINE f == Loop("event", FALSE)
    <3>1. f \in Frames /\ f.what = "event" /\ f.i = 1 /\ f.leased = FALSE  BY LoopFacts
    <3> HIDE DEF f
    <3>2. lua' = Append(outer, f)  BY <2>2 DEF f
    <3>3. /\ lua' \in Seq(Frames) /\ lua' # <<>> /\ Len(lua') = n + 1 /\ lua'[n + 1] = f
          /\ \A k \in 1..n : lua'[k] = outer[k]
      BY <1>b, <1>c, <3>1, <3>2
    <3> QED  BY <1>b, <1>c, <3>1, <3>3
  <2> QED  BY <1>d, <2>1, <2>2
<1>f. lua[1].what # "ready" /\ lua'[1].what = lua[1].what
  BY <1>a, <1>b, <1>e DEF DispatchFollows
<1> HIDE DEF n
<1>1. PlacesOK' /\ GateHeld' /\ LifecycleHeld'
  OBVIOUS
<1>2. ValuesOK'
  BY DEF ValuesOK
<1>3. SequencesOK'
  BY <1>e DEF SequencesOK
<1>4. StateFollows' /\ StopFollows' /\ StoppedSoFar' /\ ModsFollow'
  BY DEF ValuesOK, StateFollows, StopFollows, StoppedSoFar, ModsFollow, LifeFollows
<1>5. DispatchFollows'
  <2>1. pc'[Game] = "lua" /\ mods' = mods /\ mods \in Nat  BY DEF ValuesOK
  <2>2. \A k \in 1..n : /\ k = 1 => lua[k].leased = TRUE
                        /\ k # 1 => lua[k].leased = FALSE /\ lua[k].what = "event"
                        /\ lua[k].what # "ready" /\ lua[k].i <= mods + 1
    BY <1>a, <1>b, <1>f DEF DispatchFollows, n
  <2> HIDE DEF NestedEvent, RuntimeInv
  <2>3. ASSUME NEW k \in 1..Len(lua')
        PROVE  /\ k = 1 => lua'[k].leased = TRUE
               /\ k # 1 => lua'[k].leased = FALSE /\ lua'[k].what = "event"
               /\ lua'[k].what # "ready" /\ lua'[k].i <= mods + 1
    <3>1. CASE k \in 1..n
      <4>1. lua'[k].what = lua[k].what /\ lua'[k].i = lua[k].i /\ lua'[k].leased = lua[k].leased
        BY <1>e, <3>1
      <4>2. k = 1 => lua'[k].leased = TRUE  BY <2>2, <3>1, <4>1, Zenon
      <4>3. k # 1 => lua'[k].leased = FALSE  BY <2>2, <3>1, <4>1, Zenon
      <4>4. (k # 1 => lua'[k].what = "event") /\ lua'[k].what # "ready" /\ lua'[k].i <= mods + 1
        BY <2>2, <3>1, <4>1
      <4> QED  BY <4>2, <4>3, <4>4
    <3>2. CASE k \notin 1..n
      <4>1. k = n + 1 /\ Len(lua') = n + 1 /\ k # 1  BY <1>b, <1>e, <3>2 DEF n
      <4> QED  BY <1>e, <2>1, <4>1
    <3> QED  BY <3>1, <3>2
  <2> QED  BY <1>e, <2>1, <2>3 DEF DispatchFollows
<1>6. LifeFollows'
  <2>1. UNCHANGED <<pc, state, mods, cursor, life>>  OBVIOUS
  <2> HIDE DEF NestedEvent
  <2> QED  BY <1>a, <1>e, <1>f, <2>1 DEF LifeFollows
<1>7. DetoursFollow'
  <2>1. UNCHANGED <<pc, hooks, loadedAll, cut>>  OBVIOUS
  <2> HIDE DEF NestedEvent
  <2> QED  BY <1>f, <2>1 DEF DetoursFollow, Installed
<1> QED  BY <1>1, <1>2, <1>3, <1>4, <1>5, <1>6, <1>7

LEMMA CallbackReturnsInv == ASSUME RuntimeInv, CallbackReturns PROVE RuntimeInv'
<1> USE ModCountAssumption DEF RuntimeInv, CallbackReturns
<1> DEFINE n == Len(lua)
           top == lua[n]
           e == Advanced(top)
<1>d. /\ UNCHANGED <<pc, state, gate, owner, hooks, mods, cursor, session, loadedAll, cut,
                     stopping, lifecycle, starter, registered, tried>>
      /\ pc[Game] = "lua" /\ lua # <<>> /\ top.i <= mods
      /\ life' = IF top.what = "ready" THEN [life EXCEPT ![top.i] = "ready"] ELSE life
  OBVIOUS
<1>f. lua' = [lua EXCEPT ![n] = e]  OBVIOUS
<1> HIDE DEF CallbackReturns
<1>a. lua \in Seq(Frames) /\ n \in Nat \ {0} /\ top \in Frames
  BY <1>d, TopFacts
<1> HIDE DEF top
<1>b. top.i \in Mod /\ mods \in 0..ModCount /\ top.i \in Nat /\ top.i <= ModCount
  BY <1>a, <1>d, FrameFields DEF ValuesOK
<1>c. e \in Frames /\ e.i = top.i + 1 /\ e.leased = top.leased /\ e.what = top.what
  BY <1>a, <1>b, AdvancedFields
<1> HIDE DEF e
<1>e. /\ lua' \in Seq(Frames) /\ Len(lua') = n /\ lua'[n] = e /\ lua' # <<>>
      /\ \A k \in 1..(n - 1) : lua'[k] = lua[k]
  <2>1. n = Len(lua)  OBVIOUS
  <2> HIDE DEF n
  <2> QED  BY <1>a, <1>c, <1>d, <1>f, <2>1, ReplaceTop
<1> HIDE DEF n
<1>1. PlacesOK' /\ GateHeld' /\ LifecycleHeld'
  BY <1>d
<1>2. ValuesOK'
  <2>1. life' \in [Mod -> {"absent", "loaded", "ready", "down"}]  BY <1>b, <1>d DEF ValuesOK
  <2> QED  BY <1>d, <2>1 DEF ValuesOK
<1>3. SequencesOK'
  BY <1>d, <1>e DEF SequencesOK
<1>4. StateFollows' /\ StopFollows' /\ StoppedSoFar' /\ ModsFollow'
  <2>1. UNCHANGED <<stopping, starter>>  BY <1>d
  <2>2. pc[Worker] \notin WorkerEarly
    BY <1>b, <1>d DEF ModsFollow, StateFollows, ValuesOK
  <2> QED  BY <1>d, <2>1, <2>2 DEF StateFollows, StopFollows, StoppedSoFar, ModsFollow
<1>5. DispatchFollows'
  <2>1. \A k \in 1..n : /\ k = 1 => lua[k].leased = TRUE
                        /\ k # 1 => lua[k].leased = FALSE /\ lua[k].what = "event"
                        /\ lua[k].what = "ready" => n = 1
                        /\ lua[k].i <= mods + 1
    BY DEF DispatchFollows, n
  <2> HIDE DEF RuntimeInv
  <2>2. ASSUME NEW k \in 1..n
        PROVE  /\ k = 1 => lua'[k].leased = TRUE
               /\ k # 1 => lua'[k].leased = FALSE /\ lua'[k].what = "event"
               /\ lua'[k].what = "ready" => n = 1
               /\ lua'[k].i <= mods + 1
    <3>1. CASE k = n
      <4>1. top.what = lua[n].what /\ top.leased = lua[n].leased /\ n \in 1..n  BY <1>a DEF top
      <4>2. lua'[k].what = lua[n].what /\ lua'[k].leased = lua[n].leased /\ lua'[k].i = top.i + 1
        BY <1>c, <1>e, <3>1, <4>1
      <4>3. lua'[k].i <= mods + 1  BY <1>b, <1>d, <4>2
      <4>4. k = 1 => lua'[k].leased = TRUE  BY <2>1, <3>1, <4>1, <4>2, Zenon
      <4>5. k # 1 => lua'[k].leased = FALSE  BY <2>1, <3>1, <4>1, <4>2, Zenon
      <4>6. (k # 1 => lua'[k].what = "event") /\ (lua'[k].what = "ready" => n = 1)
        BY <2>1, <3>1, <4>1, <4>2
      <4> QED  BY <4>3, <4>4, <4>5, <4>6
    <3>2. CASE k # n
      <4>1. k \in 1..(n - 1)  BY <1>a, <3>2
      <4>2. lua'[k] = lua[k] /\ k \in 1..n  BY <1>e, <4>1
      <4> QED  BY <2>1, <4>2
    <3> QED  BY <3>1, <3>2
  <2> QED  BY <1>e, <1>d, <2>2 DEF DispatchFollows, n
<1>6. LifeFollows'
  <2>1. ~TearingDown /\ ~TearingDown'  BY <1>d
  <2>2. CASE top.what = "ready"
    <3>1. n = 1  BY <1>a, <2>2 DEF DispatchFollows, n, top
    <3>2. lua[1].what = "ready" /\ lua[1].i = top.i /\ lua'[1].what = "ready" /\ lua'[1].i = top.i + 1
      BY <1>c, <1>e, <2>2, <3>1 DEF n, top
    <3>3. \A m \in Mod : life'[m] = IF m = top.i THEN "ready" ELSE life[m]
      BY <1>b, <1>d, <2>2 DEF ValuesOK
    <3> QED  BY <1>a, <1>b, <1>e, <1>d, <2>1, <3>2, <3>3 DEF LifeFollows
  <2>3. CASE top.what # "ready"
    <3>1. lua[1].what # "ready"  BY <1>a, <2>3 DEF DispatchFollows, n, top
    <3>2. lua'[1].what # "ready"  BY <1>a, <1>c, <1>e, <2>3, <3>1 DEF n, top
    <3> QED  BY <1>d, <2>1, <2>3, <3>1, <3>2 DEF LifeFollows
  <2> QED  BY <2>2, <2>3
<1>7. DetoursFollow'
  <2>1. lua'[1].what = lua[1].what  BY <1>a, <1>c, <1>e DEF n, top
  <2> QED  BY <1>d, <2>1 DEF DetoursFollow, Installed
<1> QED  BY <1>1, <1>2, <1>3, <1>4, <1>5, <1>6, <1>7

LEMMA DispatchReturnsInv == ASSUME RuntimeInv, DispatchReturns PROVE RuntimeInv'
<1> USE ModCountAssumption DEF RuntimeInv, DispatchReturns
<1> DEFINE n == Len(lua)
           top == lua[n]
<1>a. pc[Game] = "lua" /\ lua # <<>>  BY DEF DispatchFollows
<1>b. /\ lua \in Seq(Frames) /\ n \in Nat \ {0} /\ top \in Frames
      /\ (n = 1 => top.leased = TRUE)
      /\ (n # 1 => top.leased = FALSE /\ top.what = "event" /\ lua[1].what # "ready")
      /\ gate = Game /\ owner = Game
  BY <1>a, TopFacts
<1>c. UNCHANGED <<state, stopping, lifecycle, starter, hooks, tried, registered, mods, cursor,
                  session, loadedAll, life, cut>>
  OBVIOUS
<1>d. top.what = "ready" =>
        /\ UNCHANGED <<pc, gate, owner>> /\ lua' \in Seq(Frames) /\ lua' # <<>> /\ Len(lua') = 1
        /\ lua'[1].what = "timer" /\ lua'[1].i = 1 /\ lua'[1].leased = TRUE
  <2> HAVE top.what = "ready"
  <2>1. UNCHANGED <<pc, gate, owner>> /\ lua' = <<Loop("timer", top.leased)>>  OBVIOUS
  <2> DEFINE f == Loop("timer", top.leased)
  <2>2. top.leased = TRUE  BY <1>a, <1>b, FrameFields
  <2>3. f \in Frames /\ f.what = "timer" /\ f.i = 1 /\ f.leased = TRUE  BY <2>2, LoopFacts
  <2>4. lua' = <<f>>  BY <2>1
  <2> HIDE DEF f, DispatchReturns
  <2>5. lua' \in Seq(Frames) /\ lua' # <<>> /\ Len(lua') = 1 /\ lua'[1] = f
    BY <2>3, <2>4, Singleton
  <2>6. lua'[1].what = "timer" /\ lua'[1].i = 1 /\ lua'[1].leased = TRUE  BY <2>3, <2>5
  <2> QED  BY <2>1, <2>5, <2>6
<1>e. top.what # "ready" =>
        /\ lua' \in Seq(Frames) /\ Len(lua') = n - 1
        /\ \A k \in 1..(n - 1) : lua'[k] = lua[k]
        /\ IF n = 1
           THEN /\ gate' = NoThread /\ owner' = NoThread
                /\ pc' = [pc EXCEPT ![Game] = IF top.what = "timer" THEN "frameEnd" ELSE "run"]
           ELSE UNCHANGED <<pc, gate, owner>>
  <2> HAVE top.what # "ready"
  <2>1. lua' = Front(lua)  OBVIOUS
  <2>2. IF n = 1
        THEN /\ gate' = NoThread /\ owner' = NoThread
             /\ pc' = [pc EXCEPT ![Game] = IF top.what = "timer" THEN "frameEnd" ELSE "run"]
        ELSE UNCHANGED <<pc, gate, owner>>
    <3>1. (n = 1 /\ top.leased = TRUE) \/ (top.leased = FALSE /\ n # 1)  BY <1>b
    <3> HIDE DEF RuntimeInv
    <3>2. Len(lua) > 1 <=> n # 1
      <4>1. Len(lua) \in Nat \ {0}  BY <1>b
      <4> QED  BY ONLY <4>1, MoreThanOne
    <3>3. CASE n = 1
      <4>1. top.leased = TRUE /\ ~(Len(lua) > 1)  BY <3>1, <3>2, <3>3
      <4> QED  BY <1>a, <3>3, <4>1
    <3>4. CASE n # 1
      <4>1. top.leased = FALSE /\ Len(lua) > 1  BY <3>1, <3>2, <3>4
      <4> QED  BY <1>a, <3>4, <4>1
    <3> QED  BY <3>3, <3>4
  <2>3. lua' \in Seq(Frames) /\ Len(lua') = n - 1 /\ \A k \in 1..(n - 1) : lua'[k] = lua[k]
    <3> HIDE DEF DispatchReturns
    <3> QED  BY <1>a, <1>b, <2>1, FrontFacts
  <2> QED  BY <2>2, <2>3
<1>f. \/ pc' = pc
      \/ pc'[Game] \in {"frameEnd", "run"} /\ pc'[Worker] = pc[Worker] /\ pc'[Host] = pc[Host]
  BY <1>d, <1>e
<1>g. pc[Worker] \notin WorkerInGate /\ pc[Host] # "stopMods" /\ gate = Game /\ owner = Game
  BY <1>a, <1>b
<1>h. ~TearingDown /\ ~TearingDown'  BY <1>a, <1>b, <1>f, <1>g
<1>i. mods # 0 => state = "GameReady"
  BY <1>a, <1>b, <1>g DEF StateFollows, ModsFollow, ValuesOK
<1>j. top.i > mods  OBVIOUS
<1> HIDE DEF DispatchReturns, n, top
<1>1. PlacesOK' /\ GateHeld' /\ LifecycleHeld'
  <2>1. CASE top.what # "ready" /\ n = 1  BY <1>a, <1>b, <1>c, <1>e, <1>g, <2>1
  <2>2. CASE top.what = "ready" \/ n # 1
    <3>1. UNCHANGED <<pc, gate, owner, lifecycle>>  BY <1>c, <1>d, <1>e, <2>2
    <3> QED  BY <3>1
  <2> QED  BY <2>1, <2>2
<1>2. ValuesOK'
  <2>1. gate' \in Thread \cup {NoThread} /\ owner' \in Thread \cup {NoThread}
    BY <1>d, <1>e DEF ValuesOK
  <2> QED  BY <1>c, <2>1 DEF ValuesOK
<1>3. SequencesOK'
  BY <1>c, <1>d, <1>e DEF SequencesOK
<1>4. StateFollows' /\ StopFollows' /\ StoppedSoFar' /\ ModsFollow'
  BY <1>a, <1>b, <1>c, <1>f DEF StateFollows, StopFollows, StoppedSoFar, ModsFollow
<1>5. DispatchFollows'
  <2>1. CASE top.what = "ready"
    <3>1. pc'[Game] = "lua" /\ mods' = mods /\ mods \in Nat  BY <1>a, <1>c, <1>d, <2>1 DEF ValuesOK
    <3> HIDE DEF RuntimeInv
    <3>0. Len(lua') = 1  BY <1>d, <2>1
    <3>2. \A k \in 1..Len(lua') : k = 1  BY <3>0
    <3>3. lua'[1].i <= mods + 1  BY <1>d, <2>1, <3>1
    <3>4. lua'[1].leased = TRUE /\ lua'[1].what = "timer" /\ lua' # <<>> /\ Len(lua') = 1
      BY <1>d, <2>1
    <3> QED  BY <3>1, <3>2, <3>3, <3>4 DEF DispatchFollows
  <2>2. CASE top.what # "ready" /\ n = 1
    <3>1. lua' = <<>> /\ Len(lua') = 0  BY <1>e, <2>2
    <3>2. pc'[Game] # "lua"  BY <1>e, <2>2
    <3> QED  BY <3>1, <3>2 DEF DispatchFollows
  <2>3. CASE top.what # "ready" /\ n # 1
    <3>1. lua' # <<>> /\ pc' = pc  BY <1>b, <1>e, <2>3
    <3>2. \A k \in 1..n : lua[k].what # "ready"
      BY <1>a, <2>3 DEF DispatchFollows, n, top
    <3>3. \A k \in 1..(n - 1) : lua'[k] = lua[k] /\ k \in 1..n  BY <1>b, <1>e, <2>3
    <3>4. mods' = mods /\ pc'[Game] = "lua" /\ Len(lua') = n - 1  BY <1>a, <1>c, <1>e, <2>3, <3>1
    <3> QED  BY <3>1, <3>2, <3>3, <3>4 DEF DispatchFollows, n
  <2> QED  BY <2>1, <2>2, <2>3
<1>6. LifeFollows'
  <2>1. \A m \in Mod : m <= mods => (life[m] = "ready" /\ Announced(m)')
    <3> SUFFICES ASSUME NEW m \in Mod, m <= mods PROVE life[m] = "ready" /\ Announced(m)'
      OBVIOUS
    <3>1. mods # 0 /\ mods \in Nat /\ m \in Nat  BY DEF ValuesOK
    <3>2. state' = "GameReady"  BY <1>c, <1>i, <3>1
    <3>3. lua' # <<>> => lua'[1].what # "ready"  BY <1>a, <1>b, <1>d, <1>e DEF n, top
    <3>4. lua[1].what = "ready" => lua[1].i > mods /\ lua[1].i \in Nat
      BY <1>a, <1>b, <1>j, FrameFields DEF n, top
    <3>5. Announced(m)  BY <1>c, <3>1, <3>2, <3>4
    <3> QED  BY <1>h, <3>2, <3>3, <3>5 DEF LifeFollows
  <2>2. pc'[Worker] = pc[Worker]  BY <1>f
  <2> QED  BY <1>c, <1>h, <2>1, <2>2 DEF LifeFollows
<1>7. DetoursFollow'
  <2>1. InFrame' => InFrame
    <3>1. CASE top.what = "ready"  BY <1>a, <1>b, <3>1 DEF n, top
    <3>2. CASE top.what # "ready" /\ n = 1
      BY <1>a, <1>b, <1>e, <3>2 DEF n, top
    <3>3. CASE top.what # "ready" /\ n # 1
      <4>1. lua'[1] = lua[1] /\ pc' = pc  BY <1>b, <1>e, <3>3
      <4> QED  BY <4>1
    <3> QED  BY <3>1, <3>2, <3>3
  <2>2. pc'[Worker] = pc[Worker]  BY <1>f
  <2> QED  BY <1>c, <2>1, <2>2 DEF DetoursFollow, Installed
<1> QED  BY <1>1, <1>2, <1>3, <1>4, <1>5, <1>6, <1>7

LEMMA AssetsServedInv == ASSUME RuntimeInv, AssetsServed PROVE RuntimeInv'
<1> USE ModCountAssumption DEF RuntimeInv, AssetsServed
<1>1. PlacesOK' /\ GateHeld' /\ LifecycleHeld'
  OBVIOUS
<1>2. ValuesOK' /\ SequencesOK'
  BY DEF ValuesOK, SequencesOK
<1>3. StateFollows' /\ StopFollows' /\ StoppedSoFar' /\ ModsFollow'
  BY DEF ValuesOK, StateFollows, StopFollows, StoppedSoFar, ModsFollow, LifeFollows
<1>4. DispatchFollows' /\ LifeFollows' /\ DetoursFollow'
  BY DEF ValuesOK, SequencesOK, StateFollows, StopFollows, ModsFollow,
         DispatchFollows, LifeFollows, DetoursFollow, Installed
<1> QED  BY <1>1, <1>2, <1>3, <1>4

LEMMA InitializeInv == ASSUME RuntimeInv, Initialize PROVE RuntimeInv'
<1> USE ModCountAssumption DEF RuntimeInv, Initialize
<1>1. PlacesOK' /\ GateHeld' /\ LifecycleHeld'
  BY DEF StateFollows
<1>2. ValuesOK' /\ SequencesOK'
  BY DEF ValuesOK, SequencesOK
<1>3. StateFollows' /\ StopFollows' /\ StoppedSoFar' /\ ModsFollow'
  BY DEF ValuesOK, StateFollows, StopFollows, StoppedSoFar, ModsFollow, LifeFollows
<1>4. DispatchFollows' /\ LifeFollows' /\ DetoursFollow'
  <2>1. /\ pc[Game] = "start" /\ pc[Worker] = "idle" /\ state = "NotStarted"
    BY DEF StateFollows
  <2>2. /\ \/ /\ state' = "Bootstrap"
              /\ pc' = [pc EXCEPT ![Game] = "run", ![Worker] = "locking"]
           \/ state' = "Failed" /\ pc' = [pc EXCEPT ![Game] = "run"]
        /\ UNCHANGED <<gateVars, lua, life, hooks, mods, cut, loadedAll>>
    OBVIOUS
  <2> HIDE DEF Initialize
  <2> QED  BY <2>1, <2>2 DEF ValuesOK, SequencesOK, StateFollows, StopFollows, ModsFollow,
         DispatchFollows, LifeFollows, DetoursFollow, Installed
<1> QED  BY <1>1, <1>2, <1>3, <1>4

LEMMA FrameEntersInv == ASSUME RuntimeInv, FrameEnters PROVE RuntimeInv'
<1> USE ModCountAssumption DEF RuntimeInv, FrameEnters
<1>1. PlacesOK' /\ GateHeld' /\ LifecycleHeld'
  OBVIOUS
<1>2. ValuesOK' /\ SequencesOK'
  BY DEF ValuesOK, SequencesOK
<1>3. StateFollows' /\ StopFollows' /\ StoppedSoFar' /\ ModsFollow'
  BY DEF ValuesOK, StateFollows, StopFollows, StoppedSoFar, ModsFollow, LifeFollows
<1>4. DispatchFollows' /\ LifeFollows' /\ DetoursFollow'
  BY DEF ValuesOK, SequencesOK, StateFollows, StopFollows, ModsFollow,
         DispatchFollows, LifeFollows, DetoursFollow, Installed
<1> QED  BY <1>1, <1>2, <1>3, <1>4

LEMMA EventEntersInv == ASSUME RuntimeInv, EventEnters PROVE RuntimeInv'
<1> USE ModCountAssumption DEF RuntimeInv, EventEnters
<1>1. PlacesOK' /\ GateHeld' /\ LifecycleHeld'
  OBVIOUS
<1>2. ValuesOK' /\ SequencesOK'
  BY DEF ValuesOK, SequencesOK
<1>3. StateFollows' /\ StopFollows' /\ StoppedSoFar' /\ ModsFollow'
  BY DEF ValuesOK, StateFollows, StopFollows, StoppedSoFar, ModsFollow, LifeFollows
<1>4. DispatchFollows' /\ LifeFollows' /\ DetoursFollow'
  BY DEF ValuesOK, SequencesOK, StateFollows, StopFollows, ModsFollow,
         DispatchFollows, LifeFollows, DetoursFollow, Installed
<1> QED  BY <1>1, <1>2, <1>3, <1>4

LEMMA OpenAssetsInv == ASSUME RuntimeInv, OpenAssets PROVE RuntimeInv'
<1> USE ModCountAssumption DEF RuntimeInv, OpenAssets
<1>1. PlacesOK' /\ GateHeld' /\ LifecycleHeld'
  OBVIOUS
<1>2. ValuesOK' /\ SequencesOK'
  BY DEF ValuesOK, SequencesOK
<1>3. StateFollows' /\ StopFollows' /\ StoppedSoFar' /\ ModsFollow'
  BY DEF ValuesOK, StateFollows, StopFollows, StoppedSoFar, ModsFollow, LifeFollows
<1>4. DispatchFollows' /\ LifeFollows' /\ DetoursFollow'
  BY DEF ValuesOK, SequencesOK, StateFollows, StopFollows, ModsFollow,
         DispatchFollows, LifeFollows, DetoursFollow, Installed
<1> QED  BY <1>1, <1>2, <1>3, <1>4

LEMMA AssetsTimeOutInv == ASSUME RuntimeInv, AssetsTimeOut PROVE RuntimeInv'
<1> USE ModCountAssumption DEF RuntimeInv, AssetsTimeOut
<1>1. PlacesOK' /\ GateHeld' /\ LifecycleHeld'
  OBVIOUS
<1>2. ValuesOK' /\ SequencesOK'
  BY DEF ValuesOK, SequencesOK
<1>3. StateFollows' /\ StopFollows' /\ StoppedSoFar' /\ ModsFollow'
  BY DEF ValuesOK, StateFollows, StopFollows, StoppedSoFar, ModsFollow, LifeFollows
<1>4. DispatchFollows' /\ LifeFollows' /\ DetoursFollow'
  BY DEF ValuesOK, SequencesOK, StateFollows, StopFollows, ModsFollow,
         DispatchFollows, LifeFollows, DetoursFollow, Installed
<1> QED  BY <1>1, <1>2, <1>3, <1>4

LEMMA MainReturnsInv == ASSUME RuntimeInv, MainReturns PROVE RuntimeInv'
<1> USE ModCountAssumption DEF RuntimeInv, MainReturns
<1>1. PlacesOK' /\ GateHeld' /\ LifecycleHeld'
  OBVIOUS
<1>2. ValuesOK' /\ SequencesOK'
  BY DEF ValuesOK, SequencesOK
<1>3. StateFollows' /\ StopFollows' /\ StoppedSoFar' /\ ModsFollow'
  BY DEF ValuesOK, StateFollows, StopFollows, StoppedSoFar, ModsFollow, LifeFollows
<1>4. DispatchFollows' /\ LifeFollows' /\ DetoursFollow'
  BY DEF ValuesOK, SequencesOK, StateFollows, StopFollows, ModsFollow,
         DispatchFollows, LifeFollows, DetoursFollow, Installed
<1> QED  BY <1>1, <1>2, <1>3, <1>4

LEMMA ProcessEndsInv == ASSUME RuntimeInv, ProcessEnds PROVE RuntimeInv'
<1> USE ModCountAssumption DEF RuntimeInv, ProcessEnds
<1>1. PlacesOK' /\ GateHeld' /\ LifecycleHeld'
  OBVIOUS
<1>2. ValuesOK' /\ SequencesOK'
  BY DEF ValuesOK, SequencesOK
<1>3. StateFollows' /\ StopFollows' /\ StoppedSoFar' /\ ModsFollow'
  BY DEF ValuesOK, StateFollows, StopFollows, StoppedSoFar, ModsFollow, LifeFollows
<1>4. DispatchFollows' /\ LifeFollows' /\ DetoursFollow'
  BY DEF ValuesOK, SequencesOK, StateFollows, StopFollows, ModsFollow,
         DispatchFollows, LifeFollows, DetoursFollow, Installed
<1> QED  BY <1>1, <1>2, <1>3, <1>4

LEMMA RequestStopInv == ASSUME RuntimeInv, NEW t \in {Game, Host}, RequestStop(t) PROVE RuntimeInv'
<1> USE ModCountAssumption DEF RuntimeInv, RequestStop
<1>1. PlacesOK' /\ GateHeld' /\ LifecycleHeld'
  OBVIOUS
<1>2. ValuesOK' /\ SequencesOK'
  BY DEF ValuesOK, SequencesOK
<1>3. StateFollows' /\ StopFollows' /\ StoppedSoFar' /\ ModsFollow'
  BY DEF ValuesOK, StateFollows, StopFollows, StoppedSoFar, ModsFollow, LifeFollows
<1>4. DispatchFollows' /\ LifeFollows' /\ DetoursFollow'
  BY DEF ValuesOK, SequencesOK, StateFollows, StopFollows, ModsFollow,
         DispatchFollows, LifeFollows, DetoursFollow, Installed
<1> QED  BY <1>1, <1>2, <1>3, <1>4

LEMMA ShutdownLockInv == ASSUME RuntimeInv, NEW t \in {Game, Host}, ShutdownLock(t) PROVE RuntimeInv'
<1> USE ModCountAssumption DEF RuntimeInv, ShutdownLock
<1>1. PlacesOK' /\ GateHeld' /\ LifecycleHeld'
  OBVIOUS
<1>2. ValuesOK' /\ SequencesOK'
  BY DEF ValuesOK, SequencesOK
<1>3. StateFollows' /\ StopFollows' /\ StoppedSoFar' /\ ModsFollow'
  BY DEF ValuesOK, StateFollows, StopFollows, StoppedSoFar, ModsFollow, LifeFollows
<1>4. DispatchFollows' /\ LifeFollows' /\ DetoursFollow'
  BY DEF ValuesOK, SequencesOK, StateFollows, StopFollows, ModsFollow,
         DispatchFollows, LifeFollows, DetoursFollow, Installed
<1> QED  BY <1>1, <1>2, <1>3, <1>4

LEMMA ShutdownGateInv == ASSUME RuntimeInv, NEW t \in {Game, Host}, ShutdownGate(t) PROVE RuntimeInv'
<1> USE ModCountAssumption DEF RuntimeInv, ShutdownGate
<1>1. PlacesOK' /\ GateHeld' /\ LifecycleHeld'
  OBVIOUS
<1>2. ValuesOK' /\ SequencesOK'
  BY DEF ValuesOK, SequencesOK
<1>3. StateFollows' /\ StopFollows' /\ StoppedSoFar' /\ ModsFollow'
  BY DEF ValuesOK, StateFollows, StopFollows, StoppedSoFar, ModsFollow, LifeFollows
<1>4. DispatchFollows' /\ LifeFollows' /\ DetoursFollow'
  BY DEF ValuesOK, SequencesOK, StateFollows, StopFollows, ModsFollow,
         DispatchFollows, LifeFollows, DetoursFollow, Installed
<1> QED  BY <1>1, <1>2, <1>3, <1>4

LEMMA ShutdownModInv == ASSUME RuntimeInv, NEW t \in {Game, Host}, ShutdownMod(t) PROVE RuntimeInv'
<1> USE ModCountAssumption DEF RuntimeInv, ShutdownMod
<1>1. PlacesOK' /\ GateHeld' /\ LifecycleHeld'
  OBVIOUS
<1>2. ValuesOK'
  BY DEF ValuesOK
<1>3. SequencesOK'
  BY DEF SequencesOK
<1>4. StateFollows' /\ StopFollows' /\ StoppedSoFar' /\ ModsFollow'
  BY DEF ValuesOK, StateFollows, StopFollows, StoppedSoFar, ModsFollow, LifeFollows
<1>5. DispatchFollows' /\ LifeFollows' /\ DetoursFollow'
  BY DEF ValuesOK, SequencesOK, StateFollows, StopFollows, ModsFollow,
         DispatchFollows, LifeFollows, DetoursFollow, Installed
<1> QED  BY <1>1, <1>2, <1>3, <1>4, <1>5

LEMMA ShutdownModsDoneInv == ASSUME RuntimeInv, NEW t \in {Game, Host}, ShutdownModsDone(t) PROVE RuntimeInv'
<1> USE ModCountAssumption DEF RuntimeInv, ShutdownModsDone
<1>1. PlacesOK' /\ GateHeld' /\ LifecycleHeld'
  OBVIOUS
<1>2. ValuesOK' /\ SequencesOK'
  BY DEF ValuesOK, SequencesOK
<1>3. StateFollows' /\ StopFollows' /\ StoppedSoFar' /\ ModsFollow'
  BY DEF ValuesOK, StateFollows, StopFollows, StoppedSoFar, ModsFollow, LifeFollows
<1>4. DispatchFollows' /\ LifeFollows' /\ DetoursFollow'
  BY DEF ValuesOK, SequencesOK, StateFollows, StopFollows, ModsFollow,
         DispatchFollows, LifeFollows, DetoursFollow, Installed
<1> QED  BY <1>1, <1>2, <1>3, <1>4

LEMMA ShutdownHookInv == ASSUME RuntimeInv, NEW t \in {Game, Host}, ShutdownHook(t) PROVE RuntimeInv'
<1> USE ModCountAssumption DEF RuntimeInv, ShutdownHook
<1>1. PlacesOK' /\ GateHeld' /\ LifecycleHeld'
  OBVIOUS
<1>2. ValuesOK'
  BY DEF ValuesOK
<1>3. SequencesOK'
  BY HooksShrink DEF SequencesOK
<1>4. StateFollows' /\ StopFollows' /\ StoppedSoFar' /\ ModsFollow'
  BY DEF ValuesOK, StateFollows, StopFollows, StoppedSoFar, ModsFollow, LifeFollows
<1>5. DispatchFollows' /\ LifeFollows' /\ DetoursFollow'
  BY DEF ValuesOK, SequencesOK, StateFollows, StopFollows, ModsFollow,
         DispatchFollows, LifeFollows, DetoursFollow, Installed
<1> QED  BY <1>1, <1>2, <1>3, <1>4, <1>5

LEMMA ShutdownHooksDoneInv == ASSUME RuntimeInv, NEW t \in {Game, Host}, ShutdownHooksDone(t) PROVE RuntimeInv'
<1> USE ModCountAssumption DEF RuntimeInv, ShutdownHooksDone
<1>1. PlacesOK' /\ GateHeld' /\ LifecycleHeld'
  OBVIOUS
<1>2. ValuesOK' /\ SequencesOK'
  BY DEF ValuesOK, SequencesOK
<1>3. StateFollows' /\ StopFollows' /\ StoppedSoFar' /\ ModsFollow'
  BY DEF ValuesOK, StateFollows, StopFollows, StoppedSoFar, ModsFollow, LifeFollows
<1>4. DispatchFollows' /\ LifeFollows' /\ DetoursFollow'
  BY DEF ValuesOK, SequencesOK, StateFollows, StopFollows, ModsFollow,
         DispatchFollows, LifeFollows, DetoursFollow, Installed
<1> QED  BY <1>1, <1>2, <1>3, <1>4

LEMMA ShutdownSessionInv == ASSUME RuntimeInv, NEW t \in {Game, Host}, ShutdownSession(t) PROVE RuntimeInv'
<1> USE ModCountAssumption DEF RuntimeInv, ShutdownSession
<1>1. PlacesOK' /\ GateHeld' /\ LifecycleHeld'
  OBVIOUS
<1>2. ValuesOK'
  <2>1. session' \in BOOLEAN  OBVIOUS
  <2> QED  BY <2>1 DEF ValuesOK
<1>3. SequencesOK'
  BY DEF SequencesOK
<1>4. StateFollows' /\ StopFollows' /\ StoppedSoFar' /\ ModsFollow'
  BY DEF ValuesOK, StateFollows, StopFollows, StoppedSoFar, ModsFollow, LifeFollows
<1>5. DispatchFollows' /\ LifeFollows' /\ DetoursFollow'
  BY DEF ValuesOK, SequencesOK, StateFollows, StopFollows, ModsFollow,
         DispatchFollows, LifeFollows, DetoursFollow, Installed
<1> QED  BY <1>1, <1>2, <1>3, <1>4, <1>5

-----------------------------------------------------------------------------
(* The invariant.                                                            *)

HIDE DEF PlacesOK, GateHeld, LifecycleHeld, TearingDown, Announced, InFrame, Unwinding, Mod

LEMMA RuntimeInit == Init => RuntimeInv
<1> SUFFICES ASSUME Init PROVE RuntimeInv
  OBVIOUS
<1> USE ModCountAssumption DEF Init
<1>1. PlacesOK /\ GateHeld /\ LifecycleHeld  BY DEF PlacesOK, GateHeld, LifecycleHeld
<1>2. ValuesOK
  <2>1. stopping \in BOOLEAN /\ registered \in BOOLEAN /\ session \in BOOLEAN
        /\ loadedAll \in BOOLEAN /\ cut \in BOOLEAN
    OBVIOUS
  <2> QED  BY <2>1 DEF ValuesOK
<1>3. SequencesOK  BY DEF SequencesOK
<1>4. StateFollows /\ StopFollows /\ StoppedSoFar /\ ModsFollow
  BY DEF StateFollows, StopFollows, StoppedSoFar, ModsFollow
<1>5. DispatchFollows  BY DEF DispatchFollows
<1>6. LifeFollows  BY DEF LifeFollows, TearingDown, Mod
<1>7. DetoursFollow  BY DEF DetoursFollow, InFrame
<1> QED  BY <1>1, <1>2, <1>3, <1>4, <1>5, <1>6, <1>7 DEF RuntimeInv

LEMMA RuntimeStep == RuntimeInv /\ [Next]_vars => RuntimeInv'
<1> SUFFICES ASSUME RuntimeInv, [Next]_vars PROVE RuntimeInv'
  OBVIOUS
<1>1. CASE WorkerNext
  BY <1>1, WorkerLockInv, AwaitTicketInv, CheckCompatibilityInv, InstallHookInv, InstallFailsInv,
     HooksCommittedInv, BeginLoadingInv, NextModInv, LoadModInv, LoadFailsInv, LoadDoneInv,
     UndoModInv, UndoDoneInv, FinishRegistrationInv, GuardSavesInv, AcknowledgeInv,
     LoadingFailedInv, UnwindHookInv, UnwindDoneInv, WorkerFailedInv
     DEF WorkerNext
<1>2. CASE DetourNext
  BY <1>2, FrameDispatchInv, FrameSkippedInv, FrameEndsInv, EventDispatchInv, NestedEventInv,
     CallbackReturnsInv, DispatchReturnsInv, AssetsServedInv
     DEF DetourNext
<1>3. CASE GameNext
  BY <1>3, InitializeInv, FrameEntersInv, EventEntersInv, OpenAssetsInv, AssetsTimeOutInv,
     MainReturnsInv, ProcessEndsInv
     DEF GameNext
<1>4. CASE \E t \in {Game, Host} : RequestStop(t) \/ ShutdownNext(t)
  BY <1>4, RequestStopInv, ShutdownLockInv, ShutdownGateInv, ShutdownModInv,
     ShutdownModsDoneInv, ShutdownHookInv, ShutdownHooksDoneInv, ShutdownSessionInv
     DEF ShutdownNext
<1>5. CASE UNCHANGED vars
  BY <1>5 DEF vars, RuntimeInv, PlacesOK, ValuesOK, SequencesOK, GateHeld, LifecycleHeld,
     StateFollows, StopFollows, StoppedSoFar, ModsFollow, DispatchFollows, LifeFollows,
     TearingDown, Announced, DetoursFollow, InFrame, Unwinding, Installed
<1> QED  BY <1>1, <1>2, <1>3, <1>4, <1>5 DEF Next, Exited

(* Where each thread is decides who holds the two mutexes, and with the    *)
(* state machine it decides how far every mod has come.                    *)
THEOREM RuntimeInvariant == Spec => []RuntimeInv
<1> QED  BY RuntimeInit, RuntimeStep, PTL DEF Spec

(* Every variable of RuntimeLifecycle keeps its type. *)
THEOREM LifecycleTypeCorrect == Spec => []LifecycleTypeOK
<1>1. RuntimeInv => LifecycleTypeOK
  <2> SUFFICES ASSUME RuntimeInv PROVE LifecycleTypeOK
    OBVIOUS
  <2>1. \A i \in 1..Len(lua) : lua[i] \in Frames  BY DEF RuntimeInv, SequencesOK
  <2> QED  BY <2>1 DEF RuntimeInv, ValuesOK, LifecycleTypeOK, Frames
<1> QED  BY <1>1, RuntimeInvariant, PTL

-----------------------------------------------------------------------------
(* What follows.                                                             *)

(* ModDispatchGate: loading, shutdown and every dispatch exclude one       *)
(* another, so that no two threads are ever inside Lua together.           *)
THEOREM OneThreadInLua == Spec => []LuaExclusive
<1>1. RuntimeInv => LuaExclusive
  <2> SUFFICES ASSUME RuntimeInv PROVE LuaExclusive
    OBVIOUS
  <2>1. ASSUME NEW t \in InLua PROVE t = gate
    BY DEF InLua, RuntimeInv, PlacesOK, GateHeld
  <2>2. CASE InLua = {}  BY <2>2, FS_EmptySet DEF LuaExclusive
  <2>3. CASE InLua # {}
    <3>1. InLua = {gate}  BY <2>1, <2>3
    <3> QED  BY <3>1, FS_Singleton DEF LuaExclusive
  <2> QED  BY <2>2, <2>3
<1> QED  BY <1>1, RuntimeInvariant, PTL

(* dispatch_frame() and dispatch_game_event(): a timer or an event reaches *)
(* a mod between its on_ready and its on_shutdown only.                    *)
THEOREM DeliveredToReadyMods == Spec => []DeliveredWhileReady
<1>1. RuntimeInv => DeliveredWhileReady
  <2> SUFFICES ASSUME RuntimeInv, NEW k \in 1..Len(lua), lua[k].i <= mods
               PROVE  life[lua[k].i] = IF lua[k].what = "ready" THEN "loaded" ELSE "ready"
    BY DEF DeliveredWhileReady
  <2> DEFINE m == lua[k].i
  <2>1. lua # <<>> /\ Len(lua) \in Nat /\ 1 \in 1..Len(lua) /\ lua[k] \in Frames /\ lua[1] \in Frames
    BY DEF RuntimeInv, SequencesOK
  <2>2. m \in Mod /\ m \in Nat /\ mods \in Nat /\ mods # 0
    BY <2>1, FrameFields, ModCountAssumption DEF RuntimeInv, ValuesOK, Mod
  <2>3. ~TearingDown /\ pc[Worker] \notin WorkerInGate
    BY <2>1 DEF RuntimeInv, PlacesOK, GateHeld, DispatchFollows, TearingDown
  <2>4. state = "GameReady"
    BY <2>1, <2>2, <2>3 DEF RuntimeInv, ValuesOK, DispatchFollows, ModsFollow, StateFollows,
                            GateHeld, PlacesOK
  <2>5. life[m] = IF Announced(m) THEN "ready" ELSE "loaded"
    BY <2>2, <2>3 DEF RuntimeInv, LifeFollows
  <2>6. CASE lua[1].what = "ready"
    <3>1. k = 1  BY <2>1, <2>6 DEF RuntimeInv, DispatchFollows
    <3> QED  BY <2>1, <2>2, <2>5, <2>6, <3>1 DEF Announced
  <2>7. CASE lua[1].what # "ready"
    <3>1. lua[k].what # "ready"  BY <2>1, <2>7 DEF RuntimeInv, DispatchFollows
    <3> QED  BY <2>4, <2>5, <2>7, <3>1 DEF Announced
  <2> QED  BY <2>6, <2>7
<1> QED  BY <1>1, RuntimeInvariant, PTL

(* shutdown_runtime() and the exit hook: the session directory outlives    *)
(* every mod, the exit leaves neither a mod, nor a hook, nor the session   *)
(* behind, and no shutdown takes the hooks from a running detour.          *)
THEOREM EndsOrderly == Spec => []OrderlyEnd
<1>1. RuntimeInv => OrderlyEnd
  <2> SUFFICES ASSUME RuntimeInv PROVE OrderlyEnd
    OBVIOUS
  <2>1. \A m \in Mod : life[m] \in {"loaded", "ready"} => m <= mods
    BY DEF RuntimeInv, ValuesOK, LifeFollows, Mod
  <2>2. ResourcesOutliveMods
    BY <2>1 DEF RuntimeInv, ModsFollow, ValuesOK, Mod, ResourcesOutliveMods
  <2>3. CleanExit
    BY <2>1 DEF RuntimeInv, StoppedSoFar, ValuesOK, Mod, CleanExit
  <2>4. ShutdownKeepsDetours
    BY DEF RuntimeInv, DetoursFollow, Unwinding, ShutdownKeepsDetours
  <2> QED  BY <2>2, <2>3, <2>4 DEF OrderlyEnd
<1> QED  BY <1>1, RuntimeInvariant, PTL

-----------------------------------------------------------------------------
(* The contract.                                                             *)

\* on_load of the next mod of the profile.
LEMMA LoadsInOrder == ASSUME RuntimeInv, LoadMod PROVE Contract!ContractNext
<1> DEFINE m == mods + 1
<1>1. pc[Worker] = "package" /\ life' = [life EXCEPT ![m] = "loaded"]  BY DEF LoadMod
<1>2. m \in Mod /\ mods \in Nat
  BY <1>1, ModCountAssumption DEF RuntimeInv, ValuesOK, ModsFollow, Mod
<1>3. ~TearingDown /\ lua = <<>> /\ state = "ModsLoading"
  BY <1>1 DEF RuntimeInv, PlacesOK, GateHeld, StateFollows, DispatchFollows, TearingDown
<1>4. life[m] = "absent" /\ \A k \in 1..(m - 1) : life[k] = "loaded"
  BY <1>1, <1>2, <1>3, ModCountAssumption DEF RuntimeInv, LifeFollows, Announced, Mod
<1>5. Contract!OnLoad(m)
  BY <1>1, <1>4 DEF Contract!OnLoad, Contract!Earlier, Contract!Moves
<1> QED  BY <1>2, <1>5 DEF Contract!ContractNext, Contract!Mod, Mod

\* on_shutdown, by the worker that gives up loading or by a shutdown.
LEMMA ShutsDownInReverse == ASSUME RuntimeInv, TearingDown, ShutdownOne PROVE Contract!ContractNext
<1>1. cursor \in Mod /\ cursor <= mods /\ mods \in Nat /\ cursor \in Nat
  BY ModCountAssumption DEF RuntimeInv, ValuesOK, LifeFollows, Mod
<1>2. life[cursor] \in {"loaded", "ready"}
      /\ \A k \in (cursor + 1)..ModCount : life[k] \in {"absent", "down"}
  BY <1>1, ModCountAssumption DEF RuntimeInv, LifeFollows, ValuesOK, Mod
<1>3. Contract!OnShutdown(cursor)
  BY <1>2 DEF Contract!OnShutdown, Contract!Later, Contract!Moves
<1> QED  BY <1>1, <1>3 DEF Contract!ContractNext, Contract!Mod, Mod

\* on_ready of the next mod, in the first frame after loading.
LEMMA ReadiesInOrder ==
  ASSUME RuntimeInv, CallbackReturns PROVE life' = life \/ Contract!ContractNext
<1> DEFINE m == lua[Len(lua)].i
<1>1. CASE Top.what # "ready"  BY <1>1 DEF CallbackReturns
<1>2. CASE Top.what = "ready"
  <2>1. lua # <<>> /\ m <= mods /\ life' = [life EXCEPT ![m] = "ready"]
    BY <1>2 DEF CallbackReturns
  <2>2. Len(lua) = 1 /\ lua[1] \in Frames /\ pc[Game] = "lua"
    BY <1>2, <2>1, TopFacts
  <2>3. m \in Mod /\ m \in Nat /\ mods \in Nat /\ mods # 0 /\ lua[1].what = "ready" /\ lua[1].i = m
    BY <1>2, <2>1, <2>2, FrameFields, ModCountAssumption DEF RuntimeInv, ValuesOK, Mod
  <2>4. ~TearingDown /\ mods = ModCount
    BY <2>2, <2>3 DEF RuntimeInv, PlacesOK, GateHeld, ModsFollow, TearingDown
  <2>5. \A k \in Mod : life[k] = IF k < m THEN "ready" ELSE "loaded"
    BY <2>1, <2>3, <2>4 DEF RuntimeInv, LifeFollows, Announced, Mod
  <2>6. Contract!OnReady(m)
    BY <2>1, <2>3, <2>5, ModCountAssumption
       DEF Contract!OnReady, Contract!Earlier, Contract!Later, Contract!Moves, Mod
  <2> QED  BY <2>3, <2>6 DEF Contract!ContractNext, Contract!Mod, Mod
<1> QED  BY <1>1, <1>2

\* Every other action leaves how far the mods have come.
LEMMA LifeKept ==
  ASSUME RuntimeInv, [Next]_vars
  PROVE  \/ life' = life \/ LoadMod \/ CallbackReturns
         \/ TearingDown /\ ShutdownOne
<1>1. CASE WorkerNext
  BY <1>1 DEF WorkerNext, WorkerLock, AwaitTicket, CheckCompatibility, InstallHook, InstallFails,
     HooksCommitted, BeginLoading, NextMod, LoadFails, LoadDone, UndoMod, UndoDone,
     FinishRegistration, GuardSaves, Acknowledge, LoadingFailed, UnwindHook, UnwindDone,
     WorkerFailed, TearingDown
<1>2. CASE DetourNext
  BY <1>2 DEF DetourNext, FrameDispatch, FrameSkipped, FrameEnds, EventDispatch, NestedEvent,
     DispatchReturns, AssetsServed
<1>3. CASE GameNext
  BY <1>3 DEF GameNext, Initialize, FrameEnters, EventEnters, OpenAssets, AssetsTimeOut,
     MainReturns, ProcessEnds
<1>4. CASE \E t \in {Game, Host} : RequestStop(t) \/ ShutdownNext(t)
  BY <1>4 DEF RequestStop, ShutdownNext, ShutdownLock, ShutdownGate, ShutdownMod,
     ShutdownModsDone, ShutdownHook, ShutdownHooksDone, ShutdownSession, TearingDown
<1>5. CASE UNCHANGED vars  BY <1>5 DEF vars
<1> QED  BY <1>1, <1>2, <1>3, <1>4, <1>5 DEF Next, Exited

(* RuntimeLifecycle implements ModContract: whatever the interleaving of   *)
(* loading, frames, failures and shutdown requests, the callbacks of the   *)
(* mods come in the order docs/architecture.md promises.                   *)
THEOREM RuntimeHonoursContract == Spec => HonoursContract
<1>1. Init => Contract!ContractInit
  BY DEF Init, Contract!ContractInit, Contract!Mod, Mod
<1>2. RuntimeInv /\ [Next]_vars => [Contract!ContractNext]_life
  BY LifeKept, LoadsInOrder, ReadiesInOrder, ShutsDownInReverse
<1> QED  BY <1>1, <1>2, RuntimeInvariant, PTL DEF Spec, HonoursContract, Contract!ContractSpec

=============================================================================
