-------------------------- MODULE GameObjectEvents --------------------------
(***************************************************************************)
(* The gameplay event handlers of the runtime: GameObjectEvents            *)
(* (src/native/runtime/object_events.hpp) decides which handle each event  *)
(* carries and when it becomes stale, TeardownLedger (teardown_ledger.cpp) *)
(* accounts for the native objects a match leaves behind, and the callbacks*)
(* in runtime.cpp bind both to the native hooks.                           *)
(*                                                                         *)
(* The registry appears by its contract, HandleTable: a handle is a number *)
(* never issued twice (GameObjectRegistry implements that contract, see    *)
(* GameObjectProofs).  Every native step runs on the game thread, so a     *)
(* step is taken only while no delivery to the mods is under way; call is  *)
(* that delivery.  The game itself is external: obj says which             *)
(* native object lives at an address and how far the game has taken it;    *)
(* an address is used again for a later object.  The Lua host is taken to  *)
(* be in GameReady (RuntimeLifecycle is about the other states).           *)
(***************************************************************************)
EXTENDS Integers, FiniteSets, Functions

CONSTANTS
  Address,     \* addresses the game allocates objects at
  NoObject,    \* nullptr
  NativeKind,  \* the kinds of object the game constructs
  MaxBirth,    \* bound: objects constructed
  MaxHandle,   \* bound: handles issued
  MaxMatch     \* bound: matches entered

ASSUME NativeKindAssumption ==
  NativeKind \subseteq {"Tower", "Attack", "Projectile", "Bloon"}
ASSUME NoObjectAssumption == NoObject \notin Address
ASSUME BoundsAssumption == MaxBirth \in Nat /\ MaxHandle \in Nat

VARIABLES
  registry,     \* g_game_objects: live handles, index_, next handle
  match,        \* match_, 0 when empty
  round,        \* round_, 0 when empty
  purchased,    \* purchased_tower_
  vetoed,       \* TowerPurchaseHook::cancelled_tower_
  watched,      \* TeardownLedger::watched_
  outstanding,  \* TeardownLedger::outstanding_
  captured,     \* TeardownLedger::captured_
  fates,        \* TeardownLedger::fates_
  obj,          \* the native object at each address
  phase,        \* the native game screen
  births,       \* objects constructed so far
  matches,      \* matches entered so far
  call          \* the event being delivered to the mods

eventVars == <<match, round, purchased, vetoed>>
ledgerVars == <<watched, outstanding, captured, fates>>
gameVars == <<obj, phase, births, matches>>
vars == <<registry, eventVars, ledgerVars, gameVars, call>>

-----------------------------------------------------------------------------
(* Native objects.  preview marks a tower the player is trying to buy, as  *)
(* opposed to one the game adds itself; announced counts its tower.placing *)
(* deliveries since the last refusal.                                      *)
Screen == "screen"
Receiver == "receiver"
Lives == "lives"
ASSUME AddressAssumption ==
  IsFiniteSet(Address) /\ {Screen, Receiver, Lives} \cap Address = {}
Key == (NativeKind \X Address)
         \cup {<<"Match", Screen>>, <<"Round", Receiver>>, <<"Player", Lives>>}

Nothing == [kind |-> "none", stage |-> "free", serial |-> 0,
            announced |-> 0, preview |-> FALSE]
Serial(o) == IF o \in Address THEN obj[o].serial ELSE 0
At(a, stages) == obj[a].stage \in stages

(* The lifetime hook reports these kinds when they are constructed. *)
Constructed == {"Attack", "Projectile"}

(* Stages in which the game destroys an object: never inside the game's    *)
(* own purchase, placement, upgrade, sale, pop or leak.                    *)
Settled == {"new", "placed", "live", "gone", "rejected", "left"}

(* A tower or bloon the game has taken over, until its terminal event. *)
InGame == {"bought", "owned", "placed", "upgrading", "selling",
           "live", "popping", "leaking"}

-----------------------------------------------------------------------------

(* f's entries, and g's where f has none. *)
Overlay(f, g) ==
  [x \in DOMAIN f \cup DOMAIN g |-> IF x \in DOMAIN f THEN f[x] ELSE g[x]]

(* The registry's operations, one after the other within a handler. *)
Binding(k, o, n) == [kind |-> k, object |-> o, serial |-> n]
AddTo(r, k, o, n) ==
  [live  |-> Overlay([h \in {r.next} |-> Binding(k, o, n)], r.live),
   index |-> [r.index EXCEPT ![<<k, o>>] = r.next],
   next  |-> r.next + 1]
FindOrAddTo(r, k, o) ==
  IF r.index[<<k, o>>] # 0 THEN r ELSE AddTo(r, k, o, Serial(o))
InvalidateIn(r, h) ==
  IF h \notin DOMAIN r.live THEN r
  ELSE LET key == <<r.live[h].kind, r.live[h].object>>
       IN  [r EXCEPT !.live = Restrict(@, DOMAIN @ \ {h}),
                     !.index[key] = IF @ = h THEN 0 ELSE @]
SceneBegunIn(r) ==
  [live |-> <<>>, index |-> [key \in Key |-> 0], next |-> r.next]
Tracked(k, o) == registry.index[<<k, o>>] # 0

-----------------------------------------------------------------------------
NoCall == [event |-> "none", kind |-> "none", object |-> NoObject,
           handle |-> 0, flag |-> FALSE]

Init ==
  /\ registry = [live |-> <<>>, index |-> [key \in Key |-> 0], next |-> 1]
  /\ match = 0 /\ round = 0
  /\ purchased = NoObject /\ vetoed = NoObject
  /\ watched = <<>> /\ outstanding = <<>>
  /\ captured = [k \in NativeKind |-> 0]
  /\ fates = [k \in NativeKind |-> [destroyed |-> 0, reused |-> 0]]
  /\ obj = [a \in Address |-> Nothing]
  /\ phase = "menu" /\ births = 0 /\ matches = 0
  /\ call = NoCall

(* The game thread is outside Lua, and outside the purchase path, which    *)
(* runs from the free check to the tower manager without a break.          *)
Quiet ==
  /\ call = NoCall
  /\ registry.next <= MaxHandle
  /\ \A a \in Address : ~At(a, {"checking", "bought"})

(* object_event(): the tracked handle, or a new one, and the delivery. *)
DeliverFrom(r, e, k, o, flag) ==
  LET s == FindOrAddTo(r, k, o)
  IN  /\ registry' = s
      /\ call' = [event |-> e, kind |-> k, object |-> o,
                  handle |-> s.index[<<k, o>>], flag |-> flag]
Deliver(e, k, o, flag) == DeliverFrom(registry, e, k, o, flag)

SetStage(a, stage) == obj' = [obj EXCEPT ![a].stage = stage]
SetAnnounced(a, stage, count) ==
  obj' = [obj EXCEPT ![a] = [obj[a] EXCEPT !.stage = stage, !.announced = count]]

-----------------------------------------------------------------------------
(* TeardownLedger. *)
Forget(f, a) == Restrict(f, DOMAIN f \ {a})

(* An operator introduced by "Deviation" is a plausible mistake in the     *)
(* definition that follows it; no action uses it.                          *)
(* Deviation: the object stays in the watch set. *)
LedgerBoundaryKeepsWatching(a, fate) ==
  /\ outstanding' = Forget(outstanding, a)
  /\ fates' = IF a \in DOMAIN watched
              THEN [fates EXCEPT ![watched[a]][fate] = @ + 1] ELSE fates
  /\ UNCHANGED <<watched, captured>>

(* destroyed() and constructed() differ in the fate they count. *)
LedgerBoundary(a, fate) ==
  /\ outstanding' = Forget(outstanding, a)
  /\ watched' = Forget(watched, a)
  /\ fates' = IF a \in DOMAIN watched
              THEN [fates EXCEPT ![watched[a]][fate] = @ + 1] ELSE fates
  /\ UNCHANGED captured

(* settle(): the watch set is closed, what is outstanding stays. *)
Settle ==
  /\ watched' = <<>>
  /\ captured' = [k \in NativeKind |-> 0]
  /\ fates' = [k \in NativeKind |-> [destroyed |-> 0, reused |-> 0]]
  /\ UNCHANGED outstanding

(* capture(): every native object still tracked is a survivor. *)
Survivors == {a \in Address : \E k \in NativeKind : Tracked(k, a)}
SurvivorKind(a) == CHOOSE k \in NativeKind : Tracked(k, a)
Capture ==
  LET found == [a \in Survivors |-> SurvivorKind(a)]
  IN  /\ watched' = Overlay(found, watched)
      /\ outstanding' = Overlay(found, outstanding)
      /\ captured' = [k \in NativeKind |->
           captured[k] + Cardinality({a \in Survivors : found[a] = k})]
      /\ UNCHANGED fates

-----------------------------------------------------------------------------
(* The match hooks. *)
MatchStarting ==
  /\ Quiet /\ phase = "menu" /\ matches < MaxMatch
  /\ Settle
  /\ round' = 0 /\ purchased' = NoObject
  /\ DeliverFrom(SceneBegunIn(registry), "match.starting", "Match", Screen, FALSE)
  /\ match' = registry.next
  /\ phase' = "init" /\ matches' = matches + 1
  /\ UNCHANGED <<vetoed, obj, births>>

(* match_event() with the wrapper captured at the first event. *)
MatchEvent(e, from, to) ==
  /\ Quiet /\ phase = from
  /\ Deliver(e, "Match", Screen, FALSE)
  /\ match' = registry'.index[<<"Match", Screen>>]
  /\ phase' = to
  /\ UNCHANGED <<round, purchased, vetoed, ledgerVars, obj, births, matches>>
MatchStarted == MatchEvent("match.started", "init", "play")
MatchEnding == MatchEvent("match.ending", "play", "uninit")

(* Deviation: match.ended is delivered before the scene is reset. *)
MatchEndedBeforeReset ==
  /\ Quiet /\ phase = "uninit"
  /\ Capture
  /\ call' = [NoCall EXCEPT !.event = "match.ended", !.kind = "Match",
                            !.object = Screen, !.handle = match]
  /\ phase' = "menu"
  /\ obj' = [a \in Address |-> IF At(a, {"free", "lost"}) THEN obj[a]
                               ELSE [obj[a] EXCEPT !.stage = "left"]]
  /\ UNCHANGED <<registry, eventVars, births, matches>>

(* The scene is reset before match.ended is delivered. *)
MatchEnded ==
  /\ Quiet /\ phase = "uninit"
  /\ Capture
  /\ registry' = SceneBegunIn(registry)
  /\ call' = [NoCall EXCEPT !.event = "match.ended", !.kind = "Match",
                            !.object = Screen, !.handle = match]
  /\ phase' = "menu"
  /\ obj' = [a \in Address |-> IF At(a, {"free", "lost"}) THEN obj[a]
                               ELSE [obj[a] EXCEPT !.stage = "left"]]
  /\ UNCHANGED <<eventVars, births, matches>>
MatchEndedReturn ==
  /\ call.event = "match.ended"
  /\ match' = 0 /\ round' = 0
  /\ call' = NoCall
  /\ UNCHANGED <<registry, purchased, vetoed, ledgerVars, gameVars>>

(* Events whose delivery changes nothing afterwards. *)
Return ==
  /\ call.event \in {"match.starting", "match.started", "match.ending",
                     "round", "lives", "created"}
  /\ call' = NoCall
  /\ UNCHANGED <<registry, eventVars, ledgerVars, gameVars>>

-----------------------------------------------------------------------------
(* begin_round(): the receiver is the same native object every round. *)
BeginRound ==
  /\ Quiet /\ phase = "play"
  /\ registry' = AddTo(InvalidateIn(registry, round), "Round", Receiver, 0)
  /\ round' = registry.next
  /\ UNCHANGED <<match, purchased, vetoed, ledgerVars, gameVars, call>>

(* round_event(), for the starting, started and ending boundaries and for  *)
(* round.ended; without a round handle the event carries none.             *)
RoundEvent(e) ==
  /\ Quiet /\ phase = "play"
  /\ call' = [NoCall EXCEPT !.event = e, !.kind = "Round",
                            !.object = Receiver, !.handle = round]
  /\ UNCHANGED <<registry, eventVars, ledgerVars, gameVars>>
RoundEndedReturn ==
  /\ call.event = "round.ended"
  /\ registry' = InvalidateIn(registry, call.handle)
  /\ round' = 0
  /\ call' = NoCall
  /\ UNCHANGED <<match, purchased, vetoed, ledgerVars, gameVars>>

(* player(): one wrapper for the lives state within a scene. *)
LivesEvent ==
  /\ Quiet /\ phase = "play"
  /\ Deliver("lives", "Player", Lives, FALSE)
  /\ UNCHANGED <<eventVars, ledgerVars, gameVars>>

-----------------------------------------------------------------------------
(* Native lifetimes.  An object the match left behind may also lose its    *)
(* memory without its destructor ("lost"), the case constructed() counts.  *)
Construct(k, a) ==
  /\ Quiet /\ At(a, {"free", "lost"}) /\ births < MaxBirth
  /\ births' = births + 1
  /\ \E preview \in IF k = "Tower" THEN BOOLEAN ELSE {FALSE} :
       obj' = [obj EXCEPT ![a] =
                 [kind |-> k, stage |-> "new", serial |-> births + 1,
                  announced |-> 0, preview |-> preview]]
  /\ IF k \in Constructed
     THEN LedgerBoundary(a, "reused") ELSE UNCHANGED ledgerVars
  /\ IF k \in Constructed /\ match # 0 /\ ~Tracked(k, a)
     THEN /\ registry' = AddTo(registry, k, a, births + 1)
          /\ call' = [event |-> "created", kind |-> k, object |-> a,
                      handle |-> registry.next, flag |-> FALSE]
     ELSE UNCHANGED <<registry, call>>
  /\ UNCHANGED <<eventVars, phase, matches>>

(* object_destroying() of an untracked object. *)
DestroyUntracked(a) ==
  /\ Quiet /\ At(a, Settled) /\ ~Tracked(obj[a].kind, a)
  /\ LedgerBoundary(a, "destroyed")
  /\ obj' = [obj EXCEPT ![a] = Nothing]
  /\ UNCHANGED <<registry, eventVars, phase, births, matches, call>>

(* Deviation: a tower or bloon goes without invalidating its handle. *)
DestroyUnnoticed(a) ==
  /\ Quiet /\ At(a, Settled) /\ Tracked(obj[a].kind, a)
  /\ obj[a].kind \notin Constructed
  /\ obj' = [obj EXCEPT ![a] = Nothing]
  /\ UNCHANGED <<registry, eventVars, ledgerVars, phase, births, matches, call>>

(* object_destroying() of a tracked tower or bloon delivers no event. *)
DestroySilently(a) ==
  /\ Quiet /\ At(a, Settled) /\ Tracked(obj[a].kind, a)
  /\ obj[a].kind \notin Constructed
  /\ registry' = InvalidateIn(registry, registry.index[<<obj[a].kind, a>>])
  /\ obj' = [obj EXCEPT ![a] = Nothing]
  /\ UNCHANGED <<eventVars, ledgerVars, phase, births, matches, call>>

(* An attack or projectile delivers *.destroyed first; the destructor      *)
(* itself runs when the callback returns.                                  *)
DestroyTracked(a) ==
  /\ Quiet /\ At(a, Settled) /\ Tracked(obj[a].kind, a)
  /\ obj[a].kind \in Constructed
  /\ Deliver("destroyed", obj[a].kind, a, FALSE)
  /\ UNCHANGED <<eventVars, ledgerVars, gameVars>>
DestroyReturn ==
  /\ call.event = "destroyed"
  /\ registry' = InvalidateIn(registry, call.handle)
  /\ obj' = [obj EXCEPT ![call.object] = Nothing]
  /\ call' = NoCall
  /\ UNCHANGED <<eventVars, ledgerVars, phase, births, matches>>

Lose(a) ==
  /\ Quiet /\ At(a, {"left"})
  /\ obj' = [obj EXCEPT ![a] = [Nothing EXCEPT !.stage = "lost"]]
  /\ UNCHANGED <<registry, eventVars, ledgerVars, phase, births, matches, call>>

-----------------------------------------------------------------------------
(* The tower and bloon events delivered by dispatch_object_event(): the    *)
(* native stages around each, the stage a cancellation leads back to, and  *)
(* whether the wrapper is invalidated after delivery.                      *)
Row(e, k, from, to, back, terminal) ==
  [event |-> e, kind |-> k, from |-> from, to |-> to, back |-> back,
   terminal |-> terminal]

(* The detours at a commit: a cancelled one returns to the stage before. *)
Upgrading == Row("tower.upgrading", "Tower", {"placed"}, "upgrading", {"placed"}, FALSE)
Selling == Row("tower.selling", "Tower", {"placed"}, "selling", {"placed"}, FALSE)
Popping == Row("bloon.popping", "Bloon", {"live"}, "popping", {"live"}, FALSE)
Leaking == Row("bloon.leaking", "Bloon", {"live"}, "leaking", {"live"}, FALSE)

(* The bindings of the native event hook report what has happened. *)
TowerReports ==
  { Row("tower.placed",   "Tower", {"owned"},     "placed", {}, FALSE),
    Row("tower.upgraded", "Tower", {"upgrading"}, "placed", {}, FALSE),
    Row("tower.sold",     "Tower", {"selling"},   "gone",   {}, TRUE) }
BloonReports ==
  { Row("bloon.spawned", "Bloon", {"owned", "new"}, "live", {}, FALSE),
    Row("bloon.popped",  "Bloon", {"popping"},      "gone", {}, TRUE),
    Row("bloon.leaked",  "Bloon", {"leaking"},      "gone", {}, TRUE) }
ObjectEvents ==
  {Upgrading, Selling, Popping, Leaking} \cup TowerReports \cup BloonReports

ObjectEvent(row, a) ==
  /\ Quiet /\ phase = "play"
  /\ obj[a].kind = row.kind /\ At(a, row.from)
  /\ Deliver(row.event, row.kind, a, FALSE)
  /\ UNCHANGED <<eventVars, ledgerVars, gameVars>>

(* Deviation: every object event invalidates the wrapper it delivered. *)
ObjectEventReturnTerminal(row) ==
  /\ call.event = row.event
  /\ registry' = InvalidateIn(registry, call.handle)
  /\ \E stage \in {row.to} \cup row.back : SetStage(call.object, stage)
  /\ call' = NoCall
  /\ UNCHANGED <<eventVars, ledgerVars, phase, births, matches>>

ObjectEventReturn(row) ==
  /\ call.event = row.event
  /\ registry' = IF row.terminal THEN InvalidateIn(registry, call.handle)
                                 ELSE registry
  /\ \E stage \in {row.to} \cup row.back : SetStage(call.object, stage)
  /\ call' = NoCall
  /\ UNCHANGED <<eventVars, ledgerVars, phase, births, matches>>

(* rejectable_object_event(): only the round emitter's spawns may be       *)
(* cancelled; reject_spawn() may still find no usable deletion queue.      *)
BloonSpawning(a, fromRound) ==
  /\ Quiet /\ phase = "play" /\ obj[a].kind = "Bloon" /\ At(a, {"new"})
  /\ Deliver("bloon.spawning", "Bloon", a, fromRound)
  /\ UNCHANGED <<eventVars, ledgerVars, gameVars>>
BloonSpawningReturn(cancelled) ==
  /\ call.event = "bloon.spawning"
  /\ cancelled => call.flag
  /\ registry' = IF cancelled THEN InvalidateIn(registry, call.handle)
                              ELSE registry
  /\ \E stage \in IF cancelled THEN {"rejected", "owned"} ELSE {"owned"} :
       SetStage(call.object, stage)
  /\ call' = NoCall
  /\ UNCHANGED <<eventVars, ledgerVars, phase, births, matches>>

-----------------------------------------------------------------------------
(* hooked_free_check(): the mods decide before token or cost is consumed. *)
PurchaseCheck(a) ==
  /\ Quiet /\ phase = "play" /\ obj[a].preview /\ At(a, {"new"})
  /\ Deliver("tower.placing", "Tower", a, TRUE)
  /\ UNCHANGED <<eventVars, ledgerVars, gameVars>>

(* purchase_delivered(), then the free token if there is one. *)
PurchaseReturn(cancelled) ==
  /\ call.event = "tower.placing" /\ call.flag
  /\ purchased' = IF cancelled THEN NoObject ELSE call.object
  /\ vetoed' = IF cancelled THEN call.object ELSE NoObject
  /\ \E free \in IF cancelled THEN {FALSE} ELSE BOOLEAN :
       SetAnnounced(call.object, IF free THEN "bought" ELSE "checking",
                    IF cancelled THEN 0 ELSE obj[call.object].announced + 1)
  /\ call' = NoCall
  /\ UNCHANGED <<registry, match, round, ledgerVars, phase, births, matches>>

(* Deviation: the cancellation is consumed and the cost taken anyway. *)
CostCheckIgnoringVeto(a) ==
  /\ call = NoCall /\ At(a, {"checking"})
  /\ vetoed' = NoObject
  /\ \E affordable \in BOOLEAN :
       SetAnnounced(a, IF affordable THEN "bought" ELSE "new",
                    IF affordable THEN obj[a].announced ELSE 0)
  /\ UNCHANGED <<registry, match, round, purchased, ledgerVars,
                 phase, births, matches, call>>

(* hooked_cost_check(): a cancellation is consumed here; otherwise the     *)
(* game takes the cost or refuses.                                         *)
CostCheck(a) ==
  /\ call = NoCall /\ At(a, {"checking"})
  /\ vetoed' = NoObject
  /\ \E affordable \in IF vetoed = a THEN {FALSE} ELSE BOOLEAN :
       SetAnnounced(a, IF affordable THEN "bought" ELSE "new",
                    IF affordable THEN obj[a].announced ELSE 0)
  /\ UNCHANGED <<registry, match, round, purchased, ledgerVars,
                 phase, births, matches, call>>

(* The tower manager takes a bought tower, or one the game adds itself. *)
AtManager(a) ==
  /\ call = NoCall /\ registry.next <= MaxHandle
  /\ phase \in {"init", "play"} /\ obj[a].kind = "Tower"
  /\ IF \E b \in Address : At(b, {"checking", "bought"})
     THEN At(a, {"bought"}) ELSE At(a, {"new"}) /\ ~obj[a].preview

(* take_purchase(): the purchase has been announced already. *)
PlacePurchased(a) ==
  /\ AtManager(a) /\ purchased = a
  /\ purchased' = NoObject
  /\ SetStage(a, "owned")
  /\ UNCHANGED <<registry, match, round, vetoed, ledgerVars,
                 phase, births, matches, call>>
Place(a) ==
  /\ AtManager(a) /\ purchased # a
  /\ Deliver("tower.placing", "Tower", a, FALSE)
  /\ UNCHANGED <<eventVars, ledgerVars, gameVars>>
PlaceReturn ==
  /\ call.event = "tower.placing" /\ ~call.flag
  /\ SetAnnounced(call.object, "owned", obj[call.object].announced + 1)
  /\ call' = NoCall
  /\ UNCHANGED <<registry, eventVars, ledgerVars, phase, births, matches>>

-----------------------------------------------------------------------------
MatchNext ==
  \/ MatchStarting \/ MatchStarted \/ MatchEnding
  \/ MatchEnded \/ MatchEndedReturn \/ Return
RoundNext ==
  \/ BeginRound \/ RoundEvent("round") \/ RoundEvent("round.ended")
  \/ RoundEndedReturn \/ LivesEvent
LifetimeNext ==
  \/ \E a \in Address :
       \/ \E k \in NativeKind : Construct(k, a)
       \/ DestroyUntracked(a) \/ DestroySilently(a) \/ DestroyTracked(a)
       \/ Lose(a)
  \/ DestroyReturn
ObjectNext ==
  \/ \E row \in ObjectEvents :
       \/ \E a \in Address : ObjectEvent(row, a)
       \/ ObjectEventReturn(row)
  \/ \E a \in Address, fromRound \in BOOLEAN : BloonSpawning(a, fromRound)
  \/ \E cancelled \in BOOLEAN : BloonSpawningReturn(cancelled)
PurchaseNext ==
  \/ \E a \in Address :
       PurchaseCheck(a) \/ CostCheck(a) \/ PlacePurchased(a) \/ Place(a)
  \/ \E cancelled \in BOOLEAN : PurchaseReturn(cancelled)
  \/ PlaceReturn

Next == MatchNext \/ RoundNext \/ LifetimeNext \/ ObjectNext \/ PurchaseNext
Spec == Init /\ [][Next]_vars

-----------------------------------------------------------------------------
(* Every variable keeps its type. *)
TypeOK ==
  /\ DOMAIN registry.live \subseteq 1 .. (registry.next - 1)
  /\ registry.next \in 1 .. (MaxHandle + 1)
  /\ registry.index \in [Key -> 0 .. MaxHandle]
  /\ match \in 0 .. MaxHandle /\ round \in 0 .. MaxHandle
  /\ purchased \in Address \cup {NoObject}
  /\ vetoed \in Address \cup {NoObject}
  /\ DOMAIN watched \subseteq Address /\ DOMAIN outstanding \subseteq Address
  /\ obj \in [Address -> [kind : NativeKind \cup {"none"},
                stage : Settled \cup InGame \cup {"free", "lost", "checking"},
                serial : 0 .. MaxBirth, announced : Nat, preview : BOOLEAN]]
  /\ phase \in {"menu", "init", "play", "uninit"}

(* gameplay-events.md:219-221: no wrapper can resolve to a freed object.   *)
(* A handle in force names the very object that lives at its address, and  *)
(* that object has not had its terminal event.                             *)
LiveNamesLive ==
  \A h \in DOMAIN registry.live :
    LET b == registry.live[h]
    IN  b.object \in Address =>
          /\ obj[b.object].kind = b.kind
          /\ obj[b.object].serial = b.serial
          /\ ~At(b.object, {"gone", "rejected", "left"})

(* game_object.cpp:60-73 with object_events.hpp:59-63,137-140: the callers *)
(* of add() never leave two handles in force for one object, so the one    *)
(* the destructor finds by index is the only one.                          *)
EveryLiveHandleIndexed ==
  \A h \in DOMAIN registry.live :
    registry.index[<<registry.live[h].kind, registry.live[h].object>>] = h

(* Handles and the objects they stand for, together. *)
HandlesConsistent == TypeOK /\ LiveNamesLive /\ EveryLiveHandleIndexed

(* gameplay-events.md:51-59,70-71,215-217,226-228: a wrapper is valid for  *)
(* the whole delivery that carries it, terminal events included, and in    *)
(* match.ended no wrapper at all is valid.                                 *)
ValidWhileDelivered ==
  /\ call # NoCall /\ call.event # "match.ended" /\ call.handle # 0 =>
       /\ call.handle \in DOMAIN registry.live
       /\ registry.live[call.handle].kind = call.kind
       /\ registry.live[call.handle].object = call.object
  /\ call.event = "match.ended" => DOMAIN registry.live = {}

(* gameplay-events.md:212-228: a tower or bloon keeps the handle it has    *)
(* through every non-terminal event, whatever happens to other objects.    *)
HandleKept ==
  [][\A a \in Address :
       LET key == <<obj[a].kind, a>>
       IN  /\ At(a, InGame) /\ obj[a].kind \in {"Tower", "Bloon"}
           /\ registry.index[key] # 0
           /\ obj'[a].serial = obj[a].serial /\ obj'[a].stage \in InGame
           => registry'.index[key] = registry.index[key]]_vars

(* gameplay-events.md:107-109: a purchase that proceeds was announced by   *)
(* tower.placing exactly once, not cancelled, and not again at the tower   *)
(* manager.                                                                *)
PurchaseAnnouncedOnce ==
  \A a \in Address : obj[a].preview /\ At(a, InGame) => obj[a].announced = 1

(* teardown_ledger.hpp:16-20,35-37: each captured survivor is accounted    *)
(* for once, as destroyed, reused or still watched, and what is watched is *)
(* outstanding too.                                                        *)
LedgerBalanced ==
  /\ \A k \in NativeKind :
       captured[k] = fates[k].destroyed + fates[k].reused
                       + Cardinality({a \in DOMAIN watched : watched[a] = k})
  /\ \A a \in DOMAIN watched :
       a \in DOMAIN outstanding /\ outstanding[a] = watched[a]

=============================================================================
