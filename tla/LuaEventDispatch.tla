-------------------------- MODULE LuaEventDispatch --------------------------
(***************************************************************************)
(* Event dispatch to the Lua mods and the money update it is nested in:    *)
(* LuaMod (src/native/runtime/lua_mod.cpp), CashCaptureStack               *)
(* (cash_capture.cpp), the money binding of NativeEventHook                *)
(* (native_event_hook.cpp, runtime.cpp) and match:set_cash, through which  *)
(* a handler raises the next money update while it is still running.       *)
(*                                                                         *)
(* All of it runs on the thread that holds the dispatch gate, so the state *)
(* is a call stack.  A frame is an emission (the game raises a money       *)
(* update), a dispatch (one event goes to the mods in profile order) or a  *)
(* callback (Lua code of one mod).  What the Lua code of a handler does is *)
(* any sequence of API calls that ends in a return or an error.            *)
(***************************************************************************)
EXTENDS Integers, FiniteSets, Sequences, SequencesExt, Subsequences

CONSTANTS
  Mod,           \* the enabled mods
  Profile,       \* their resolved order
  Balance,       \* the finite cash balances
  NotFinite,     \* a balance that is not a finite number
  NoCash,        \* an event without the cash field
  OtherEvent,    \* an event that carries no cash
  Slots,         \* CashCaptureStack::kCapacity
  EventLimit,    \* event_recursion_limit
  CallbackLimit, \* callback_recursion_limit
  HandlerLimit,  \* maximum_event_handlers
  Allowance,     \* instruction_budget, in runs of the instruction hook
  MaxLoaded,     \* bound: handlers a script subscribes while it is loaded
  MaxToken,      \* bound: event tokens a mod is given
  MaxNative      \* bound: emissions on the stack when the game's observers
                 \* raise another

ASSUME ProfileAssumption ==
  /\ IsFiniteSet(Mod) /\ Mod # {} /\ Profile \in Seq(Mod)
  /\ Len(Profile) = Cardinality(Mod) /\ IsInjective(Profile)
ASSUME LimitAssumption ==
  /\ {Slots, EventLimit, HandlerLimit, Allowance} \subseteq Nat \ {0}
  /\ CallbackLimit \in Nat /\ CallbackLimit > EventLimit + 1
ASSUME CashAssumption ==
  {NotFinite, NoCash} \cap Balance = {} /\ NotFinite # NoCash

VARIABLES
  stack,     \* the frames, the running one last
  mods,      \* the LuaMod of each mod
  captures,  \* CashCaptureStack: values_ and depth_
  cash,      \* the game's cash balance
  stopping   \* the gate's stopping_: nothing is dispatched any more

vars == <<stack, mods, captures, cash, stopping>>

-----------------------------------------------------------------------------
(* Frames. *)
Changing == "cash.changing"
Changed == "cash.changed"
Event == {Changing, Changed} \cup OtherEvent

Emission(balance, token) ==
  [type |-> "emission", phase |-> "capture", balance |-> balance,
   token |-> token]
(* last and first are history: the token served last, and the first token  *)
(* that was not given out yet when the mod's snapshot was taken.           *)
Dispatch(event, amount) ==
  [type |-> "dispatch", event |-> event, cash |-> amount, at |-> 1,
   serving |-> FALSE, queue |-> <<>>, last |-> 0, first |-> 0]
(* credit: the Lua code can reach one more API call before the instruction *)
(* hook runs again.                                                        *)
Callback(m, token) ==
  [type |-> "callback", mod |-> m, token |-> token, credit |-> TRUE]

Top == Last(stack)
Running(type) == stack # <<>> /\ Top.type = type
Pop == Front(stack)
Push(f) == Append(stack, f)
SetTop(f) == Append(Front(stack), f)
FramesOf(type) == {i \in 1 .. Len(stack) : stack[i].type = type}

(* The handlers of a mod.  An operator introduced by "Deviation" is a      *)
(* plausible mistake in the definition that follows; no action uses it.    *)
(* Deviation: a handler that is only marked is still found. *)
FindListed(hs, token) == {i \in 1 .. Len(hs) : hs[i].token = token}
Find(hs, token) == {i \in 1 .. Len(hs) : hs[i].enabled /\ hs[i].token = token}
EnabledIn(hs) == {hs[i].token : i \in {j \in 1 .. Len(hs) : hs[j].enabled}}
Disable(hs, token) ==
  [i \in 1 .. Len(hs) |->
     [hs[i] EXCEPT !.enabled = @ /\ hs[i].token # token]]
Matching(hs, event) == Among(hs, {h \in Range(hs) : h.enabled /\ h.event = event})
(* Deviation: the snapshot is taken latest subscription first. *)
SnapshotReversed(hs, event) ==
  LET matching == Matching(hs, event)
  IN  Reverse([i \in 1 .. Len(matching) |-> matching[i].token])
Snapshot(hs, event) ==
  LET matching == Matching(hs, event)
  IN  [i \in 1 .. Len(matching) |-> matching[i].token]
(* Deviation: erase without remove_if's order, from the first marked one. *)
EraseFromFirst(hs) ==
  LET marked == {i \in 1 .. Len(hs) : ~hs[i].enabled}
  IN  IF marked = {} THEN hs
      ELSE SubSeq(hs, 1, (CHOOSE i \in marked : \A j \in marked : i <= j) - 1)
EraseDisabled(hs) == Among(hs, {h \in Range(hs) : h.enabled})

-----------------------------------------------------------------------------
(* CashCaptureStack.  A token is the address of a slot; 0 is nullptr. *)
CaptureToken(balance) ==
  IF captures.depth >= Slots \/ balance = NotFinite THEN 0
  ELSE captures.depth + 1
Capture(balance) ==
  captures' = IF CaptureToken(balance) = 0 THEN captures
              ELSE [values |-> [captures.values EXCEPT
                                  ![CaptureToken(balance)] = balance],
                    depth  |-> CaptureToken(balance)]
(* Deviation: the value of the slot on top, whoever asks. *)
TopCaptured(token) ==
  IF captures.depth = 0 THEN NoCash ELSE captures.values[captures.depth]
Captured(token) ==
  IF token = 0 \/ token # captures.depth THEN NoCash
  ELSE captures.values[token]
(* Deviation: the slot on top is released, whoever asks. *)
ReleaseTop(token) ==
  captures' = [captures EXCEPT !.depth = IF @ = 0 THEN 0 ELSE @ - 1]
Release(token) ==
  captures' = [captures EXCEPT
                 !.depth = IF token # 0 /\ @ = token THEN @ - 1 ELSE @]

-----------------------------------------------------------------------------
Script == UNION {[1 .. n -> Event] : n \in 0 .. MaxLoaded}

(* A mod after its script has subscribed its handlers. *)
Loaded(events) ==
  [handlers |-> [i \in DOMAIN events |->
                   [token |-> i, event |-> events[i], enabled |-> TRUE]],
   next     |-> Len(events) + 1,
   budget   |-> 0, failure |-> FALSE, callbacks |-> 0, events |-> 0]

Init ==
  /\ stack = <<>>
  /\ \E scripts \in [Mod -> Script] : mods = [m \in Mod |-> Loaded(scripts[m])]
  /\ captures = [values |-> [i \in 1 .. Slots |-> NoCash], depth |-> 0]
  /\ cash \in Balance
  /\ stopping = FALSE

-----------------------------------------------------------------------------
(* The money update.  The hook captures the event's balance on entry.      *)
Raise(balance) ==
  /\ Capture(balance)
  /\ cash' = balance
  /\ stack' = Push(Emission(balance, CaptureToken(balance)))

(* The gate refuses every dispatch once a stop was requested. *)
Deliver(frame, event) ==
  stack' = IF stopping THEN SetTop(frame)
           ELSE SetTop(frame) \o <<Dispatch(event, Captured(frame.token))>>

(* The game's own money update, or another event, on the game thread. *)
GameRaises(balance) ==
  /\ stack = <<>>
  /\ Raise(balance)
  /\ UNCHANGED <<mods, stopping>>
GameNotifies(event) ==
  /\ stack = <<>> /\ ~stopping
  /\ stack' = <<Dispatch(event, NoCash)>>
  /\ UNCHANGED <<mods, captures, cash, stopping>>

EmitChanging ==
  /\ Running("emission") /\ Top.phase = "capture"
  /\ Deliver([Top EXCEPT !.phase = "native"], Changing)
  /\ UNCHANGED <<mods, captures, cash, stopping>>

(* The game's observers may update the balance themselves. *)
ObserverRaises(balance) ==
  /\ Running("emission") /\ Top.phase = "native"
  /\ Cardinality(FramesOf("emission")) < MaxNative
  /\ Capture(balance)
  /\ cash' = balance
  /\ stack' = SetTop([Top EXCEPT !.phase = "observed"])
                \o <<Emission(balance, CaptureToken(balance))>>
  /\ UNCHANGED <<mods, stopping>>

EmitChanged ==
  /\ Running("emission") /\ Top.phase \in {"native", "observed"}
  /\ Deliver([Top EXCEPT !.phase = "release"], Changed)
  /\ UNCHANGED <<mods, captures, cash, stopping>>

EmissionReturns ==
  /\ Running("emission") /\ Top.phase = "release"
  /\ Release(Top.token)
  /\ stack' = Pop
  /\ UNCHANGED <<mods, cash, stopping>>

-----------------------------------------------------------------------------
(* LuaMod::dispatch_event, one mod of the profile after the other. *)
Serving(f) == f.type = "dispatch" /\ f.serving
Served(f) == Profile[f.at]

(* The loop of dispatch_game_event: the next mod, or the event is done. *)
NextMod(f) ==
  IF f.at = Len(Profile) THEN Pop
  ELSE SetTop([f EXCEPT !.at = @ + 1, !.serving = FALSE, !.queue = <<>>,
                        !.last = 0, !.first = 0])

(* Too many dispatches nested in this mod: the mod misses the event. *)
(* Deviation: it is put off until there is room. *)
DispatchPutOff ==
  /\ Running("dispatch") /\ ~Top.serving
  /\ mods[Served(Top)].events >= EventLimit
  /\ UNCHANGED vars
DispatchRefused ==
  /\ Running("dispatch") /\ ~Top.serving
  /\ mods[Served(Top)].events >= EventLimit
  /\ stack' = NextMod(Top)
  /\ UNCHANGED <<mods, captures, cash, stopping>>

DispatchEnters ==
  /\ Running("dispatch") /\ ~Top.serving
  /\ LET m == Served(Top)
     IN  /\ mods[m].events < EventLimit
         /\ mods' = [mods EXCEPT ![m].events = @ + 1]
         /\ stack' = SetTop([Top EXCEPT
                       !.serving = TRUE, !.first = mods[m].next,
                       !.queue = Snapshot(mods[m].handlers, Top.event)])
  /\ UNCHANGED <<captures, cash, stopping>>

Serve(f) == [f EXCEPT !.queue = Tail(@), !.last = Head(f.queue)]

(* The next handler of the snapshot was unsubscribed meanwhile. *)
HandlerSkipped ==
  /\ Running("dispatch") /\ Top.serving /\ Top.queue # <<>>
  /\ Find(mods[Served(Top)].handlers, Head(Top.queue)) = {}
  /\ stack' = SetTop(Serve(Top))
  /\ UNCHANGED <<mods, captures, cash, stopping>>

(* execute_at_stack_top.  Only an outermost callback gets a new allowance. *)
(* Deviation: every callback gets one. *)
EnteredAfresh(mod) ==
  [mod EXCEPT !.callbacks = @ + 1, !.budget = Allowance, !.failure = FALSE]
Entered(mod) ==
  IF mod.callbacks = 0
  THEN [mod EXCEPT !.callbacks = 1, !.budget = Allowance, !.failure = FALSE]
  ELSE [mod EXCEPT !.callbacks = @ + 1]

(* late: the deadline of the outermost callback has passed. *)
Refuses(mod, late) ==
  \/ mod.callbacks >= CallbackLimit
  \/ mod.callbacks > 0 /\ (mod.failure \/ late)

(* A handler whose callback fails, or may not start, is disabled. *)
HandlerRefused(late) ==
  /\ Running("dispatch") /\ Top.serving /\ Top.queue # <<>>
  /\ LET m == Served(Top)
         token == Head(Top.queue)
     IN  /\ Find(mods[m].handlers, token) # {}
         /\ Refuses(mods[m], late)
         /\ mods' = [mods EXCEPT ![m].failure = @ \/ late,
                                 ![m].handlers = Disable(@, token)]
  /\ stack' = SetTop(Serve(Top))
  /\ UNCHANGED <<captures, cash, stopping>>

HandlerCalled ==
  /\ Running("dispatch") /\ Top.serving /\ Top.queue # <<>>
  /\ LET m == Served(Top)
         token == Head(Top.queue)
     IN  /\ Find(mods[m].handlers, token) # {}
         /\ ~Refuses(mods[m], FALSE)
         /\ mods' = [mods EXCEPT ![m] = Entered(@)]
         /\ stack' = SetTop(Serve(Top)) \o <<Callback(m, token)>>
  /\ UNCHANGED <<captures, cash, stopping>>

(* Every handler was served: the disabled ones are erased. *)
DispatchLeaves ==
  /\ Running("dispatch") /\ Top.serving /\ Top.queue = <<>>
  /\ mods' = [mods EXCEPT ![Served(Top)].events = @ - 1,
                          ![Served(Top)].handlers = EraseDisabled(@)]
  /\ stack' = NextMod(Top)
  /\ UNCHANGED <<captures, cash, stopping>>

(* A Lua error of the host's own code, out of memory for one, ends the     *)
(* dispatch to this mod; the depth is put back.                            *)
(* Deviation: the depth is left as it is. *)
DispatchBreaksOpen ==
  /\ Running("dispatch") /\ Top.serving
  /\ stack' = NextMod(Top)
  /\ UNCHANGED <<mods, captures, cash, stopping>>
DispatchBreaks ==
  /\ Running("dispatch") /\ Top.serving
  /\ mods' = [mods EXCEPT ![Served(Top)].events = @ - 1]
  /\ stack' = NextMod(Top)
  /\ UNCHANGED <<captures, cash, stopping>>

-----------------------------------------------------------------------------
(* Lua code.  Timers and lifecycle callbacks start with an empty stack. *)
HostCalls(m) ==
  /\ stack = <<>> /\ ~stopping
  /\ mods' = [mods EXCEPT ![m] = Entered(@)]
  /\ stack' = <<Callback(m, 0)>>
  /\ UNCHANGED <<captures, cash, stopping>>

(* The instruction hook.  A handler may catch its error with pcall and go  *)
(* on, up to the next API call once; the failure stays.                    *)
InstructionHook(late) ==
  /\ Running("callback")
  /\ LET mod == mods[Top.mod]
         exhausted == mod.budget <= 1
     IN  /\ mods' = [mods EXCEPT
                       ![Top.mod].budget = IF exhausted THEN 0 ELSE @ - 1,
                       ![Top.mod].failure = @ \/ exhausted \/ late]
         /\ stack' = SetTop([Top EXCEPT !.credit = @ \/ ~mod.failure])
  /\ UNCHANGED <<captures, cash, stopping>>

ApiCall == Running("callback") /\ Top.credit
Spent == [Top EXCEPT !.credit = FALSE]

(* btd5.events.on *)
EventOn(event) ==
  /\ ApiCall
  /\ LET mod == mods[Top.mod]
     IN  /\ Cardinality(EnabledIn(mod.handlers)) < HandlerLimit
         /\ mod.next <= MaxToken
         /\ mods' = [mods EXCEPT
                       ![Top.mod].next = @ + 1,
                       ![Top.mod].handlers =
                          Append(@, [token |-> mod.next, event |-> event,
                                     enabled |-> TRUE])]
  /\ stack' = SetTop(Spent)
  /\ UNCHANGED <<captures, cash, stopping>>

(* btd5.events.off *)
EventOff(token) ==
  /\ ApiCall
  /\ Find(mods[Top.mod].handlers, token) # {}
  /\ mods' = [mods EXCEPT ![Top.mod].handlers = Disable(@, token)]
  /\ stack' = SetTop(Spent)
  /\ UNCHANGED <<captures, cash, stopping>>

(* match:set_cash adds or spends the difference to the current balance;    *)
(* without one no money update is raised.                                  *)
SetCash(value) ==
  /\ ApiCall
  /\ cash # NotFinite /\ value # cash
  /\ Capture(value)
  /\ cash' = value
  /\ stack' = SetTop(Spent) \o <<Emission(value, CaptureToken(value))>>
  /\ UNCHANGED <<mods, stopping>>

(* The callback returns or fails with an error. *)
(* Deviation: a callback that caught the error of the hook has succeeded. *)
CallbackReturnsForgiven(failed, late) ==
  /\ Running("callback")
  /\ LET mod == mods[Top.mod]
     IN  mods' = [mods EXCEPT
             ![Top.mod].callbacks = @ - 1,
             ![Top.mod].failure = @ \/ late,
             ![Top.mod].handlers =
                IF failed \/ late THEN Disable(@, Top.token) ELSE @]
  /\ stack' = Pop
  /\ UNCHANGED <<captures, cash, stopping>>
CallbackReturns(failed, late) ==
  /\ Running("callback")
  /\ LET mod == mods[Top.mod]
     IN  mods' = [mods EXCEPT
             ![Top.mod].callbacks = @ - 1,
             ![Top.mod].failure = @ \/ late,
             ![Top.mod].handlers =
                IF failed \/ late \/ mod.failure
                THEN Disable(@, Top.token) ELSE @]
  /\ stack' = Pop
  /\ UNCHANGED <<captures, cash, stopping>>

(* Another thread requests a stop. *)
StopRequested ==
  /\ ~stopping /\ stopping' = TRUE
  /\ UNCHANGED <<stack, mods, captures, cash>>

-----------------------------------------------------------------------------
DispatchStep ==
  \/ DispatchRefused \/ DispatchEnters \/ HandlerSkipped \/ HandlerCalled
  \/ DispatchLeaves \/ DispatchBreaks
  \/ \E late \in BOOLEAN : HandlerRefused(late)
EmissionStep ==
  \/ EmitChanging \/ EmitChanged \/ EmissionReturns
  \/ \E b \in Balance \cup {NotFinite} : ObserverRaises(b)
CallbackStep ==
  \/ \E late \in BOOLEAN : InstructionHook(late)
  \/ \E e \in Event : EventOn(e)
  \/ \E t \in 1 .. MaxToken : EventOff(t)
  \/ \E b \in Balance : SetCash(b)
  \/ \E failed, late \in BOOLEAN : CallbackReturns(failed, late)
FrameStep == DispatchStep \/ EmissionStep \/ CallbackStep

Next ==
  \/ FrameStep
  \/ \E b \in Balance \cup {NotFinite} : GameRaises(b)
  \/ \E e \in OtherEvent : GameNotifies(e)
  \/ \E m \in Mod : HostCalls(m)
  \/ StopRequested

Spec == Init /\ [][Next]_vars

(* The thread goes on with the frame it is in.  A handler that keeps       *)
(* catching the error of the instruction hook takes no step of the model;  *)
(* fairness says that it does not do so for ever.                          *)
FairSpec == Spec /\ WF_vars(FrameStep)

-----------------------------------------------------------------------------
FrameTypeOK(f) ==
  \/ /\ f.type = "emission"
     /\ f.phase \in {"capture", "native", "observed", "release"}
     /\ f.balance \in Balance \cup {NotFinite} /\ f.token \in 0 .. Slots
  \/ /\ f.type = "dispatch" /\ f.event \in Event
     /\ f.cash \in Balance \cup {NoCash} /\ f.at \in 1 .. Len(Profile)
     /\ f.serving \in BOOLEAN /\ f.queue \in Seq(Nat)
     /\ f.last \in Nat /\ f.first \in Nat
  \/ /\ f.type = "callback" /\ f.mod \in Mod
     /\ f.token \in Nat /\ f.credit \in BOOLEAN

(* Every variable keeps its type, within the limits of LuaModOptions. *)
DispatchTypeOK ==
  /\ \A i \in 1 .. Len(stack) : FrameTypeOK(stack[i])
  /\ \A m \in Mod :
       /\ mods[m].budget \in 0 .. Allowance /\ mods[m].failure \in BOOLEAN
       /\ mods[m].events \in 0 .. EventLimit
       /\ Cardinality(EnabledIn(mods[m].handlers)) <= HandlerLimit
  /\ captures.depth \in 0 .. Slots
  /\ cash \in Balance \cup {NotFinite} /\ stopping \in BOOLEAN

(* gameplay-events.md:76-80: both events of a money update carry the       *)
(* balance of that update, whatever nested updates came between.  The      *)
(* field is missing only if no slot was left or the balance is not finite. *)
CashOwnBalance ==
  \A i \in FramesOf("dispatch") :
    i > 1 /\ stack[i - 1].type = "emission" =>
      LET e == stack[i - 1]
          below == {j \in FramesOf("emission") : j < i - 1}
      IN  \/ stack[i].cash = e.balance
          \/ /\ stack[i].cash = NoCash
             /\ e.balance = NotFinite
                  \/ Cardinality({j \in below : stack[j].token # 0}) = Slots

(* cash_capture.hpp and runtime.cpp:1646-1652: the slots in use are those  *)
(* of the money updates still under way, in their order, also when a stop  *)
(* request keeps their second event from the mods.                         *)
CapturesMatchEmissions ==
  LET holding == {i \in FramesOf("emission") : stack[i].token # 0}
  IN  /\ captures.depth = Cardinality(holding)
      /\ \A i \in holding :
           /\ stack[i].token = Cardinality({j \in holding : j <= i})
           /\ captures.values[stack[i].token] = stack[i].balance

(* lua_mod.cpp:259-271,1411-1424: the two depths of a mod count its        *)
(* dispatches and callbacks on the stack, also after the host's own code   *)
(* failed between them, and the limit on events keeps the callbacks below  *)
(* theirs.                                                                 *)
DepthsCounted ==
  \A m \in Mod :
    /\ mods[m].events =
         Cardinality({i \in FramesOf("dispatch") :
                        stack[i].serving /\ Served(stack[i]) = m})
    /\ mods[m].callbacks =
         Cardinality({i \in FramesOf("callback") : stack[i].mod = m})
    /\ mods[m].callbacks <= mods[m].events + 1
    /\ mods[m].callbacks < CallbackLimit

(* Everything that counts what is on the stack agrees with it. *)
StackAccounted == CapturesMatchEmissions /\ DepthsCounted

(* gameplay-events.md:134-137: while an event goes through a mod, every    *)
(* handler that was subscribed when it came and still is has its turn to   *)
(* come, in subscription order, and nobody else has: also when nested      *)
(* dispatches erase handlers from the list that is being served.           *)
HandlersOwed ==
  \A i \in FramesOf("dispatch") :
    LET f == stack[i]
        owed == {h \in Range(mods[Served(f)].handlers) :
                   /\ h.enabled /\ h.event = f.event
                   /\ f.last < h.token /\ h.token < f.first}
    IN  f.serving =>
          /\ {h.token : h \in owed} \subseteq Range(f.queue)
          /\ \A t \in Range(f.queue) : f.last < t /\ t < f.first
          /\ \A j, k \in 1 .. Len(f.queue) : j < k => f.queue[j] < f.queue[k]

(* gameplay-events.md:136-137: unsubscribing takes effect at once: a       *)
(* handler that was taken out is never called again, not even by a         *)
(* dispatch whose snapshot still names it.                                 *)
NoCallAfterOff ==
  [][Len(stack') > Len(stack) /\ Last(stack').type = "callback" =>
       LET c == Last(stack')
       IN  c.token # 0 => c.token \in EnabledIn(mods[c.mod].handlers)]_vars

(* native-internals.md:123 and lua_mod.cpp:1428-1429: callbacks nested in  *)
(* one another, through however many dispatches and other mods, share one  *)
(* allowance, and once it is used up it stays used up.                     *)
AllowanceShared ==
  [][\A m \in Mod :
       mods[m].callbacks > 0 /\ mods'[m].callbacks > 0 =>
         /\ mods'[m].budget <= mods[m].budget
         /\ mods[m].failure => mods'[m].failure]_vars

(* lua-api/README.md:413-422: a callback that exceeds a limit counts as    *)
(* failed, also when the Lua code caught the error or a nested callback    *)
(* used the allowance up: its handler is not called again.                 *)
LimitViolationFails ==
  [][Running("callback") /\ Len(stack') < Len(stack) /\ mods[Top.mod].failure =>
       Top.token \notin EnabledIn(mods'[Top.mod].handlers)]_vars

Dropped(m) == EnabledIn(mods[m].handlers) \ EnabledIn(mods'[m].handlers)

(* lua_mod.cpp:418-429,476-481,902-922: a subscription ends only by its    *)
(* mod's own call of off, by a failure of its callback, or because it was  *)
(* refused for a limit its mod had exceeded.                               *)
DroppedForCause ==
  [][\A m \in Mod : \A t \in Dropped(m) :
       \/ /\ Running("callback") /\ Top.mod = m
          /\ t = Top.token \/ Len(stack') = Len(stack)
       \/ /\ Running("dispatch") /\ Served(Top) = m
          /\ Top.queue # <<>> /\ t = Head(Top.queue)
          /\ mods'[m].failure]_vars

(* What a subscription is owed, together. *)
SubscriptionsHonoured == NoCallAfterOff /\ LimitViolationFails /\ DroppedForCause

(* gameplay-events.md:139-140: "Only that handler is disabled; later       *)
(* handlers and other Lua states continue."  A handler that is dropped was *)
(* running.                                                                *)
OnlyFailedDisabled ==
  [][\A m \in Mod : \A t \in Dropped(m) :
       Running("callback") /\ Top.mod = m]_vars

(* gameplay-events.md:140-142: the limits contain feedback between         *)
(* handlers and the money updates they raise: what the game or the host    *)
(* starts comes to an end.                                                 *)
DispatchEnds == stack # <<>> ~> stack = <<>>
=============================================================================
