--------------------------- MODULE EventDispatchProofs ---------------------------
(***************************************************************************)
(* The safety of LuaEventDispatch, for every number of mods, limits and    *)
(* nested updates: the capture stack and the depths of the mods agree with *)
(* the call stack, an event carries the balance of its own money update,   *)
(* nested callbacks share one allowance, and a handler that is subscribed  *)
(* gets its turn and keeps its subscription.                               *)
(*                                                                         *)
(* What a step does to the call stack is to pop its last frame, to replace *)
(* it, or to put a new one on top: every action is shown to be of one of   *)
(* eight such kinds, and a kind changes what is counted by the position of *)
(* the last frame.  What it does to the list of a mod is to mark, erase or *)
(* add handlers: a queue that holds all that is owed the event stays one.  *)
(*                                                                         *)
(* Then LivesChange: a decision on the player's lives, and what is stored. *)
(***************************************************************************)
EXTENDS LuaEventDispatch, LivesChange, InductionLemmas, FiniteSetTheorems,
        SequenceTheorems, TLAPS

ModFields == {"handlers", "next", "budget", "failure", "callbacks", "events"}

\* The record of a mod, but for its handlers.
ModOK(m) ==
  /\ DOMAIN mods[m] = ModFields
  /\ mods[m].budget \in 0 .. Allowance /\ mods[m].failure \in BOOLEAN
  /\ mods[m].callbacks \in Nat /\ mods[m].events \in 0 .. EventLimit
ModsOK == DOMAIN mods = Mod /\ \A m \in Mod : ModOK(m)

EmissionOK(f) ==
  /\ DOMAIN f = {"type", "phase", "balance", "token"}
  /\ f.type = "emission" /\ f.phase \in {"capture", "native", "observed", "release"}
  /\ f.balance \in Balance \cup {NotFinite} /\ f.token \in 0 .. Slots
DispatchOK(f) ==
  /\ DOMAIN f = {"type", "event", "cash", "at", "serving", "queue", "last", "first"}
  /\ f.type = "dispatch" /\ f.at \in 1 .. Len(Profile) /\ f.serving \in BOOLEAN
CallbackOK(f) ==
  /\ DOMAIN f = {"type", "mod", "token", "credit"}
  /\ f.type = "callback" /\ f.mod \in Mod /\ f.credit \in BOOLEAN
FrameOK(f) == EmissionOK(f) \/ DispatchOK(f) \/ CallbackOK(f)

StackOK ==
  /\ \E S : stack \in Seq(S)
  /\ \A i \in 1 .. Len(stack) : FrameOK(stack[i])
CapturesOK ==
  captures \in [values : [1 .. Slots -> Balance \cup {NoCash}], depth : 0 .. Slots]

Holding == {i \in FramesOf("emission") : stack[i].token # 0}
ServingFor(m) == {i \in FramesOf("dispatch") : stack[i].serving /\ Served(stack[i]) = m}
CallbacksOf(m) == {i \in FramesOf("callback") : stack[i].mod = m}

Counted ==
  \A m \in Mod :
    /\ mods[m].events = Cardinality(ServingFor(m))
    /\ mods[m].callbacks = Cardinality(CallbacksOf(m))

\* Every callback but the host's is made by a dispatch to its mod.
Nested ==
  \A i \in 2 .. Len(stack) :
    stack[i].type = "callback" => i - 1 \in ServingFor(stack[i].mod)

\* A money update without a slot found none, or has nothing to keep.
Unheld ==
  \A i \in FramesOf("emission") : stack[i].token = 0 =>
    \/ stack[i].balance = NotFinite
    \/ Cardinality({j \in Holding : j < i}) = Slots

\* CapturesMatchEmissions and CashOwnBalance, in terms of Holding.
CapturesMatch ==
  /\ captures.depth = Cardinality(Holding)
  /\ \A i \in Holding :
       /\ stack[i].token = Cardinality({j \in Holding : j <= i})
       /\ captures.values[stack[i].token] = stack[i].balance
OwnBalance ==
  \A i \in 2 .. Len(stack) :
    stack[i].type = "dispatch" /\ stack[i - 1].type = "emission" =>
      \/ stack[i].cash = stack[i - 1].balance
      \/ /\ stack[i].cash = NoCash
         /\ \/ stack[i - 1].balance = NotFinite
            \/ Cardinality({j \in Holding : j < i - 1}) = Slots

DispatchInv ==
  /\ ModsOK /\ StackOK /\ CapturesOK
  /\ Counted /\ Nested
  /\ CapturesMatch /\ Unheld /\ OwnBalance
-----------------------------------------------------------------------------
(* Frames                                                                  *)

\* The stack of the next state, frame by frame.
Below == \A i \in 1 .. Len(stack) - 1 : stack'[i] = stack[i]
Popped == Len(stack') = Len(stack) - 1 /\ Below
Replaced(f) ==
  Len(stack') = Len(stack) /\ stack'[Len(stack)] = f /\ Below
Grown(f, g) ==
  /\ Len(stack') = Len(stack) + 1 /\ Below
  /\ stack'[Len(stack)] = f /\ stack'[Len(stack) + 1] = g
Started(g) == stack = <<>> /\ Len(stack') = 1 /\ stack'[1] = g

LEMMA FrontIs ==
  ASSUME NEW S, NEW s \in Seq(S), s # <<>>
  PROVE  /\ Front(s) \in Seq(S) /\ Len(Front(s)) = Len(s) - 1 /\ Len(s) \in Nat \ {0}
         /\ \A k \in 1 .. Len(s) - 1 : Front(s)[k] = s[k]
         /\ Last(s) = s[Len(s)]
<1>1. Len(s) \in Nat \ {0}  BY EmptySeq
<1> DEFINE n == Len(s) - 1
<1>2. n \in Nat /\ \A k \in 1 .. n : s[k] \in S  BY <1>1, ElementOfSeq
<1>3. /\ SubSeq(s, 1, n) \in Seq(S)
      /\ Len(SubSeq(s, 1, n)) = IF 1 <= n THEN n - 1 + 1 ELSE 0
      /\ \A k \in 1 .. n - 1 + 1 : SubSeq(s, 1, n)[k] = s[1 + k - 1]
  <2> HIDE DEF n
  <2> QED  BY <1>2, SubSeqProperties
<1>4. Front(s) = SubSeq(s, 1, n) /\ Last(s) = s[Len(s)]  BY DEF Front, Last
<1> HIDE DEF n
<1>5. Len(Front(s)) = n  BY <1>2, <1>3, <1>4
<1>6. ASSUME NEW k \in 1 .. n PROVE Front(s)[k] = s[k]
  <2>1. 1 + k - 1 = k /\ k \in 1 .. n - 1 + 1  BY <1>2
  <2> QED  BY <1>3, <1>4, <2>1
<1> QED  BY <1>1, <1>3, <1>4, <1>5, <1>6 DEF n

\* What the operators on the stack make of it.
LEMMA StackChanges ==
  ASSUME StackOK, stack # <<>>
  PROVE  /\ Top = stack[Len(stack)] /\ Len(stack) \in Nat \ {0} /\ FrameOK(Top)
         /\ stack' = Pop => Popped /\ \E S : stack' \in Seq(S)
         /\ \A f : stack' = SetTop(f) => Replaced(f) /\ \E S : stack' \in Seq(S)
         /\ \A f, g : stack' = SetTop(f) \o <<g>> => Grown(f, g) /\ \E S : stack' \in Seq(S)
<1>1. PICK S : stack \in Seq(S)  BY DEF StackOK
<1> DEFINE n == Len(stack)
<1>2. /\ Pop \in Seq(S) /\ Len(Pop) = n - 1 /\ n \in Nat \ {0} /\ Top = stack[n]
      /\ \A k \in 1 .. n - 1 : Pop[k] = stack[k]
  BY <1>1, FrontIs DEF Pop, Top
<1>3. FrameOK(Top)
  BY <1>2 DEF StackOK
<1>4. stack' = Pop => Popped /\ \E T : stack' \in Seq(T)
  BY <1>2 DEF Popped, Below
<1>5. ASSUME NEW f
      PROVE  /\ SetTop(f) \in Seq(S \cup {f}) /\ Len(SetTop(f)) = n /\ SetTop(f)[n] = f
             /\ \A k \in 1 .. n - 1 : SetTop(f)[k] = stack[k]
  <2>1. Pop \in Seq(S \cup {f})  BY <1>2, SeqMonotonic
  <2>2. /\ Append(Pop, f) \in Seq(S \cup {f}) /\ Len(Append(Pop, f)) = Len(Pop) + 1
        /\ \A k \in 1 .. Len(Pop) : Append(Pop, f)[k] = Pop[k]
        /\ Append(Pop, f)[Len(Pop) + 1] = f
    BY <2>1, AppendProperties
  <2>3. SetTop(f) = Append(Pop, f)  BY DEF SetTop, Pop
  <2> HIDE DEF n
  <2> QED  BY <1>2, <2>2, <2>3
<1>6. ASSUME NEW f, stack' = SetTop(f)
      PROVE  Replaced(f) /\ \E T : stack' \in Seq(T)
  <2>1. /\ stack' \in Seq(S \cup {f}) /\ Len(stack') = n /\ stack'[n] = f
        /\ \A k \in 1 .. n - 1 : stack'[k] = stack[k]
    BY <1>5, <1>6
  <2> QED  BY <2>1 DEF Replaced, Below
<1>7. ASSUME NEW f, NEW g, stack' = SetTop(f) \o <<g>>
      PROVE  Grown(f, g) /\ \E T : stack' \in Seq(T)
  <2> DEFINE t == SetTop(f)
             T == (S \cup {f}) \cup {g}
  <2>1. t \in Seq(T) /\ Len(t) = n /\ t[n] = f /\ \A k \in 1 .. n - 1 : t[k] = stack[k]
    <3>1. /\ t \in Seq(S \cup {f}) /\ Len(t) = n /\ t[n] = f
          /\ \A k \in 1 .. n - 1 : t[k] = stack[k]
      BY <1>5
    <3> HIDE DEF t, n
    <3> QED  BY <3>1, SeqMonotonic
  <2>2. <<g>> \in Seq(T) /\ Len(<<g>>) = 1 /\ <<g>>[1] = g  OBVIOUS
  <2> HIDE DEF t, T
  <2>3. /\ t \o <<g>> \in Seq(T) /\ Len(t \o <<g>>) = Len(t) + Len(<<g>>)
        /\ \A i \in 1 .. Len(t) + Len(<<g>>) :
             (t \o <<g>>)[i] = IF i <= Len(t) THEN t[i] ELSE <<g>>[i - Len(t)]
    BY <2>1, <2>2, ConcatProperties
  <2>4. stack' \in Seq(T) /\ Len(stack') = n + 1
    BY <1>2, <1>7, <2>1, <2>2, <2>3 DEF t
  <2>5. \A i \in 1 .. n + 1 : stack'[i] = IF i <= n THEN t[i] ELSE g
    <3> TAKE i \in 1 .. n + 1
    <3>1. i <= n \/ i - n = 1  BY <1>2
    <3> QED  BY <1>2, <1>7, <2>1, <2>2, <2>3, <3>1 DEF t
  <2>6. \A i \in 1 .. n - 1 : stack'[i] = stack[i]
    BY <1>2, <2>1, <2>5
  <2>7. stack'[n] = f /\ stack'[n + 1] = g
    BY <1>2, <2>1, <2>5
  <2> QED  BY <2>4, <2>6, <2>7 DEF Grown, Below
<1> QED  BY <1>2, <1>3, <1>4, <1>6, <1>7
-----------------------------------------------------------------------------
(* What a step does, as far as the invariant sees it                       *)

\* A frame that differs in what nothing counts.
SameFrame(f, g) ==
  /\ FrameOK(g) /\ g.type = f.type
  /\ f.type = "emission" => g.balance = f.balance /\ g.token = f.token
  /\ f.type = "dispatch" => g.cash = f.cash /\ g.at = f.at /\ g.serving = f.serving
  /\ f.type = "callback" => g.mod = f.mod

\* The record of mod m has new depths; its allowance is shared.
ModChange(m, events, callbacks) ==
  /\ m \in Mod /\ DOMAIN mods' = Mod /\ \A k \in Mod \ {m} : mods'[k] = mods[k]
  /\ DOMAIN mods'[m] = ModFields
  /\ mods'[m].events = events /\ mods'[m].callbacks = callbacks
  /\ mods'[m].budget \in 0 .. Allowance /\ mods'[m].failure \in BOOLEAN
  /\ mods[m].callbacks > 0 =>
       mods'[m].budget <= mods[m].budget /\ (mods[m].failure => mods'[m].failure)
SameDepths ==
  mods' = mods \/ \E m \in Mod : ModChange(m, mods[m].events, mods[m].callbacks)

Touches ==
  /\ captures' = captures /\ SameDepths
  /\ \/ stack' = stack
     \/ stack # <<>> /\ \E g : Replaced(g) /\ SameFrame(Top, g)
Raises ==
  /\ mods' = mods
  /\ \E b \in Balance \cup {NotFinite} : 
       /\ Capture(b)
       /\ \/ Started(Emission(b, CaptureToken(b)))
          \/ /\ stack # <<>> /\ Top.type # "dispatch"
             /\ \E g : Grown(g, Emission(b, CaptureToken(b))) /\ SameFrame(Top, g)
Delivers ==
  /\ captures' = captures /\ mods' = mods
  /\ \E d : /\ DispatchOK(d) /\ ~d.serving
            /\ \/ Started(d)
               \/ /\ stack # <<>> /\ Top.type = "emission" /\ d.cash = Captured(Top.token)
                  /\ \E g : Grown(g, d) /\ SameFrame(Top, g)
Settles ==
  /\ stack # <<>> /\ Top.type = "emission" /\ Popped
  /\ Release(Top.token) /\ mods' = mods
Turns ==
  /\ captures' = captures
  /\ stack # <<>> /\ Top.type = "dispatch"
  /\ \/ Popped
     \/ \E g : Replaced(g) /\ DispatchOK(g) /\ ~g.serving /\ g.cash = Top.cash
  /\ IF Top.serving
     THEN ModChange(Served(Top), mods[Served(Top)].events - 1, mods[Served(Top)].callbacks)
     ELSE mods' = mods
Enters ==
  /\ captures' = captures
  /\ stack # <<>> /\ Top.type = "dispatch" /\ ~Top.serving
  /\ \E g : /\ Replaced(g) /\ DispatchOK(g) /\ g.serving
            /\ g.cash = Top.cash /\ g.at = Top.at
  /\ mods[Served(Top)].events < EventLimit
  /\ ModChange(Served(Top), mods[Served(Top)].events + 1, mods[Served(Top)].callbacks)
Calls ==
  /\ captures' = captures
  /\ \E c : /\ CallbackOK(c)
            /\ c.token # 0 => Find(mods[c.mod].handlers, c.token) # {}
            /\ ModChange(c.mod, mods[c.mod].events, mods[c.mod].callbacks + 1)
            /\ \/ Started(c)
               \/ /\ stack # <<>> /\ Top.type = "dispatch" /\ Top.serving /\ c.mod = Served(Top)
                  /\ \E g : Grown(g, c) /\ SameFrame(Top, g)
Returns ==
  /\ captures' = captures
  /\ stack # <<>> /\ Top.type = "callback" /\ Popped
  /\ ModChange(Top.mod, mods[Top.mod].events, mods[Top.mod].callbacks - 1)

\* The types of frames tell them apart.
LEMMA FrameTypes ==
  ASSUME NEW f, FrameOK(f)
  PROVE  /\ f.type = "emission" => EmissionOK(f)
         /\ f.type = "dispatch" => DispatchOK(f) /\ Served(f) \in Mod
         /\ f.type = "callback" => CallbackOK(f)
<1>1. DispatchOK(f) => Served(f) \in Mod
  BY ProfileAssumption, ElementOfSeq DEF DispatchOK, Served
<1> QED  BY <1>1 DEF FrameOK, EmissionOK, DispatchOK, CallbackOK

\* A stack of one frame.
LEMMA StartChanges ==
  ASSUME NEW g, stack = <<>>, stack' = <<g>>
  PROVE  Started(g) /\ stack' \in Seq({g})
  BY DEF Started

\* New frames are well formed.
LEMMA NewEmission ==
  ASSUME CapturesOK, NEW b \in Balance \cup {NotFinite}
  PROVE  EmissionOK(Emission(b, CaptureToken(b)))
<1>1. CaptureToken(b) \in 0 .. Slots
  BY LimitAssumption DEF CapturesOK, CaptureToken
<1> QED  BY <1>1 DEF EmissionOK, Emission

LEMMA NewDispatch ==
  ASSUME NEW e \in Event, NEW c
  PROVE  DispatchOK(Dispatch(e, c)) /\ ~Dispatch(e, c).serving /\ Dispatch(e, c).cash = c
<1>1. Cardinality(Mod) \in Nat /\ Cardinality(Mod) # 0
  BY ProfileAssumption, FS_EmptySet, FS_CardinalityType
<1>2. 1 \in 1 .. Len(Profile)
  BY <1>1, ProfileAssumption
<1> QED  BY <1>2 DEF DispatchOK, Dispatch

LEMMA NewCallback ==
  ASSUME NEW m \in Mod, NEW t
  PROVE  CallbackOK(Callback(m, t)) /\ Callback(m, t).mod = m /\ Callback(m, t).token = t
  BY DEF CallbackOK, Callback

\* EveryStep, action by action.
LEMMA EmissionActions ==
  ASSUME ModsOK, StackOK, CapturesOK,
         EmissionStep \/ (\E b \in Balance \cup {NotFinite} : GameRaises(b))
           \/ (\E e \in OtherEvent : GameNotifies(e))
  PROVE  (Raises \/ Delivers \/ Settles \/ Touches) /\ \E S : stack' \in Seq(S)
<1>1. ASSUME NEW b \in Balance \cup {NotFinite}, GameRaises(b)
      PROVE  Raises /\ \E S : stack' \in Seq(S)
  <2>1. stack = <<>> /\ stack' = <<Emission(b, CaptureToken(b))>> /\ mods' = mods /\ Capture(b)
    BY <1>1 DEF GameRaises, Raise, Push
  <2> QED  BY <2>1, StartChanges DEF Raises
<1>2. ASSUME NEW e \in OtherEvent, GameNotifies(e)
      PROVE  Delivers /\ \E S : stack' \in Seq(S)
  <2>1. stack = <<>> /\ stack' = <<Dispatch(e, NoCash)>> /\ mods' = mods /\ captures' = captures
    BY <1>2 DEF GameNotifies
  <2>2. e \in Event  BY DEF Event
  <2>3. DispatchOK(Dispatch(e, NoCash)) /\ ~Dispatch(e, NoCash).serving
    BY <2>2, NewDispatch
  <2> QED  BY <2>1, <2>3, StartChanges DEF Delivers
<1>3. ASSUME Running("emission"), NEW p \in {"observed", "native", "release"}
      PROVE  /\ SameFrame(Top, [Top EXCEPT !.phase = p])
             /\ stack # <<>> /\ Top.type = "emission"
             /\ [Top EXCEPT !.phase = p].token = Top.token
  <2>1. stack # <<>> /\ EmissionOK(Top)
    BY <1>3, StackChanges, FrameTypes DEF Running
  <2> HIDE DEF Top
  <2> QED  BY <2>1 DEF EmissionOK, SameFrame, FrameOK
<1>4. ASSUME NEW p \in {"native", "release"}, NEW e \in Event, Running("emission"),
             Deliver([Top EXCEPT !.phase = p], e), UNCHANGED <<mods, captures>>
      PROVE  (Delivers \/ Touches) /\ \E S : stack' \in Seq(S)
  <2> DEFINE f == [Top EXCEPT !.phase = p]
  <2>1. SameFrame(Top, f) /\ stack # <<>> /\ Top.type = "emission" /\ f.token = Top.token
    BY <1>3, <1>4
  <2> HIDE DEF f
  <2>2. CASE stack' = SetTop(f)
    BY <1>4, <2>1, <2>2, StackChanges DEF Touches, SameDepths
  <2>3. CASE stack' = SetTop(f) \o <<Dispatch(e, Captured(f.token))>>
    <3> DEFINE d == Dispatch(e, Captured(f.token))
    <3>1. DispatchOK(d) /\ ~d.serving /\ d.cash = Captured(Top.token)
      BY <2>1, NewDispatch
    <3>2. Grown(f, d) /\ \E S : stack' \in Seq(S)
      BY <2>1, <2>3, StackChanges
    <3> HIDE DEF d
    <3> QED  BY <1>4, <2>1, <3>1, <3>2 DEF Delivers
  <2> QED  BY <1>4, <2>2, <2>3 DEF Deliver, f
<1>5. EmitChanging \/ EmitChanged => (Delivers \/ Touches) /\ \E S : stack' \in Seq(S)
  BY <1>4 DEF EmitChanging, EmitChanged, Event
<1>6. ASSUME NEW b \in Balance \cup {NotFinite}, ObserverRaises(b)
      PROVE  Raises /\ \E S : stack' \in Seq(S)
  <2> DEFINE f == [Top EXCEPT !.phase = "observed"]
             g == Emission(b, CaptureToken(b))
  <2>1. SameFrame(Top, f) /\ stack # <<>> /\ Top.type = "emission"
    BY <1>3, <1>6 DEF ObserverRaises
  <2>2. stack' = SetTop(f) \o <<g>> /\ Capture(b) /\ mods' = mods
    BY <1>6 DEF ObserverRaises
  <2> HIDE DEF f, g
  <2>3. Grown(f, g) /\ \E S : stack' \in Seq(S)
    BY <2>1, <2>2, StackChanges
  <2> QED  BY <2>1, <2>2, <2>3 DEF Raises, g
<1>7. EmissionReturns => Settles /\ \E S : stack' \in Seq(S)
  BY StackChanges DEF EmissionReturns, Settles, Running
<1> QED  BY <1>1, <1>2, <1>5, <1>6, <1>7 DEF EmissionStep

\* The records of the mods under the updates of the actions.
LEMMA ModUpdates ==
  ASSUME ModsOK, NEW m \in Mod
  PROVE  /\ \A e : mods' = [mods EXCEPT ![m].events = e]
              => ModChange(m, e, mods[m].callbacks)
         /\ \A h : mods' = [mods EXCEPT ![m].handlers = h]
              => ModChange(m, mods[m].events, mods[m].callbacks)
         /\ \A e, h : mods' = [mods EXCEPT ![m].events = e, ![m].handlers = h]
              => ModChange(m, e, mods[m].callbacks)
         /\ \A n, h : mods' = [mods EXCEPT ![m].next = n, ![m].handlers = h]
              => ModChange(m, mods[m].events, mods[m].callbacks)
<1> DEFINE Same(x) ==
      /\ DOMAIN x = Mod /\ \A k \in Mod \ {m} : x[k] = mods[k]
      /\ DOMAIN x[m] = ModFields /\ x[m].budget = mods[m].budget
      /\ x[m].failure = mods[m].failure /\ x[m].callbacks = mods[m].callbacks
<1>1. ASSUME NEW e, mods' = [mods EXCEPT ![m].events = e]
      PROVE  Same(mods') /\ mods'[m].events = e
  BY <1>1 DEF ModsOK, ModOK, ModFields
<1>2. ASSUME NEW h, mods' = [mods EXCEPT ![m].handlers = h]
      PROVE  Same(mods') /\ mods'[m].events = mods[m].events
  BY <1>2 DEF ModsOK, ModOK, ModFields
<1>3. ASSUME NEW e, NEW h, mods' = [mods EXCEPT ![m].events = e, ![m].handlers = h]
      PROVE  Same(mods') /\ mods'[m].events = e
  BY <1>3 DEF ModsOK, ModOK, ModFields
<1>4. ASSUME NEW n, NEW h, mods' = [mods EXCEPT ![m].next = n, ![m].handlers = h]
      PROVE  Same(mods') /\ mods'[m].events = mods[m].events
  BY <1>4 DEF ModsOK, ModOK, ModFields
<1>5. ASSUME Same(mods')
      PROVE  ModChange(m, mods'[m].events, mods[m].callbacks)
  BY <1>5, LimitAssumption DEF ModsOK, ModOK, ModChange
<1> HIDE DEF Same
<1> QED  BY <1>1, <1>2, <1>3, <1>4, <1>5

\* A callback is entered.
LEMMA EnteredChanges ==
  ASSUME ModsOK, NEW m \in Mod, mods' = [mods EXCEPT ![m] = Entered(mods[m])]
  PROVE  ModChange(m, mods[m].events, mods[m].callbacks + 1)
<1> DEFINE r == mods[m]
           e == Entered(r)
<1>1. ModOK(m) /\ DOMAIN mods = Mod  BY DEF ModsOK
<1>2. DOMAIN mods' = Mod /\ mods'[m] = e /\ \A k \in Mod \ {m} : mods'[k] = mods[k]
  BY <1>1
<1>3. /\ DOMAIN e = ModFields /\ e.events = r.events /\ e.callbacks = r.callbacks + 1
      /\ e.budget \in 0 .. Allowance /\ e.failure \in BOOLEAN
      /\ r.callbacks > 0 => e.budget = r.budget /\ e.failure = r.failure
  <2>1. /\ DOMAIN r = ModFields /\ r.budget \in 0 .. Allowance /\ r.failure \in BOOLEAN
        /\ r.callbacks \in Nat
    BY <1>1 DEF ModOK
  <2> HIDE DEF r
  <2>2. CASE r.callbacks = 0
    <3>1. e = [r EXCEPT !.callbacks = 1, !.budget = Allowance, !.failure = FALSE]
      BY <2>2 DEF Entered
    <3>2. /\ DOMAIN e = ModFields /\ e.events = r.events /\ e.callbacks = 1
          /\ e.budget = Allowance /\ e.failure = FALSE
      BY <2>1, <3>1 DEF ModFields
    <3>3. Allowance \in 0 .. Allowance  BY LimitAssumption
    <3> HIDE DEF e
    <3>4. e.failure \in BOOLEAN  BY <3>2, Zenon
    <3>5. e.budget \in 0 .. Allowance  BY <3>2, <3>3, Zenon
    <3>6. e.callbacks = r.callbacks + 1 /\ ~(r.callbacks > 0)  BY <2>2, <3>2
    <3> QED  BY <3>2, <3>4, <3>5, <3>6, Zenon
  <2>3. CASE r.callbacks # 0
    <3>1. e = [r EXCEPT !.callbacks = r.callbacks + 1]
      BY <2>1, <2>3 DEF Entered, ModFields
    <3>2. /\ DOMAIN e = ModFields /\ e.events = r.events /\ e.callbacks = r.callbacks + 1
          /\ e.budget = r.budget /\ e.failure = r.failure
      BY <2>1, <3>1 DEF ModFields
    <3> HIDE DEF e
    <3> QED  BY <2>1, <3>2
  <2> QED  BY <2>2, <2>3
<1>4. r.budget \in Nat  BY <1>1, LimitAssumption DEF ModOK
<1> QED  BY <1>2, <1>3, <1>4 DEF ModChange

\* The loop over the profile: the frame is done, or serves the next mod.
LEMMA NextModTurns ==
  ASSUME StackOK, Running("dispatch"), stack' = NextMod(Top)
  PROVE  /\ \/ Popped
            \/ \E g : Replaced(g) /\ DispatchOK(g) /\ ~g.serving /\ g.cash = Top.cash
         /\ \E S : stack' \in Seq(S)
<1>1. stack # <<>> /\ DispatchOK(Top)
  BY StackChanges, FrameTypes DEF Running
<1>2. CASE Top.at = Len(Profile)
  BY <1>1, <1>2, StackChanges DEF NextMod
<1>3. CASE Top.at # Len(Profile)
  <2> DEFINE f == Top
             g == [f EXCEPT !.at = @ + 1, !.serving = FALSE, !.queue = <<>>,
                            !.last = 0, !.first = 0]
  <2>1. stack' = SetTop(g)  BY <1>3 DEF NextMod
  <2>2. Len(Profile) \in Nat  BY ProfileAssumption
  <2>3. DispatchOK(f) /\ f.at # Len(Profile)  BY <1>1, <1>3
  <2> HIDE DEF f
  <2>4. DispatchOK(g) /\ ~g.serving /\ g.cash = f.cash
    BY <2>2, <2>3 DEF DispatchOK
  <2> HIDE DEF g
  <2> QED  BY <1>1, <2>1, <2>4, StackChanges DEF f
<1> QED  BY <1>2, <1>3

LEMMA DispatchActions ==
  ASSUME ModsOK, StackOK, CapturesOK, DispatchStep
  PROVE  (Turns \/ Enters \/ Touches \/ Calls) /\ \E S : stack' \in Seq(S)
<1>1. ASSUME Running("dispatch")
      PROVE  stack # <<>> /\ DispatchOK(Top) /\ Top.type = "dispatch" /\ Served(Top) \in Mod
  BY <1>1, StackChanges, FrameTypes DEF Running
<1>2. ASSUME DispatchRefused PROVE Turns /\ \E S : stack' \in Seq(S)
  BY <1>1, <1>2, NextModTurns DEF DispatchRefused, Turns
<1>3. ASSUME DispatchLeaves \/ DispatchBreaks PROVE Turns /\ \E S : stack' \in Seq(S)
  <2> DEFINE m == Served(Top)
  <2>1. /\ Running("dispatch") /\ Top.serving /\ stack' = NextMod(Top)
        /\ captures' = captures
    BY <1>3 DEF DispatchLeaves, DispatchBreaks
  <2>2. \E h : \/ mods' = [mods EXCEPT ![m].events = mods[m].events - 1, ![m].handlers = h]
               \/ mods' = [mods EXCEPT ![m].events = mods[m].events - 1]
    <3>1. CASE DispatchLeaves
      <4>1. mods' = [mods EXCEPT ![m].events = mods[m].events - 1,
                                 ![m].handlers = EraseDisabled(mods[m].handlers)]
        BY <1>1, <2>1, <3>1 DEF DispatchLeaves, ModsOK, ModOK, ModFields
      <4> QED  BY <4>1
    <3>2. CASE DispatchBreaks
      BY <1>1, <2>1, <3>2 DEF DispatchBreaks, ModsOK
    <3> QED  BY <1>3, <3>1, <3>2
  <2>3. m \in Mod  BY <1>1, <2>1
  <2> HIDE DEF m
  <2>4. ModChange(m, mods[m].events - 1, mods[m].callbacks)
    BY <2>2, <2>3, ModUpdates
  <2> QED  BY <1>1, <2>1, <2>4, NextModTurns DEF Turns, m
<1>4. ASSUME DispatchEnters PROVE Enters /\ \E S : stack' \in Seq(S)
  <2> DEFINE f == Top
             m == Served(f)
             g == [f EXCEPT !.serving = TRUE, !.first = mods[m].next,
                            !.queue = Snapshot(mods[m].handlers, f.event)]
  <2>1. /\ Running("dispatch") /\ ~f.serving /\ stack' = SetTop(g)
        /\ mods[m].events < EventLimit /\ captures' = captures
        /\ mods' = [mods EXCEPT ![m].events = @ + 1]
    BY <1>4 DEF DispatchEnters
  <2>2. stack # <<>> /\ DispatchOK(f) /\ f.type = "dispatch" /\ m \in Mod
    BY <1>1, <2>1
  <2>3. mods' = [mods EXCEPT ![m].events = mods[m].events + 1]
    BY <2>1, <2>2 DEF ModsOK
  <2> HIDE DEF f, m
  <2>4. DispatchOK(g) /\ g.serving /\ g.cash = f.cash /\ g.at = f.at
    BY <2>2 DEF DispatchOK
  <2> HIDE DEF g
  <2>5. Replaced(g) /\ \E S : stack' \in Seq(S)
    BY <2>1, <2>2, StackChanges
  <2>6. ModChange(m, mods[m].events + 1, mods[m].callbacks)
    BY <2>2, <2>3, ModUpdates
  <2> QED  BY <2>1, <2>2, <2>4, <2>5, <2>6 DEF Enters, f, m
<1>5. ASSUME Running("dispatch") PROVE SameFrame(Top, Serve(Top))
  <2> DEFINE f == Top
  <2>1. DispatchOK(f)  BY <1>1, <1>5
  <2> HIDE DEF f
  <2>2. SameFrame(f, Serve(f))  BY <2>1 DEF DispatchOK, SameFrame, FrameOK, Serve
  <2> QED  BY <2>2 DEF f
<1>6. ASSUME HandlerSkipped PROVE Touches /\ \E S : stack' \in Seq(S)
  <2>1. Running("dispatch") /\ stack' = SetTop(Serve(Top)) /\ mods' = mods /\ captures' = captures
    BY <1>6 DEF HandlerSkipped
  <2> QED  BY <1>1, <1>5, <2>1, StackChanges DEF Touches, SameDepths
<1>7. ASSUME NEW late \in BOOLEAN, HandlerRefused(late)
      PROVE  Touches /\ \E S : stack' \in Seq(S)
  <2> DEFINE m == Served(Top)
             h == Disable(mods[m].handlers, Head(Top.queue))
  <2>1. Running("dispatch") /\ stack' = SetTop(Serve(Top)) /\ captures' = captures
    BY <1>7 DEF HandlerRefused
  <2>2. mods' = [mods EXCEPT ![m].failure = @ \/ late,
                             ![m].handlers = Disable(@, Head(Top.queue))]
    BY <1>7 DEF HandlerRefused
  <2>3. m \in Mod  BY <1>1, <2>1
  <2>4. \E x : mods' = [mods EXCEPT ![m].failure = @ \/ late, ![m].handlers = x]
    BY <2>2, <2>3 DEF ModsOK, ModOK, ModFields
  <2> HIDE DEF m
  <2>5. ModChange(m, mods[m].events, mods[m].callbacks)
    BY <2>3, <2>4 DEF ModsOK, ModOK, ModFields, ModChange
  <2>6. Replaced(Serve(Top)) /\ \E S : stack' \in Seq(S)
    BY <1>1, <2>1, StackChanges
  <2> QED  BY <1>1, <1>5, <2>1, <2>3, <2>5, <2>6 DEF Touches, SameDepths
<1>8. ASSUME HandlerCalled PROVE Calls /\ \E S : stack' \in Seq(S)
  <2> DEFINE m == Served(Top)
             c == Callback(m, Head(Top.queue))
  <2>1. /\ Running("dispatch") /\ Top.serving /\ stack' = SetTop(Serve(Top)) \o <<c>>
        /\ captures' = captures /\ mods' = [mods EXCEPT ![m] = Entered(mods[m])]
        /\ Find(mods[m].handlers, Head(Top.queue)) # {}
    BY <1>1, <1>8 DEF HandlerCalled, ModsOK
  <2>2. m \in Mod  BY <1>1, <2>1
  <2>3. ModChange(m, mods[m].events, mods[m].callbacks + 1)
    BY <2>1, <2>2, EnteredChanges
  <2>4. CallbackOK(c) /\ c.mod = m /\ c.token = Head(Top.queue)
    BY <2>2, NewCallback
  <2>5. Grown(Serve(Top), c) /\ \E S : stack' \in Seq(S)
    BY <1>1, <2>1, StackChanges
  <2> HIDE DEF c, m
  <2> QED  BY <1>1, <1>5, <2>1, <2>3, <2>4, <2>5 DEF Calls, m
<1> QED  BY <1>2, <1>3, <1>4, <1>6, <1>7, <1>8 DEF DispatchStep

LEMMA CallbackActions ==
  ASSUME ModsOK, StackOK, CapturesOK,
         CallbackStep \/ (\E m \in Mod : HostCalls(m)) \/ StopRequested
  PROVE  (Touches \/ Raises \/ Calls \/ Returns) /\ \E S : stack' \in Seq(S)
<1>1. ASSUME Running("callback")
      PROVE  stack # <<>> /\ CallbackOK(Top) /\ Top.type = "callback" /\ Top.mod \in Mod
  BY <1>1, StackChanges, FrameTypes DEF Running, CallbackOK
<1>2. ASSUME Running("callback"), NEW x \in BOOLEAN
      PROVE  SameFrame(Top, [Top EXCEPT !.credit = x])
  <2> DEFINE f == Top
  <2>1. CallbackOK(f)  BY <1>1, <1>2
  <2> HIDE DEF f
  <2>2. SameFrame(f, [f EXCEPT !.credit = x])  BY <2>1 DEF CallbackOK, SameFrame, FrameOK
  <2> QED  BY <2>2 DEF f
<1>3. ASSUME ApiCall PROVE Running("callback") /\ SameFrame(Top, Spent)
  BY <1>2, <1>3 DEF ApiCall, Spent
<1>4. ASSUME NEW late \in BOOLEAN, InstructionHook(late)
      PROVE  Touches /\ \E S : stack' \in Seq(S)
  <2> DEFINE m == Top.mod
             b == IF mods[m].budget <= 1 THEN 0 ELSE mods[m].budget - 1
             x == mods[m].failure \/ mods[m].budget <= 1 \/ late
             y == Top.credit \/ ~mods[m].failure
             g == [Top EXCEPT !.credit = y]
  <2>1. Running("callback") /\ captures' = captures
        /\ stack' = SetTop([Top EXCEPT !.credit = @ \/ ~mods[Top.mod].failure])
    BY <1>4 DEF InstructionHook
  <2>2. mods' = [mods EXCEPT ![m].budget = IF mods[m].budget <= 1 THEN 0 ELSE @ - 1,
                             ![m].failure = @ \/ mods[m].budget <= 1 \/ late]
    BY <1>4 DEF InstructionHook
  <2>3. m \in Mod  BY <1>1, <2>1
  <2>4. mods' = [mods EXCEPT ![m].budget = b, ![m].failure = x]
    BY <2>2, <2>3 DEF ModsOK, ModOK, ModFields
  <2>5. SameFrame(Top, g) /\ stack' = SetTop(g) /\ stack # <<>>
    <3>1. y \in BOOLEAN  BY <1>1, <2>1 DEF CallbackOK
    <3>2. CallbackOK(Top)  BY <1>1, <2>1
    <3>3. [Top EXCEPT !.credit = @ \/ ~mods[Top.mod].failure] = g
      BY <3>2 DEF CallbackOK
    <3> QED  BY <1>1, <1>2, <2>1, <3>1, <3>3
  <2>6. b \in 0 .. Allowance /\ b <= mods[m].budget /\ x \in BOOLEAN /\ (mods[m].failure => x)
    BY <2>3, LimitAssumption DEF ModsOK, ModOK
  <2> HIDE DEF m, b, x, g
  <2>7. ModChange(m, mods[m].events, mods[m].callbacks)
    BY <2>3, <2>4, <2>6 DEF ModsOK, ModOK, ModFields, ModChange
  <2>8. Replaced(g) /\ \E S : stack' \in Seq(S)
    BY <2>5, StackChanges
  <2> QED  BY <2>1, <2>3, <2>5, <2>7, <2>8 DEF Touches, SameDepths
<1>5. ASSUME ApiCall, stack' = SetTop(Spent), captures' = captures, SameDepths
      PROVE  Touches /\ \E S : stack' \in Seq(S)
  BY <1>1, <1>3, <1>5, StackChanges DEF Touches
<1>6. ASSUME NEW e \in Event, EventOn(e)
      PROVE  ApiCall /\ stack' = SetTop(Spent) /\ captures' = captures /\ SameDepths
  <2> DEFINE m == Top.mod
  <2>1. ApiCall /\ captures' = captures /\ stack' = SetTop(Spent) /\ m \in Mod
    BY <1>1, <1>6 DEF EventOn, ApiCall
  <2>2. mods' = [mods EXCEPT ![m].next = @ + 1, ![m].handlers =
                   Append(@, [token |-> mods[m].next, event |-> e, enabled |-> TRUE])]
    BY <1>6 DEF EventOn
  <2>3. \E n, h : mods' = [mods EXCEPT ![m].next = n, ![m].handlers = h]
    BY <2>1, <2>2 DEF ModsOK, ModOK, ModFields
  <2> HIDE DEF m
  <2> QED  BY <2>1, <2>3, ModUpdates DEF SameDepths
<1>7. ASSUME NEW t \in 1 .. MaxToken, EventOff(t)
      PROVE  ApiCall /\ stack' = SetTop(Spent) /\ captures' = captures /\ SameDepths
  <2> DEFINE m == Top.mod
  <2>1. ApiCall /\ captures' = captures /\ stack' = SetTop(Spent) /\ m \in Mod
    BY <1>1, <1>7 DEF EventOff, ApiCall
  <2>2. mods' = [mods EXCEPT ![m].handlers = Disable(@, t)]
    BY <1>7 DEF EventOff
  <2>3. \E h : mods' = [mods EXCEPT ![m].handlers = h]
    BY <2>1, <2>2 DEF ModsOK
  <2> HIDE DEF m
  <2> QED  BY <2>1, <2>3, ModUpdates DEF SameDepths
<1>8. ASSUME NEW b \in Balance, SetCash(b) PROVE Raises /\ \E S : stack' \in Seq(S)
  <2> DEFINE g == Emission(b, CaptureToken(b))
  <2>1. ApiCall /\ stack' = SetTop(Spent) \o <<g>> /\ Capture(b) /\ mods' = mods
    BY <1>8 DEF SetCash
  <2>2. stack # <<>> /\ Top.type = "callback" /\ SameFrame(Top, Spent)
    BY <1>1, <1>3, <2>1
  <2>3. Grown(Spent, g) /\ \E S : stack' \in Seq(S)
    BY <2>1, <2>2, StackChanges
  <2> QED  BY <2>1, <2>2, <2>3 DEF Raises
<1>9. ASSUME NEW failed \in BOOLEAN, NEW late \in BOOLEAN, CallbackReturns(failed, late)
      PROVE  Returns /\ \E S : stack' \in Seq(S)
  <2> DEFINE m == Top.mod
             x == mods[m].failure \/ late
  <2>1. Running("callback") /\ stack' = Pop /\ captures' = captures
    BY <1>9 DEF CallbackReturns
  <2>2. mods' = [mods EXCEPT ![m].callbacks = @ - 1, ![m].failure = @ \/ late,
                   ![m].handlers = IF failed \/ late \/ mods[m].failure
                                   THEN Disable(@, Top.token) ELSE @]
    BY <1>9 DEF CallbackReturns
  <2>3. m \in Mod  BY <1>1, <2>1
  <2>4. \E h : mods' = [mods EXCEPT ![m].callbacks = mods[m].callbacks - 1,
                                ![m].failure = x, ![m].handlers = h]
    BY <2>2, <2>3 DEF ModsOK, ModOK, ModFields
  <2>5. x \in BOOLEAN /\ (mods[m].failure => x)  BY <2>3 DEF ModsOK, ModOK
  <2> HIDE DEF m, x
  <2>6. ModChange(m, mods[m].events, mods[m].callbacks - 1)
    BY <2>3, <2>4, <2>5, LimitAssumption DEF ModsOK, ModOK, ModFields, ModChange
  <2> QED  BY <1>1, <2>1, <2>6, StackChanges DEF Returns, m
<1>10. ASSUME NEW m \in Mod, HostCalls(m) PROVE Calls /\ \E S : stack' \in Seq(S)
  <2> DEFINE c == Callback(m, 0)
  <2>1. /\ stack = <<>> /\ stack' = <<c>> /\ captures' = captures
        /\ mods' = [mods EXCEPT ![m] = Entered(mods[m])]
    BY <1>10 DEF HostCalls, ModsOK
  <2>2. CallbackOK(c) /\ c.mod = m /\ c.token = 0  BY NewCallback
  <2>3. ModChange(m, mods[m].events, mods[m].callbacks + 1)
    BY <2>1, EnteredChanges
  <2>4. Started(c) /\ stack' \in Seq({c})  BY <2>1, StartChanges
  <2> HIDE DEF c
  <2> QED  BY <2>1, <2>2, <2>3, <2>4 DEF Calls
<1>11. ASSUME StopRequested PROVE Touches /\ \E S : stack' \in Seq(S)
  BY <1>11 DEF StopRequested, Touches, SameDepths, StackOK
<1> QED  BY <1>4, <1>5, <1>6, <1>7, <1>8, <1>9, <1>10, <1>11 DEF CallbackStep

\* Every step is of one of the kinds.
LEMMA EveryStep ==
  ASSUME ModsOK, StackOK, CapturesOK, [Next]_vars
  PROVE  /\ Touches \/ Raises \/ Delivers \/ Settles \/ Turns \/ Enters \/ Calls \/ Returns
         /\ \E S : stack' \in Seq(S)
<1>1. UNCHANGED vars => Touches /\ \E S : stack' \in Seq(S)
  BY DEF vars, Touches, SameDepths, StackOK
<1> QED
  BY <1>1, EmissionActions, DispatchActions, CallbackActions DEF Next, FrameStep
-----------------------------------------------------------------------------
(* The frames a step keeps, and what is counted of them                    *)

Kept(k) ==
  /\ k \in 0 .. Len(stack) /\ k <= Len(stack')
  /\ \A i \in 1 .. k : SameFrame(stack[i], stack'[i])

LEMMA KeptFrames ==
  ASSUME StackOK, \E S : stack' \in Seq(S)
  PROVE  /\ Len(stack) \in Nat /\ Len(stack') \in Nat
         /\ stack # <<>> => Len(stack) # 0 /\ Top = stack[Len(stack)]
         /\ stack # <<>> /\ Popped => Kept(Len(stack) - 1) /\ Len(stack') = Len(stack) - 1
         /\ \A g : stack # <<>> /\ Replaced(g) => Kept(Len(stack) - 1)
         /\ \A g : stack # <<>> /\ Replaced(g) /\ SameFrame(Top, g) => Kept(Len(stack))
         /\ \A f, g : stack # <<>> /\ Grown(f, g) /\ SameFrame(Top, f) => Kept(Len(stack))
         /\ \A g : Started(g) => Kept(Len(stack)) /\ Len(stack) = 0
         /\ stack' = stack => Kept(Len(stack))
<1>1. Len(stack) \in Nat /\ Len(stack') \in Nat
  BY DEF StackOK
<1>2. stack # <<>> => Len(stack) # 0 /\ Top = stack[Len(stack)]
  BY StackChanges
<1>3. stack = <<>> => Len(stack) = 0  OBVIOUS
<1>4. \A i \in 1 .. Len(stack) : stack'[i] = stack[i] => SameFrame(stack[i], stack'[i])
  BY DEF StackOK, SameFrame
<1> DEFINE n == Len(stack)
           p == Len(stack')
<1> HIDE DEF n, p
<1> QED  BY <1>1, <1>2, <1>3, <1>4 DEF Kept, Popped, Replaced, Grown, Started, Below, n, p

\* Kept frames are counted alike.
LEMMA KeptSets ==
  ASSUME StackOK, \E S : stack' \in Seq(S), NEW k, Kept(k), NEW i \in 1 .. k
  PROVE  /\ FrameOK(stack'[i]) /\ stack'[i].type = stack[i].type
         /\ i \in FramesOf("emission")' <=> i \in FramesOf("emission")
         /\ i \in FramesOf("dispatch")' <=> i \in FramesOf("dispatch")
         /\ i \in Holding' <=> i \in Holding
         /\ \A m \in Mod : i \in ServingFor(m)' <=> i \in ServingFor(m)
         /\ \A m \in Mod : i \in CallbacksOf(m)' <=> i \in CallbacksOf(m)
         /\ stack[i].type = "emission" =>
              stack'[i].token = stack[i].token /\ stack'[i].balance = stack[i].balance
         /\ stack[i].type = "dispatch" => stack'[i].cash = stack[i].cash
         /\ stack[i].type = "callback" => stack'[i].mod = stack[i].mod
<1>1. SameFrame(stack[i], stack'[i]) /\ i \in 1 .. Len(stack) /\ i \in 1 .. Len(stack')
  BY KeptFrames DEF Kept
<1> QED  BY <1>1 DEF SameFrame, FramesOf, Holding, ServingFor, CallbacksOf, Served

\* A new frame on top.
LEMMA Placed ==
  ASSUME StackOK, \E S : stack' \in Seq(S), NEW e,
         Started(e) \/ (stack # <<>> /\ \E g : Grown(g, e) /\ SameFrame(Top, g))
  PROVE  Kept(Len(stack)) /\ Len(stack') = Len(stack) + 1 /\ stack'[Len(stack')] = e
<1>1. Started(e) => Kept(Len(stack)) /\ Len(stack') = Len(stack) + 1 /\ stack'[Len(stack')] = e
  BY KeptFrames DEF Started
<1>2. ASSUME stack # <<>>, NEW g, Grown(g, e), SameFrame(Top, g)
      PROVE  Kept(Len(stack)) /\ Len(stack') = Len(stack) + 1 /\ stack'[Len(stack')] = e
  BY <1>2, KeptFrames DEF Grown
<1> QED  BY <1>1, <1>2

\* What the step kinds keep, and what they put on top.
LEMMA Tops ==
  ASSUME StackOK, \E S : stack' \in Seq(S)
  PROVE  LET n == Len(stack)
             p == Len(stack')
         IN  /\ Touches => Kept(n) /\ p = n
             /\ Raises => /\ Kept(n) /\ p = n + 1
                          /\ \E b \in Balance \cup {NotFinite} :
                               Capture(b) /\ stack'[p] = Emission(b, CaptureToken(b))
             /\ Delivers => /\ Kept(n) /\ p = n + 1
                            /\ DispatchOK(stack'[p]) /\ ~stack'[p].serving
                            /\ n # 0 => stack[n].type = "emission"
                                        /\ stack'[p].cash = Captured(stack[n].token)
             /\ Settles => n # 0 /\ Kept(n - 1) /\ p = n - 1
             /\ Turns => /\ n # 0 /\ Kept(n - 1)
                         /\ \/ p = n - 1
                            \/ /\ p = n /\ DispatchOK(stack'[n]) /\ ~stack'[n].serving
                               /\ stack'[n].cash = stack[n].cash
             /\ Enters => /\ n # 0 /\ Kept(n - 1) /\ p = n
                          /\ DispatchOK(stack'[n]) /\ stack'[n].serving
                          /\ stack'[n].cash = stack[n].cash /\ stack'[n].at = stack[n].at
             /\ Calls => /\ Kept(n) /\ p = n + 1
                         /\ CallbackOK(stack'[p])
                         /\ stack'[p].token # 0 =>
                              Find(mods[stack'[p].mod].handlers, stack'[p].token) # {}
                         /\ ModChange(stack'[p].mod, mods[stack'[p].mod].events,
                                      mods[stack'[p].mod].callbacks + 1)
                         /\ n # 0 => /\ stack[n].type = "dispatch" /\ stack[n].serving
                                     /\ stack'[p].mod = Served(stack[n])
             /\ Returns => n # 0 /\ Kept(n - 1) /\ p = n - 1
<1>1. stack = <<>> => Len(stack) = 0  OBVIOUS
<1>2. Touches => Kept(Len(stack)) /\ Len(stack') = Len(stack)
  BY KeptFrames DEF Touches, Replaced
<1>3. ASSUME Raises
      PROVE  /\ Kept(Len(stack)) /\ Len(stack') = Len(stack) + 1
             /\ \E b \in Balance \cup {NotFinite} :
                  Capture(b) /\ stack'[Len(stack')] = Emission(b, CaptureToken(b))
  <2>1. PICK b \in Balance \cup {NotFinite} :
          /\ Capture(b)
          /\ \/ Started(Emission(b, CaptureToken(b)))
             \/ /\ stack # <<>>
                /\ \E g : Grown(g, Emission(b, CaptureToken(b))) /\ SameFrame(Top, g)
    BY <1>3 DEF Raises
  <2> DEFINE e == Emission(b, CaptureToken(b))
  <2>2. Started(e) \/ (stack # <<>> /\ \E g : Grown(g, e) /\ SameFrame(Top, g))
    BY <2>1
  <2>3. Kept(Len(stack)) /\ Len(stack') = Len(stack) + 1 /\ stack'[Len(stack')] = e
    <3> HIDE DEF e
    <3> QED  BY <2>2, Placed
  <2> QED  BY <2>1, <2>3
<1>4. ASSUME Delivers
      PROVE  /\ Kept(Len(stack)) /\ Len(stack') = Len(stack) + 1
             /\ DispatchOK(stack'[Len(stack')]) /\ ~stack'[Len(stack')].serving
             /\ Len(stack) # 0 => stack[Len(stack)].type = "emission"
                  /\ stack'[Len(stack')].cash = Captured(stack[Len(stack)].token)
  <2>1. PICK d : /\ DispatchOK(d) /\ ~d.serving
                 /\ \/ Started(d)
                    \/ /\ stack # <<>> /\ Top.type = "emission"
                       /\ d.cash = Captured(Top.token)
                       /\ \E g : Grown(g, d) /\ SameFrame(Top, g)
    BY <1>4 DEF Delivers
  <2>2. Kept(Len(stack)) /\ Len(stack') = Len(stack) + 1 /\ stack'[Len(stack')] = d
    BY <2>1, Placed
  <2>3. Len(stack) # 0 => stack[Len(stack)].type = "emission"
                          /\ d.cash = Captured(stack[Len(stack)].token)
    BY <2>1, <1>1, KeptFrames DEF Started
  <2> QED  BY <2>1, <2>2, <2>3
<1>5. Settles => Len(stack) # 0 /\ Kept(Len(stack) - 1) /\ Len(stack') = Len(stack) - 1
  BY KeptFrames DEF Settles
<1>6. Turns => /\ Len(stack) # 0 /\ Kept(Len(stack) - 1)
               /\ \/ Len(stack') = Len(stack) - 1
                  \/ /\ Len(stack') = Len(stack) /\ DispatchOK(stack'[Len(stack)])
                     /\ ~stack'[Len(stack)].serving
                     /\ stack'[Len(stack)].cash = stack[Len(stack)].cash
  BY KeptFrames DEF Turns, Replaced
<1>7. Enters => /\ Len(stack) # 0 /\ Kept(Len(stack) - 1) /\ Len(stack') = Len(stack)
                /\ DispatchOK(stack'[Len(stack)]) /\ stack'[Len(stack)].serving
                /\ stack'[Len(stack)].cash = stack[Len(stack)].cash
                /\ stack'[Len(stack)].at = stack[Len(stack)].at
  BY KeptFrames DEF Enters, Replaced
<1>8. ASSUME Calls
      PROVE  /\ Kept(Len(stack)) /\ Len(stack') = Len(stack) + 1
             /\ CallbackOK(stack'[Len(stack')])
             /\ stack'[Len(stack')].token # 0 =>
                  Find(mods[stack'[Len(stack')].mod].handlers, stack'[Len(stack')].token) # {}
             /\ ModChange(stack'[Len(stack')].mod, mods[stack'[Len(stack')].mod].events,
                          mods[stack'[Len(stack')].mod].callbacks + 1)
             /\ Len(stack) # 0 =>
                  /\ stack[Len(stack)].type = "dispatch" /\ stack[Len(stack)].serving
                  /\ stack'[Len(stack')].mod = Served(stack[Len(stack)])
  <2>1. PICK c : /\ CallbackOK(c)
                 /\ c.token # 0 => Find(mods[c.mod].handlers, c.token) # {}
                 /\ ModChange(c.mod, mods[c.mod].events, mods[c.mod].callbacks + 1)
                 /\ \/ Started(c)
                    \/ /\ stack # <<>> /\ Top.type = "dispatch" /\ Top.serving
                       /\ c.mod = Served(Top)
                       /\ \E g : Grown(g, c) /\ SameFrame(Top, g)
    BY <1>8 DEF Calls
  <2>2. Kept(Len(stack)) /\ Len(stack') = Len(stack) + 1 /\ stack'[Len(stack')] = c
    BY <2>1, Placed
  <2>3. Len(stack) # 0 => /\ stack[Len(stack)].type = "dispatch" /\ stack[Len(stack)].serving
                          /\ c.mod = Served(stack[Len(stack)])
    BY <2>1, <1>1, KeptFrames DEF Started
  <2> QED  BY <2>1, <2>2, <2>3
<1>9. Returns => Len(stack) # 0 /\ Kept(Len(stack) - 1) /\ Len(stack') = Len(stack) - 1
  BY KeptFrames DEF Returns
<1> QED  BY <1>2, <1>3, <1>4, <1>5, <1>6, <1>7, <1>8, <1>9

\* The sets of counted frames are sets of positions.
LEMMA SetsOfPositions ==
  ASSUME NEW m \in Mod
  PROVE  /\ ServingFor(m) \subseteq 1 .. Len(stack) /\ CallbacksOf(m) \subseteq 1 .. Len(stack)
         /\ Holding \subseteq 1 .. Len(stack)
         /\ ServingFor(m)' \subseteq 1 .. Len(stack')
         /\ CallbacksOf(m)' \subseteq 1 .. Len(stack')
         /\ Holding' \subseteq 1 .. Len(stack')
  BY DEF ServingFor, CallbacksOf, Holding, FramesOf

\* Sets of positions that agree below the top.
Agree(X, Y, k) == \A i \in 1 .. k : i \in Y <=> i \in X
\* Y is X, with n if it holds n; Y is X but for n.
Joined(X, Y, n) == Y = IF n \in Y THEN X \cup {n} ELSE X
AtTop(X, Y, n) == Y = IF n \in Y THEN X \cup {n} ELSE X \ {n}

LEMMA SameSet ==
  ASSUME NEW n \in Nat, NEW X, NEW Y, X \subseteq 1 .. n, Y \subseteq 1 .. n,
         Agree(X, Y, n)
  PROVE  Y = X
  BY DEF Agree
LEMMA GrownSet ==
  ASSUME NEW n \in Nat, NEW X, NEW Y, X \subseteq 1 .. n, Y \subseteq 1 .. n + 1,
         Agree(X, Y, n)
  PROVE  Joined(X, Y, n + 1)
<1>1. \A i \in 1 .. n + 1 : i \in 1 .. n \/ i = n + 1  OBVIOUS
<1>2. \A i : i \in Y => i \in X \/ i = n + 1  BY <1>1 DEF Agree
<1>3. \A i : i \in X => i \in Y  BY DEF Agree
<1>4. n + 1 \notin X  OBVIOUS
<1> QED  BY <1>2, <1>3, <1>4 DEF Joined
LEMMA ReplacedSet ==
  ASSUME NEW n \in Nat, NEW X, NEW Y, X \subseteq 1 .. n, Y \subseteq 1 .. n,
         Agree(X, Y, n - 1)
  PROVE  AtTop(X, Y, n)
<1>1. \A i \in 1 .. n : i \in 1 .. n - 1 \/ i = n  OBVIOUS
<1>2. \A i : i \in Y => i \in X \/ i = n  BY <1>1 DEF Agree
<1>3. \A i : i \in X => i \in Y \/ i = n  BY <1>1 DEF Agree
<1> QED  BY <1>2, <1>3 DEF AtTop

\* How a step changes what is counted.
LEMMA SetSteps ==
  ASSUME StackOK, \E S : stack' \in Seq(S), NEW m \in Mod
  PROVE  LET n == Len(stack)
         IN  /\ Touches \/ Delivers =>
                  ServingFor(m)' = ServingFor(m) /\ CallbacksOf(m)' = CallbacksOf(m)
                  /\ Holding' = Holding
             /\ Raises => /\ ServingFor(m)' = ServingFor(m) /\ CallbacksOf(m)' = CallbacksOf(m)
                          /\ Holding' = IF stack'[n + 1].token = 0 THEN Holding
                                        ELSE Holding \cup {n + 1}
             /\ Settles => /\ ServingFor(m)' = ServingFor(m) /\ CallbacksOf(m)' = CallbacksOf(m)
                           /\ Holding' = Holding \ {n}
             /\ Turns => /\ ServingFor(m)' = ServingFor(m) \ {n}
                         /\ CallbacksOf(m)' = CallbacksOf(m) /\ Holding' = Holding
             /\ Enters => /\ n \notin ServingFor(m)
                          /\ ServingFor(m)' = IF Served(stack[n]) = m THEN ServingFor(m) \cup {n}
                                              ELSE ServingFor(m)
                          /\ CallbacksOf(m)' = CallbacksOf(m) /\ Holding' = Holding
             /\ Calls => /\ CallbacksOf(m)' = IF stack'[n + 1].mod = m
                                              THEN CallbacksOf(m) \cup {n + 1}
                                              ELSE CallbacksOf(m)
                         /\ ServingFor(m)' = ServingFor(m) /\ Holding' = Holding
             /\ Returns => /\ CallbacksOf(m)' = CallbacksOf(m) \ {n}
                           /\ ServingFor(m)' = ServingFor(m) /\ Holding' = Holding
<1> DEFINE n == Len(stack)
           p == Len(stack')
           V == ServingFor(m)
           C == CallbacksOf(m)
           H == Holding
<1>1. n \in Nat /\ p \in Nat
  BY KeptFrames
<1>2. /\ V \subseteq 1 .. n /\ C \subseteq 1 .. n /\ H \subseteq 1 .. n
      /\ V' \subseteq 1 .. p /\ C' \subseteq 1 .. p /\ H' \subseteq 1 .. p
  BY SetsOfPositions
<1>3. ASSUME NEW k, Kept(k)
      PROVE  Agree(V, V', k) /\ Agree(C, C', k) /\ Agree(H, H', k)
  BY <1>3, KeptSets DEF Agree
<1>4. ASSUME NEW i \in 1 .. n, n # 0
      PROVE  /\ i \in V <=> stack[i].type = "dispatch" /\ stack[i].serving /\ Served(stack[i]) = m
             /\ i \in C <=> stack[i].type = "callback" /\ stack[i].mod = m
             /\ i \in H <=> stack[i].type = "emission" /\ stack[i].token # 0
  BY DEF ServingFor, CallbacksOf, Holding, FramesOf
<1>5. ASSUME NEW i \in 1 .. p
      PROVE  /\ i \in V' <=> stack'[i].type = "dispatch" /\ stack'[i].serving /\ Served(stack'[i]) = m
             /\ i \in C' <=> stack'[i].type = "callback" /\ stack'[i].mod = m
             /\ i \in H' <=> stack'[i].type = "emission" /\ stack'[i].token # 0
  BY DEF ServingFor, CallbacksOf, Holding, FramesOf, Served
<1>6. Touches => Kept(n) /\ p = n
  BY Tops
<1>7. Raises => Kept(n) /\ p = n + 1 /\ stack'[n + 1].type = "emission"
  <2>1. \A b, t : Emission(b, t).type = "emission"  BY DEF Emission
  <2> QED  BY <2>1, Tops
<1>8. Delivers => Kept(n) /\ p = n + 1 /\ stack'[n + 1].type = "dispatch" /\ ~stack'[n + 1].serving
  BY Tops DEF DispatchOK
<1>9. /\ Settles => n # 0 /\ Kept(n - 1) /\ p = n - 1 /\ stack[n].type = "emission"
      /\ Returns => n # 0 /\ Kept(n - 1) /\ p = n - 1 /\ stack[n].type = "callback"
  BY Tops, KeptFrames DEF Settles, Returns
<1>10. Turns => /\ n # 0 /\ Kept(n - 1) /\ stack[n].type = "dispatch"
                /\ p = n - 1 \/ (p = n /\ stack'[n].type = "dispatch" /\ ~stack'[n].serving)
  BY Tops, KeptFrames DEF Turns, DispatchOK
<1>11. Enters => /\ n # 0 /\ Kept(n - 1) /\ p = n /\ stack[n].type = "dispatch" /\ ~stack[n].serving
                 /\ stack'[n].type = "dispatch" /\ stack'[n].serving
                 /\ Served(stack'[n]) = Served(stack[n])
  BY Tops, KeptFrames DEF Enters, DispatchOK, Served
<1>12. Calls => Kept(n) /\ p = n + 1 /\ stack'[n + 1].type = "callback"
  BY Tops DEF CallbackOK
<1>13. ASSUME Touches \/ Delivers PROVE V' = V /\ C' = C /\ H' = H
  <2> HIDE DEF n, p, V, C, H
  <2>1. Kept(n) /\ (p = n \/ p = n + 1)  BY <1>13, <1>6, <1>8
  <2>2. Agree(V, V', n) /\ Agree(C, C', n) /\ Agree(H, H', n)
    BY <1>3, <2>1
  <2>3. p = n + 1 => n + 1 \notin V' /\ n + 1 \notin C' /\ n + 1 \notin H'
    BY <1>1, <1>5, <1>6, <1>8, <1>13
  <2>4. CASE p = n
    <3>1. V' = V  BY <1>1, <1>2, <2>2, <2>4, SameSet
    <3>2. C' = C  BY <1>1, <1>2, <2>2, <2>4, SameSet
    <3>3. H' = H  BY <1>1, <1>2, <2>2, <2>4, SameSet
    <3> QED  BY <3>1, <3>2, <3>3
  <2>5. CASE p = n + 1
    <3>1. Joined(V, V', n + 1)  BY <1>1, <1>2, <2>2, <2>5, GrownSet
    <3>2. Joined(C, C', n + 1)  BY <1>1, <1>2, <2>2, <2>5, GrownSet
    <3>3. Joined(H, H', n + 1)  BY <1>1, <1>2, <2>2, <2>5, GrownSet
    <3> QED  BY <2>3, <2>5, <3>1, <3>2, <3>3 DEF Joined
  <2> QED  BY <2>1, <2>4, <2>5
<1>14. ASSUME Raises
       PROVE  V' = V /\ C' = C /\ H' = IF stack'[n + 1].token = 0 THEN H ELSE H \cup {n + 1}
  <2> HIDE DEF n, p, V, C, H
  <2>1. Agree(V, V', n) /\ Agree(C, C', n) /\ Agree(H, H', n)
    BY <1>3, <1>7, <1>14
  <2>2. p = n + 1 /\ n + 1 \notin V' /\ n + 1 \notin C' /\ (n + 1 \in H' <=> stack'[n + 1].token # 0)
    BY <1>1, <1>5, <1>7, <1>14
  <2>3. Joined(V, V', n + 1)  BY <1>1, <1>2, <2>1, <2>2, GrownSet
  <2>4. Joined(C, C', n + 1)  BY <1>1, <1>2, <2>1, <2>2, GrownSet
  <2>5. Joined(H, H', n + 1)  BY <1>1, <1>2, <2>1, <2>2, GrownSet
  <2> QED  BY <2>2, <2>3, <2>4, <2>5 DEF Joined
<1>15. ASSUME Settles PROVE V' = V /\ C' = C /\ H' = H \ {n}
  <2> HIDE DEF n, p, V, C, H
  <2>1. Agree(V, V', n - 1) /\ Agree(C, C', n - 1) /\ Agree(H, H', n - 1)
    BY <1>3, <1>9, <1>15
  <2>2. p = n - 1 /\ n \notin V /\ n \notin C
    BY <1>1, <1>2, <1>4, <1>9, <1>15
  <2>3. V' = V \ {n} /\ C' = C \ {n} /\ H' = H \ {n}
    <3>1. V' \subseteq 1 .. n /\ C' \subseteq 1 .. n /\ H' \subseteq 1 .. n
      BY <1>1, <1>2, <2>2
    <3>2. n \notin V' /\ n \notin C' /\ n \notin H'
      BY <1>1, <1>2, <2>2
    <3>3. AtTop(V, V', n)  BY <1>1, <1>2, <2>1, <3>1, ReplacedSet
    <3>4. AtTop(C, C', n)  BY <1>1, <1>2, <2>1, <3>1, ReplacedSet
    <3>5. AtTop(H, H', n)  BY <1>1, <1>2, <2>1, <3>1, ReplacedSet
    <3> QED  BY <3>2, <3>3, <3>4, <3>5 DEF AtTop
  <2> QED  BY <2>2, <2>3
<1>16. ASSUME Turns PROVE V' = V \ {n} /\ C' = C /\ H' = H
  <2> HIDE DEF n, p, V, C, H
  <2>1. Agree(V, V', n - 1) /\ Agree(C, C', n - 1) /\ Agree(H, H', n - 1)
    BY <1>3, <1>10, <1>16
  <2>2. n \notin C /\ n \notin H /\ n # 0
    BY <1>1, <1>4, <1>10, <1>16
  <2>3. CASE p = n - 1
    <3>1. V' \subseteq 1 .. n /\ C' \subseteq 1 .. n /\ H' \subseteq 1 .. n
      BY <1>1, <1>2, <2>3
    <3>2. n \notin V' /\ n \notin C' /\ n \notin H'
      BY <1>1, <1>2, <2>3
    <3>3. AtTop(V, V', n)  BY <1>1, <1>2, <2>1, <3>1, ReplacedSet
    <3>4. AtTop(C, C', n)  BY <1>1, <1>2, <2>1, <3>1, ReplacedSet
    <3>5. AtTop(H, H', n)  BY <1>1, <1>2, <2>1, <3>1, ReplacedSet
    <3> QED  BY <2>2, <3>2, <3>3, <3>4, <3>5 DEF AtTop
  <2>4. CASE p = n
    <3>1. n \notin V' /\ n \notin C' /\ n \notin H'
      BY <1>1, <1>5, <1>10, <1>16, <2>2, <2>4
    <3>2. AtTop(V, V', n)  BY <1>1, <1>2, <2>1, <2>4, ReplacedSet
    <3>3. AtTop(C, C', n)  BY <1>1, <1>2, <2>1, <2>4, ReplacedSet
    <3>4. AtTop(H, H', n)  BY <1>1, <1>2, <2>1, <2>4, ReplacedSet
    <3> QED  BY <2>2, <3>1, <3>2, <3>3, <3>4 DEF AtTop
  <2> QED  BY <1>10, <1>16, <2>3, <2>4
<1>17. ASSUME Enters
       PROVE  /\ n \notin V /\ C' = C /\ H' = H
              /\ V' = IF Served(stack[n]) = m THEN V \cup {n} ELSE V
  <2> HIDE DEF n, p, V, C, H
  <2>1. Agree(V, V', n - 1) /\ Agree(C, C', n - 1) /\ Agree(H, H', n - 1)
    BY <1>3, <1>11, <1>17
  <2>2. n \notin V /\ n \notin C /\ n \notin H /\ n # 0 /\ p = n
    BY <1>1, <1>4, <1>11, <1>17
  <2>3. (n \in V' <=> Served(stack[n]) = m) /\ n \notin C' /\ n \notin H'
    BY <1>1, <1>5, <1>11, <1>17
  <2>7. /\ V \subseteq 1 .. n /\ C \subseteq 1 .. n /\ H \subseteq 1 .. n
        /\ V' \subseteq 1 .. n /\ C' \subseteq 1 .. n /\ H' \subseteq 1 .. n
    BY <1>2, <2>2
  <2>4. AtTop(V, V', n)  BY <1>1, <2>1, <2>7, ReplacedSet
  <2>5. AtTop(C, C', n)  BY <1>1, <2>1, <2>7, ReplacedSet
  <2>6. AtTop(H, H', n)  BY <1>1, <2>1, <2>7, ReplacedSet
  <2> QED  BY <2>2, <2>3, <2>4, <2>5, <2>6 DEF AtTop
<1>18. ASSUME Calls
       PROVE  V' = V /\ H' = H /\ C' = IF stack'[n + 1].mod = m THEN C \cup {n + 1} ELSE C
  <2> HIDE DEF n, p, V, C, H
  <2>1. Agree(V, V', n) /\ Agree(C, C', n) /\ Agree(H, H', n)
    BY <1>3, <1>12, <1>18
  <2>2. p = n + 1 /\ n + 1 \notin V' /\ n + 1 \notin H' /\ (n + 1 \in C' <=> stack'[n + 1].mod = m)
    BY <1>1, <1>5, <1>12, <1>18
  <2>3. Joined(V, V', n + 1)  BY <1>1, <1>2, <2>1, <2>2, GrownSet
  <2>4. Joined(C, C', n + 1)  BY <1>1, <1>2, <2>1, <2>2, GrownSet
  <2>5. Joined(H, H', n + 1)  BY <1>1, <1>2, <2>1, <2>2, GrownSet
  <2> QED  BY <2>2, <2>3, <2>4, <2>5 DEF Joined
<1>19. ASSUME Returns PROVE V' = V /\ H' = H /\ C' = C \ {n}
  <2> HIDE DEF n, p, V, C, H
  <2>1. Agree(V, V', n - 1) /\ Agree(C, C', n - 1) /\ Agree(H, H', n - 1)
    BY <1>3, <1>9, <1>19
  <2>2. p = n - 1 /\ n \notin V /\ n \notin H
    BY <1>1, <1>2, <1>4, <1>9, <1>19
  <2>3. V' = V \ {n} /\ C' = C \ {n} /\ H' = H \ {n}
    <3>1. V' \subseteq 1 .. n /\ C' \subseteq 1 .. n /\ H' \subseteq 1 .. n
      BY <1>1, <1>2, <2>2
    <3>2. n \notin V' /\ n \notin C' /\ n \notin H'
      BY <1>1, <1>2, <2>2
    <3>3. AtTop(V, V', n)  BY <1>1, <1>2, <2>1, <3>1, ReplacedSet
    <3>4. AtTop(C, C', n)  BY <1>1, <1>2, <2>1, <3>1, ReplacedSet
    <3>5. AtTop(H, H', n)  BY <1>1, <1>2, <2>1, <3>1, ReplacedSet
    <3> QED  BY <3>2, <3>3, <3>4, <3>5 DEF AtTop
  <2> QED  BY <2>2, <2>3
<1> QED  BY <1>13, <1>14, <1>15, <1>16, <1>17, <1>18, <1>19
-----------------------------------------------------------------------------
(* Each part of the invariant is kept                                      *)

\* Counting a set of positions.
LEMMA Counting ==
  ASSUME NEW n \in Nat, NEW X, X \subseteq 1 .. n
  PROVE  /\ IsFiniteSet(X) /\ Cardinality(X) \in Nat
         /\ Cardinality(X \cup {n + 1}) = Cardinality(X) + 1
         /\ n \in X => Cardinality(X \ {n}) = Cardinality(X) - 1 /\ Cardinality(X) # 0
         /\ n \notin X => X \ {n} = X /\ Cardinality(X \cup {n}) = Cardinality(X) + 1
<1>0. IsFiniteSet(1 .. n)
  BY FS_Interval
<1>1. IsFiniteSet(X)
  BY <1>0, FS_Subset
<1>2. Cardinality(X) \in Nat
  BY <1>1, FS_CardinalityType
<1>3. n + 1 \notin X  OBVIOUS
<1>4. Cardinality(X \cup {n + 1}) = Cardinality(X) + 1
  BY <1>1, <1>3, FS_AddElement
<1>5. n \in X => Cardinality(X \ {n}) = Cardinality(X) - 1
  BY <1>1, FS_RemoveElement
<1>6. n \in X => Cardinality(X) # 0
  BY <1>1, FS_EmptySet
<1>7. n \notin X => Cardinality(X \cup {n}) = Cardinality(X) + 1
  BY <1>1, FS_AddElement
<1>8. n \notin X => X \ {n} = X  OBVIOUS
<1> QED  BY <1>1, <1>2, <1>4, <1>5, <1>6, <1>7, <1>8

LEMMA StackKept ==
  ASSUME ModsOK, StackOK, CapturesOK, [Next]_vars
  PROVE  StackOK'
<1>1. \E S : stack' \in Seq(S)
  BY EveryStep
<1>2. ASSUME NEW k, Kept(k), NEW i \in 1 .. k PROVE FrameOK(stack'[i])
  BY <1>1, <1>2, KeptSets
<1> DEFINE n == Len(stack)
           p == Len(stack')
<1>3. n \in Nat /\ p \in Nat  BY <1>1, KeptFrames
<1>4. \E k : Kept(k) /\ k <= p /\ (k = p \/ (p = k + 1 /\ FrameOK(stack'[p])))
  <2>1. Touches => Kept(n) /\ p = n  BY <1>1, Tops
  <2>2. ASSUME Raises PROVE Kept(n) /\ p = n + 1 /\ FrameOK(stack'[p])
    BY <1>1, <2>2, Tops, NewEmission DEF FrameOK
  <2>3. Delivers => Kept(n) /\ p = n + 1 /\ FrameOK(stack'[p])
    BY <1>1, Tops DEF FrameOK
  <2>4. Settles \/ Returns => Kept(n - 1) /\ p = n - 1  BY <1>1, Tops
  <2>5. ASSUME Turns \/ Enters
        PROVE  Kept(n - 1) /\ (p = n - 1 \/ (p = n /\ FrameOK(stack'[p])))
    <3>1. Kept(n - 1) /\ (p = n - 1 \/ (p = n /\ DispatchOK(stack'[n])))
      BY <1>1, <2>5, Tops
    <3> QED  BY <3>1 DEF FrameOK
  <2>6. Calls => Kept(n) /\ p = n + 1 /\ FrameOK(stack'[p])
    BY <1>1, Tops DEF FrameOK
  <2> HIDE DEF n, p
  <2>7. CASE Touches \/ Raises \/ Delivers \/ Calls
    <3>1. Kept(n) /\ n <= p /\ (n = p \/ (p = n + 1 /\ FrameOK(stack'[p])))
      BY <1>3, <2>1, <2>2, <2>3, <2>6, <2>7
    <3> QED  BY <3>1
  <2>8. CASE Settles \/ Returns \/ Turns \/ Enters
    <3> DEFINE k == n - 1
    <3>1. Kept(k) /\ k <= p /\ (k = p \/ (p = k + 1 /\ FrameOK(stack'[p])))
      BY <1>3, <2>4, <2>5, <2>8
    <3> HIDE DEF k
    <3> QED  BY <3>1
  <2> QED  BY <2>7, <2>8, EveryStep
<1>5. PICK k : Kept(k) /\ k <= p /\ (k = p \/ (p = k + 1 /\ FrameOK(stack'[p])))
  BY <1>4
<1>6. k \in Nat  BY <1>3, <1>5 DEF Kept
<1>7. \A i \in 1 .. p : FrameOK(stack'[i])
  <2> HIDE DEF n, p
  <2> QED  BY <1>2, <1>3, <1>5, <1>6
<1>8. StackOK' <=> (\E S : stack' \in Seq(S)) /\ \A i \in 1 .. p : FrameOK(stack'[i])
  BY DEF StackOK, FrameOK, EmissionOK, DispatchOK, CallbackOK
<1> QED  BY <1>1, <1>7, <1>8

LEMMA CapturesKept ==
  ASSUME ModsOK, StackOK, CapturesOK, [Next]_vars
  PROVE  CapturesOK'
<1>1. captures' = captures => CapturesOK'
  BY DEF CapturesOK
<1>2. ASSUME NEW b \in Balance \cup {NotFinite}, Capture(b) PROVE CapturesOK'
  <2>1. CASE CaptureToken(b) = 0
    BY <1>1, <1>2, <2>1 DEF Capture
  <2>2. CASE CaptureToken(b) # 0
    <3>1. b \in Balance /\ CaptureToken(b) \in 1 .. Slots
      BY <2>2, LimitAssumption DEF CaptureToken, CapturesOK
    <3>2. captures' = [values |-> [captures.values EXCEPT ![CaptureToken(b)] = b],
                       depth  |-> CaptureToken(b)]
      BY <1>2, <2>2 DEF Capture
    <3> DEFINE t == CaptureToken(b)
    <3> HIDE DEF t
    <3> QED  BY <3>1, <3>2, LimitAssumption DEF CapturesOK, t
  <2> QED  BY <2>1, <2>2
<1>3. ASSUME NEW t, Release(t) PROVE CapturesOK'
  BY <1>3, LimitAssumption DEF Release, CapturesOK
<1> QED  BY <1>1, <1>2, <1>3, EveryStep
         DEF Touches, Raises, Delivers, Settles, Turns, Enters, Calls, Returns

\* The depths count what is on the stack.
LEMMA CountedKept ==
  ASSUME ModsOK, StackOK, CapturesOK, Counted, [Next]_vars
  PROVE  Counted' /\ ModsOK'
<1>1. \E S : stack' \in Seq(S)  BY EveryStep
<1> DEFINE n == Len(stack)
<1>2. n \in Nat  BY <1>1, KeptFrames
<1>0. Mod # {}  BY ProfileAssumption
<1> SUFFICES ASSUME NEW m \in Mod
             PROVE  /\ DOMAIN mods' = Mod /\ ModOK(m)'
                    /\ mods'[m].events = Cardinality(ServingFor(m)')
                    /\ mods'[m].callbacks = Cardinality(CallbacksOf(m)')
  BY <1>0 DEF Counted, ModsOK
<1> DEFINE V == ServingFor(m)
           C == CallbacksOf(m)
           OK(e, c) == /\ DOMAIN mods' = Mod /\ DOMAIN mods'[m] = ModFields
                       /\ mods'[m].events = e /\ mods'[m].callbacks = c
                       /\ mods'[m].budget \in 0 .. Allowance /\ mods'[m].failure \in BOOLEAN
<1>3. /\ mods[m].events = Cardinality(V) /\ mods[m].callbacks = Cardinality(C)
      /\ Cardinality(V) \in 0 .. EventLimit /\ Cardinality(C) \in Nat
  BY DEF Counted, ModsOK, ModOK
<1>4. V \subseteq 1 .. n /\ C \subseteq 1 .. n
  BY SetsOfPositions
<1>5. SameDepths \/ mods' = mods => OK(Cardinality(V), Cardinality(C))
  BY <1>3 DEF SameDepths, ModChange, ModsOK, ModOK
<1>6. ASSUME NEW k \in Mod, NEW e, NEW c, ModChange(k, e, c)
      PROVE  OK(IF k = m THEN e ELSE Cardinality(V), IF k = m THEN c ELSE Cardinality(C))
  BY <1>3, <1>6 DEF ModChange, ModsOK, ModOK
<1>7. ASSUME OK(Cardinality(V'), Cardinality(C')),
             Cardinality(V') \in 0 .. EventLimit, Cardinality(C') \in Nat
      PROVE  /\ DOMAIN mods' = Mod /\ ModOK(m)'
             /\ mods'[m].events = Cardinality(V') /\ mods'[m].callbacks = Cardinality(C')
  BY <1>7 DEF ModOK, ModFields
<1>8. CASE Touches \/ Raises \/ Delivers \/ Settles
  <2>1. V' = V /\ C' = C  BY <1>1, <1>8, SetSteps
  <2>2. OK(Cardinality(V), Cardinality(C))
    BY <1>5, <1>8 DEF Touches, Raises, Delivers, Settles
  <2>3. OK(Cardinality(V'), Cardinality(C')) /\ Cardinality(V') = Cardinality(V)
        /\ Cardinality(C') = Cardinality(C)
    <3> HIDE DEF V, C, OK
    <3> QED  BY <2>1, <2>2
  <2> QED  BY <1>3, <1>7, <2>3
<1>9. CASE Turns
  <2>1. V' = V \ {n} /\ C' = C  BY <1>1, <1>9, SetSteps
  <2>2. n # 0 /\ Top = stack[n] /\ stack[n].type = "dispatch"
    BY <1>1, <1>9, KeptFrames DEF Turns
  <2>3. n \in V <=> Top.serving /\ Served(Top) = m
    BY <1>2, <2>2 DEF ServingFor, FramesOf
  <2>4. Served(Top) \in Mod
    BY <1>9, <2>2, StackChanges, FrameTypes DEF Turns
  <2>5. OK(IF n \in V THEN mods[m].events - 1 ELSE Cardinality(V), Cardinality(C))
    <3>1. CASE Top.serving
      <4>1. ModChange(Served(Top), mods[Served(Top)].events - 1, mods[Served(Top)].callbacks)
        BY <1>9, <3>1 DEF Turns
      <4> HIDE DEF V, C, OK
      <4> QED  BY <1>3, <1>6, <2>3, <2>4, <3>1, <4>1
    <3>2. CASE ~Top.serving
      BY <1>5, <1>9, <2>3, <3>2 DEF Turns
    <3> QED  BY <3>1, <3>2
  <2>6. Cardinality(V \ {n}) = (IF n \in V THEN mods[m].events - 1 ELSE Cardinality(V))
        /\ Cardinality(V \ {n}) \in 0 .. EventLimit
    <3> HIDE DEF V, C, n
    <3>1. n \in V => Cardinality(V \ {n}) = Cardinality(V) - 1 /\ Cardinality(V) # 0
      BY <1>2, <1>4, Counting
    <3>2. n \notin V => V \ {n} = V
      OBVIOUS
    <3>3. CASE n \in V
      BY <1>3, <3>1, <3>3, LimitAssumption
    <3>4. CASE n \notin V
      BY <1>3, <3>2, <3>4
    <3> QED  BY <3>3, <3>4
  <2>7. OK(Cardinality(V'), Cardinality(C')) /\ Cardinality(V') \in 0 .. EventLimit
    <3> HIDE DEF V, C, n, OK
    <3> QED  BY <2>1, <2>5, <2>6
  <2> QED  BY <1>3, <1>7, <2>1, <2>7
<1>10. CASE Enters
  <2>1. /\ n \notin V /\ C' = C
        /\ V' = IF Served(stack[n]) = m THEN V \cup {n} ELSE V
    BY <1>1, <1>10, SetSteps
  <2>2. Top = stack[n] /\ Served(Top) \in Mod
    BY <1>1, <1>10, KeptFrames, StackChanges, FrameTypes DEF Enters
  <2>3. /\ mods[Served(Top)].events < EventLimit
        /\ ModChange(Served(Top), mods[Served(Top)].events + 1, mods[Served(Top)].callbacks)
    BY <1>10 DEF Enters
  <2>4. Cardinality(V \cup {n}) = Cardinality(V) + 1
    <3> HIDE DEF V, n
    <3> QED  BY <1>2, <1>4, <2>1, Counting
  <2>5. CASE Served(Top) = m
    <3>1. OK(Cardinality(V) + 1, Cardinality(C))
      <4> HIDE DEF OK, V, C
      <4> QED  BY <1>3, <1>6, <2>3, <2>5
    <3>2. Cardinality(V) + 1 \in 0 .. EventLimit
      BY <1>3, <2>3, <2>5, LimitAssumption
    <3>3. OK(Cardinality(V'), Cardinality(C')) /\ Cardinality(V') \in 0 .. EventLimit
      <4> HIDE DEF V, C, n, OK
      <4> QED  BY <2>1, <2>2, <2>4, <2>5, <3>1, <3>2
    <3> QED  BY <1>3, <1>7, <2>1, <3>3
  <2>6. CASE Served(Top) # m
    <3>1. OK(Cardinality(V), Cardinality(C))
      <4> HIDE DEF V, C, n, OK
      <4> QED  BY <1>6, <2>2, <2>3, <2>6
    <3>2. OK(Cardinality(V'), Cardinality(C')) /\ Cardinality(V') \in 0 .. EventLimit
      <4> HIDE DEF V, C, n, OK
      <4> QED  BY <1>3, <2>1, <2>2, <2>6, <3>1
    <3> QED  BY <1>3, <1>7, <2>1, <3>2
  <2> QED  BY <2>5, <2>6
<1>11. CASE Calls
  <2>1. V' = V /\ C' = IF stack'[n + 1].mod = m THEN C \cup {n + 1} ELSE C
    BY <1>1, <1>11, SetSteps
  <2> DEFINE k == stack'[n + 1].mod
  <2>2. k \in Mod /\ ModChange(k, mods[k].events, mods[k].callbacks + 1)
    BY <1>1, <1>11, Tops DEF CallbackOK
  <2>3. Cardinality(C \cup {n + 1}) = Cardinality(C) + 1
    <3> HIDE DEF C, n
    <3> QED  BY <1>2, <1>4, Counting
  <2>4. OK(Cardinality(V), IF k = m THEN Cardinality(C) + 1 ELSE Cardinality(C))
    <3> HIDE DEF V, C, OK, k
    <3> QED  BY <1>3, <1>6, <2>2
  <2>5. Cardinality(C') = IF k = m THEN Cardinality(C) + 1 ELSE Cardinality(C)
    <3>1. C' = IF k = m THEN C \cup {n + 1} ELSE C  BY <2>1
    <3> HIDE DEF V, C, OK, k, n
    <3> QED  BY <2>3, <3>1
  <2>6. OK(Cardinality(V'), Cardinality(C')) /\ Cardinality(C') \in Nat
        /\ Cardinality(V') = Cardinality(V)
    <3> HIDE DEF V, C, OK, k
    <3> QED  BY <1>3, <2>1, <2>4, <2>5
  <2> QED  BY <1>3, <1>7, <2>6
<1>12. CASE Returns
  <2>1. V' = V /\ C' = C \ {n}
    BY <1>1, <1>12, SetSteps
  <2>2. /\ n # 0 /\ Top = stack[n] /\ stack[n].type = "callback" /\ Top.mod \in Mod
        /\ ModChange(Top.mod, mods[Top.mod].events, mods[Top.mod].callbacks - 1)
    BY <1>1, <1>12, KeptFrames, StackChanges, FrameTypes DEF Returns, CallbackOK
  <2>3. n \in C <=> Top.mod = m
    BY <1>2, <2>2 DEF CallbacksOf, FramesOf
  <2>4. OK(Cardinality(V), IF n \in C THEN Cardinality(C) - 1 ELSE Cardinality(C))
    <3> HIDE DEF V, C, OK, n
    <3> QED  BY <1>3, <1>6, <2>2, <2>3
  <2>5. Cardinality(C') = (IF n \in C THEN Cardinality(C) - 1 ELSE Cardinality(C))
        /\ Cardinality(C') \in Nat
    <3> HIDE DEF V, C, n
    <3>1. n \in C => Cardinality(C \ {n}) = Cardinality(C) - 1 /\ Cardinality(C) # 0
      BY <1>2, <1>4, Counting
    <3>2. n \notin C => C \ {n} = C
      OBVIOUS
    <3>3. CASE n \in C
      BY <1>3, <2>1, <3>1, <3>3
    <3>4. CASE n \notin C
      BY <1>3, <2>1, <3>2, <3>4
    <3> QED  BY <3>3, <3>4
  <2>6. OK(Cardinality(V'), Cardinality(C')) /\ Cardinality(V') = Cardinality(V)
    <3> HIDE DEF V, C, OK, n
    <3> QED  BY <2>1, <2>4, <2>5
  <2> QED  BY <1>3, <1>7, <2>5, <2>6
<1> QED  BY <1>8, <1>9, <1>10, <1>11, <1>12, EveryStep

\* The frames below the top are kept, and what the one on top may be.
LEMMA TopFrame ==
  ASSUME ModsOK, StackOK, CapturesOK, [Next]_vars
  PROVE  LET n == Len(stack)
             p == Len(stack')
         IN  \E k : /\ Kept(k) /\ k \in Nat
                    /\ \/ p = k
                       \/ /\ p = k + 1 /\ k = n /\ (Raises \/ Delivers \/ Calls)
                          /\ Raises => stack'[p].type = "emission"
                          /\ Delivers => stack'[p].type = "dispatch"
                          /\ Calls => stack'[p].type = "callback"
                       \/ /\ p = k + 1 /\ p = n /\ stack'[n].type = "dispatch"
                          /\ stack[n].type = "dispatch" /\ stack'[n].cash = stack[n].cash
<1> DEFINE n == Len(stack)
           p == Len(stack')
           Shape(k) ==
             /\ Kept(k) /\ k \in Nat
             /\ \/ p = k
                \/ /\ p = k + 1 /\ k = n /\ (Raises \/ Delivers \/ Calls)
                   /\ Raises => stack'[p].type = "emission"
                   /\ Delivers => stack'[p].type = "dispatch"
                   /\ Calls => stack'[p].type = "callback"
                \/ /\ p = k + 1 /\ p = n /\ stack'[n].type = "dispatch"
                   /\ stack[n].type = "dispatch" /\ stack'[n].cash = stack[n].cash
<1>1. \E S : stack' \in Seq(S)  BY EveryStep
<1>2. n \in Nat /\ p \in Nat  BY <1>1, KeptFrames
<1>3. Touches => Kept(n) /\ p = n  BY <1>1, Tops
<1>4. Raises => Kept(n) /\ p = n + 1 /\ stack'[p].type = "emission"
  <2>1. \A b, t : Emission(b, t).type = "emission"  BY DEF Emission
  <2> QED  BY <1>1, <2>1, Tops
<1>5. Delivers => Kept(n) /\ p = n + 1 /\ stack'[p].type = "dispatch"
  BY <1>1, Tops DEF DispatchOK
<1>6. Calls => Kept(n) /\ p = n + 1 /\ stack'[p].type = "callback"
  BY <1>1, Tops DEF CallbackOK
<1>7. Settles \/ Returns => Kept(n - 1) /\ p = n - 1
  BY <1>1, Tops
<1>8. Turns \/ Enters => n # 0 /\ Kept(n - 1) /\ stack[n].type = "dispatch"
  BY <1>1, Tops, KeptFrames DEF Turns, Enters
<1>9. ASSUME Turns \/ Enters
      PROVE  p = n - 1 \/ (p = n /\ stack'[n].type = "dispatch" /\ stack'[n].cash = stack[n].cash)
  BY <1>1, <1>9, Tops DEF DispatchOK
<1>10. Touches => Shape(n)
  BY <1>2, <1>3
<1>11. Raises \/ Delivers \/ Calls => Shape(n)
  <2> HIDE DEF n, p
  <2> QED  BY <1>2, <1>4, <1>5, <1>6
<1>12. Settles \/ Returns \/ Turns \/ Enters => Shape(n - 1)
  <2>1. Kept(n - 1) => n - 1 \in Nat  BY <1>2 DEF Kept
  <2> HIDE DEF n, p
  <2> QED  BY <1>2, <1>7, <1>8, <1>9, <2>1
<1>13. \E k : Shape(k)
  <2> HIDE DEF Shape, n, p
  <2> QED  BY <1>10, <1>11, <1>12, EveryStep
<1> QED  BY <1>13

LEMMA NestedKept ==
  ASSUME ModsOK, StackOK, CapturesOK, Nested, [Next]_vars
  PROVE  Nested'
<1> DEFINE n == Len(stack)
           p == Len(stack')
<1>1. \E S : stack' \in Seq(S)  BY EveryStep
<1>2. n \in Nat /\ p \in Nat  BY <1>1, KeptFrames
<1>3. PICK k : /\ Kept(k) /\ k \in Nat
               /\ \/ p = k
                  \/ p = k + 1 /\ k = n /\ Calls
                  \/ p = k + 1 /\ stack'[p].type # "callback"
  BY TopFrame
<1> SUFFICES ASSUME NEW i \in 2 .. p, stack'[i].type = "callback",
                    NEW m, m = stack'[i].mod
             PROVE  i - 1 \in ServingFor(m)'
  BY DEF Nested, ServingFor, FramesOf, Served
<1>4. CASE i <= k
  <2>1. i \in 1 .. k /\ i - 1 \in 1 .. k /\ i \in 2 .. n  BY <1>2, <1>3, <1>4 DEF Kept
  <2>2. stack[i].type = "callback" /\ m = stack[i].mod
    BY <1>1, <1>3, <2>1, KeptSets
  <2>3. m \in Mod /\ i - 1 \in ServingFor(m)
    BY <2>1, <2>2, FrameTypes DEF Nested, StackOK, CallbackOK
  <2> QED  BY <1>1, <1>3, <2>1, <2>2, <2>3, KeptSets
<1>5. CASE i > k
  <2>1. i = p /\ p = k + 1 /\ k = n /\ Calls /\ n # 0
    BY <1>2, <1>3, <1>5
  <2>2. /\ stack[n].type = "dispatch" /\ stack[n].serving
        /\ m = Served(stack[n]) /\ m \in Mod
    BY <1>1, <2>1, Tops DEF CallbackOK
  <2>3. n \in ServingFor(m) /\ n \in 1 .. k
    BY <1>2, <2>1, <2>2 DEF ServingFor, FramesOf
  <2>4. n \in ServingFor(m)'
    BY <1>1, <1>3, <2>2, <2>3, KeptSets
  <2>5. n = i - 1  BY <1>2, <2>1
  <2> QED  BY <2>1, <2>4, <2>5
<1> QED  BY <1>2, <1>3, <1>4, <1>5

\* The money updates with a slot before and after a step are the same frames.
LEMMA HeldFrames ==
  ASSUME ModsOK, StackOK, CapturesOK, [Next]_vars, NEW i \in Holding, i \in Holding'
  PROVE  stack'[i].token = stack[i].token /\ stack'[i].balance = stack[i].balance
<1> DEFINE n == Len(stack)
           p == Len(stack')
<1>1. \E S : stack' \in Seq(S)  BY EveryStep
<1>2. n \in Nat /\ p \in Nat  BY <1>1, KeptFrames
<1>3. PICK k : /\ Kept(k) /\ k \in Nat
               /\ \/ p = k \/ k = n
                  \/ p = n /\ p = k + 1 /\ stack[n].type = "dispatch"
  BY TopFrame
<1>4. i \in 1 .. n /\ i \in 1 .. p /\ stack[i].type = "emission"
  BY DEF Holding, FramesOf
<1>5. i \in 1 .. k
  <2> HIDE DEF n, p
  <2> QED  BY <1>2, <1>3, <1>4
<1> QED  BY <1>1, <1>3, <1>4, <1>5, KeptSets

\* The slots in use are those of the money updates under way.
LEMMA MatchKept ==
  ASSUME ModsOK, StackOK, CapturesOK, CapturesMatch, [Next]_vars
  PROVE  CapturesMatch'
<1> DEFINE n == Len(stack)
           p == Len(stack')
           H == Holding
           HeldUpTo(i) == {j \in H : j <= i}
<1>1. \E S : stack' \in Seq(S)  BY EveryStep
<1>2. n \in Nat /\ p \in Nat  BY <1>1, KeptFrames
<1>3. PICK m : m \in Mod  BY ProfileAssumption
<1>4. H \subseteq 1 .. n /\ H' \subseteq 1 .. p
  BY <1>3, SetsOfPositions
<1>5. /\ captures.depth = Cardinality(H) /\ captures.depth \in 0 .. Slots
      /\ captures = [values |-> captures.values, depth |-> captures.depth]
      /\ DOMAIN captures.values = 1 .. Slots
      /\ \A i \in H : /\ stack[i].token = Cardinality(HeldUpTo(i))
                      /\ captures.values[stack[i].token] = stack[i].balance
                      /\ stack[i].token \in 1 .. Slots
  <2>1. \A i \in H : stack[i].token \in 1 .. Slots
    BY FrameTypes, LimitAssumption DEF Holding, FramesOf, StackOK, EmissionOK
  <2> QED  BY <2>1 DEF CapturesMatch, CapturesOK
<1>6. ASSUME NEW i \in H, i \in H'
      PROVE  stack'[i].token = stack[i].token /\ stack'[i].balance = stack[i].balance
  BY <1>6, HeldFrames
<1>7. SUFFICES /\ captures'.depth = Cardinality(H')
               /\ \A i \in H' : /\ stack'[i].token = Cardinality({j \in H' : j <= i})
                                /\ captures'.values[stack'[i].token] = stack'[i].balance
  BY DEF CapturesMatch
<1>8. CASE captures' = captures /\ H' = H
  <2> HIDE DEF H
  <2> QED  BY <1>5, <1>6, <1>8
<1>9. CASE Settles
  <2>1. H' = H \ {n}
    BY <1>1, <1>3, <1>9, SetSteps
  <2> DEFINE t == stack[n].token
  <2>2. Release(t) /\ stack[n].type = "emission" /\ n # 0
    BY <1>1, <1>9, KeptFrames DEF Settles
  <2>3. n \in H <=> t # 0
    BY <1>2, <2>2 DEF Holding, FramesOf
  <2>4. CASE t = 0
    <3>1. captures' = captures
      BY <1>5, <2>2, <2>4 DEF Release, CapturesOK
    <3>2. H' = H
      <4> HIDE DEF H
      <4> QED  BY <2>1, <2>3, <2>4
    <3> QED  BY <1>8, <3>1, <3>2
  <2>5. CASE t # 0
    <3>1. HeldUpTo(n) = H /\ n \in H
      <4> HIDE DEF H, n
      <4>1. \A j \in H : j <= n  BY <1>2, <1>4
      <4> QED  BY <2>3, <2>5, <4>1
    <3>2. t = captures.depth
      BY <1>5, <3>1
    <3>3. captures'.depth = captures.depth - 1 /\ captures'.values = captures.values
      BY <1>5, <2>2, <2>5, <3>2 DEF Release, CapturesOK
    <3>4. Cardinality(H') = Cardinality(H) - 1
      <4> HIDE DEF H, n
      <4> QED  BY <1>2, <1>4, <2>1, <3>1, Counting
    <3>5. ASSUME NEW i \in H'
          PROVE  i \in H /\ {j \in H' : j <= i} = HeldUpTo(i)
      <4> HIDE DEF H, n
      <4>1. i \in H /\ i # n /\ i \in 1 .. n  BY <1>4, <2>1, <3>5
      <4>2. ~(n <= i)  BY <1>2, <4>1
      <4> QED  BY <2>1, <4>1, <4>2
    <3> HIDE DEF H, n, HeldUpTo
    <3> QED  BY <1>5, <1>6, <3>3, <3>4, <3>5
  <2> QED  BY <2>4, <2>5
<1>10. CASE Raises
  <2>1. PICK b \in Balance \cup {NotFinite} :
          Capture(b) /\ stack'[p] = Emission(b, CaptureToken(b))
    BY <1>1, <1>10, Tops
  <2> DEFINE t == CaptureToken(b)
  <2>2. p = n + 1
    BY <1>1, <1>10, Tops
  <2>3. H' = IF stack'[n + 1].token = 0 THEN H ELSE H \cup {n + 1}
    BY <1>1, <1>3, <1>10, SetSteps
  <2>4. stack'[n + 1].token = t /\ stack'[n + 1].balance = b
    BY <2>1, <2>2 DEF Emission
  <2>5. CASE t = 0
    <3>1. captures' = captures  BY <2>1, <2>5 DEF Capture
    <3>2. H' = H  BY <2>3, <2>4, <2>5
    <3> QED  BY <1>8, <3>1, <3>2
  <2>6. CASE t # 0
    <3>1. t = captures.depth + 1 /\ t \in 1 .. Slots
      BY <1>5, <2>6, LimitAssumption DEF CaptureToken
    <3>2. captures' = [values |-> [captures.values EXCEPT ![t] = b], depth |-> t]
      BY <2>1, <2>6 DEF Capture
    <3>3. /\ captures'.depth = t /\ captures'.values[t] = b
          /\ \A x \in 1 .. Slots : x # t => captures'.values[x] = captures.values[x]
      <4> HIDE DEF t
      <4> QED  BY <1>5, <3>1, <3>2
    <3>4. H' = H \cup {n + 1} /\ Cardinality(H') = Cardinality(H) + 1
      <4>1. H' = H \cup {n + 1}  BY <2>3, <2>4, <2>6
      <4> HIDE DEF H, n
      <4> QED  BY <1>2, <1>4, <4>1, Counting
    <3>5. ASSUME NEW i \in H
          PROVE  i \in H' /\ {j \in H' : j <= i} = HeldUpTo(i) /\ Cardinality(HeldUpTo(i)) <= captures.depth
      <4> HIDE DEF H, n
      <4>1. i \in 1 .. n /\ ~(n + 1 <= i)  BY <1>2, <1>4, <3>5
      <4>2. {j \in H' : j <= i} = HeldUpTo(i) /\ i \in H'
        BY <3>4, <4>1
      <4>3. IsFiniteSet(H) /\ HeldUpTo(i) \in SUBSET H
        BY <1>2, <1>4, Counting
      <4>4. Cardinality(HeldUpTo(i)) <= Cardinality(H)
        BY <4>3, FS_Subset
      <4> QED  BY <1>5, <4>2, <4>4
    <3>6. {j \in H' : j <= n + 1} = H'
      <4> HIDE DEF H, n
      <4>1. \A j \in H' : j <= n + 1  BY <1>2, <1>4, <2>2
      <4> QED  BY <4>1
    <3>7. ASSUME NEW i \in H
          PROVE  /\ stack'[i].token = Cardinality({j \in H' : j <= i})
                 /\ captures'.values[stack'[i].token] = stack'[i].balance
      <4>1. stack'[i].token = stack[i].token /\ stack'[i].balance = stack[i].balance
        BY <1>6, <3>5, <3>7
      <4>2. /\ stack[i].token = Cardinality(HeldUpTo(i)) /\ stack[i].token \in 1 .. Slots
            /\ captures.values[stack[i].token] = stack[i].balance
        BY <1>5, <3>7
      <4>3. stack[i].token # t
        BY <1>5, <3>1, <3>5, <3>7, <4>2
      <4> HIDE DEF H, HeldUpTo, t
      <4> QED  BY <3>3, <3>5, <3>7, <4>1, <4>2, <4>3
    <3>8. /\ stack'[n + 1].token = Cardinality({j \in H' : j <= n + 1})
          /\ captures'.values[stack'[n + 1].token] = stack'[n + 1].balance
      <4> HIDE DEF H, t, n
      <4> QED  BY <1>5, <2>4, <3>1, <3>3, <3>4, <3>6
    <3> HIDE DEF H, t, n
    <3> QED  BY <1>5, <3>1, <3>3, <3>4, <3>7, <3>8
  <2> QED  BY <2>5, <2>6
<1>11. Touches \/ Delivers \/ Turns \/ Enters \/ Calls \/ Returns => captures' = captures /\ H' = H
  BY <1>1, <1>3, SetSteps DEF Touches, Delivers, Turns, Enters, Calls, Returns
<1> QED  BY <1>8, <1>9, <1>10, <1>11, EveryStep

\* Below a kept frame the money updates with a slot are the same.
LEMMA HeldBelow ==
  ASSUME StackOK, \E S : stack' \in Seq(S), NEW k \in Nat, Kept(k), NEW i \in 1 .. k + 1
  PROVE  {j \in Holding' : j < i} = {j \in Holding : j < i}
<1>1. Holding \subseteq 1 .. Len(stack) /\ Holding' \subseteq 1 .. Len(stack')
  BY DEF Holding, FramesOf
<1>2. \A j \in 1 .. k : j \in Holding' <=> j \in Holding
  BY KeptSets
<1>3. Len(stack) \in Nat /\ Len(stack') \in Nat
  BY KeptFrames
<1>4. \A j \in Holding \cup Holding' : j < i => j \in 1 .. k
  <2> DEFINE H == Holding
             n == Len(stack)
             p == Len(stack')
  <2> HIDE DEF H, n, p
  <2>1. \A j \in H \cup H' : j \in Nat \ {0}
    BY <1>1, <1>3 DEF H, n, p
  <2>2. \A j \in H \cup H' : j < i => j \in 1 .. k
    BY <2>1
  <2> QED  BY <2>2 DEF H
<1> QED  BY <1>2, <1>4

LEMMA UnheldKept ==
  ASSUME ModsOK, StackOK, CapturesOK, CapturesMatch, Unheld, [Next]_vars
  PROVE  Unheld'
<1> DEFINE n == Len(stack)
           p == Len(stack')
<1>1. \E S : stack' \in Seq(S)  BY EveryStep
<1>2. n \in Nat /\ p \in Nat  BY <1>1, KeptFrames
<1>3. PICK k : /\ Kept(k) /\ k \in Nat
               /\ \/ p = k
                  \/ p = k + 1 /\ k = n /\ Raises
                  \/ p = k + 1 /\ stack'[p].type # "emission"
  BY TopFrame
<1> SUFFICES ASSUME NEW i \in 1 .. p, stack'[i].type = "emission", stack'[i].token = 0
             PROVE  \/ stack'[i].balance = NotFinite
                    \/ Cardinality({j \in Holding' : j < i}) = Slots
  BY DEF Unheld, FramesOf
<1>4. CASE i <= k
  <2>1. i \in 1 .. k /\ i \in 1 .. n /\ i \in 1 .. k + 1  BY <1>2, <1>3, <1>4 DEF Kept
  <2>2. stack[i].type = "emission" /\ stack[i].token = 0 /\ stack'[i].balance = stack[i].balance
    BY <1>1, <1>3, <2>1, KeptSets
  <2>3. stack[i].balance = NotFinite \/ Cardinality({j \in Holding : j < i}) = Slots
    BY <2>1, <2>2 DEF Unheld, FramesOf
  <2>4. {j \in Holding' : j < i} = {j \in Holding : j < i}
    BY <1>1, <1>3, <2>1, HeldBelow
  <2> QED  BY <2>2, <2>3, <2>4
<1>5. CASE i > k
  <2>1. i = p /\ p = k + 1 /\ k = n /\ Raises
    BY <1>2, <1>3, <1>5
  <2>2. PICK b \in Balance \cup {NotFinite} :
          Capture(b) /\ stack'[p] = Emission(b, CaptureToken(b))
    BY <1>1, <2>1, Tops
  <2>3. CaptureToken(b) = 0 /\ stack'[i].balance = b
    BY <2>1, <2>2 DEF Emission
  <2>4. b = NotFinite \/ captures.depth = Slots
    BY <2>3, LimitAssumption DEF CaptureToken, CapturesOK
  <2>5. {j \in Holding' : j < i} = {j \in Holding : j < i}
    <3>1. i \in 1 .. k + 1  BY <1>3, <2>1
    <3> QED  BY <1>1, <1>3, <3>1, HeldBelow
  <2>6. {j \in Holding : j < i} = Holding
    <3>1. Holding \subseteq 1 .. n  BY DEF Holding, FramesOf
    <3> HIDE DEF n
    <3>2. \A j \in Holding : j < i  BY <1>2, <2>1, <3>1
    <3> QED  BY <3>2
  <2> QED  BY <2>3, <2>4, <2>5, <2>6 DEF CapturesMatch
<1> QED  BY <1>2, <1>3, <1>4, <1>5

\* The events of a money update carry its balance.
LEMMA OwnBalanceKept ==
  ASSUME ModsOK, StackOK, CapturesOK, CapturesMatch, Unheld, OwnBalance, [Next]_vars
  PROVE  OwnBalance'
<1> DEFINE n == Len(stack)
           p == Len(stack')
           Own(f, e, i) == \/ f.cash = e.balance
                           \/ /\ f.cash = NoCash
                              /\ e.balance = NotFinite
                                   \/ Cardinality({j \in Holding : j < i - 1}) = Slots
<1>1. \E S : stack' \in Seq(S)  BY EveryStep
<1>2. n \in Nat /\ p \in Nat  BY <1>1, KeptFrames
<1>3. PICK k : /\ Kept(k) /\ k \in Nat
               /\ \/ p = k
                  \/ p = k + 1 /\ k = n /\ Delivers
                  \/ p = k + 1 /\ stack'[p].type # "dispatch"
                  \/ /\ p = k + 1 /\ p = n /\ stack[n].type = "dispatch"
                     /\ stack'[n].cash = stack[n].cash
  BY TopFrame
<1> SUFFICES ASSUME NEW i \in 2 .. p, stack'[i].type = "dispatch", stack'[i - 1].type = "emission"
             PROVE  \/ stack'[i].cash = stack'[i - 1].balance
                    \/ /\ stack'[i].cash = NoCash
                       /\ \/ stack'[i - 1].balance = NotFinite
                          \/ Cardinality({j \in Holding' : j < i - 1}) = Slots
  BY DEF OwnBalance
<1>4. i - 1 \in 1 .. k /\ i - 1 \in 1 .. n /\ i - 1 \in 1 .. k + 1
  BY <1>2, <1>3 DEF Kept
<1>5. stack[i - 1].type = "emission" /\ stack'[i - 1].balance = stack[i - 1].balance
  BY <1>1, <1>3, <1>4, KeptSets
<1>6. {j \in Holding' : j < i - 1} = {j \in Holding : j < i - 1}
  BY <1>1, <1>3, <1>4, HeldBelow
<1>7. SUFFICES Own(stack'[i], stack[i - 1], i)
  BY <1>5, <1>6
<1>8. CASE i \in 2 .. n /\ stack[i].type = "dispatch" /\ stack'[i].cash = stack[i].cash
  <2>1. Own(stack[i], stack[i - 1], i)
    BY <1>5, <1>8 DEF OwnBalance
  <2> QED  BY <1>8, <2>1
<1>9. CASE i <= k
  <2>1. i \in 1 .. k /\ i \in 2 .. n  BY <1>2, <1>3, <1>9 DEF Kept
  <2>2. stack[i].type = "dispatch" /\ stack'[i].cash = stack[i].cash
    BY <1>1, <1>3, <2>1, KeptSets
  <2> QED  BY <1>8, <2>1, <2>2
<1>10. CASE i > k
  <2>1. i = p /\ p = k + 1  BY <1>2, <1>3, <1>10
  <2>2. CASE p = n /\ stack[n].type = "dispatch" /\ stack'[n].cash = stack[n].cash
    BY <1>8, <2>1, <2>2
  <2>3. CASE k = n /\ Delivers
    <3>1. i - 1 = n /\ n # 0 /\ stack[n].type = "emission"
          /\ stack'[i].cash = Captured(stack[n].token)
      <4>1. i - 1 = n /\ n # 0  BY <1>2, <1>4, <2>1, <2>3
      <4> QED  BY <1>1, <1>5, <2>1, <2>3, <4>1, Tops
    <3> DEFINE t == stack[n].token
    <3>2. CASE t = 0
      <4>1. stack'[i].cash = NoCash  BY <3>1, <3>2 DEF Captured
      <4>2. stack[n].balance = NotFinite \/ Cardinality({j \in Holding : j < n}) = Slots
        BY <1>2, <3>1, <3>2 DEF Unheld, FramesOf
      <4> QED  BY <3>1, <4>1, <4>2
    <3>3. CASE t # 0
      <4>1. n \in Holding /\ Holding \subseteq 1 .. n
        BY <1>2, <3>1, <3>3 DEF Holding, FramesOf
      <4>2. {j \in Holding : j <= n} = Holding
        <5> HIDE DEF n
        <5>1. \A j \in Holding : j <= n  BY <1>2, <4>1
        <5> QED  BY <5>1
      <4>3. t = captures.depth /\ captures.values[t] = stack[n].balance
        BY <4>1, <4>2 DEF CapturesMatch
      <4>4. Captured(t) = stack[n].balance
        BY <3>3, <4>3 DEF Captured
      <4> QED  BY <3>1, <4>4
    <3> QED  BY <3>2, <3>3
  <2> QED  BY <1>2, <1>3, <2>1, <2>2, <2>3
<1> QED  BY <1>2, <1>3, <1>9, <1>10
-----------------------------------------------------------------------------
(* Theorems                                                                *)

LEMMA DispatchInitial ==
  ASSUME Init
  PROVE  DispatchInv
<1>1. stack = <<>> /\ Len(stack) = 0 /\ stack \in Seq({})
  BY DEF Init
<1>2. FramesOf("emission") = {} /\ FramesOf("dispatch") = {} /\ FramesOf("callback") = {}
  BY <1>1 DEF FramesOf
<1>3. StackOK /\ Nested /\ OwnBalance
  BY <1>1 DEF StackOK, Nested, OwnBalance
<1>4. Holding = {} /\ \A m \in Mod : ServingFor(m) = {} /\ CallbacksOf(m) = {}
  BY <1>2 DEF Holding, ServingFor, CallbacksOf
<1>5. Cardinality({}) = 0
  BY FS_EmptySet
<1>6. DOMAIN mods = Mod /\ \A m \in Mod : \E e : mods[m] = Loaded(e)
  BY DEF Init
<1>7. \A e : /\ DOMAIN Loaded(e) = ModFields /\ Loaded(e).budget = 0 /\ Loaded(e).failure = FALSE
             /\ Loaded(e).callbacks = 0 /\ Loaded(e).events = 0
  BY DEF Loaded, ModFields
<1>8. ModsOK /\ Counted
  <2>1. 0 \in 0 .. Allowance /\ 0 \in 0 .. EventLimit  BY LimitAssumption
  <2>2. ASSUME NEW m \in Mod
        PROVE  /\ DOMAIN mods[m] = ModFields /\ mods[m].budget = 0 /\ mods[m].failure = FALSE
               /\ mods[m].callbacks = 0 /\ mods[m].events = 0
    <3>1. PICK e : mods[m] = Loaded(e)  BY <1>6
    <3> QED  BY <1>7, <3>1, Zenon
  <2>3. ASSUME NEW m \in Mod PROVE ModOK(m)
    <3>1. 0 \in Nat  OBVIOUS
    <3> QED  BY <2>1, <2>2, <3>1, Zenon DEF ModOK
  <2>4. \A m \in Mod : mods[m].events = Cardinality(ServingFor(m))
                     /\ mods[m].callbacks = Cardinality(CallbacksOf(m))
    BY <1>4, <1>5, <2>2, Zenon
  <2> QED  BY <1>6, <2>3, <2>4, Zenon DEF ModsOK, Counted
<1>9. CapturesOK /\ CapturesMatch /\ Unheld
  BY <1>2, <1>4, <1>5, LimitAssumption DEF Init, CapturesOK, CapturesMatch, Unheld
<1> QED  BY <1>3, <1>8, <1>9 DEF DispatchInv

\* The inductive invariant: records and frames are well formed, the depths
\* count frames, callbacks are made by dispatches, and slots, tokens and cash
\* agree with the money updates under way.
THEOREM DispatchInvariant == Spec => []DispatchInv
<1>1. Init => DispatchInv
  BY DispatchInitial
<1>2. DispatchInv /\ [Next]_vars => DispatchInv'
  BY StackKept, CapturesKept, CountedKept, NestedKept, MatchKept, UnheldKept, OwnBalanceKept
     DEF DispatchInv
<1> QED  BY <1>1, <1>2, PTL DEF Spec

\* At most the host's callback is not made by a dispatch.
LEMMA CallbacksBounded ==
  ASSUME DispatchInv, NEW m \in Mod
  PROVE  Cardinality(CallbacksOf(m)) <= Cardinality(ServingFor(m)) + 1
<1> DEFINE n == Len(stack)
           C == CallbacksOf(m)
           V == ServingFor(m)
           D == C \ {1}
<1>1. n \in Nat
  BY DEF DispatchInv, StackOK
<1>2. C \subseteq 1 .. n /\ V \subseteq 1 .. n
  BY SetsOfPositions
<1>3. IsFiniteSet(C) /\ Cardinality(C) \in Nat /\ IsFiniteSet(V) /\ Cardinality(V) \in Nat
  <2> HIDE DEF C, V, n
  <2> QED  BY <1>1, <1>2, Counting
<1>4. Cardinality(C) <= Cardinality(D) + 1 /\ Cardinality(D) \in Nat
  <2> HIDE DEF C
  <2>1. IsFiniteSet(D) /\ Cardinality(D) = IF 1 \in C THEN Cardinality(C) - 1 ELSE Cardinality(C)
    BY <1>3, FS_RemoveElement
  <2>2. Cardinality(D) \in Nat
    BY <2>1, FS_CardinalityType
  <2> HIDE DEF D
  <2> QED  BY <1>3, <2>1, <2>2
<1>5. \A i \in D : i - 1 \in V /\ i \in Int
  <2>1. ASSUME NEW i \in D PROVE i \in 2 .. n /\ stack[i].type = "callback" /\ stack[i].mod = m
    BY <1>1, <1>2, <2>1 DEF CallbacksOf, FramesOf
  <2> QED  BY <2>1 DEF DispatchInv, Nested
<1> DEFINE f == [i \in D |-> i - 1]
<1>6. f \in Injection(D, V)
  <2> HIDE DEF D, V
  <2>1. f \in [D -> V]  BY <1>5
  <2>2. \A a, b \in D : f[a] = f[b] => a = b  BY <1>5
  <2> QED  BY <2>1, <2>2 DEF Injection, IsInjective
<1>7. Cardinality(D) <= Cardinality(V)
  <2> HIDE DEF D, V, f
  <2> QED  BY <1>3, <1>6, FS_Injection
<1> QED  BY <1>3, <1>4, <1>7

\* The depths of the mods, from the invariant: the limit on nested events
\* keeps the callbacks of a mod below their own limit.
LEMMA DepthsOfStack ==
  ASSUME DispatchInv
  PROVE  DepthsCounted
<1>1. ASSUME NEW m \in Mod
      PROVE  /\ mods[m].events = Cardinality(ServingFor(m))
             /\ mods[m].callbacks = Cardinality(CallbacksOf(m))
             /\ mods[m].callbacks <= mods[m].events + 1
             /\ mods[m].callbacks < CallbackLimit
  <2>1. /\ mods[m].events = Cardinality(ServingFor(m)) /\ mods[m].events \in 0 .. EventLimit
        /\ mods[m].callbacks = Cardinality(CallbacksOf(m)) /\ mods[m].callbacks \in Nat
    BY DEF DispatchInv, Counted, ModsOK, ModOK
  <2>2. mods[m].callbacks <= mods[m].events + 1
    BY <2>1, CallbacksBounded
  <2> QED  BY <2>1, <2>2, LimitAssumption
<1> QED  BY <1>1 DEF DepthsCounted, ServingFor, CallbacksOf

\* StackAccounted, from the invariant: what counts frames agrees with the
\* stack, also after the host's own code failed between a step and the next
\* (cash_capture.hpp, lua_mod.cpp:259-271,1411-1424).
THEOREM StackCounted == Spec => []StackAccounted
<1>1. ASSUME DispatchInv PROVE StackAccounted
  <2>1. CapturesMatchEmissions
    BY <1>1 DEF DispatchInv, CapturesMatch, CapturesMatchEmissions, Holding
  <2> QED  BY <1>1, <2>1, DepthsOfStack DEF StackAccounted
<1> QED  BY <1>1, DispatchInvariant, PTL

\* CashOwnBalance: both events of a money update carry the balance of that
\* update, whatever nested updates came between (gameplay-events.md:76-80).
THEOREM EventsOwnBalance == Spec => []CashOwnBalance
<1>1. ASSUME DispatchInv PROVE CashOwnBalance
  <2> SUFFICES ASSUME NEW i \in FramesOf("dispatch"), i > 1, stack[i - 1].type = "emission"
               PROVE  \/ stack[i].cash = stack[i - 1].balance
                      \/ /\ stack[i].cash = NoCash
                         /\ \/ stack[i - 1].balance = NotFinite
                            \/ Cardinality({j \in {x \in FramesOf("emission") : x < i - 1} :
                                              stack[j].token # 0}) = Slots
    BY DEF CashOwnBalance
  <2>1. i \in 2 .. Len(stack) /\ stack[i].type = "dispatch"
    BY DEF FramesOf
  <2>2. {j \in {x \in FramesOf("emission") : x < i - 1} : stack[j].token # 0}
          = {j \in Holding : j < i - 1}
    BY DEF Holding
  <2> QED  BY <1>1, <2>1, <2>2 DEF DispatchInv, OwnBalance
<1> QED  BY <1>1, DispatchInvariant, PTL

\* AllowanceShared: nested callbacks use up one allowance, and a failure
\* stays until the outermost callback is over (native-internals.md:123).
THEOREM AllowanceOfNested == Spec => AllowanceShared
<1>1. ASSUME DispatchInv, [Next]_vars, NEW m \in Mod,
             mods[m].callbacks > 0, mods'[m].callbacks > 0
      PROVE  mods'[m].budget <= mods[m].budget /\ (mods[m].failure => mods'[m].failure)
  <2>1. mods[m].budget \in Nat
    BY <1>1, LimitAssumption DEF DispatchInv, ModsOK, ModOK
  <2>2. mods' = mods \/ \E k, e, c : ModChange(k, e, c)
    BY <1>1, EveryStep DEF DispatchInv, Touches, SameDepths, Raises, Delivers, Settles, Turns,
       Enters, Calls, Returns
  <2> QED  BY <1>1, <2>1, <2>2 DEF ModChange
<1>2. DispatchInv /\ [Next]_vars =>
        [\A m \in Mod :
           mods[m].callbacks > 0 /\ mods'[m].callbacks > 0 =>
             /\ mods'[m].budget <= mods[m].budget
             /\ mods[m].failure => mods'[m].failure]_vars
  BY <1>1
<1> QED  BY <1>2, DispatchInvariant, PTL DEF Spec, AllowanceShared

\* NoCallAfterOff: a handler that was taken out is never called again
\* (gameplay-events.md:136-137).  A step that puts a callback on the stack
\* is a call of the host or of a handler its mod still holds.
THEOREM CalledWhileSubscribed == Spec => NoCallAfterOff
<1>1. ASSUME DispatchInv, [Next]_vars, Len(stack') > Len(stack),
             Last(stack').type = "callback", Last(stack').token # 0
      PROVE  Last(stack').token \in EnabledIn(mods[Last(stack').mod].handlers)
  <2> DEFINE n == Len(stack)
             p == Len(stack')
  <2>1. \E S : stack' \in Seq(S)
    BY <1>1, EveryStep DEF DispatchInv
  <2>2. n \in Nat /\ p \in Nat /\ p > n
    BY <1>1, <2>1, KeptFrames DEF DispatchInv
  <2>3. Last(stack') = stack'[p]
    BY DEF Last
  <2>4. PICK k : /\ Kept(k) /\ k \in Nat
                 /\ p = k \/ p = n \/ (p = k + 1 /\ k = n /\ (Raises \/ Delivers \/ Calls)
                                       /\ (Raises => stack'[p].type = "emission")
                                       /\ (Delivers => stack'[p].type = "dispatch"))
    BY <1>1, TopFrame DEF DispatchInv
  <2>5. Calls
    <3>1. p # k  BY <2>2, <2>4 DEF Kept
    <3> HIDE DEF n, p
    <3> QED  BY <1>1, <2>2, <2>3, <2>4, <3>1
  <2>6. Find(mods[stack'[p].mod].handlers, stack'[p].token) # {}
    BY <1>1, <2>1, <2>3, <2>5, Tops DEF DispatchInv
  <2> QED  BY <2>3, <2>6 DEF Find, EnabledIn
<1>2. DispatchInv /\ [Next]_vars =>
        [Len(stack') > Len(stack) /\ Last(stack').type = "callback" =>
           LET c == Last(stack')
           IN  c.token # 0 => c.token \in EnabledIn(mods[c.mod].handlers)]_vars
  BY <1>1
<1> QED  BY <1>2, DispatchInvariant, PTL DEF Spec, NoCallAfterOff

-----------------------------------------------------------------------------
(* The lists of handlers, and what a dispatch still owes the ones in them  *)

\* The list of a mod: event tokens are given out once, in rising order, and
\* next is the first that was not.
HandlerFields == {"token", "event", "enabled"}
TokensRise(hs) == \A i, j \in 1 .. Len(hs) : i < j => hs[i].token < hs[j].token
HandlersBelow(hs, next) ==
  \A i \in 1 .. Len(hs) :
    /\ DOMAIN hs[i] = HandlerFields /\ hs[i].enabled \in BOOLEAN
    /\ hs[i].token \in 1 .. next - 1
ListOK(hs, next) ==
  /\ next \in Nat \ {0} /\ \E S : hs \in Seq(S)
  /\ HandlersBelow(hs, next) /\ TokensRise(hs)

\* The handler that was given token t is subscribed to e.
Live(hs, t, e) ==
  \E i \in 1 .. Len(hs) : hs[i].enabled = TRUE /\ hs[i].event = e /\ hs[i].token = t
\* What a list becomes has no subscription it had not, but for new tokens.
Evolves(hs, next, hs2, next2) ==
  /\ ListOK(hs2, next2) /\ next <= next2
  /\ \A t, e : Live(hs2, t, e) => Live(hs, t, e) \/ (t \in Nat /\ t >= next)

\* Marking a handler.
LEMMA DisableList ==
  ASSUME NEW hs, NEW next, ListOK(hs, next), NEW t
  PROVE  /\ Evolves(hs, next, Disable(hs, t), next)
         /\ t \notin EnabledIn(Disable(hs, t))
         /\ \A u \in EnabledIn(hs) : u # t => u \in EnabledIn(Disable(hs, t))
<1> DEFINE d == Disable(hs, t)
           n == Len(hs)
           R == {[hs[i] EXCEPT !.enabled = @ /\ hs[i].token # t] : i \in 1 .. n}
<1>0. PICK S : hs \in Seq(S)  BY DEF ListOK
<1>1. n \in Nat  BY <1>0
<1>2. ASSUME NEW i \in 1 .. n
      PROVE  /\ DOMAIN d[i] = HandlerFields /\ d[i].token = hs[i].token
             /\ d[i].event = hs[i].event /\ d[i].enabled \in BOOLEAN
             /\ d[i].enabled = TRUE <=> hs[i].enabled = TRUE /\ hs[i].token # t
  <2> DEFINE h == hs[i]
             x == h.enabled /\ h.token # t
  <2>1. DOMAIN h = HandlerFields /\ h.enabled \in BOOLEAN
    BY DEF ListOK, HandlersBelow
  <2>2. d[i] = [h EXCEPT !.enabled = x]
    BY <2>1 DEF Disable, HandlerFields
  <2>3. x \in BOOLEAN /\ (x = TRUE <=> h.enabled = TRUE /\ h.token # t)
    BY <2>1
  <2> HIDE DEF h, x, d
  <2>4. DOMAIN d[i] = HandlerFields /\ d[i].token = h.token /\ d[i].event = h.event /\ d[i].enabled = x
    BY <2>1, <2>2 DEF HandlerFields
  <2> QED  BY <2>3, <2>4 DEF h
<1>3. d \in Seq(R) /\ Len(d) = n
  BY <1>1 DEF Disable
<1> HIDE DEF d
<1>4. ListOK(d, next)
  BY <1>2, <1>3 DEF ListOK, HandlersBelow, TokensRise
<1>5. \A u, e : Live(d, u, e) => Live(hs, u, e)
  BY <1>2, <1>3 DEF Live
<1>6. next <= next  BY DEF ListOK
<1>7. t \notin EnabledIn(d)
  BY <1>2, <1>3 DEF EnabledIn
<1>8. ASSUME NEW u \in EnabledIn(hs), u # t PROVE u \in EnabledIn(d)
  <2>1. PICK i \in 1 .. n : hs[i].enabled /\ hs[i].token = u  BY DEF EnabledIn
  <2>2. hs[i].enabled = TRUE  BY <2>1 DEF ListOK, HandlersBelow
  <2>3. d[i].enabled = TRUE /\ d[i].token = u  BY <1>2, <1>8, <2>1, <2>2
  <2> QED  BY <1>3, <2>3 DEF EnabledIn
<1> QED  BY <1>4, <1>5, <1>6, <1>7, <1>8 DEF Evolves, d

\* Erasing what was marked.
LEMMA EraseList ==
  ASSUME NEW hs, NEW next, ListOK(hs, next)
  PROVE  /\ Evolves(hs, next, EraseDisabled(hs), next)
         /\ \A u \in EnabledIn(hs) : u \in EnabledIn(EraseDisabled(hs))
<1> DEFINE r == EraseDisabled(hs)
           T == {h \in Range(hs) : h.enabled}
           n == Len(hs)
<1>0. PICK S : hs \in Seq(S)  BY DEF ListOK
<1>1. PICK e : r \in Seq(S) /\ Picks(e, r, hs, T, n)
  BY <1>0, AmongPicks DEF EraseDisabled
<1>2. n \in Nat /\ Len(r) \in Nat  BY <1>0, <1>1
<1>3. /\ \A i \in 1 .. Len(r) : e[i] \in 1 .. n /\ r[i] = hs[e[i]]
      /\ \A i, j \in 1 .. Len(r) : i < j => e[i] < e[j]
      /\ \A j \in 1 .. n : hs[j] \in T => \E i \in 1 .. Len(r) : e[i] = j
  BY <1>1 DEF Picks
<1> HIDE DEF r
<1>4. ListOK(r, next)
  <2>1. HandlersBelow(r, next)  BY <1>3 DEF ListOK, HandlersBelow
  <2>2. TokensRise(r)  BY <1>3 DEF ListOK, TokensRise
  <2> QED  BY <1>1, <2>1, <2>2 DEF ListOK
<1>5. \A u, x : Live(r, u, x) => Live(hs, u, x)
  BY <1>3 DEF Live
<1>6. next <= next  BY DEF ListOK
<1>7. ASSUME NEW u \in EnabledIn(hs) PROVE u \in EnabledIn(r)
  <2>1. PICK i \in 1 .. n : hs[i].enabled /\ hs[i].token = u  BY DEF EnabledIn
  <2>2. hs[i] \in T
    <3>1. hs[i] \in Range(hs)  BY <1>0 DEF Range
    <3> QED  BY <2>1, <3>1
  <2>3. PICK k \in 1 .. Len(r) : e[k] = i  BY <1>3, <2>2
  <2>4. r[k].enabled /\ r[k].token = u  BY <1>3, <2>1, <2>3
  <2> QED  BY <2>4 DEF EnabledIn
<1> QED  BY <1>4, <1>5, <1>6, <1>7 DEF Evolves, r

\* A new subscription.
Added(hs, next, e) == Append(hs, [token |-> next, event |-> e, enabled |-> TRUE])

LEMMA AppendList ==
  ASSUME NEW hs, NEW next, ListOK(hs, next), NEW e
  PROVE  /\ Evolves(hs, next, Added(hs, next, e), next + 1)
         /\ \A u \in EnabledIn(hs) : u \in EnabledIn(Added(hs, next, e))
<1> DEFINE h == [token |-> next, event |-> e, enabled |-> TRUE]
           a == Added(hs, next, e)
           n == Len(hs)
<1>0. PICK S : hs \in Seq(S)  BY DEF ListOK
<1>1. /\ a \in Seq(S \cup {h}) /\ Len(a) = n + 1 /\ a[n + 1] = h
      /\ \A i \in 1 .. n : a[i] = hs[i]
  <2>1. hs \in Seq(S \cup {h})  BY <1>0, SeqMonotonic
  <2> HIDE DEF h
  <2> QED  BY <2>1, AppendProperties DEF Added, h
<1>2. DOMAIN h = HandlerFields /\ h.enabled = TRUE /\ h.token = next /\ h.event = e
  BY DEF HandlerFields
<1> HIDE DEF a, h
<1>3. n \in Nat /\ next \in Nat \ {0} /\ \A i \in 1 .. n + 1 : i \in 1 .. n \/ i = n + 1
  BY <1>0 DEF ListOK
<1>4. HandlersBelow(a, next + 1)
  <2>1. ASSUME NEW i \in 1 .. n + 1
        PROVE  /\ DOMAIN a[i] = HandlerFields /\ a[i].enabled \in BOOLEAN
               /\ a[i].token \in 1 .. next
    <3>1. CASE i \in 1 .. n
      BY <1>1, <3>1 DEF ListOK, HandlersBelow
    <3>2. CASE i = n + 1
      <4>1. next \in 1 .. next /\ TRUE \in BOOLEAN  BY <1>3
      <4>2. a[i].enabled \in BOOLEAN  BY <1>1, <1>2, <3>2, <4>1, Zenon
      <4> QED  BY <1>1, <1>2, <3>2, <4>1, <4>2, Zenon
    <3> QED  BY <1>3, <3>1, <3>2
  <2> QED  BY <1>1, <1>3, <2>1 DEF HandlersBelow
<1>5. TokensRise(a)
  <2>1. ASSUME NEW i \in 1 .. n + 1, NEW j \in 1 .. n + 1, i < j
        PROVE  a[i].token < a[j].token
    <3>1. i \in 1 .. n /\ a[i] = hs[i]  BY <1>1, <1>3, <2>1
    <3>2. CASE j \in 1 .. n
      BY <1>1, <2>1, <3>1, <3>2 DEF ListOK, TokensRise
    <3>3. CASE j = n + 1
      BY <1>1, <1>2, <1>3, <3>1, <3>3 DEF ListOK, HandlersBelow
    <3> QED  BY <1>3, <3>2, <3>3
  <2> QED  BY <1>1, <2>1 DEF TokensRise
<1>6. ASSUME NEW u, NEW x, Live(a, u, x) PROVE Live(hs, u, x) \/ (u \in Nat /\ u >= next)
  <2>1. PICK i \in 1 .. n + 1 : a[i].enabled = TRUE /\ a[i].event = x /\ a[i].token = u
    BY <1>1, <1>6 DEF Live
  <2>2. CASE i \in 1 .. n  BY <1>1, <2>1, <2>2 DEF Live
  <2>3. CASE i = n + 1  BY <1>1, <1>2, <1>3, <2>1, <2>3
  <2> QED  BY <1>3, <2>2, <2>3
<1>7. ASSUME NEW u \in EnabledIn(hs) PROVE u \in EnabledIn(a)
  <2>1. PICK i \in 1 .. n : hs[i].enabled /\ hs[i].token = u  BY DEF EnabledIn
  <2>2. i \in 1 .. n + 1 /\ a[i].enabled /\ a[i].token = u  BY <1>1, <1>3, <2>1
  <2> QED  BY <1>1, <2>2 DEF EnabledIn
<1>8. next + 1 \in Nat \ {0} /\ next <= next + 1  BY <1>3
<1> QED  BY <1>1, <1>4, <1>5, <1>6, <1>7, <1>8 DEF Evolves, ListOK, a

\* A list that is left as it is.
LEMMA SameList ==
  ASSUME NEW hs, NEW next, ListOK(hs, next)
  PROVE  Evolves(hs, next, hs, next)
  BY DEF Evolves, ListOK

-----------------------------------------------------------------------------
\* What is left of a snapshot: tokens in rising order, between the one served
\* last and the first that was not given out when it was taken.
QueueOK(q, last, first) ==
  /\ q \in Seq(Nat) /\ last \in Nat /\ first \in Nat
  /\ \A i \in 1 .. Len(q) : last < q[i] /\ q[i] < first
  /\ \A i, j \in 1 .. Len(q) : i < j => q[i] < q[j]
\* Every handler of the list that is owed the event is in it.
Queued(q, last, first, hs, e) ==
  \A t : Live(hs, t, e) /\ last < t /\ t < first => \E i \in 1 .. Len(q) : q[i] = t
Serves(q, last, first, hs, next, e) ==
  QueueOK(q, last, first) /\ first <= next /\ Queued(q, last, first, hs, e)

\* A snapshot holds them all.
LEMMA SnapshotServes ==
  ASSUME NEW hs, NEW next, ListOK(hs, next), NEW event
  PROVE  Serves(Snapshot(hs, event), 0, next, hs, next, event)
<1> DEFINE r == Matching(hs, event)
           T == {h \in Range(hs) : h.enabled /\ h.event = event}
           n == Len(hs)
           q == Snapshot(hs, event)
<1>0. PICK S : hs \in Seq(S)  BY DEF ListOK
<1>1. PICK e : r \in Seq(S) /\ Picks(e, r, hs, T, n)
  BY <1>0, AmongPicks DEF Matching
<1>2. n \in Nat /\ Len(r) \in Nat /\ next \in Nat  BY <1>0, <1>1 DEF ListOK
<1>3. /\ \A i \in 1 .. Len(r) : e[i] \in 1 .. n /\ r[i] = hs[e[i]]
      /\ \A i, j \in 1 .. Len(r) : i < j => e[i] < e[j]
      /\ \A j \in 1 .. n : hs[j] \in T => \E i \in 1 .. Len(r) : e[i] = j
  BY <1>1 DEF Picks
<1>4. q = [i \in 1 .. Len(r) |-> r[i].token]  BY DEF Snapshot
<1> HIDE DEF r, q
<1>5. \A i \in 1 .. Len(r) : r[i].token \in 1 .. next - 1
  BY <1>3 DEF ListOK, HandlersBelow
<1>6. \A i, j \in 1 .. Len(r) : i < j => r[i].token < r[j].token
  BY <1>3 DEF ListOK, TokensRise
<1>7. q \in Seq(Nat) /\ Len(q) = Len(r) /\ \A i \in 1 .. Len(r) : q[i] = r[i].token
  BY <1>2, <1>4, <1>5
<1>8. QueueOK(q, 0, next)
  BY <1>2, <1>5, <1>6, <1>7 DEF QueueOK
<1>9. ASSUME NEW t, Live(hs, t, event) PROVE \E i \in 1 .. Len(q) : q[i] = t
  <2>1. PICK j \in 1 .. n : hs[j].enabled = TRUE /\ hs[j].event = event /\ hs[j].token = t
    BY <1>9 DEF Live
  <2>2. hs[j] \in T
    <3>1. hs[j] \in Range(hs)  BY <1>0 DEF Range
    <3> QED  BY <2>1, <3>1
  <2>3. PICK i \in 1 .. Len(r) : e[i] = j  BY <1>3, <2>2
  <2> QED  BY <1>3, <1>7, <2>1, <2>3
<1> QED  BY <1>2, <1>8, <1>9 DEF Serves, Queued, q

\* A queue stays one while the list evolves.
LEMMA ServesOn ==
  ASSUME NEW q, NEW last, NEW first, NEW hs, NEW next, NEW hs2, NEW next2, NEW e,
         ListOK(hs, next), Serves(q, last, first, hs, next, e), Evolves(hs, next, hs2, next2)
  PROVE  Serves(q, last, first, hs2, next2, e)
<1>1. first <= next /\ next <= next2 /\ first \in Nat /\ next \in Nat /\ next2 \in Nat
  BY DEF Serves, QueueOK, Evolves, ListOK
<1>2. ASSUME NEW t, Live(hs2, t, e), last < t, t < first PROVE \E i \in 1 .. Len(q) : q[i] = t
  <2>1. Live(hs, t, e)  BY <1>1, <1>2 DEF Evolves
  <2> QED  BY <1>2, <2>1 DEF Serves, Queued
<1> QED  BY <1>1, <1>2 DEF Serves, Queued

\* The handler at its head is served.
LEMMA ServesNext ==
  ASSUME NEW q, NEW last, NEW first, NEW hs, NEW next, NEW e,
         ListOK(hs, next), Serves(q, last, first, hs, next, e), q # <<>>
  PROVE  Serves(Tail(q), Head(q), first, hs, next, e)
<1>1. /\ q \in Seq(Nat) /\ first \in Nat /\ last \in Nat
      /\ \A i \in 1 .. Len(q) : last < q[i] /\ q[i] < first
      /\ \A i, j \in 1 .. Len(q) : i < j => q[i] < q[j]
  BY DEF Serves, QueueOK
<1>2. /\ Head(q) = q[1] /\ Tail(q) \in Seq(Nat) /\ Len(Tail(q)) = Len(q) - 1
      /\ \A i \in 1 .. Len(q) - 1 : Tail(q)[i] = q[i + 1]
      /\ Len(q) \in Nat \ {0} /\ q[1] \in Nat
  BY <1>1, EmptySeq
<1> DEFINE r == Tail(q)
<1> HIDE DEF r
<1>3. \A i \in 1 .. Len(q) - 1 : r[i] = q[i + 1] /\ i + 1 \in 1 .. Len(q)
  BY <1>2 DEF r
<1>4. QueueOK(r, q[1], first)
  <2>1. \A i \in 1 .. Len(r) : q[1] < r[i] /\ r[i] < first
    BY <1>1, <1>2, <1>3 DEF r
  <2>2. \A i, j \in 1 .. Len(r) : i < j => r[i] < r[j]
    BY <1>1, <1>2, <1>3 DEF r
  <2> QED  BY <1>1, <1>2, <2>1, <2>2 DEF QueueOK, r
<1>5. ASSUME NEW t, Live(hs, t, e), q[1] < t, t < first
      PROVE  \E i \in 1 .. Len(r) : r[i] = t
  <2>0. t \in Nat  BY <1>5 DEF Live, ListOK, HandlersBelow
  <2>1. last < q[1]  BY <1>1, <1>2
  <2>2. last < t  BY <1>1, <1>2, <1>5, <2>0, <2>1
  <2>3. PICK i \in 1 .. Len(q) : q[i] = t  BY <1>5, <2>2 DEF Serves, Queued
  <2>4. i # 1 /\ i - 1 \in 1 .. Len(q) - 1 /\ i - 1 + 1 = i  BY <1>2, <1>5, <2>3
  <2>5. r[i - 1] = q[i]  BY <1>3, <2>4
  <2> QED  BY <1>2, <2>3, <2>4, <2>5 DEF r
<1> QED  BY <1>2, <1>4, <1>5 DEF Serves, Queued, r

-----------------------------------------------------------------------------
(* What a step does to the lists and to the queues                         *)

\* Why mod m may lose the handler of token t.
Cause(m, t) ==
  \/ /\ Running("callback") /\ Top.mod = m
     /\ t = Top.token \/ Len(stack') = Len(stack)
  \/ /\ Running("dispatch") /\ Served(Top) = m
     /\ Top.queue # <<>> /\ t = Head(Top.queue)
     /\ mods'[m].failure = TRUE

\* What a step does to the list of a mod.
HasList(m, hs, next) == mods'[m].handlers = hs /\ mods'[m].next = next
Keeps(m) == HasList(m, mods[m].handlers, mods[m].next)
Marks(m) ==
  \E t : HasList(m, Disable(mods[m].handlers, t), mods[m].next) /\ Cause(m, t)
Erases(m) == HasList(m, EraseDisabled(mods[m].handlers), mods[m].next)
Adds(m) ==
  \E e : HasList(m, Added(mods[m].handlers, mods[m].next, e), mods[m].next + 1)
ListsChange == \A m \in Mod : Keeps(m) \/ Marks(m) \/ Erases(m) \/ Adds(m)

\* What it does to the frames.  A dispatch enters a mod with the snapshot of
\* its list, and then serves what is left of it.
Waiting(f) == f.type = "dispatch" => ~f.serving /\ f.last = 0
Entering(f) ==
  LET m == Served(f)
  IN  /\ f.type = "dispatch" /\ f.serving /\ m \in Mod /\ Keeps(m)
      /\ f.queue = Snapshot(mods[m].handlers, f.event)
      /\ f.last = 0 /\ f.first = mods[m].next
Steady(f) ==
  \/ Waiting(f) \/ Entering(f)
  \/ stack # <<>> /\ Serving(Top) /\ Top.queue # <<>> /\ f = Serve(Top)
FramesChange ==
  \/ stack' = stack
  \/ stack # <<>> /\ Popped
  \/ stack # <<>> /\ \E f : Replaced(f) /\ Steady(f)
  \/ stack # <<>> /\ \E f, g : Grown(f, g) /\ Steady(f) /\ Waiting(g)
  \/ \E g : Started(g) /\ Waiting(g)

\* The lists under the updates of the actions.
LEMMA ListUpdates ==
  ASSUME ModsOK, NEW m \in Mod
  PROVE  /\ mods' = mods => \A k \in Mod : Keeps(k)
         /\ \A e : mods' = [mods EXCEPT ![m].events = e] => \A k \in Mod : Keeps(k)
         /\ mods' = [mods EXCEPT ![m] = Entered(mods[m])] => \A k \in Mod : Keeps(k)
         /\ \A b, x : mods' = [mods EXCEPT ![m].budget = b, ![m].failure = x]
              => \A k \in Mod : Keeps(k)
<1>0. DOMAIN mods = Mod /\ \A k \in Mod : DOMAIN mods[k] = ModFields
  BY DEF ModsOK, ModOK
<1>1. mods' = mods => \A k \in Mod : Keeps(k)
  BY DEF Keeps, HasList
<1>2. ASSUME NEW e, mods' = [mods EXCEPT ![m].events = e] PROVE \A k \in Mod : Keeps(k)
  BY <1>0, <1>2 DEF Keeps, HasList, ModFields
<1>3. ASSUME mods' = [mods EXCEPT ![m] = Entered(mods[m])] PROVE \A k \in Mod : Keeps(k)
  <2> DEFINE r == mods[m]
             e == Entered(r)
  <2>1. DOMAIN r = ModFields  BY <1>0
  <2>2. mods'[m] = e /\ \A k \in Mod \ {m} : mods'[k] = mods[k]  BY <1>0, <1>3
  <2> HIDE DEF r
  <2>3. e.handlers = r.handlers /\ e.next = r.next
    <3>1. CASE r.callbacks = 0  BY <2>1, <3>1 DEF Entered, ModFields
    <3>2. CASE r.callbacks # 0  BY <2>1, <3>2 DEF Entered, ModFields
    <3> QED  BY <3>1, <3>2
  <2> HIDE DEF e
  <2> QED  BY <2>2, <2>3 DEF Keeps, HasList, r
<1>4. ASSUME NEW b, NEW x, mods' = [mods EXCEPT ![m].budget = b, ![m].failure = x]
      PROVE  \A k \in Mod : Keeps(k)
  BY <1>0, <1>4 DEF Keeps, HasList, ModFields
<1> QED  BY <1>1, <1>2, <1>3, <1>4

\* The same, of the actions that change a list.
LEMMA ListOfOne ==
  ASSUME ModsOK, NEW m \in Mod
  PROVE  /\ \A n, h : mods' = [mods EXCEPT ![m].next = n, ![m].handlers = h]
              => HasList(m, h, n) /\ \A k \in Mod \ {m} : Keeps(k)
         /\ \A h : mods' = [mods EXCEPT ![m].handlers = h]
              => HasList(m, h, mods[m].next) /\ \A k \in Mod \ {m} : Keeps(k)
         /\ \A e, h : mods' = [mods EXCEPT ![m].events = e, ![m].handlers = h]
              => HasList(m, h, mods[m].next) /\ \A k \in Mod \ {m} : Keeps(k)
         /\ \A x, h : mods' = [mods EXCEPT ![m].failure = x, ![m].handlers = h]
              => /\ HasList(m, h, mods[m].next) /\ \A k \in Mod \ {m} : Keeps(k)
                 /\ mods'[m].failure = x
         /\ \A c, x, h :
              mods' = [mods EXCEPT ![m].callbacks = c, ![m].failure = x, ![m].handlers = h]
                => HasList(m, h, mods[m].next) /\ \A k \in Mod \ {m} : Keeps(k)
<1>0. DOMAIN mods = Mod /\ \A k \in Mod : DOMAIN mods[k] = ModFields
  BY DEF ModsOK, ModOK
<1>1. ASSUME NEW n, NEW h, mods' = [mods EXCEPT ![m].next = n, ![m].handlers = h]
      PROVE  HasList(m, h, n) /\ \A k \in Mod \ {m} : Keeps(k)
  BY <1>0, <1>1 DEF HasList, Keeps, ModFields
<1>2. ASSUME NEW h, mods' = [mods EXCEPT ![m].handlers = h]
      PROVE  HasList(m, h, mods[m].next) /\ \A k \in Mod \ {m} : Keeps(k)
  BY <1>0, <1>2 DEF HasList, Keeps, ModFields
<1>3. ASSUME NEW e, NEW h, mods' = [mods EXCEPT ![m].events = e, ![m].handlers = h]
      PROVE  HasList(m, h, mods[m].next) /\ \A k \in Mod \ {m} : Keeps(k)
  BY <1>0, <1>3 DEF HasList, Keeps, ModFields
<1>4. ASSUME NEW x, NEW h, mods' = [mods EXCEPT ![m].failure = x, ![m].handlers = h]
      PROVE  /\ HasList(m, h, mods[m].next) /\ \A k \in Mod \ {m} : Keeps(k)
             /\ mods'[m].failure = x
  BY <1>0, <1>4 DEF HasList, Keeps, ModFields
<1>5. ASSUME NEW c, NEW x, NEW h,
             mods' = [mods EXCEPT ![m].callbacks = c, ![m].failure = x, ![m].handlers = h]
      PROVE  HasList(m, h, mods[m].next) /\ \A k \in Mod \ {m} : Keeps(k)
  BY <1>0, <1>5 DEF HasList, Keeps, ModFields
<1> QED  BY <1>1, <1>2, <1>3, <1>4, <1>5

\* A money update and another event of the game.
LEMMA EmissionLists ==
  ASSUME ModsOK, StackOK,
         EmissionStep \/ (\E b \in Balance \cup {NotFinite} : GameRaises(b))
           \/ (\E e \in OtherEvent : GameNotifies(e))
  PROVE  ListsChange /\ FramesChange
<1>1. mods' = mods
  BY DEF EmissionStep, EmitChanging, EmitChanged, EmissionReturns, ObserverRaises, GameRaises,
         GameNotifies
<1>2. ListsChange
  <2>1. \A k \in Mod : Keeps(k)  BY <1>1 DEF Keeps, HasList
  <2> QED  BY <2>1 DEF ListsChange
<1>3. \A b, t : Waiting(Emission(b, t))
  BY DEF Waiting, Emission
<1>4. \A e, c : Waiting(Dispatch(e, c))
  BY DEF Waiting, Dispatch
<1>5. ASSUME Running("emission"), NEW p
      PROVE  /\ Waiting([Top EXCEPT !.phase = p]) /\ Steady([Top EXCEPT !.phase = p])
             /\ stack # <<>>
  <2> DEFINE f == Top
             g == [f EXCEPT !.phase = p]
  <2>1. stack # <<>> /\ EmissionOK(f)
    BY <1>5, StackChanges, FrameTypes DEF Running
  <2> HIDE DEF f
  <2>2. g.type = "emission"  BY <2>1 DEF EmissionOK
  <2> HIDE DEF g
  <2>3. Waiting(g)  BY <2>2 DEF Waiting
  <2> QED  BY <2>1, <2>3 DEF Steady, f, g
<1>6. ASSUME NEW b \in Balance \cup {NotFinite}, GameRaises(b) PROVE FramesChange
  <2> DEFINE g == Emission(b, CaptureToken(b))
  <2>1. stack = <<>> /\ stack' = <<g>>  BY <1>6 DEF GameRaises, Raise, Push
  <2>2. Waiting(g)  BY <1>3
  <2> HIDE DEF g
  <2> QED  BY <2>1, <2>2, StartChanges DEF FramesChange
<1>7. ASSUME NEW e \in OtherEvent, GameNotifies(e) PROVE FramesChange
  <2> DEFINE g == Dispatch(e, NoCash)
  <2>1. stack = <<>> /\ stack' = <<g>>  BY <1>7 DEF GameNotifies
  <2>2. Waiting(g)  BY <1>4
  <2> HIDE DEF g
  <2> QED  BY <2>1, <2>2, StartChanges DEF FramesChange
<1>8. ASSUME NEW p, NEW e, Running("emission"), Deliver([Top EXCEPT !.phase = p], e)
      PROVE  FramesChange
  <2> DEFINE f == [Top EXCEPT !.phase = p]
             g == Dispatch(e, Captured(f.token))
  <2>1. Steady(f) /\ stack # <<>>  BY <1>5, <1>8
  <2>2. Waiting(g)  BY <1>4
  <2>3. stack' = SetTop(f) \/ stack' = SetTop(f) \o <<g>>  BY <1>8 DEF Deliver
  <2> HIDE DEF f, g
  <2>4. Replaced(f) \/ Grown(f, g)  BY <2>1, <2>3, StackChanges
  <2> QED  BY <2>1, <2>2, <2>4 DEF FramesChange
<1>9. ASSUME NEW b, ObserverRaises(b) PROVE FramesChange
  <2> DEFINE f == [Top EXCEPT !.phase = "observed"]
             g == Emission(b, CaptureToken(b))
  <2>1. Steady(f) /\ stack # <<>>  BY <1>5, <1>9 DEF ObserverRaises
  <2>2. Waiting(g)  BY <1>3
  <2>3. stack' = SetTop(f) \o <<g>>  BY <1>9 DEF ObserverRaises
  <2> HIDE DEF f, g
  <2>4. Grown(f, g)  BY <2>1, <2>3, StackChanges
  <2> QED  BY <2>1, <2>2, <2>4 DEF FramesChange
<1>10. ASSUME EmissionReturns PROVE FramesChange
  BY <1>10, StackChanges DEF EmissionReturns, FramesChange, Running
<1>11. EmitChanging \/ EmitChanged => FramesChange
  BY <1>8 DEF EmitChanging, EmitChanged
<1> QED  BY <1>2, <1>6, <1>7, <1>9, <1>10, <1>11 DEF EmissionStep

\* A dispatch leaves a mod.
LEMMA NextModFrames ==
  ASSUME StackOK, Running("dispatch"), stack' = NextMod(Top)
  PROVE  FramesChange
<1>1. stack # <<>> /\ DispatchOK(Top)
  BY StackChanges, FrameTypes DEF Running
<1>2. CASE Top.at = Len(Profile)
  BY <1>1, <1>2, StackChanges DEF NextMod, FramesChange
<1>3. CASE Top.at # Len(Profile)
  <2> DEFINE f == Top
             g == [f EXCEPT !.at = @ + 1, !.serving = FALSE, !.queue = <<>>,
                            !.last = 0, !.first = 0]
  <2>1. stack' = SetTop(g)  BY <1>3 DEF NextMod
  <2>2. DispatchOK(f)  BY <1>1
  <2> HIDE DEF f
  <2>3. Waiting(g)  BY <2>2 DEF DispatchOK, Waiting
  <2> HIDE DEF g
  <2>4. Replaced(g)  BY <1>1, <2>1, StackChanges
  <2> QED  BY <1>1, <2>3, <2>4 DEF FramesChange, Steady
<1> QED  BY <1>2, <1>3

\* A dispatch: what enters a mod, serves it and leaves it.
LEMMA DispatchLists ==
  ASSUME ModsOK, StackOK, DepthsCounted, DispatchStep,
         Running("dispatch") /\ ~Top.serving => Top.last = 0
  PROVE  ListsChange /\ FramesChange
<1>1. ASSUME Running("dispatch")
      PROVE  stack # <<>> /\ DispatchOK(Top) /\ Top.type = "dispatch" /\ Served(Top) \in Mod
  BY <1>1, StackChanges, FrameTypes DEF Running
<1>2. ASSUME DispatchRefused PROVE ListsChange /\ FramesChange
  <2>1. Running("dispatch") /\ mods' = mods /\ stack' = NextMod(Top)
    BY <1>2 DEF DispatchRefused
  <2> QED  BY <1>1, <2>1, ListUpdates, NextModFrames DEF ListsChange
<1>3. ASSUME DispatchLeaves PROVE ListsChange /\ FramesChange
  <2> DEFINE m == Served(Top)
             h == EraseDisabled(mods[m].handlers)
  <2>1. Running("dispatch") /\ m \in Mod /\ stack' = NextMod(Top)
    BY <1>1, <1>3 DEF DispatchLeaves
  <2>2. mods' = [mods EXCEPT ![m].events = mods[m].events - 1, ![m].handlers = h]
    BY <1>3, <2>1 DEF DispatchLeaves, ModsOK, ModOK, ModFields
  <2> HIDE DEF m, h
  <2>3. HasList(m, h, mods[m].next) /\ \A k \in Mod \ {m} : Keeps(k)
    BY <2>1, <2>2, ListOfOne
  <2>4. Erases(m)  BY <2>3 DEF Erases, h
  <2> QED  BY <2>1, <2>3, <2>4, NextModFrames DEF ListsChange
<1>4. ASSUME DispatchBreaks PROVE ListsChange /\ FramesChange
  <2> DEFINE m == Served(Top)
  <2>1. Running("dispatch") /\ m \in Mod /\ stack' = NextMod(Top)
    BY <1>1, <1>4 DEF DispatchBreaks
  <2>2. mods' = [mods EXCEPT ![m].events = mods[m].events - 1]
    BY <1>4, <2>1 DEF DispatchBreaks, ModsOK
  <2> HIDE DEF m
  <2> QED  BY <2>1, <2>2, ListUpdates, NextModFrames DEF ListsChange
<1>5. ASSUME Running("dispatch"), Top.serving, Top.queue # <<>> PROVE Steady(Serve(Top))
  BY <1>1, <1>5 DEF Steady, Serving
<1>6. ASSUME HandlerSkipped PROVE ListsChange /\ FramesChange
  <2>1. /\ Running("dispatch") /\ Top.serving /\ Top.queue # <<>>
        /\ mods' = mods /\ stack' = SetTop(Serve(Top))
    BY <1>6 DEF HandlerSkipped
  <2>2. Steady(Serve(Top)) /\ stack # <<>> /\ Served(Top) \in Mod  BY <1>1, <1>5, <2>1
  <2>3. Replaced(Serve(Top))  BY <2>1, <2>2, StackChanges
  <2> QED  BY <2>1, <2>2, <2>3, ListUpdates DEF ListsChange, FramesChange
<1>7. ASSUME NEW late \in BOOLEAN, HandlerRefused(late) PROVE ListsChange /\ FramesChange
  <2> DEFINE m == Served(Top)
             t == Head(Top.queue)
             h == Disable(mods[m].handlers, t)
             x == mods[m].failure \/ late
  <2>1. /\ Running("dispatch") /\ Top.serving /\ Top.queue # <<>> /\ m \in Mod
        /\ stack' = SetTop(Serve(Top)) /\ Refuses(mods[m], late)
    BY <1>1, <1>7 DEF HandlerRefused
  <2>2. mods' = [mods EXCEPT ![m].failure = @ \/ late, ![m].handlers = Disable(@, t)]
    BY <1>7 DEF HandlerRefused
  <2>3. mods' = [mods EXCEPT ![m].failure = x, ![m].handlers = h]
    BY <2>1, <2>2 DEF ModsOK, ModOK, ModFields
  <2>4. x = TRUE
    <3>1. mods[m].callbacks < CallbackLimit /\ mods[m].callbacks \in Nat /\ CallbackLimit \in Nat
      BY <2>1, LimitAssumption DEF DepthsCounted, ModsOK, ModOK
    <3>2. ~(mods[m].callbacks >= CallbackLimit)  BY <3>1
    <3> QED  BY <2>1, <3>2, Zenon DEF Refuses
  <2> HIDE DEF m, t, h, x
  <2>5. HasList(m, h, mods[m].next) /\ mods'[m].failure = TRUE /\ \A k \in Mod \ {m} : Keeps(k)
    BY <2>1, <2>3, <2>4, ListOfOne
  <2>6. Marks(m)
    <3>1. Cause(m, t)  BY <2>1, <2>5 DEF Cause, m, t
    <3> QED  BY <2>5, <3>1 DEF Marks, h
  <2>7. Steady(Serve(Top)) /\ stack # <<>>  BY <1>1, <1>5, <2>1
  <2>8. Replaced(Serve(Top))  BY <2>1, <2>7, StackChanges
  <2> QED  BY <2>5, <2>6, <2>7, <2>8 DEF ListsChange, FramesChange
<1>8. ASSUME HandlerCalled PROVE ListsChange /\ FramesChange
  <2> DEFINE m == Served(Top)
             c == Callback(m, Head(Top.queue))
  <2>1. /\ Running("dispatch") /\ Top.serving /\ Top.queue # <<>> /\ m \in Mod
        /\ stack' = SetTop(Serve(Top)) \o <<c>> /\ mods' = [mods EXCEPT ![m] = Entered(mods[m])]
    BY <1>1, <1>8 DEF HandlerCalled, ModsOK
  <2>2. Waiting(c)  BY DEF Waiting, Callback
  <2>3. Steady(Serve(Top)) /\ stack # <<>>  BY <1>1, <1>5, <2>1
  <2> HIDE DEF c, m
  <2>4. Grown(Serve(Top), c)  BY <2>1, <2>3, StackChanges
  <2> QED  BY <2>1, <2>2, <2>3, <2>4, ListUpdates DEF ListsChange, FramesChange
<1>9. ASSUME DispatchEnters PROVE ListsChange /\ FramesChange
  <2> DEFINE f == Top
             m == Served(f)
             g == [f EXCEPT !.serving = TRUE, !.first = mods[m].next,
                            !.queue = Snapshot(mods[m].handlers, f.event)]
  <2>1. /\ Running("dispatch") /\ ~f.serving /\ stack' = SetTop(g)
        /\ mods' = [mods EXCEPT ![m].events = @ + 1]
    BY <1>9 DEF DispatchEnters
  <2>2. stack # <<>> /\ DispatchOK(f) /\ f.type = "dispatch" /\ m \in Mod
    BY <1>1, <2>1
  <2>3. mods' = [mods EXCEPT ![m].events = mods[m].events + 1]
    BY <2>1, <2>2 DEF ModsOK
  <2>4. f.last = 0  BY <2>1
  <2> HIDE DEF f
  <2>5. \A k \in Mod : Keeps(k)
    <3> HIDE DEF m
    <3> QED  BY <2>2, <2>3, ListUpdates
  <2>6. /\ g.type = "dispatch" /\ g.serving /\ g.at = f.at /\ g.event = f.event /\ g.last = f.last
        /\ g.queue = Snapshot(mods[m].handlers, f.event) /\ g.first = mods[m].next
    BY <2>2 DEF DispatchOK
  <2>7. Entering(g)
    <3>1. Served(g) = m  BY <2>6 DEF Served
    <3> HIDE DEF m, g
    <3> QED  BY <2>2, <2>4, <2>5, <2>6, <3>1 DEF Entering
  <2> HIDE DEF g
  <2>8. Replaced(g)  BY <2>1, <2>2, StackChanges
  <2> QED  BY <2>2, <2>5, <2>7, <2>8 DEF ListsChange, FramesChange, Steady
<1> QED  BY <1>2, <1>3, <1>4, <1>6, <1>7, <1>8, <1>9 DEF DispatchStep

\* Lua code.
LEMMA CallbackLists ==
  ASSUME ModsOK, StackOK,
         CallbackStep \/ (\E m \in Mod : HostCalls(m)) \/ StopRequested \/ UNCHANGED vars
  PROVE  ListsChange /\ FramesChange
<1>1. ASSUME Running("callback")
      PROVE  stack # <<>> /\ CallbackOK(Top) /\ Top.type = "callback" /\ Top.mod \in Mod
  BY <1>1, StackChanges, FrameTypes DEF Running, CallbackOK
<1>2. ASSUME Running("callback"), NEW x
      PROVE  Steady([Top EXCEPT !.credit = x])
  <2> DEFINE f == Top
             g == [f EXCEPT !.credit = x]
  <2>1. CallbackOK(f)  BY <1>1, <1>2
  <2> HIDE DEF f
  <2>2. g.type = "callback"  BY <2>1 DEF CallbackOK
  <2> HIDE DEF g
  <2>3. Waiting(g)  BY <2>2 DEF Waiting
  <2> QED  BY <2>3 DEF Steady, f, g
<1>3. ASSUME Running("callback"), NEW x, stack' = SetTop([Top EXCEPT !.credit = x])
      PROVE  FramesChange /\ Len(stack') = Len(stack)
  <2> DEFINE g == [Top EXCEPT !.credit = x]
  <2>1. Steady(g) /\ stack # <<>> /\ stack' = SetTop(g)  BY <1>1, <1>2, <1>3
  <2> HIDE DEF g
  <2>2. Replaced(g)  BY <2>1, StackChanges
  <2> QED  BY <2>1, <2>2 DEF FramesChange, Replaced
<1>4. ASSUME NEW late \in BOOLEAN, InstructionHook(late) PROVE ListsChange /\ FramesChange
  <2> DEFINE m == Top.mod
             b == IF mods[m].budget <= 1 THEN 0 ELSE mods[m].budget - 1
             x == mods[m].failure \/ mods[m].budget <= 1 \/ late
             y == Top.credit \/ ~mods[m].failure
  <2>1. /\ Running("callback") /\ m \in Mod
        /\ stack' = SetTop([Top EXCEPT !.credit = @ \/ ~mods[m].failure])
    BY <1>1, <1>4 DEF InstructionHook
  <2>2. mods' = [mods EXCEPT ![m].budget = IF mods[m].budget <= 1 THEN 0 ELSE @ - 1,
                             ![m].failure = @ \/ mods[m].budget <= 1 \/ late]
    BY <1>4 DEF InstructionHook
  <2>3. mods' = [mods EXCEPT ![m].budget = b, ![m].failure = x]
    BY <2>1, <2>2 DEF ModsOK, ModOK, ModFields
  <2>4. stack' = SetTop([Top EXCEPT !.credit = y])
    <3>1. CallbackOK(Top)  BY <1>1, <2>1
    <3>2. [Top EXCEPT !.credit = @ \/ ~mods[m].failure] = [Top EXCEPT !.credit = y]
      BY <3>1 DEF CallbackOK
    <3> QED  BY <2>1, <3>2
  <2> HIDE DEF m, b, x, y
  <2> QED  BY <1>3, <2>1, <2>3, <2>4, ListUpdates DEF ListsChange
<1>5. ASSUME ApiCall PROVE Running("callback") /\ Top.mod \in Mod
  BY <1>1, <1>5 DEF ApiCall
<1>6. ASSUME NEW e, EventOn(e) PROVE ListsChange /\ FramesChange
  <2> DEFINE m == Top.mod
             n == mods[m].next
             h == Added(mods[m].handlers, n, e)
  <2>1. /\ Running("callback") /\ m \in Mod
        /\ stack' = SetTop([Top EXCEPT !.credit = FALSE])
    BY <1>5, <1>6 DEF EventOn, Spent
  <2>2. mods' = [mods EXCEPT ![m].next = @ + 1, ![m].handlers =
                   Append(@, [token |-> mods[m].next, event |-> e, enabled |-> TRUE])]
    BY <1>6 DEF EventOn
  <2>3. mods' = [mods EXCEPT ![m].next = n + 1, ![m].handlers = h]
    BY <2>1, <2>2 DEF ModsOK, ModOK, ModFields, Added
  <2>4. FramesChange  BY <1>3, <2>1
  <2> HIDE DEF m, n, h
  <2>5. HasList(m, h, n + 1) /\ \A k \in Mod \ {m} : Keeps(k)
    BY <2>1, <2>3, ListOfOne
  <2>6. Adds(m)  BY <2>5 DEF Adds, n, h
  <2> QED  BY <2>4, <2>5, <2>6 DEF ListsChange
<1>7. ASSUME NEW t, EventOff(t) PROVE ListsChange /\ FramesChange
  <2> DEFINE m == Top.mod
             h == Disable(mods[m].handlers, t)
  <2>1. /\ Running("callback") /\ m \in Mod
        /\ stack' = SetTop([Top EXCEPT !.credit = FALSE])
    BY <1>5, <1>7 DEF EventOff, Spent
  <2>2. mods' = [mods EXCEPT ![m].handlers = Disable(@, t)]
    BY <1>7 DEF EventOff
  <2>3. mods' = [mods EXCEPT ![m].handlers = h]
    BY <2>1, <2>2 DEF ModsOK
  <2>4. FramesChange /\ Len(stack') = Len(stack)  BY <1>3, <2>1
  <2>5. Cause(m, t)  BY <2>1, <2>4 DEF Cause
  <2> HIDE DEF m, h
  <2>6. HasList(m, h, mods[m].next) /\ \A k \in Mod \ {m} : Keeps(k)
    BY <2>1, <2>3, ListOfOne
  <2>7. Marks(m)  BY <2>5, <2>6 DEF Marks, h
  <2> QED  BY <2>4, <2>6, <2>7 DEF ListsChange
<1>8. ASSUME NEW b, SetCash(b) PROVE ListsChange /\ FramesChange
  <2> DEFINE f == [Top EXCEPT !.credit = FALSE]
             g == Emission(b, CaptureToken(b))
  <2>1. /\ Running("callback") /\ Top.mod \in Mod /\ mods' = mods
        /\ stack' = SetTop(f) \o <<g>>
    BY <1>5, <1>8 DEF SetCash, Spent
  <2>2. Steady(f) /\ stack # <<>>  BY <1>1, <1>2, <2>1
  <2>3. Waiting(g)  BY DEF Waiting, Emission
  <2> HIDE DEF f, g
  <2>4. Grown(f, g)  BY <2>1, <2>2, StackChanges
  <2> QED  BY <2>1, <2>2, <2>3, <2>4, ListUpdates DEF ListsChange, FramesChange
<1>9. ASSUME NEW failed \in BOOLEAN, NEW late \in BOOLEAN, CallbackReturns(failed, late)
      PROVE  ListsChange /\ FramesChange
  <2> DEFINE m == Top.mod
             d == Disable(mods[m].handlers, Top.token)
             h == IF failed \/ late \/ mods[m].failure THEN d ELSE mods[m].handlers
             x == mods[m].failure \/ late
             c == mods[m].callbacks - 1
  <2>1. Running("callback") /\ m \in Mod /\ stack' = Pop
    BY <1>1, <1>9 DEF CallbackReturns
  <2>2. mods' = [mods EXCEPT ![m].callbacks = @ - 1, ![m].failure = @ \/ late,
                   ![m].handlers = IF failed \/ late \/ mods[m].failure
                                   THEN Disable(@, Top.token) ELSE @]
    BY <1>9 DEF CallbackReturns
  <2>3. mods' = [mods EXCEPT ![m].callbacks = c, ![m].failure = x, ![m].handlers = h]
    BY <2>1, <2>2 DEF ModsOK, ModOK, ModFields
  <2>4. h = d \/ h = mods[m].handlers  OBVIOUS
  <2>5. Cause(m, Top.token)  BY <2>1 DEF Cause
  <2>6. FramesChange  BY <1>1, <2>1, StackChanges DEF FramesChange
  <2> HIDE DEF m, d, h, x, c
  <2>7. HasList(m, h, mods[m].next) /\ \A k \in Mod \ {m} : Keeps(k)
    BY <2>1, <2>3, ListOfOne
  <2>8. Marks(m) \/ Keeps(m)  BY <2>4, <2>5, <2>7 DEF Marks, Keeps, d
  <2> QED  BY <2>6, <2>7, <2>8 DEF ListsChange
<1>10. ASSUME NEW m \in Mod, HostCalls(m) PROVE ListsChange /\ FramesChange
  <2> DEFINE g == Callback(m, 0)
  <2>1. stack = <<>> /\ stack' = <<g>> /\ mods' = [mods EXCEPT ![m] = Entered(mods[m])]
    BY <1>10 DEF HostCalls, ModsOK
  <2>2. Waiting(g)  BY DEF Waiting, Callback
  <2> HIDE DEF g
  <2> QED  BY <2>1, <2>2, StartChanges, ListUpdates DEF ListsChange, FramesChange
<1>11. ASSUME StopRequested \/ UNCHANGED vars PROVE ListsChange /\ FramesChange
  <2>1. mods' = mods /\ stack' = stack  BY <1>11 DEF StopRequested, vars
  <2> QED  BY <2>1 DEF ListsChange, FramesChange, Keeps, HasList
<1> QED  BY <1>4, <1>6, <1>7, <1>8, <1>9, <1>10, <1>11 DEF CallbackStep

-----------------------------------------------------------------------------
(* The invariant of the lists and of the queues                            *)

\* The inductive invariant: every list is well formed, and every dispatch
\* that serves a mod serves what it owes.
FrameServes(f) ==
  f.type = "dispatch" =>
    IF f.serving
    THEN Serves(f.queue, f.last, f.first,
                mods[Served(f)].handlers, mods[Served(f)].next, f.event)
    ELSE f.last = 0
ListsOK == \A m \in Mod : ListOK(mods[m].handlers, mods[m].next)
QueuesServe == \A i \in 1 .. Len(stack) : FrameServes(stack[i])
HandlersInv == ListsOK /\ QueuesServe

\* A script that is loaded subscribes in the order of its tokens.
LEMMA HandlersInitial ==
  ASSUME Init PROVE HandlersInv
<1>1. QueuesServe
  <2>1. Len(stack) = 0  BY DEF Init
  <2> QED  BY <2>1 DEF QueuesServe
<1>2. ASSUME NEW m \in Mod PROVE ListOK(mods[m].handlers, mods[m].next)
  <2>1. PICK e \in Script : mods[m] = Loaded(e)
    BY DEF Init
  <2>2. PICK n \in Nat : e \in [1 .. n -> Event]
    <3>1. PICK n \in 0 .. MaxLoaded : e \in [1 .. n -> Event]  BY DEF Script
    <3> QED  BY <3>1
  <2> DEFINE h(i) == [token |-> i, event |-> e[i], enabled |-> TRUE]
             hs == [i \in 1 .. n |-> h(i)]
  <2>3. mods[m].handlers = hs /\ mods[m].next = n + 1
    BY <2>1, <2>2 DEF Loaded
  <2>4. \A i \in 1 .. n : /\ DOMAIN h(i) = HandlerFields /\ h(i).token = i
                          /\ h(i).enabled = TRUE /\ hs[i] = h(i)
    BY DEF HandlerFields
  <2>5. hs \in Seq({h(i) : i \in 1 .. n}) /\ Len(hs) = n
    <3> HIDE DEF h
    <3> QED  BY <2>2
  <2> HIDE DEF hs, h
  <2>6. \A i \in 1 .. n : hs[i].enabled \in BOOLEAN
    <3>1. \A i \in 1 .. n : hs[i].enabled = TRUE  BY <2>4
    <3> QED  BY <3>1, Zenon
  <2>7. HandlersBelow(hs, n + 1)
    BY <2>2, <2>4, <2>5, <2>6 DEF HandlersBelow
  <2>8. TokensRise(hs)
    BY <2>2, <2>4, <2>5 DEF TokensRise
  <2> QED  BY <2>2, <2>3, <2>5, <2>7, <2>8 DEF ListOK
<1> QED  BY <1>1, <1>2 DEF HandlersInv, ListsOK

\* A step changes the lists and the frames in one of these ways.
LEMMA EveryListStep ==
  ASSUME DispatchInv, HandlersInv, [Next]_vars
  PROVE  ListsChange /\ FramesChange
<1>1. ModsOK /\ StackOK  BY DEF DispatchInv
<1>2. DepthsCounted  BY DepthsOfStack
<1>3. Running("dispatch") /\ ~Top.serving => Top.last = 0
  <2> SUFFICES ASSUME Running("dispatch"), ~Top.serving PROVE Top.last = 0
    OBVIOUS
  <2>1. Top = stack[Len(stack)] /\ Len(stack) \in Nat \ {0} /\ Top.type = "dispatch"
    BY <1>1, StackChanges DEF Running
  <2>2. FrameServes(Top)  BY <2>1 DEF HandlersInv, QueuesServe
  <2> QED  BY <2>1, <2>2 DEF FrameServes
<1> QED
  BY <1>1, <1>2, <1>3, EmissionLists, DispatchLists, CallbackLists DEF Next, FrameStep

\* Every change of a list is one a queue can stand.
LEMMA ListsEvolve ==
  ASSUME ListsOK, ListsChange, NEW m \in Mod
  PROVE  Evolves(mods[m].handlers, mods[m].next, mods'[m].handlers, mods'[m].next)
<1> DEFINE hs == mods[m].handlers
           next == mods[m].next
<1>0. ListOK(hs, next)  BY DEF ListsOK
<1> HIDE DEF hs, next
<1>1. CASE Keeps(m)
  <2>1. Evolves(hs, next, hs, next)  BY <1>0, SameList
  <2> QED  BY <1>1, <2>1 DEF Keeps, HasList, hs, next
<1>2. CASE Marks(m)
  <2>1. PICK t : HasList(m, Disable(hs, t), next)  BY <1>2 DEF Marks, hs, next
  <2>2. Evolves(hs, next, Disable(hs, t), next)  BY <1>0, DisableList
  <2> QED  BY <2>1, <2>2 DEF HasList, hs, next
<1>3. CASE Erases(m)
  <2>1. Evolves(hs, next, EraseDisabled(hs), next)  BY <1>0, EraseList
  <2> QED  BY <1>3, <2>1 DEF Erases, HasList, hs, next
<1>4. CASE Adds(m)
  <2>1. PICK e : HasList(m, Added(hs, next, e), next + 1)  BY <1>4 DEF Adds, hs, next
  <2>2. Evolves(hs, next, Added(hs, next, e), next + 1)  BY <1>0, AppendList
  <2> QED  BY <2>1, <2>2 DEF HasList, hs, next
<1> QED  BY <1>1, <1>2, <1>3, <1>4 DEF ListsChange

\* What the frames are in the next state, when the lists have evolved.
ServesNow(f) ==
  f.type = "dispatch" =>
    IF f.serving
    THEN Serves(f.queue, f.last, f.first,
                mods'[Served(f)].handlers, mods'[Served(f)].next, f.event)
    ELSE f.last = 0

LEMMA FrameStays ==
  ASSUME ListsOK, ListsChange, NEW f, FrameOK(f), FrameServes(f)
  PROVE  ServesNow(f)
<1> SUFFICES ASSUME f.type = "dispatch", f.serving PROVE ServesNow(f)
  BY DEF FrameServes, ServesNow
<1> DEFINE m == Served(f)
<1>1. m \in Mod  BY FrameTypes
<1>2. Serves(f.queue, f.last, f.first, mods[m].handlers, mods[m].next, f.event)
  BY DEF FrameServes
<1>3. Evolves(mods[m].handlers, mods[m].next, mods'[m].handlers, mods'[m].next)
  BY <1>1, ListsEvolve
<1>4. ListOK(mods[m].handlers, mods[m].next)  BY <1>1 DEF ListsOK
<1> HIDE DEF m
<1>5. Serves(f.queue, f.last, f.first, mods'[m].handlers, mods'[m].next, f.event)
  BY <1>2, <1>3, <1>4, ServesOn
<1> QED  BY <1>5 DEF ServesNow, m

\* A frame put on top, or in the place of the last.
LEMMA FrameSteady ==
  ASSUME ListsOK, ListsChange, NEW f, Steady(f),
         stack # <<>> => FrameOK(Top) /\ FrameServes(Top)
  PROVE  ServesNow(f)
<1>1. CASE Waiting(f)  BY <1>1 DEF Waiting, ServesNow
<1>2. CASE Entering(f)
  <2> DEFINE m == Served(f)
  <2>1. /\ f.type = "dispatch" /\ f.serving /\ m \in Mod /\ Keeps(m)
        /\ f.queue = Snapshot(mods[m].handlers, f.event)
        /\ f.last = 0 /\ f.first = mods[m].next
    BY <1>2 DEF Entering
  <2>2. ListOK(mods[m].handlers, mods[m].next)  BY <2>1 DEF ListsOK
  <2> HIDE DEF m
  <2>3. Serves(f.queue, f.last, f.first, mods[m].handlers, mods[m].next, f.event)
    BY <2>1, <2>2, SnapshotServes
  <2>4. Serves(f.queue, f.last, f.first, mods'[m].handlers, mods'[m].next, f.event)
    BY <2>1, <2>3 DEF Keeps, HasList
  <2> QED  BY <2>1, <2>4 DEF ServesNow, m
<1>3. CASE stack # <<>> /\ Serving(Top) /\ Top.queue # <<>> /\ f = Serve(Top)
  <2> DEFINE d == Top
             m == Served(d)
  <2>1. DispatchOK(d) /\ d.serving /\ m \in Mod /\ d.queue # <<>> /\ f = Serve(d)
    BY <1>3, FrameTypes DEF Serving
  <2>2. Serves(d.queue, d.last, d.first, mods[m].handlers, mods[m].next, d.event)
    BY <1>3 DEF FrameServes, Serving
  <2>3. ListOK(mods[m].handlers, mods[m].next)  BY <2>1 DEF ListsOK
  <2>4. Evolves(mods[m].handlers, mods[m].next, mods'[m].handlers, mods'[m].next)
    BY <2>1, ListsEvolve
  <2> HIDE DEF m, d
  <2>5. Serves(Tail(d.queue), Head(d.queue), d.first, mods[m].handlers, mods[m].next, d.event)
    BY <2>1, <2>2, <2>3, ServesNext
  <2>6. Serves(Tail(d.queue), Head(d.queue), d.first, mods'[m].handlers, mods'[m].next, d.event)
    BY <2>3, <2>4, <2>5, ServesOn
  <2>7. /\ f.type = d.type /\ f.serving = d.serving /\ f.at = d.at /\ f.event = d.event
        /\ f.queue = Tail(d.queue) /\ f.last = Head(d.queue) /\ f.first = d.first
    BY <2>1 DEF DispatchOK, Serve
  <2>8. Served(f) = m  BY <2>7 DEF Served, m
  <2>9. d.type = "dispatch"  BY <2>1 DEF DispatchOK
  <2> QED  BY <2>1, <2>6, <2>7, <2>8, <2>9 DEF ServesNow
<1> QED  BY <1>1, <1>2, <1>3 DEF Steady

\* The invariant is kept.
LEMMA HandlersStep ==
  ASSUME DispatchInv, DispatchInv', HandlersInv, [Next]_vars
  PROVE  HandlersInv'
<1>1. ListsChange /\ FramesChange  BY EveryListStep
<1>2. ListsOK'
  <2>1. \A m \in Mod : ListOK(mods'[m].handlers, mods'[m].next)
    BY <1>1, ListsEvolve DEF HandlersInv, Evolves
  <2> QED  BY <2>1 DEF ListsOK
<1>3. /\ StackOK /\ Len(stack) \in Nat /\ Len(stack') \in Nat
      /\ \A i \in 1 .. Len(stack) : FrameOK(stack[i]) /\ FrameServes(stack[i])
      /\ stack # <<>> => Len(stack) # 0 /\ Top = stack[Len(stack)]
  <2>1. StackOK /\ StackOK'  BY DEF DispatchInv
  <2>2. Len(stack) \in Nat /\ Len(stack') \in Nat  BY <2>1 DEF StackOK
  <2>3. stack # <<>> => Len(stack) # 0 /\ Top = stack[Len(stack)]  BY <2>1, StackChanges
  <2>4. \A i \in 1 .. Len(stack) : FrameOK(stack[i]) /\ FrameServes(stack[i])
    BY <2>1 DEF StackOK, HandlersInv, QueuesServe
  <2> QED  BY <2>1, <2>2, <2>3, <2>4
<1>4. stack # <<>> => FrameOK(Top) /\ FrameServes(Top)
  <2>1. stack # <<>> => Len(stack) \in 1 .. Len(stack)  BY <1>3
  <2> QED  BY <1>3, <2>1
<1>5. \A f : FrameOK(f) /\ FrameServes(f) => ServesNow(f)
  BY <1>1, FrameStays DEF HandlersInv
<1>6. \A f : Steady(f) => ServesNow(f)
  BY <1>1, <1>4, FrameSteady DEF HandlersInv
<1>7. \A i \in 1 .. Len(stack) : ServesNow(stack[i])
  BY <1>3, <1>5
<1>8. \A f : Waiting(f) => ServesNow(f)
  BY <1>6 DEF Steady
<1>9. \A i \in 1 .. Len(stack') : ServesNow(stack'[i])
  <2>1. CASE stack' = stack
    BY <1>7, <2>1
  <2>2. CASE stack # <<>> /\ Popped
    BY <1>3, <1>7, <2>2 DEF Popped, Below
  <2>3. ASSUME stack # <<>>, NEW f, Replaced(f), Steady(f)
        PROVE  \A i \in 1 .. Len(stack') : ServesNow(stack'[i])
    BY <1>3, <1>6, <1>7, <2>3 DEF Replaced, Below
  <2>4. ASSUME stack # <<>>, NEW f, NEW g, Grown(f, g), Steady(f), Waiting(g)
        PROVE  \A i \in 1 .. Len(stack') : ServesNow(stack'[i])
    BY <1>3, <1>6, <1>7, <1>8, <2>4 DEF Grown, Below
  <2>5. ASSUME NEW g, Started(g), Waiting(g)
        PROVE  \A i \in 1 .. Len(stack') : ServesNow(stack'[i])
    BY <1>3, <1>8, <2>5 DEF Started
  <2> QED  BY <1>1, <2>1, <2>2, <2>3, <2>4, <2>5 DEF FramesChange
<1>10. QueuesServe'
  BY <1>9 DEF QueuesServe, FrameServes, ServesNow, Served
<1> QED  BY <1>2, <1>10 DEF HandlersInv

\* The two invariants together.
LEMMA HandlersInvariant == Spec => [](DispatchInv /\ HandlersInv)
<1>1. Init => HandlersInv
  BY HandlersInitial
<1>2. DispatchInv /\ DispatchInv' /\ HandlersInv /\ [Next]_vars => HandlersInv'
  BY HandlersStep
<1> QED  BY <1>1, <1>2, DispatchInvariant, PTL DEF Spec

\* HandlersOwed: while an event goes through a mod, every handler that was
\* subscribed when it came and still is has its turn to come, in the order of
\* the subscriptions, and nobody else has (gameplay-events.md:134-137).
THEOREM HandlersGetTheirTurn == Spec => []HandlersOwed
<1>1. ASSUME DispatchInv, HandlersInv PROVE HandlersOwed
  <2> SUFFICES ASSUME NEW i \in FramesOf("dispatch"), stack[i].serving
      PROVE  LET f == stack[i]
                 owed == {h \in Range(mods[Served(f)].handlers) :
                            /\ h.enabled /\ h.event = f.event
                            /\ f.last < h.token /\ h.token < f.first}
             IN  /\ {h.token : h \in owed} \subseteq Range(f.queue)
                 /\ \A t \in Range(f.queue) : f.last < t /\ t < f.first
                 /\ \A j, k \in 1 .. Len(f.queue) : j < k => f.queue[j] < f.queue[k]
    BY DEF HandlersOwed
  <2> DEFINE f == stack[i]
             hs == mods[Served(f)].handlers
             next == mods[Served(f)].next
             q == f.queue
  <2>1. i \in 1 .. Len(stack) /\ f.type = "dispatch" /\ f.serving
    BY DEF FramesOf
  <2>2. Served(f) \in Mod
    BY <1>1, <2>1, FrameTypes DEF DispatchInv, StackOK
  <2>3. ListOK(hs, next) /\ Serves(q, f.last, f.first, hs, next, f.event)
    BY <1>1, <2>1, <2>2 DEF HandlersInv, ListsOK, QueuesServe, FrameServes
  <2> HIDE DEF f, hs, next, q
  <2>4. /\ q \in Seq(Nat) /\ \A k \in 1 .. Len(q) : f.last < q[k] /\ q[k] < f.first
        /\ \A j, k \in 1 .. Len(q) : j < k => q[j] < q[k]
    BY <2>3 DEF Serves, QueueOK
  <2>5. ASSUME NEW h \in Range(hs), h.enabled, h.event = f.event,
               f.last < h.token, h.token < f.first
        PROVE  h.token \in Range(q)
    <3>1. PICK S : hs \in Seq(S)  BY <2>3 DEF ListOK
    <3>2. PICK k \in 1 .. Len(hs) : hs[k] = h  BY <3>1, <2>5 DEF Range
    <3>3. hs[k].enabled = TRUE  BY <2>3, <2>5, <3>2 DEF ListOK, HandlersBelow
    <3>4. Live(hs, h.token, f.event)  BY <2>5, <3>2, <3>3 DEF Live
    <3>5. PICK j \in 1 .. Len(q) : q[j] = h.token  BY <2>3, <2>5, <3>4 DEF Serves, Queued
    <3> QED  BY <2>4, <3>5 DEF Range
  <2>6. \A t \in Range(q) : f.last < t /\ t < f.first
    BY <2>4 DEF Range
  <2> QED  BY <2>4, <2>5, <2>6 DEF f, hs, q
<1> QED  BY <1>1, HandlersInvariant, PTL

\* A callback ends only by returning.
LEMMA OnlyReturnsPop ==
  ASSUME DispatchInv, [Next]_vars, Running("callback"), Len(stack') < Len(stack)
  PROVE  \E failed, late \in BOOLEAN : CallbackReturns(failed, late)
<1>1. /\ StackOK /\ stack # <<>> /\ CallbackOK(Top) /\ Top.type = "callback"
      /\ Len(stack) \in Nat
  <2>1. StackOK /\ stack # <<>> /\ FrameOK(Top) /\ Top.type = "callback" /\ Len(stack) \in Nat
    BY StackChanges DEF DispatchInv, Running
  <2> QED  BY <2>1, FrameTypes
<1>2. \A f : stack' # SetTop(f)
  BY <1>1, StackChanges DEF Replaced
<1>3. \A f, g : stack' # SetTop(f) \o <<g>>
  BY <1>1, StackChanges DEF Grown
<1>4. ~DispatchStep
  BY <1>1 DEF DispatchStep, Running, DispatchRefused, DispatchEnters, HandlerSkipped,
              HandlerCalled, DispatchLeaves, DispatchBreaks, HandlerRefused
<1>5. ~EmissionStep
  BY <1>1 DEF EmissionStep, Running, EmitChanging, EmitChanged, EmissionReturns, ObserverRaises
<1>6. /\ ~(\E late \in BOOLEAN : InstructionHook(late))
      /\ ~(\E e \in Event : EventOn(e))
      /\ ~(\E t \in 1 .. MaxToken : EventOff(t))
      /\ ~(\E b \in Balance : SetCash(b))
  BY <1>2, <1>3 DEF InstructionHook, EventOn, EventOff, SetCash
<1>7. /\ ~(\E b \in Balance \cup {NotFinite} : GameRaises(b))
      /\ ~(\E e \in OtherEvent : GameNotifies(e)) /\ ~(\E m \in Mod : HostCalls(m))
  BY <1>1 DEF GameRaises, GameNotifies, HostCalls
<1>8. ~StopRequested /\ ~UNCHANGED vars
  BY <1>1 DEF StopRequested, vars
<1> QED  BY <1>4, <1>5, <1>6, <1>7, <1>8 DEF Next, FrameStep, CallbackStep

\* What a subscription is owed, together: it is not called once it was taken
\* out, it ends when its callback exceeds a limit, and it ends for no other
\* cause than its mod's call of off, a failure of its callback, or a limit
\* its mod had exceeded (lua_mod.cpp:418-429,476-481,902-922).
THEOREM SubscriptionsKept == Spec => SubscriptionsHonoured
<1>1. ASSUME DispatchInv, HandlersInv, [Next]_vars, NEW m \in Mod, NEW t \in Dropped(m)
      PROVE  \/ /\ Running("callback") /\ Top.mod = m
                /\ t = Top.token \/ Len(stack') = Len(stack)
             \/ /\ Running("dispatch") /\ Served(Top) = m
                /\ Top.queue # <<>> /\ t = Head(Top.queue)
                /\ mods'[m].failure
  <2> DEFINE hs == mods[m].handlers
             next == mods[m].next
  <2>1. ListsChange  BY <1>1, EveryListStep
  <2>2. ListOK(hs, next)  BY <1>1 DEF HandlersInv, ListsOK
  <2>3. t \in EnabledIn(hs) /\ t \notin EnabledIn(mods'[m].handlers)
    BY <1>1 DEF Dropped
  <2> HIDE DEF hs, next
  <2>4. CASE Keeps(m)
    BY <2>3, <2>4 DEF Keeps, HasList, hs
  <2>5. CASE Erases(m)
    BY <2>2, <2>3, <2>5, EraseList DEF Erases, HasList, hs
  <2>6. CASE Adds(m)
    <3>1. PICK e : mods'[m].handlers = Added(hs, next, e)
      BY <2>6 DEF Adds, HasList, hs, next
    <3> QED  BY <2>2, <2>3, <3>1, AppendList
  <2>7. CASE Marks(m)
    <3>1. PICK u : mods'[m].handlers = Disable(hs, u) /\ Cause(m, u)
      BY <2>7 DEF Marks, HasList, hs
    <3>2. u = t
      BY <2>2, <2>3, <3>1, DisableList
    <3> QED  BY <3>1, <3>2 DEF Cause
  <2> QED  BY <2>1, <2>4, <2>5, <2>6, <2>7 DEF ListsChange
<1>2. DispatchInv /\ HandlersInv /\ [Next]_vars =>
        [\A m \in Mod : \A t \in Dropped(m) :
           \/ /\ Running("callback") /\ Top.mod = m
              /\ t = Top.token \/ Len(stack') = Len(stack)
           \/ /\ Running("dispatch") /\ Served(Top) = m
              /\ Top.queue # <<>> /\ t = Head(Top.queue)
              /\ mods'[m].failure]_vars
  BY <1>1
<1>3. Spec => DroppedForCause
  BY <1>2, HandlersInvariant, PTL DEF Spec, DroppedForCause
<1>4. ASSUME DispatchInv, HandlersInv, [Next]_vars, Running("callback"),
             Len(stack') < Len(stack), mods[Top.mod].failure
      PROVE  Top.token \notin EnabledIn(mods'[Top.mod].handlers)
  <2> DEFINE m == Top.mod
             hs == mods[m].handlers
             d == Disable(hs, Top.token)
  <2>1. \E failed, late \in BOOLEAN : CallbackReturns(failed, late)
    BY <1>4, OnlyReturnsPop
  <2>2. m \in Mod
    BY <1>4, StackChanges, FrameTypes DEF DispatchInv, Running, CallbackOK
  <2>3. mods'[m].handlers = d
    <3>1. PICK failed \in BOOLEAN, late \in BOOLEAN : CallbackReturns(failed, late)
      BY <2>1
    <3>2. mods' = [mods EXCEPT ![m].callbacks = @ - 1, ![m].failure = @ \/ late,
                     ![m].handlers = IF failed \/ late \/ mods[m].failure
                                     THEN Disable(@, Top.token) ELSE @]
      BY <3>1 DEF CallbackReturns
    <3> QED  BY <1>4, <2>2, <3>2 DEF DispatchInv, ModsOK, ModOK, ModFields
  <2>4. ListOK(hs, mods[m].next)
    BY <1>4, <2>2 DEF HandlersInv, ListsOK
  <2> HIDE DEF hs
  <2> QED  BY <2>3, <2>4, DisableList
<1>5. DispatchInv /\ HandlersInv /\ [Next]_vars =>
        [Running("callback") /\ Len(stack') < Len(stack) /\ mods[Top.mod].failure =>
           Top.token \notin EnabledIn(mods'[Top.mod].handlers)]_vars
  BY <1>4
<1>6. Spec => LimitViolationFails
  BY <1>5, HandlersInvariant, PTL DEF Spec, LimitViolationFails
<1> QED  BY <1>3, <1>6, CalledWhileSubscribed DEF SubscriptionsHonoured

-----------------------------------------------------------------------------
(* A change of the player's lives, for every width of the stored value,    *)
(* profile and set of amounts: the type invariant, that the decision       *)
(* follows the mods' answers, and that the value stored and told is the    *)
(* one that was decided.                                                   *)

(* 32-bit arithmetic leaves a 32-bit value.                                *)
LEMMA WrapInRange ==
  ASSUME NEW x \in Int
  PROVE  Wrap(x) \in Int32
<1>1. 2 * Half \in Nat \ {0} /\ x + Half \in Int
  BY HalfAssumption
<1>2. (x + Half) % (2 * Half) \in 0 .. (2 * Half - 1)
  BY <1>1
<1> QED
  BY <1>2, HalfAssumption DEF Wrap, Int32

(* ... and does not change a value that fits.                              *)
LEMMA WrapIdentity ==
  ASSUME NEW x \in Int32
  PROVE  Wrap(x) = x
<1>1. /\ x + Half \in Nat /\ 2 * Half \in Nat \ {0}
      /\ x + Half < 2 * Half
  BY HalfAssumption DEF Int32
<1>2. \A a, b \in Nat : b > 0 /\ a < b => a % b = a
  OBVIOUS
<1>3. (x + Half) % (2 * Half) = x + Half
  BY <1>1, <1>2
<1> QED
  BY <1>3, HalfAssumption DEF Wrap, Int32

LEMMA ClampInRange ==
  ASSUME NEW x \in Int
  PROVE  Clamp(x) \in Int32 /\ InRange(Clamp(x))
  BY HalfAssumption DEF Clamp, Int32, InRange, MaxLives

LEMMA ProposedInRange ==
  ASSUME NEW kind \in {"gain", "loss"}, NEW before \in Int32,
         NEW amount \in Int
  PROVE  /\ Proposed(kind, before, amount) \in Int32
         /\ kind = "loss" => InRange(Proposed(kind, before, amount))
<1>1. before + amount \in Int /\ before - amount \in Int
  BY HalfAssumption DEF Int32
<1> QED
  BY <1>1, WrapInRange, ClampInRange DEF Proposed

-----------------------------------------------------------------------------
ChangeType ==
  [stage : {"idle", "handler", "asking", "decided", "written", "leaving"},
   kind : {"gain", "loss"}, amount : Amount \cup {0},
   entry : Int32, before : Int32, proposed : Int32, new : Int32,
   cancelled : BOOLEAN, answers : Seq(Answer)]

LEMMA IdleType == Idle \in ChangeType
<1>1. 0 \in Int32
  BY HalfAssumption DEF Int32
<1>2. <<>> \in Seq(Answer)
  OBVIOUS
<1> QED
  BY <1>1, <1>2 DEF Idle, ChangeType

LEMMA TypeInit == LivesInit => LivesTypeOK
<1> SUFFICES ASSUME LivesInit PROVE LivesTypeOK
  OBVIOUS
<1>1. lives \in Int32
  BY HalfAssumption DEF LivesInit, Int32, MaxLives
<1> QED
  BY <1>1, IdleType DEF LivesInit, LivesTypeOK, ChangeType

LEMMA TypeStep == LivesTypeOK /\ [LivesNext]_livesVars => LivesTypeOK'
<1> SUFFICES ASSUME LivesTypeOK, [LivesNext]_livesVars PROVE LivesTypeOK'
  OBVIOUS
<1> USE DEF LivesTypeOK
<1>0. 0 \in Int32 /\ Int32 \subseteq Int
  BY HalfAssumption DEF Int32
<1>00. change.amount \in Int
  <2>1. Amount \cup {0} \subseteq Int
    BY HalfAssumption, AmountAssumption
  <2> QED
    BY <2>1
<1>1. ASSUME NEW kind \in {"gain", "loss"}, NEW amount \in Amount,
             HandlerEnters(kind, amount)
      PROVE  LivesTypeOK'
  <2>1. change' \in ChangeType
    BY <1>1, IdleType DEF HandlerEnters, ChangeType
  <2> QED
    BY <1>1, <2>1 DEF HandlerEnters, ChangeType
<1>2. CASE NativeRejects
  BY <1>2 DEF NativeRejects
<1>3. CASE WriteReached
  <2>1. Proposed(change.kind, lives, change.amount) \in Int32
    BY <1>00, ProposedInRange
  <2> QED
    BY <1>3, <2>1 DEF WriteReached
<1>4. ASSUME NEW answer \in Proposal \cup {NoAnswer}, NEW c \in BOOLEAN,
             ModAnswers(answer, c)
      PROVE  LivesTypeOK'
  <2>1. Accepted(change.new, answer) \in Int32
    BY HalfAssumption DEF Accepted, InRange, MaxLives, Int32
  <2>2. Append(change.answers, [new |-> answer, cancelled |-> c]) \in Seq(Answer)
    BY DEF Answer
  <2>3. (change.cancelled \/ c) \in BOOLEAN
    OBVIOUS
  <2> QED
    BY <1>4, <2>1, <2>2, <2>3 DEF ModAnswers
<1>5. CASE AllAnswered
  BY <1>5 DEF AllAnswered
<1>6. CASE NobodyAsked
  BY <1>6 DEF NobodyAsked
<1>7. CASE Write
  <2>1. Written \in Int32
    <3>1. lives + change.amount \in Int /\ lives - change.amount \in Int
      BY <1>0, <1>00
    <3> QED
      BY <3>1, WrapInRange DEF Written
  <2> QED
    BY <1>7, <2>1 DEF Write
<1>8. CASE NativeFinishes
  BY <1>0, <1>8 DEF NativeFinishes
<1>9. CASE HandlerLeaves
  <2>1. told' \in Int32 \X Int32 \/ told' = Untold
    BY <1>9 DEF HandlerLeaves
  <2> QED
    BY <1>9, <2>1 DEF HandlerLeaves
<1>10. CASE UNCHANGED livesVars
  BY <1>10 DEF livesVars
<1> QED
  BY <1>1, <1>2, <1>3, <1>4, <1>5, <1>6, <1>7, <1>8, <1>9, <1>10 DEF LivesNext

(* The stored value and everything the detours compute from it stay 32-bit *)
(* integers, for every width, amount and answer.                           *)
THEOREM LivesTypeCorrect == LivesSpec => []LivesTypeOK
<1>1. LivesInit => LivesTypeOK
  BY TypeInit
<1>2. LivesTypeOK /\ [LivesNext]_livesVars => LivesTypeOK'
  BY TypeStep
<1> QED
  BY <1>1, <1>2, PTL DEF LivesSpec

-----------------------------------------------------------------------------
LEMMA DecisionStep ==
  ASSUME LivesTypeOK, [LivesNext]_livesVars,
         DecisionFollowsAnswers, change.stage = "handler" => ~change.cancelled
                                   /\ change.answers = <<>>
  PROVE  DecisionFollowsAnswers'
<1>1. CASE UNCHANGED change
  BY <1>1 DEF DecisionFollowsAnswers, AcceptedAt
<1>2. CASE WriteReached
  <2>1. /\ change'.answers = <<>> /\ change'.cancelled = FALSE
        /\ change'.new = change'.proposed
    BY <1>2 DEF WriteReached, LivesTypeOK
  <2>2. 1 .. Len(change'.answers) = {}
    BY <2>1
  <2>3. AcceptedAt' = {}
    BY <2>2 DEF AcceptedAt
  <2>4. ~ \E i \in 1 .. Len(change'.answers) : change'.answers[i].cancelled
    BY <2>2
  <2> QED
    BY <2>1, <2>3, <2>4 DEF DecisionFollowsAnswers
<1>3. ASSUME NEW answer \in Proposal \cup {NoAnswer}, NEW c \in BOOLEAN,
             ModAnswers(answer, c)
      PROVE  DecisionFollowsAnswers'
  <2> DEFINE old == change.answers
             last == [new |-> answer, cancelled |-> c]
             n == Len(old) + 1
  <2>1. /\ old \in Seq(Answer) /\ last \in Answer
        /\ change'.answers = Append(old, last)
        /\ change'.new = Accepted(change.new, answer)
        /\ change'.cancelled = (change.cancelled \/ c)
        /\ change'.proposed = change.proposed
        /\ change.stage = "asking"
    BY <1>3 DEF ModAnswers, LivesTypeOK, Answer
  <2>2. /\ n \in Nat /\ Len(change'.answers) = n
        /\ change'.answers[n] = last
        /\ \A i \in 1 .. Len(old) : change'.answers[i] = old[i]
        /\ 1 .. n = (1 .. Len(old)) \cup {n}
    BY <2>1
  <2>3. change.cancelled = \E i \in 1 .. Len(old) : old[i].cancelled
    BY <2>1 DEF DecisionFollowsAnswers
  <2>4. change'.cancelled = \E i \in 1 .. n : change'.answers[i].cancelled
    <3>1. last.cancelled = c
      OBVIOUS
    <3> QED
      BY <2>1, <2>2, <2>3, <3>1
  <2>5. CASE answer # NoAnswer /\ InRange(answer)
    <3>1. n \in AcceptedAt' /\ change'.new = change'.answers[n].new
      BY <2>1, <2>2, <2>5 DEF AcceptedAt, Accepted
    <3>2. \A j \in AcceptedAt' : j <= n
      BY <2>2 DEF AcceptedAt
    <3> QED
      BY <2>2, <2>4, <3>1, <3>2 DEF DecisionFollowsAnswers
  <2>6. CASE ~(answer # NoAnswer /\ InRange(answer))
    <3>1. change'.new = change.new
      BY <2>1, <2>6 DEF Accepted
    <3>2. AcceptedAt' = AcceptedAt
      BY <2>1, <2>2, <2>6 DEF AcceptedAt
    <3>3. \A i \in AcceptedAt : change'.answers[i] = old[i]
      BY <2>2 DEF AcceptedAt
    <3>4. \/ AcceptedAt = {} /\ change.new = change.proposed
          \/ \E i \in AcceptedAt :
               /\ \A j \in AcceptedAt : j <= i
               /\ change.new = old[i].new
      BY <2>1 DEF DecisionFollowsAnswers
    <3> QED
      BY <2>1, <2>2, <2>4, <3>1, <3>2, <3>3, <3>4 DEF DecisionFollowsAnswers
  <2> QED
    BY <2>5, <2>6
<1>4. CASE AllAnswered \/ NobodyAsked \/ Write
  <2>1. /\ change'.answers = change.answers /\ change'.new = change.new
        /\ change'.cancelled = change.cancelled
        /\ change'.proposed = change.proposed
        /\ change.stage \in {"asking", "decided"}
    BY <1>4 DEF AllAnswered, NobodyAsked, Write, LivesTypeOK
  <2> QED
    BY <2>1 DEF DecisionFollowsAnswers, AcceptedAt
<1>5. CASE change'.stage \in {"idle", "handler", "leaving"}
  BY <1>5 DEF DecisionFollowsAnswers
<1>6. ASSUME NEW kind \in {"gain", "loss"}, NEW amount \in Amount,
             HandlerEnters(kind, amount)
      PROVE  change'.stage = "handler"
  BY <1>6 DEF HandlerEnters, Idle
<1>7. NativeRejects \/ NativeFinishes \/ HandlerLeaves
        => change'.stage \in {"leaving", "idle"}
  BY DEF NativeRejects, NativeFinishes, HandlerLeaves, LivesTypeOK
<1> QED
  BY <1>1, <1>2, <1>3, <1>4, <1>5, <1>6, <1>7 DEF LivesNext, livesVars

-----------------------------------------------------------------------------
(* What the handler knows at each stage; Pending is the value that the     *)
(* rest of the native handler will leave.                                  *)
Pending == IF change.kind = "loss" /\ lives < 0 THEN 0 ELSE lives
Decided == IF change.cancelled THEN change.before ELSE change.new

Fresh ==
  change.stage = "handler" =>
    /\ change.answers = <<>> /\ ~change.cancelled /\ lives = change.entry
Asking ==
  change.stage \in {"asking", "decided"} =>
    /\ lives = change.before /\ change.before = change.entry
    /\ change.proposed = Proposed(change.kind, change.before, change.amount)
    /\ change.new = change.proposed \/ InRange(change.new)
Finishing ==
  change.stage = "written" =>
    /\ change.before = change.entry
    /\ change.before >= 0 => Pending = Decided
Leaving ==
  change.stage = "leaving" =>
    /\ change.before = change.entry
    /\ change.before >= 0 => lives = Decided

LInv == /\ LivesTypeOK /\ DecisionFollowsAnswers
        /\ Fresh /\ Asking /\ Finishing /\ Leaving /\ StoredAsDecided

(* The instruction leaves what the mods were told: the sum as it is, the   *)
(* difference once the native handler has cut it at zero.                  *)
LEMMA InstructionAgrees ==
  ASSUME NEW before \in Int32, NEW amount \in 0 .. (Half - 1), before >= 0
  PROVE  (IF Wrap(before - amount) < 0 THEN 0 ELSE Wrap(before - amount))
            = Clamp(before - amount)
<1>1. before - amount \in Int32
  BY HalfAssumption DEF Int32
<1>2. Wrap(before - amount) = before - amount
  BY <1>1, WrapIdentity
<1>3. before - amount \in Int /\ ~(before - amount > MaxLives)
  BY HalfAssumption DEF Int32, MaxLives
<1> QED
  BY <1>2, <1>3 DEF Clamp

LEMMA StoredInit == LivesInit => LInv
<1> SUFFICES ASSUME LivesInit PROVE LInv
  OBVIOUS
<1>1. change.stage = "idle" /\ told = Untold
  BY DEF LivesInit, Idle
<1> QED
  BY <1>1, TypeInit
     DEF LInv, DecisionFollowsAnswers, Fresh, Asking, Finishing, Leaving,
         StoredAsDecided

LEMMA WriteAsDecided ==
  ASSUME LInv, Write
  PROVE  /\ change'.before = change'.entry
         /\ change'.before >= 0 => Pending' = Decided'
<1> USE DEF LInv, LivesTypeOK
<1>1. /\ change'.kind = change.kind /\ change'.cancelled = change.cancelled
      /\ change'.before = change.before /\ change'.new = change.new
      /\ change'.entry = change.entry
      /\ change.stage = "decided" /\ lives' = Written
  BY DEF Write
<1>2. /\ lives = change.before /\ change.before = change.entry
      /\ change.proposed = Proposed(change.kind, change.before, change.amount)
      /\ change.new = change.proposed \/ InRange(change.new)
  BY <1>1 DEF Asking
<1>3. /\ change.before \in Int32 /\ change.kind \in {"gain", "loss"}
      /\ change.amount \in 0 .. (Half - 1) /\ lives \in Int
      /\ change.new \in Int32
  <2>1. Amount \cup {0} \subseteq 0 .. (Half - 1) /\ Int32 \subseteq Int
    BY HalfAssumption, AmountAssumption DEF Int32
  <2> QED
    BY <2>1
<1>4. ASSUME change.before >= 0 PROVE Pending' = Decided'
  <2>1. CASE change.cancelled
    BY <1>1, <1>2, <1>3, <1>4, <2>1 DEF Pending, Decided, Written
  <2>2. CASE ~change.cancelled /\ change.new # change.proposed
    <3>1. InRange(change.new) /\ lives' = change.new
      BY <1>1, <1>2, <2>2 DEF Written
    <3>2. ~(lives' < 0)
      BY <3>1, HalfAssumption DEF InRange, MaxLives
    <3> QED
      BY <1>1, <2>2, <3>1, <3>2 DEF Pending, Decided
  <2>3. CASE ~change.cancelled /\ change.new = change.proposed /\ change.kind = "gain"
    BY <1>1, <1>2, <2>3 DEF Pending, Decided, Written, Proposed
  <2>4. CASE ~change.cancelled /\ change.new = change.proposed /\ change.kind = "loss"
    <3>1. lives' = Wrap(change.before - change.amount)
      BY <1>1, <1>2, <2>4 DEF Written
    <3>2. change.new = Clamp(change.before - change.amount)
      BY <1>2, <2>4 DEF Proposed
    <3>3. (IF lives' < 0 THEN 0 ELSE lives') = Clamp(change.before - change.amount)
      BY <1>3, <1>4, <3>1, InstructionAgrees
    <3> QED
      BY <1>1, <2>4, <3>2, <3>3 DEF Pending, Decided
  <2> QED
    BY <1>3, <2>1, <2>2, <2>3, <2>4
<1> QED
  BY <1>1, <1>2, <1>4

LEMMA StoredStep == LInv /\ [LivesNext]_livesVars => LInv'
<1> SUFFICES ASSUME LInv, [LivesNext]_livesVars PROVE LInv'
  OBVIOUS
<1> USE DEF LInv
<1>1. LivesTypeOK'
  BY TypeStep
<1>2. DecisionFollowsAnswers'
  <2>1. change.stage = "handler" => ~change.cancelled /\ change.answers = <<>>
    BY DEF Fresh
  <2> QED
    BY <2>1, DecisionStep
<1> DEFINE Rest == Fresh /\ Asking /\ Finishing /\ Leaving /\ StoredAsDecided
<1> USE DEF LivesTypeOK
<1>3. ASSUME NEW kind \in {"gain", "loss"}, NEW amount \in Amount,
             HandlerEnters(kind, amount)
      PROVE  Rest'
  <2>1. /\ change'.stage = "handler" /\ change'.answers = <<>>
        /\ ~change'.cancelled /\ change'.entry = lives /\ lives' = lives
    BY <1>3 DEF HandlerEnters, Idle
  <2> QED
    BY <2>1 DEF Fresh, Asking, Finishing, Leaving, StoredAsDecided
<1>4. ASSUME NativeRejects PROVE Rest'
  <2>1. /\ change'.stage = "leaving" /\ change'.cancelled = TRUE
        /\ change'.before = lives /\ change'.entry = change.entry
        /\ lives' = lives /\ lives = change.entry
    BY <1>4 DEF NativeRejects, Fresh
  <2> QED
    BY <2>1 DEF Fresh, Asking, Finishing, Leaving, StoredAsDecided, Decided
<1>5. ASSUME WriteReached PROVE Rest'
  <2>1. /\ change'.stage \in {"asking", "decided"}
        /\ change'.before = lives /\ change'.entry = change.entry
        /\ change'.proposed = Proposed(change'.kind, lives, change'.amount)
        /\ change'.new = change'.proposed
        /\ lives' = lives /\ lives = change.entry
    BY <1>5 DEF WriteReached, Fresh
  <2> QED
    BY <2>1 DEF Fresh, Asking, Finishing, Leaving, StoredAsDecided
<1>6. ASSUME NEW answer \in Proposal \cup {NoAnswer}, NEW c \in BOOLEAN,
             ModAnswers(answer, c)
      PROVE  Rest'
  <2>1. /\ change'.stage = "asking" /\ change.stage = "asking"
        /\ change'.before = change.before /\ change'.entry = change.entry
        /\ change'.proposed = change.proposed /\ change'.kind = change.kind
        /\ change'.amount = change.amount /\ lives' = lives
        /\ change'.new = Accepted(change.new, answer)
    BY <1>6 DEF ModAnswers
  <2>2. change'.new = change.new \/ InRange(change'.new)
    BY <2>1 DEF Accepted
  <2> QED
    BY <2>1, <2>2 DEF Fresh, Asking, Finishing, Leaving, StoredAsDecided
<1>7. ASSUME AllAnswered \/ NobodyAsked PROVE Rest'
  <2>1. /\ change'.stage = "decided" /\ change.stage = "asking"
        /\ change'.before = change.before /\ change'.entry = change.entry
        /\ change'.proposed = change.proposed /\ change'.kind = change.kind
        /\ change'.amount = change.amount /\ lives' = lives
        /\ change'.new = change.new
    BY <1>7 DEF AllAnswered, NobodyAsked
  <2> QED
    BY <2>1 DEF Fresh, Asking, Finishing, Leaving, StoredAsDecided
<1>8. ASSUME Write PROVE Rest'
  <2>1. change'.stage = "written"
    BY <1>8 DEF Write
  <2>2. Finishing'
    BY <1>8, WriteAsDecided DEF Finishing
  <2> QED
    BY <2>1, <2>2 DEF Fresh, Asking, Leaving, StoredAsDecided
<1>9. ASSUME NativeFinishes PROVE Rest'
  <2>1. /\ change'.stage = "leaving" /\ change.stage = "written"
        /\ change'.before = change.before /\ change'.entry = change.entry
        /\ change'.cancelled = change.cancelled /\ change'.new = change.new
        /\ lives' = Pending
    BY <1>9 DEF NativeFinishes, Pending
  <2>2. Decided' = Decided
    BY <2>1 DEF Decided
  <2>3. Leaving'
    BY <2>1, <2>2 DEF Finishing, Leaving
  <2>4. StoredAsDecided'
    BY <2>1, <2>3 DEF Leaving, StoredAsDecided, Decided
  <2> QED
    BY <2>1, <2>3, <2>4 DEF Fresh, Asking, Finishing
<1>10. ASSUME HandlerLeaves PROVE Rest'
  <2>1. /\ change'.stage = "idle" /\ change.stage = "leaving"
        /\ change'.before = change.before /\ change'.entry = change.entry
        /\ change'.cancelled = change.cancelled /\ change'.new = change.new
        /\ lives' = lives
        /\ told' = IF lives = change.entry THEN Untold ELSE <<change.entry, lives>>
    BY <1>10 DEF HandlerLeaves
  <2>2. /\ change.before = change.entry
        /\ change.before >= 0 => lives = Decided
    BY <2>1 DEF Leaving
  <2>3. StoredAsDecided'
    BY <2>1, <2>2 DEF StoredAsDecided, Decided
  <2>4. Leaving' /\ Finishing'
    BY <2>1 DEF Leaving, Finishing
  <2> QED
    BY <2>1, <2>3, <2>4 DEF Fresh, Asking
<1>11. ASSUME UNCHANGED livesVars PROVE Rest'
  <2>1. change' = change /\ lives' = lives /\ told' = told
    BY <1>11 DEF livesVars
  <2>2. Fresh' /\ Asking'
    BY <2>1 DEF Fresh, Asking
  <2>3. Finishing' /\ Leaving'
    BY <2>1 DEF Finishing, Leaving, Pending, Decided
  <2>4. StoredAsDecided'
    BY <2>1 DEF StoredAsDecided
  <2> QED
    BY <2>2, <2>3, <2>4
<1> QED
  BY <1>1, <1>2, <1>3, <1>4, <1>5, <1>6, <1>7, <1>8, <1>9, <1>10, <1>11 DEF LivesNext

(* A cancellation by any mod stands, and otherwise the last accepted       *)
(* replacement does, for every profile and every sequence of answers.      *)
THEOREM DecisionCorrect == LivesSpec => []DecisionFollowsAnswers
<1>1. LivesInit => LInv
  BY StoredInit
<1>2. LInv /\ [LivesNext]_livesVars => LInv'
  BY StoredStep
<1>3. LInv => DecisionFollowsAnswers
  BY DEF LInv
<1> QED
  BY <1>1, <1>2, <1>3, PTL DEF LivesSpec

(* The stored value, and the one lives.changed tells, is the decided one   *)
(* for every width: a sum that overflows and a difference below zero too.  *)
THEOREM StoredCorrect == LivesSpec => []StoredAsDecided
<1>1. LivesInit => LInv
  BY StoredInit
<1>2. LInv /\ [LivesNext]_livesVars => LInv'
  BY StoredStep
<1>3. LInv => StoredAsDecided
  BY DEF LInv
<1> QED
  BY <1>1, <1>2, <1>3, PTL DEF LivesSpec
=============================================================================
