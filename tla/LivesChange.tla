---------------------------- MODULE LivesChange -----------------------------
(***************************************************************************)
(* A change of the player's lives: LivesHook (lives_hook.cpp) around the   *)
(* whole native handler, LivesWriteHook (lives_write_hook.cpp) in place of *)
(* the instruction that adds to or subtracts from the stored value, and    *)
(* dispatch_profile_lives (mod_dispatch.hpp), which asks the mods in turn  *)
(* and carries an accepted replacement on to the next one.                 *)
(*                                                                         *)
(* A mod's answer is what its event table holds when its last handler has  *)
(* returned; NoAnswer is a field of the wrong type or a dispatch that      *)
(* failed, for which the host keeps the value it sent.  The native         *)
(* handlers are external: they may reject the update before the            *)
(* instruction, and the loss handler leaves no negative value behind.      *)
(***************************************************************************)
EXTENDS Integers, Sequences

CONSTANTS
  Half,      \* 2^31, one half of the range of the stored value
  ModCount,  \* mods in the profile
  Amount,    \* amounts the native handlers add or subtract
  Proposal,  \* integers the mods write to new_lives
  NoAnswer   \* no integer was written

ASSUME HalfAssumption == Half \in Nat \ {0}
ASSUME ModCountAssumption == ModCount \in Nat
ASSUME AmountAssumption == Amount \subseteq 0 .. (Half - 1)
ASSUME ProposalAssumption == Proposal \subseteq Int /\ NoAnswer \notin Int

VARIABLES
  lives,   \* the stored value
  change,  \* the native handler that is running
  told     \* the lives.changed event it delivered: old and new value

livesVars == <<lives, change, told>>

-----------------------------------------------------------------------------
Int32 == (-Half) .. (Half - 1)
MaxLives == Half - 1
InRange(x) == x \in 0 .. MaxLives
(* 32-bit addition and subtraction. *)
Wrap(x) == ((x + Half) % (2 * Half)) - Half
Clamp(x) == IF x < 0 THEN 0 ELSE IF x > MaxLives THEN MaxLives ELSE x

Untold == <<>>

(* answers is history: what the mods asked answered, in profile order. *)
Idle == [stage |-> "idle", kind |-> "gain", amount |-> 0, entry |-> 0,
         before |-> 0, proposed |-> 0, new |-> 0, cancelled |-> FALSE,
         answers |-> <<>>]

LivesInit ==
  /\ lives \in 0 .. MaxLives
  /\ change = Idle
  /\ told = Untold

-----------------------------------------------------------------------------
(* The native handler starts; LivesHook reads the stored value first. *)
HandlerEnters(kind, amount) ==
  /\ change.stage = "idle"
  /\ change' = [Idle EXCEPT !.stage = "handler", !.kind = kind,
                            !.amount = amount, !.entry = lives]
  /\ told' = Untold
  /\ UNCHANGED lives

(* The game-mode rules reject the update. *)
NativeRejects ==
  /\ change.stage = "handler"
  /\ change' = [change EXCEPT !.stage = "leaving", !.cancelled = TRUE,
                              !.before = lives]
  /\ UNCHANGED <<lives, told>>

(* dispatch_gain and dispatch_loss: the value the instruction would leave, *)
(* which the mods are asked about if it is another one.                    *)
Proposed(kind, before, amount) ==
  IF kind = "gain" THEN Wrap(before + amount) ELSE Clamp(before - amount)

WriteReached ==
  /\ change.stage = "handler"
  /\ LET p == Proposed(change.kind, lives, change.amount)
     IN  change' = [change EXCEPT
                      !.stage = IF p = lives THEN "decided" ELSE "asking",
                      !.before = lives, !.proposed = p, !.new = p]
  /\ UNCHANGED <<lives, told>>

(* dispatch_profile_lives, one mod. *)
(* An operator introduced by "Deviation" is a plausible mistake in the     *)
(* definition that follows; no action uses it.                             *)
(* Deviation: an answer out of range drops the earlier replacement. *)
AcceptedOrProposed(new, answer) ==
  IF answer # NoAnswer /\ InRange(answer) THEN answer ELSE change.proposed
Accepted(new, answer) ==
  IF answer # NoAnswer /\ InRange(answer) THEN answer ELSE new

ModAnswers(answer, cancelled) ==
  /\ change.stage = "asking" /\ Len(change.answers) < ModCount
  /\ change' = [change EXCEPT
                  !.new = Accepted(@, answer),
                  !.cancelled = @ \/ cancelled,
                  !.answers = Append(@, [new |-> answer, cancelled |-> cancelled])]
  /\ UNCHANGED <<lives, told>>

AllAnswered ==
  /\ change.stage = "asking" /\ Len(change.answers) = ModCount
  /\ change' = [change EXCEPT !.stage = "decided"]
  /\ UNCHANGED <<lives, told>>

(* The runtime is not in GameReady, or the gate refuses the dispatch. *)
NobodyAsked ==
  /\ change.stage = "asking" /\ change.answers = <<>>
  /\ change' = [change EXCEPT !.stage = "decided"]
  /\ UNCHANGED <<lives, told>>

(* The detour skips the instruction, moves the replacement, or runs the    *)
(* instruction with its own amount.                                        *)
Written ==
  IF change.cancelled THEN lives
  ELSE IF change.new # change.proposed THEN change.new
  ELSE IF change.kind = "gain" THEN Wrap(lives + change.amount)
  ELSE Wrap(lives - change.amount)
Write ==
  /\ change.stage = "decided"
  /\ lives' = Written
  /\ change' = [change EXCEPT !.stage = "written"]
  /\ UNCHANGED told

(* The rest of the native handler. *)
NativeFinishes ==
  /\ change.stage = "written"
  /\ lives' = IF change.kind = "loss" /\ lives < 0 THEN 0 ELSE lives
  /\ change' = [change EXCEPT !.stage = "leaving"]
  /\ UNCHANGED told

(* LivesHook compares the stored value with the one it read on entry. *)
(* Deviation: it reports the change the instruction was to make. *)
HandlerLeavesAsProposed ==
  /\ change.stage = "leaving"
  /\ told' = IF lives = change.entry THEN Untold
             ELSE <<change.entry, change.proposed>>
  /\ change' = [change EXCEPT !.stage = "idle"]
  /\ UNCHANGED lives
HandlerLeaves ==
  /\ change.stage = "leaving"
  /\ told' = IF lives = change.entry THEN Untold
             ELSE <<change.entry, lives>>
  /\ change' = [change EXCEPT !.stage = "idle"]
  /\ UNCHANGED lives

LivesNext ==
  \/ \E kind \in {"gain", "loss"}, amount \in Amount : HandlerEnters(kind, amount)
  \/ NativeRejects \/ WriteReached \/ AllAnswered \/ NobodyAsked
  \/ \E answer \in Proposal \cup {NoAnswer}, cancelled \in BOOLEAN :
       ModAnswers(answer, cancelled)
  \/ Write \/ NativeFinishes \/ HandlerLeaves

LivesSpec == LivesInit /\ [][LivesNext]_livesVars

-----------------------------------------------------------------------------
Answer == [new : Proposal \cup {NoAnswer}, cancelled : BOOLEAN]

(* Every variable keeps its type. *)
LivesTypeOK ==
  /\ lives \in Int32
  /\ change \in [stage : {"idle", "handler", "asking", "decided", "written",
                          "leaving"},
                 kind : {"gain", "loss"}, amount : Amount \cup {0},
                 entry : Int32, before : Int32, proposed : Int32, new : Int32,
                 cancelled : BOOLEAN, answers : Seq(Answer)]
  /\ told = Untold \/ told \in Int32 \X Int32

(* The answers a decision may follow. *)
AcceptedAt == {i \in 1 .. Len(change.answers) :
                 /\ change.answers[i].new # NoAnswer
                 /\ InRange(change.answers[i].new)}

(* gameplay-events.md:94-100,160-168: a cancellation by any mod stands,    *)
(* whatever later mods answer; otherwise the value is the last one in      *)
(* range that a mod asked for, and the game's own without any.             *)
DecisionFollowsAnswers ==
  change.stage \in {"asking", "decided", "written"} =>
    /\ change.cancelled = \E i \in 1 .. Len(change.answers) :
                            change.answers[i].cancelled
    /\ \/ AcceptedAt = {} /\ change.new = change.proposed
       \/ \E i \in AcceptedAt :
            /\ \A j \in AcceptedAt : j <= i
            /\ change.new = change.answers[i].new

(* gameplay-events.md:24-27,83-100: once the handler is through, the       *)
(* stored value is what the mods were told and decided on: the old one     *)
(* after a cancellation, else the announced or the replaced one, although  *)
(* the detour reruns the instruction with the amount and not the value.    *)
(* lives.changed tells that value, and only if it is another one.  It is   *)
(* not claimed of a change that starts below zero, where only a gain that  *)
(* overflowed leaves the stored value.                                     *)
StoredAsDecided ==
  change.before >= 0 =>
    /\ change.stage = "leaving" =>
         lives = IF change.cancelled THEN change.before ELSE change.new
    /\ change.stage = "idle" /\ told # Untold =>
         /\ told = <<change.entry, lives>> /\ lives # change.entry
         /\ change.before = change.entry
         /\ ~change.cancelled /\ lives = change.new
=============================================================================
