----------------------------- MODULE CustomTowerXp -----------------------------
(***************************************************************************)
(* The XP of custom towers.  While the game runs it lives in nodes of the  *)
(* game's own XP map, which the game drops and makes again as it likes;    *)
(* the hooks notice that by the node and the value they saw last, move the *)
(* towers' shares of a round's XP off key 0, empty the nodes while the     *)
(* game writes its profile, and keep the totals in a file of the loader.   *)
(* The process may end at any point.  XP is counted in whole numbers.      *)
(***************************************************************************)
EXTENDS Integers, FiniteSets, Functions

CONSTANTS
    XpTowers,   \* the custom towers with XP progression
    Addresses,  \* where a node of one tower can be allocated
    Gains,      \* amounts of XP the game hands out at a time
    Pops,       \* pop counts of a tower at the end of a round
    MaxGained   \* bound on the XP handed out altogether, and on what a game
                \* starts with at key 0

ASSUME XpAssumption ==
    /\ IsFiniteSet(XpTowers) /\ 0 \notin Addresses
    /\ Gains \subseteq Nat \ {0} /\ Pops \subseteq Nat /\ MaxGained \in Nat

VARIABLES
    hooks,      \* "none": no game; "wait", "on", "failed": g_xp_enabled's way;
                \* "off": remove() has taken all hooks down
    towers,     \* the towers registered in this game
    nodes,      \* nodes[t]: address and XP of t's node; address 0: none
    zero,       \* the XP at key 0 of the same map
    tracks,     \* g_xp_tracks[t]; node 0 and total -1: no entry
    started,    \* g_xp_tracking_started, set together with g_xp_profile
    progress,   \* CustomTowerProgress::xp_
    dirty,      \* CustomTowerProgress::dirty_
    file,       \* progress.json: XP of each tower, or Damaged
    gameFile,   \* Profile.save: XP of key 0 and of the INVALID entries
    saving,     \* hooked_profile_save: "no", "write" or "written"
    hidden,     \* its values to put back, where it took them out
    owed,       \* history: the XP each tower should have
    zeroOwed,   \* history: the XP key 0 should have
    aliased,    \* history: towers whose new node took the old one's address
    gained      \* history: XP handed out

memory == <<hooks, towers, nodes, zero, tracks, started, progress, dirty, saving, hidden>>
files == <<file, gameFile>>
history == <<owed, zeroOwed, aliased, gained>>
xpVars == <<memory, files, history>>

Damaged == <<>>
NoNode == [at |-> 0, xp |-> 0]
NoTrack == [node |-> 0, total |-> -1]

XpInit ==
    /\ hooks = "none" /\ towers = {}
    /\ nodes = [t \in XpTowers |-> NoNode] /\ zero = 0
    /\ tracks = [t \in XpTowers |-> NoTrack] /\ started = FALSE
    /\ progress = [t \in XpTowers |-> 0] /\ dirty = FALSE
    /\ file = [t \in XpTowers |-> 0] /\ gameFile = [zero |-> 0, invalid |-> 0]
    /\ saving = "no" /\ hidden = [t \in XpTowers |-> -1]
    /\ owed = [t \in XpTowers |-> 0] /\ zeroOwed = 0 /\ aliased = {} /\ gained = 0

-----------------------------------------------------------------------------
(* track_xp(): what a node and its track become.                             *)

Recorded(t) == IF tracks[t] = NoTrack THEN progress[t] ELSE tracks[t].total
Rebuilt(t, n) == n.at # tracks[t].node \/ n.xp < Recorded(t)
Value(t, n) == IF Rebuilt(t, n) THEN n.xp + Recorded(t) ELSE n.xp
Tracked(n) == [node |-> n.at, total |-> n.xp]

\* The game's accessor: t's node, which it makes where there is none.
Accessed(t, at) == IF nodes[t].at = 0 THEN [at |-> at, xp |-> 0] ELSE nodes[t]
\* The node of t with its true total, after the accessor and track_xp().
Kept(t, at) == LET n == Accessed(t, at) IN [n EXCEPT !.xp = Value(t, n)]
\* A new node on the old one's address is told apart only by a lower value.
StillAliased(t) == aliased \ {u \in {t} : Rebuilt(u, nodes[u])}

Tracking == hooks = "on"
Playing == hooks # "none" /\ saving = "no"

-----------------------------------------------------------------------------
(* A game from start to end.                                                 *)

\* Deviation: entries of towers whose mod is missing are left behind.
LoadedRegistered(registered) ==
    [t \in XpTowers |-> IF file = Damaged \/ t \notin registered THEN 0 ELSE file[t]]

\* What load() takes from the file: everything, and nothing from a damaged one.
Loaded(registered) == [t \in XpTowers |-> IF file = Damaged THEN 0 ELSE file[t]]
\* The hooks load the progress and the game its profile, where INVALID entries
\* land on key 0.
NewGame ==
    /\ hooks = "none" /\ gameFile.zero + gameFile.invalid <= MaxGained
    /\ hooks' = "wait" /\ towers' \in SUBSET XpTowers
    /\ progress' = Loaded(towers')
    /\ zero' = gameFile.zero + gameFile.invalid
    /\ owed' = progress' /\ zeroOwed' = zero' /\ aliased' = {}
    /\ UNCHANGED <<nodes, tracks, started, dirty, saving, hidden, files, gained>>

\* The registration ends; the XP hooks are only made when a tower wants them.
FinishRegistration ==
    /\ hooks = "wait"
    /\ hooks' \in IF towers = {} THEN {"failed"} ELSE {"on", "failed"}
    /\ UNCHANGED <<towers, nodes, zero, tracks, started, progress, dirty, saving, hidden>>
    /\ UNCHANGED <<files, history>>

\* The mods fail to load and all hooks are taken down while the game runs on,
\* even inside of its save.  What the nodes hold is then the game's alone.
HooksRemoved ==
    /\ hooks \in {"wait", "on", "failed"}
    /\ hooks' = "off"
    /\ tracks' = [t \in XpTowers |-> NoTrack] /\ started' = FALSE
    /\ aliased' = {}
    /\ UNCHANGED <<towers, nodes, zero, progress, dirty, saving, hidden>>
    /\ UNCHANGED <<files, owed, zeroOwed, gained>>

\* The process ends, by itself or not, and everything in memory is gone.
XpEnds ==
    /\ hooks # "none"
    /\ hooks' = "none" /\ towers' = {}
    /\ nodes' = [t \in XpTowers |-> NoNode] /\ zero' = 0
    /\ tracks' = [t \in XpTowers |-> NoTrack] /\ started' = FALSE
    /\ progress' = [t \in XpTowers |-> 0] /\ dirty' = FALSE
    /\ saving' = "no" /\ hidden' = [t \in XpTowers |-> -1]
    /\ owed' = [t \in XpTowers |-> 0] /\ zeroOwed' = 0 /\ aliased' = {}
    /\ UNCHANGED <<files, gained>>

\* Something else leaves a progress.json the loader cannot read.
Damage ==
    /\ file' = Damaged
    /\ UNCHANGED <<memory, gameFile, history>>

-----------------------------------------------------------------------------
(* The game's use of its map.                                                *)

\* The game drops the nodes of the custom towers and makes its map again.
\* XP it had added since a hook last saw the node goes with it.
Rebuild ==
    /\ Playing /\ \E t \in XpTowers : nodes[t].at # 0
    /\ nodes' = [t \in XpTowers |-> NoNode]
    /\ owed' = [t \in XpTowers |-> IF nodes[t].at # 0 THEN Recorded(t) ELSE owed[t]]
    /\ aliased' = {}
    /\ UNCHANGED <<hooks, towers, zero, tracks, started, progress, dirty, saving, hidden>>
    /\ UNCHANGED <<files, zeroOwed, gained>>

\* The game adds XP to a tower's own key, in a new node if there is none.
GameAdds(t, gain) ==
    /\ Playing /\ t \in towers /\ gained + gain <= MaxGained
    /\ \E at \in Addresses :
         LET n == Accessed(t, at) IN
         /\ nodes' = [nodes EXCEPT ![t] = [n EXCEPT !.xp = @ + gain]]
         /\ aliased' = IF nodes[t].at = 0 /\ at = tracks[t].node THEN aliased \cup {t} ELSE aliased
    /\ owed' = [owed EXCEPT ![t] = @ + gain]
    /\ gained' = gained + gain
    /\ UNCHANGED <<hooks, towers, zero, tracks, started, progress, dirty, saving, hidden>>
    /\ UNCHANGED <<files, zeroOwed>>

-----------------------------------------------------------------------------
(* The hooks.                                                                *)

\* hooked_tower_xp(): the game asks for a tower's XP.
TowerXp(t) ==
    /\ Playing /\ Tracking /\ t \in towers
    /\ \E at \in Addresses :
         /\ nodes' = [nodes EXCEPT ![t] = Kept(t, at)]
         /\ tracks' = [tracks EXCEPT ![t] = Tracked(Kept(t, at))]
    /\ started' = TRUE
    /\ aliased' = StillAliased(t)
    /\ UNCHANGED <<hooks, towers, zero, progress, dirty, saving, hidden>>
    /\ UNCHANGED <<files, owed, zeroOwed, gained>>

\* hooked_xp_award(): the game puts a round's XP for all towers whose types end
\* in zeros on key 0, and the hook moves each custom tower's share by its pops.
Share(gain, pops, others, t) ==
    IF pops[t] = 0 THEN 0 ELSE (gain * pops[t]) \div (SumFunction(pops) + others)

\* Deviation: what moves stays on key 0 as well.
KeyZeroAfterCopying(gain, shares) == zero + gain
KeyZeroAfter(gain, shares) == zero + gain - SumFunction(shares)
XpAward(gain) ==
    /\ Playing /\ gained + gain <= MaxGained
    /\ \E pops \in [XpTowers -> Pops], others \in Pops, at \in [XpTowers -> Addresses] :
         LET counted == {t \in towers : Tracking /\ pops[t] > 0}
             shares == [t \in XpTowers |->
                 IF t \in counted THEN Share(gain, [u \in counted |-> pops[u]], others, t) ELSE 0]
             new == [t \in XpTowers |->
                 IF t \in counted THEN [Kept(t, at[t]) EXCEPT !.xp = @ + shares[t]] ELSE nodes[t]] IN
         /\ \E t \in XpTowers : pops[t] + others > 0
         /\ nodes' = new
         /\ tracks' = [t \in XpTowers |-> IF t \in counted THEN Tracked(new[t]) ELSE tracks[t]]
         /\ zero' = KeyZeroAfter(gain, shares)
         /\ owed' = [t \in XpTowers |-> owed[t] + shares[t]]
         /\ zeroOwed' = zeroOwed + gain - SumFunction(shares)
         /\ aliased' = aliased \ {t \in counted : Rebuilt(t, nodes[t])}
    /\ gained' = gained + gain
    /\ UNCHANGED <<hooks, towers, started, progress, dirty, saving, hidden, files>>

\* hooked_profile_save(), before the game's own: the nodes give up their XP.
\* Deviation: the XP is recorded, and left for the game to write.
EmptiedLater(n) == n
Emptied(n) == [n EXCEPT !.xp = 0]

SaveBegins ==
    /\ Playing
    /\ IF Tracking /\ started
       THEN \E at \in [XpTowers -> Addresses] :
              LET kept == [t \in towers |-> Kept(t, at[t])] IN
              /\ nodes' = [t \in XpTowers |->
                   IF t \in towers THEN Emptied(kept[t]) ELSE nodes[t]]
              /\ tracks' = [t \in XpTowers |-> IF t \in towers THEN Tracked(kept[t]) ELSE tracks[t]]
              /\ hidden' = [t \in XpTowers |-> IF t \in towers THEN kept[t].xp ELSE -1]
              /\ progress' = [t \in XpTowers |-> IF t \in towers THEN kept[t].xp ELSE progress[t]]
              /\ dirty' = (dirty \/ progress' # progress)
              /\ aliased' = aliased \ {t \in towers : Rebuilt(t, nodes[t])}
       ELSE UNCHANGED <<nodes, tracks, hidden, progress, dirty, aliased>>
    /\ saving' = "write"
    /\ UNCHANGED <<hooks, towers, zero, started, files, owed, zeroOwed, gained>>

\* The game writes its profile; nodes of custom towers become INVALID entries.
GameWrites ==
    /\ saving = "write" /\ saving' = "written"
    /\ gameFile' = [zero |-> zero, invalid |-> SumFunction([t \in XpTowers |-> nodes[t].xp])]
    /\ UNCHANGED <<hooks, towers, nodes, zero, tracks, started, progress, dirty, hidden>>
    /\ UNCHANGED <<file, history>>

\* ... and after it: the nodes get their XP back and the progress is written.
Restored == [t \in XpTowers |->
    IF hidden[t] # -1 THEN [nodes[t] EXCEPT !.xp = hidden[t]] ELSE nodes[t]]

SaveEnds ==
    /\ saving = "written" /\ saving' = "no"
    /\ nodes' = Restored
    /\ hidden' = [t \in XpTowers |-> -1]
    /\ \/ /\ Tracking /\ started /\ dirty
          /\ file' = progress /\ dirty' = FALSE
       \/ UNCHANGED <<file, dirty>>
    /\ UNCHANGED <<hooks, towers, zero, tracks, started, progress, gameFile, history>>

XpNext ==
    \/ NewGame
    \/ FinishRegistration
    \/ HooksRemoved
    \/ XpEnds
    \/ Damage
    \/ Rebuild
    \/ \E t \in XpTowers : TowerXp(t) \/ \E gain \in Gains : GameAdds(t, gain)
    \/ \E gain \in Gains : XpAward(gain)
    \/ SaveBegins
    \/ GameWrites
    \/ SaveEnds

XpSpec == XpInit /\ [][XpNext]_xpVars

-----------------------------------------------------------------------------
(* Properties.                                                               *)

XpTypeOK ==
    /\ hooks \in {"none", "wait", "on", "failed", "off"} /\ towers \subseteq XpTowers
    /\ nodes \in [XpTowers -> [at : Addresses \cup {0}, xp : Nat]] /\ zero \in Nat
    /\ tracks \in [XpTowers -> [node : Addresses, total : Nat] \cup {NoTrack}]
    /\ progress \in [XpTowers -> Nat] /\ file \in [XpTowers -> Nat] \cup {Damaged}
    /\ gameFile \in [zero : Nat, invalid : Nat]

\* Between two saves, what the next look at a tower's node will make of it is
\* the XP the tower had at the start and every gain since, however often the
\* game has made its map again: nothing is lost, and nothing is added twice.
\* Once the hooks are taken down nothing looks at the nodes any more.
\* Key 0 holds what is left after the custom towers' shares.  (A new node that
\* takes the old one's address and outgrows it before a hook sees it may lose,
\* never gain.)
XpAccounted ==
    hooks # "none" /\ saving = "no" =>
        /\ zero = zeroOwed
        /\ hooks # "off" => \A t \in towers :
             /\ Value(t, nodes[t]) <= owed[t]
             /\ t \notin aliased => Value(t, nodes[t]) = owed[t]

\* While the game writes its profile, the nodes of the custom towers are empty,
\* the progress has their XP, and what was written for them is worth nothing
\* when it reloads onto key 0.
TakenBeforeWrite ==
    saving # "no" /\ Tracking /\ started =>
        /\ \A t \in towers : nodes[t].xp = 0 /\ (t \notin aliased => progress[t] = owed[t])
        /\ saving = "written" => gameFile.invalid = 0

\* No XP is lost, counted twice, or left in the game's own profile.
XpSound == XpAccounted /\ TakenBeforeWrite

\* XP in progress.json is never taken back, whatever mods are missing and
\* wherever a process ends, until something else damages the file.
FileKeepsXp ==
    [][file # Damaged /\ file' # Damaged => \A t \in XpTowers : file'[t] >= file[t]]_xpVars

=============================================================================
