---------------------------- MODULE ModContract ----------------------------
(***************************************************************************)
(* What the runtime promises an enabled mod about its lifecycle callbacks, *)
(* as docs/architecture.md states it under "Launch and shutdown": on_load  *)
(* in load order, on_ready once the whole profile is loaded, on_shutdown   *)
(* in reverse load order, each at most once and in that order.  Mods are   *)
(* numbered by their place in the load order.  RuntimeLifecycle is shown   *)
(* to implement this contract.                                             *)
(***************************************************************************)
EXTENDS Naturals

CONSTANT ModCount   \* mods in the launch ticket's profile

VARIABLE life       \* how far each mod has come

Mod == 1 .. ModCount
Earlier(m) == 1 .. (m - 1)
Later(m) == (m + 1) .. ModCount

ContractInit == life = [m \in Mod |-> "absent"]

Moves(m, to) == life' = [life EXCEPT ![m] = to]

(* on_load has run and the mod joins the dispatch order. *)
OnLoad(m) ==
  /\ life[m] = "absent"
  /\ \A k \in Earlier(m) : life[k] = "loaded"
  /\ Moves(m, "loaded")

(* on_ready: never while a mod of the profile is missing or shut down. *)
OnReady(m) ==
  /\ life[m] = "loaded"
  /\ \A k \in Earlier(m) : life[k] = "ready"
  /\ \A k \in Later(m) : life[k] = "loaded"
  /\ Moves(m, "ready")

(* on_shutdown, of a loaded mod with none loaded after it. *)
OnShutdown(m) ==
  /\ life[m] \in {"loaded", "ready"}
  /\ \A k \in Later(m) : life[k] \in {"absent", "down"}
  /\ Moves(m, "down")

ContractNext == \E m \in Mod : OnLoad(m) \/ OnReady(m) \/ OnShutdown(m)
ContractSpec == ContractInit /\ [][ContractNext]_life
=============================================================================
