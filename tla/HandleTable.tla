---------------------------- MODULE HandleTable ----------------------------
(***************************************************************************)
(* What the object registry promises to the Lua host, and nothing about    *)
(* how it keeps the promise: a handle is bound to one object when it is    *)
(* issued, it may be retired, alone or together with every other handle    *)
(* when a scene begins, and a handle that was retired is never bound       *)
(* again.  docs/gameplay-events.md states this contract under "Object      *)
(* wrappers"; GameObjectRegistry is shown to implement it.                 *)
(***************************************************************************)
CONSTANTS
  Handle,   \* the handles that can ever be issued
  Object    \* the native objects they name

VARIABLES
  bound,    \* the handles in force, each with its object
  retired   \* the handles issued earlier and no longer in force

tableVars == <<bound, retired>>

Binding == [handle : Handle, object : Object]
BoundHandles == {b.handle : b \in bound}

TableInit ==
  /\ bound = {}
  /\ retired = {}

(* A fresh handle is bound to an object. *)
Issue(b) ==
  /\ b.handle \notin BoundHandles \cup retired
  /\ bound' = bound \cup {b}
  /\ UNCHANGED retired

(* One handle goes out of force. *)
Retire(b) ==
  /\ b \in bound
  /\ bound' = bound \ {b}
  /\ retired' = retired \cup {b.handle}

(* Every handle goes out of force at once. *)
RetireAll ==
  /\ bound' = {}
  /\ retired' = retired \cup BoundHandles

TableNext ==
  \/ \E b \in Binding : Issue(b)
  \/ \E b \in bound : Retire(b)
  \/ RetireAll

TableSpec == TableInit /\ [][TableNext]_tableVars
=============================================================================
