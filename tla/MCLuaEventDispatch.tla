------------------------- MODULE MCLuaEventDispatch -------------------------
(* LuaEventDispatch with one mod. *)
EXTENDS LuaEventDispatch

CONSTANT A
OneProfile == <<A>>
=============================================================================
