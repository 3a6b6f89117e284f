------------------------- MODULE MCGameObjectEvents -------------------------
(* GameObjectEvents on a few addresses that later objects reuse. *)
EXTENDS GameObjectEvents, TLC

AddressSymmetry == Permutations(Address)
=============================================================================
