------------------------ MODULE MCGameObjectRegistry ------------------------
(* GameObjectRegistry on a small table: generations wrap (GenMod = 3) and  *)
(* the table fills.  Objects are interchangeable.                          *)
EXTENDS GameObjectRegistry, TLC

ObjectSymmetry == Permutations(Object)
=============================================================================
