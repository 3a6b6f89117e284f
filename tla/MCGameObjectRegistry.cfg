SPECIFICATION RegistrySpec
CONSTANTS
  Kind = {"Match", "Tower"}
  Object = {o1, o2}
  NullObject = NullObject
  Capacity = 2
  GenMod = 3
  MaxReuse = 1
  MaxScene = 2
SYMMETRY ObjectSymmetry
INVARIANTS
  RegistryInv
  ResolvesToItsObject
PROPERTIES
  StaleStaysStale
  ImplementsTable
