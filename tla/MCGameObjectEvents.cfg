SPECIFICATION Spec
CONSTANTS
  Address = {a1, a2}
  NoObject = NoObject
  NativeKind = {"Tower", "Attack", "Bloon"}
  MaxBirth = 3
  MaxHandle = 5
  MaxMatch = 2
SYMMETRY AddressSymmetry
CHECK_DEADLOCK FALSE
INVARIANTS
  HandlesConsistent
  ValidWhileDelivered
  PurchaseAnnouncedOnce
  LedgerBalanced
PROPERTIES
  HandleKept
