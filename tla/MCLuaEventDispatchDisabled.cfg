SPECIFICATION Spec
CONSTANTS
  A = A
  Mod = {A}
  Profile <- OneProfile
  Balance = {c1, c2}
  NotFinite = NotFinite
  NoCash = NoCash
  OtherEvent = {}
  Slots = 1
  EventLimit = 2
  CallbackLimit = 4
  HandlerLimit = 2
  Allowance = 1
  MaxLoaded = 2
  MaxToken = 2
  MaxNative = 1
PROPERTIES
  OnlyFailedDisabled
