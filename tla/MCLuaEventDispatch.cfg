SPECIFICATION FairSpec
CONSTANTS
  A = A
  Mod = {A}
  Profile <- OneProfile
  Balance = {c1, c2}
  NotFinite = NotFinite
  NoCash = NoCash
  OtherEvent = {"round.started"}
  Slots = 1
  EventLimit = 2
  CallbackLimit = 4
  HandlerLimit = 2
  Allowance = 2
  MaxLoaded = 2
  MaxToken = 2
  MaxNative = 2
INVARIANTS
  StackAccounted
  CashOwnBalance
  HandlersOwed
PROPERTIES
  DispatchEnds
  AllowanceShared
  SubscriptionsHonoured
