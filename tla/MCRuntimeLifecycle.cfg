SPECIFICATION FairSpec
CONSTANTS
  ModCount = 3
  MaxDepth = 3
INVARIANTS
  LuaExclusive
  DeliveredWhileReady
  OrderlyEnd
PROPERTIES
  HonoursContract
  ShutdownCompletes
  WaitReleased
