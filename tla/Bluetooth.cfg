SPECIFICATION Spec
CONSTANTS
  Hosts = {1, 2}
  Nkro = TRUE
  RingRoom = 1
  WireRoom = 1
  Kinds = {"KB", "CONSUMER"}
  Chances = 4
INVARIANTS KeysReleased Agreement RightHost
PROPERTIES BatteryGuard
