CONSTANTS
  OilFull = 1
  InvFull = 1
  Contacts = {{}, {0}, {2}, {3}, {4}, {0, 3}}
  NosFull = 2
  MinTicks = 3
SPECIFICATION PlaySpec
PROPERTIES OneBottle FlagsSettle BothOnlyInOneFrame
