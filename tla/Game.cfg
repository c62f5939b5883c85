CONSTANTS
  NosFull = 4
  Car_Y_Start = 419
  Car_Y_Max = 479
  Obj_Y_Max = 479
  Obj_Y_Start_1 = 160
  Objs = {0, 1, 2, 3, 4, 5, 6, 7}
  StarDelay = 40
  OilFull = 5
  InvFull = 17
  Diffs = {3}
  Trash = TRUE
  Contacts = {{}}
  Held = {79}
  KeyFrames = 110
  MaxFrames = 260
  TicksPerFrame = 3
SPECIFICATION GameSpec
INVARIANTS ContactsNoticed
PROPERTIES StarGoneOnceGathered
CONSTRAINT WithinFrames
