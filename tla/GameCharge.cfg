CONSTANTS
  NosFull = 4
  Car_Y_Start = 419
  Car_Y_Max = 479
  Obj_Y_Max = 479
  Obj_Y_Start_1 = 160
  Objs = {0, 2}
  StarDelay = 40
  OilFull = 5
  InvFull = 17
  Diffs = {1}
  Trash = TRUE
  Contacts = {{}}
  Held = {81}
  KeyFrames = 500
  MaxFrames = 600
  TicksPerFrame = 3
SPECIFICATION GameSpec
PROPERTIES ChargedOnce
CONSTRAINT WithinFrames
