CONSTANTS
  Objs = {3, 5}
  Diffs = {1, 3}
  Obj_Y_Max = 62
  Obj_Y_Start_1 = 4
  Trash = TRUE
SPECIFICATION ObjSpec
INVARIANTS ObjTypeOK StaysOnRoad
PROPERTIES Circulates
