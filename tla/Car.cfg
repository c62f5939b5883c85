\* Lanes, rows and bottles of the smallest sizes that show every case.
CONSTANTS
  NosFull = 2
  Car_Y_Start = 9
  Car_Y_Max = 132
  Held = {80, 79, 81, 82, 44, 0}
SPECIFICATION CarSpec
INVARIANTS CarTypeOK LaneInv StaysOnScreen NitrousConsistent
PROPERTIES ShiftEnds LeavesBottom
