CONSTANTS
  hpixels = 3
  vlines = 4
  SyncLine = 2
SPECIFICATION ClockSpec
INVARIANTS ClockTypeOK
PROPERTIES FramesApart FramesKeepComing
