CONSTANTS
  OilFull = 2
  InvFull = 3
  Contacts = {{}, {0}, {2}, {3}, {4}, {6}, {7}, {2, 4}}
SPECIFICATION MapperSpec
INVARIANTS MapperTypeOK MapperInv
PROPERTIES PlaysByTheRules TimersRunOut ThreeStarsWin
