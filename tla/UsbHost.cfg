\* Two addresses, a clock of three values and a settling of one.
SPECIFICATION FairUsb
CONSTANTS
  Working = {"kbd", "mouse"}
  LowSpeed = {"kbd"}
  USB_NUMDEVICES = 3
  MsMax = 3
  SettleMs = 1
INVARIANTS
  UsbTypeOK
  TableReady
PROPERTIES
  OnlyKeyboards
  GoneIsNoticed
  ComesUp
