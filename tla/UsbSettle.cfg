\* As UsbHost.cfg: a settling that begins at the end of the clock's range.
SPECIFICATION FairUsb
CONSTANTS
  Working = {"kbd", "mouse"}
  LowSpeed = {"kbd"}
  USB_NUMDEVICES = 3
  MsMax = 3
  SettleMs = 1
PROPERTY SettleEnds
