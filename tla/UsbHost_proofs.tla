---------------------------- MODULE UsbHost_proofs ----------------------------
(***************************************************************************)
(* Proofs about the USB host program, for tables and clocks of every size  *)
(* and whatever devices are plugged in and out: the types, that the table  *)
(* says what the polling loop relies on, and that only keyboards reach the *)
(* port of the game.                                                       *)
(***************************************************************************)
EXTENDS UsbHost, TLAPS

\* Addresses are handed out in order: the entries in use are the first ones.
InOrder == \E k \in 0 .. USB_NUMDEVICES - 1 : used = 1 .. k

\* The device that was just given an address has the last entry in use.
JustAddressed ==
  state = CONFIGURING =>
    /\ ~flag /\ pc \notin {"init", "clear"}
    /\ tmp_addr \in used /\ \A a \in used : a <= tmp_addr

\* A device in operation has the last entry in use, with endpoints and a class, and
\* the program acts on that class.
InOperation ==
  state = RUNNING =>
    /\ pc \notin {"init", "clear"}
    /\ hid_addr \in hid /\ \A a \in used : a <= hid_addr
    /\ devclass[hid_addr] \in {HID_K, HID_M}
    /\ flag => device = devclass[hid_addr]

\* While the program thinks that a device is in operation, the bus has at most been
\* probed, and one step of the task taken, since it was.
Remembered ==
  flag =>
    \/ state \in {RUNNING, ERROR} /\ pc \notin {"init", "clear"}
    \/ /\ pc \in {"ack", "task"}
       /\ state \in {INITIALIZE, 2, WAIT_FOR_DEVICE, ILLEGAL, 5, ATTACHED, SETTLE}
    \/ /\ pc = "main"
       /\ state \in {2, WAIT_FOR_DEVICE, ILLEGAL, 5, SETTLE, RESET_DEVICE}

\* A configured device at the polled address is of the class that was found there.
KeyboardThere ==
  (state = RUNNING /\ devConf /\ devAddr = hid_addr /\ devclass[hid_addr] = HID_K) =>
    dev = "kbd"

UsbInv == UsbTypeOK /\ InOrder /\ JustAddressed /\ InOperation /\ Remembered /\ KeyboardThere

\* The types, by what changes together.
ProgramTypes ==
  /\ pc \in {"int", "probe", "ack", "task", "main", "init", "clear"}
  /\ state \in {INITIALIZE, 2, WAIT_FOR_DEVICE, ILLEGAL, 5, ATTACHED, SETTLE, RESET_DEVICE,
                WAIT_RESET_COMPLETE, WAIT_SOF, GET_DESCRIPTOR, ADDRESSING, CONFIGURING,
                RUNNING, ERROR}
MainTypes ==
  /\ flag \in BOOLEAN /\ device \in {NoDriver, 0, HID_K, HID_M}
  /\ port \in {"none"} \cup Working
TableTypes ==
  /\ used \subseteq Addresses /\ hid \subseteq used
  /\ devclass \in [Addresses -> {0, HID_K, HID_M}]
  /\ tmp_addr \in 0 .. USB_NUMDEVICES - 1 /\ hid_addr \in 0 .. USB_NUMDEVICES - 1
TimeTypes == ms \in 0 .. MsMax - 1 /\ usb_delay \in 0 .. MsMax - 1 + SettleMs
FlagTypes ==
  /\ condet \in BOOLEAN /\ busevent \in BOOLEAN /\ seen \in BOOLEAN
  /\ lowspeed \in BOOLEAN /\ resetting \in BOOLEAN
  /\ late \in BOOLEAN /\ lost \in BOOLEAN
DevTypes ==
  /\ dev \in Devices
  /\ devAddr \in {Unset} \cup 0 .. USB_NUMDEVICES - 1 /\ devConf \in BOOLEAN

LEMMA TypeParts ==
  /\ UsbTypeOK <=> ProgramTypes /\ MainTypes /\ TableTypes /\ TimeTypes /\ FlagTypes /\ DevTypes
  /\ UsbTypeOK' <=>
       ProgramTypes' /\ MainTypes' /\ TableTypes' /\ TimeTypes' /\ FlagTypes' /\ DevTypes'
BY Zenon DEF UsbTypeOK, ProgramTypes, MainTypes, TableTypes, TimeTypes, FlagTypes, DevTypes

USE DEF INITIALIZE, WAIT_FOR_DEVICE, ILLEGAL, ATTACHED, SETTLE, RESET_DEVICE,
        WAIT_RESET_COMPLETE, WAIT_SOF, GET_DESCRIPTOR, ADDRESSING, CONFIGURING, RUNNING, ERROR,
        HID_K, HID_M, NoDriver, Unset

-----------------------------------------------------------------------------
(* The operators. *)

\* What a probe of the bus can make of a task state.
LEMMA ProbedStates ==
  ASSUME UsbTypeOK
  PROVE  /\ ProbedState(state) \in {INITIALIZE, WAIT_FOR_DEVICE, ILLEGAL, ATTACHED, WAIT_RESET_COMPLETE}
         /\ ProbedState(state) = WAIT_RESET_COMPLETE => state = WAIT_RESET_COMPLETE
BY SMT DEF ProbedState, SE0, SE1

LEMMA ProbedSpeedType ==
  ASSUME UsbTypeOK, NEW low \in BOOLEAN
  PROVE  ProbedSpeed(state, low) \in BOOLEAN
<1>1. ProbedSpeed(state, low) \in {FALSE, low, (dev \in LowSpeed)}
  BY Zenon DEF ProbedSpeed, SE0, SE1, UsbTypeOK
<1>2. (dev \in LowSpeed) \in BOOLEAN
  OBVIOUS
<1>3. CASE ProbedSpeed(state, low) = low
  BY <1>3, Zenon
<1>4. CASE ProbedSpeed(state, low) = FALSE
  BY <1>4, Zenon
<1>5. CASE ProbedSpeed(state, low) = (dev \in LowSpeed)
  BY <1>2, <1>5, Zenon
<1> QED  BY <1>1, <1>3, <1>4, <1>5, Zenon

\* The clock of the settling stays in its range.
LEMMA EnterSettlingType ==
  ASSUME NEW stale \in BOOLEAN, EnterSettling(stale)
  PROVE  ms' \in 0 .. MsMax - 1 /\ usb_delay' \in 0 .. MsMax - 1 + SettleMs
<1>1. ms' \in 0 .. MsMax - 1
  BY Zenon DEF EnterSettling
<1>2. usb_delay' = ms' + SettleMs \/ usb_delay' = 0 \/ usb_delay' \in SettleMs .. MsMax - 1 + SettleMs
  BY Zenon DEF EnterSettling
<1> QED
  BY <1>1, <1>2, UsbHostAssumption, SMT

LEMMA LeaveSettlingType ==
  ASSUME LeaveSettling
  PROVE  ms' \in 0 .. MsMax - 1 /\ usb_delay' \in 0 .. MsMax - 1 + SettleMs
BY UsbHostAssumption, SMT DEF LeaveSettling

\* With the first k entries in use the next one is free, and the first that is.
LEMMA FirstFreeNext ==
  ASSUME NEW k \in 0 .. USB_NUMDEVICES - 1, used = 1 .. k, Free # {}
  PROVE  FirstFree = k + 1 /\ k + 1 \in Addresses
<1>1. Free = k + 1 .. USB_NUMDEVICES - 1
  BY UsbHostAssumption, SMT DEF Free, Addresses
<1>2. k + 1 \in Free /\ \A b \in Free : k + 1 <= b
  BY <1>1, UsbHostAssumption, SMT
<1>3. FirstFree \in Free /\ \A b \in Free : FirstFree <= b
  BY <1>2, Zenon DEF FirstFree
<1> QED
  BY <1>1, <1>2, <1>3, UsbHostAssumption, SMT DEF Addresses

\* The last entry in use is what it is called.
LEMMA LastUsedIs ==
  ASSUME UsbTypeOK, NEW a \in used, \A b \in used : b <= a
  PROVE  LastUsed = a
<1>1. LastUsed \in used /\ \A b \in used : b <= LastUsed
  BY Zenon DEF LastUsed
<1>2. a <= LastUsed /\ LastUsed <= a
  BY <1>1
<1>3. a \in Int /\ LastUsed \in Int
  BY <1>1, UsbHostAssumption, SMT DEF UsbTypeOK, Addresses
<1> QED  BY <1>2, <1>3, SMT

-----------------------------------------------------------------------------
(* The steps. *)

LEMMA UsbInitInv ==
  ASSUME UsbInit
  PROVE  UsbInv
<1>1. ProgramTypes /\ MainTypes
  BY Zenon DEF UsbInit, ProgramTypes, MainTypes
<1>2. TableTypes
  <2>1. devclass \in [Addresses -> {0, HID_K, HID_M}]
    BY Zenon DEF UsbInit
  <2> QED  BY <2>1, UsbHostAssumption, SMT DEF UsbInit, TableTypes
<1>3. TimeTypes
  BY UsbHostAssumption, SMT DEF UsbInit, TimeTypes
<1>4. FlagTypes
  BY Zenon DEF UsbInit, FlagTypes
<1>5. DevTypes
  BY Zenon DEF UsbInit, DevTypes
<1>6. used = 1 .. 0 /\ 0 \in 0 .. USB_NUMDEVICES - 1
  BY UsbHostAssumption, SMT DEF UsbInit
<1>7. InOrder
  BY <1>6, Zenon DEF InOrder
<1>8. state = INITIALIZE /\ flag = FALSE
  BY Zenon DEF UsbInit
<1>9. JustAddressed /\ InOperation /\ Remembered /\ KeyboardThere
  BY <1>8, SMT DEF JustAddressed, InOperation, Remembered, KeyboardThere
<1> QED
  BY <1>1, <1>2, <1>3, <1>4, <1>5, <1>7, <1>9, TypeParts, Zenon DEF UsbInv

\* What is left alone keeps its types.
LEMMA SameTypes ==
  /\ TableTypes /\ UNCHANGED tableVars => TableTypes'
  /\ TimeTypes /\ UNCHANGED timeVars => TimeTypes'
  /\ MainTypes /\ UNCHANGED mainVars => MainTypes'
  /\ DevTypes /\ UNCHANGED devVars => DevTypes'
  /\ FlagTypes /\ UNCHANGED <<seen, chipVars, lossVars>> => FlagTypes'
BY Zenon DEF TableTypes, tableVars, TimeTypes, timeVars, MainTypes, mainVars, DevTypes, devVars,
             FlagTypes, chipVars, lossVars

\* A step that leaves the table and the program's variables alone, and enters
\* neither of the two states that speak of the table.
LEMMA SameTable ==
  ASSUME InOrder, JustAddressed, InOperation, KeyboardThere,
         UNCHANGED tableVars, UNCHANGED <<flag, device>>,
         state \in {CONFIGURING, RUNNING} /\ state' = state => pc' \notin {"init", "clear"},
         state' \in {CONFIGURING, RUNNING} => state' = state,
         devConf' => devConf /\ UNCHANGED <<dev, devAddr>>
  PROVE  InOrder' /\ JustAddressed' /\ InOperation' /\ KeyboardThere'
<1>1. UNCHANGED <<used, devclass, hid, tmp_addr, hid_addr, flag, device>>
  BY Zenon DEF tableVars
<1>2. InOrder'
  BY <1>1, Zenon DEF InOrder
<1>3. JustAddressed'
  <2>1. CASE state' = CONFIGURING
    <3>1. state = CONFIGURING /\ pc' \notin {"init", "clear"}
      BY <2>1, SMT
    <3> QED  BY <1>1, <3>1, SMT DEF JustAddressed
  <2> QED  BY <2>1, Zenon DEF JustAddressed
<1>4. InOperation'
  <2>1. CASE state' = RUNNING
    <3>1. state = RUNNING /\ pc' \notin {"init", "clear"}
      BY <2>1, SMT
    <3> QED  BY <1>1, <3>1, SMT DEF InOperation
  <2> QED  BY <2>1, Zenon DEF InOperation
<1>5. KeyboardThere'
  BY <1>1, Zenon DEF KeyboardThere
<1> QED  BY <1>2, <1>3, <1>4, <1>5

\* The bus moves under the program's feet.
LEMMA BusStep ==
  ASSUME UsbInv, Plug \/ Unplug \/ \E detects \in BOOLEAN : ResetDone(detects)
  PROVE  UsbInv'
<1>1. /\ ProgramTypes /\ MainTypes /\ TableTypes /\ TimeTypes /\ FlagTypes /\ DevTypes
      /\ InOrder /\ JustAddressed /\ InOperation /\ Remembered /\ KeyboardThere
  BY TypeParts, Zenon DEF UsbInv
<1>2. /\ UNCHANGED <<pc, state, seen, lowspeed>> /\ UNCHANGED tableVars /\ UNCHANGED timeVars
      /\ UNCHANGED mainVars
      /\ devConf' = FALSE
  BY Zenon DEF Plug, Unplug, ResetDone
<1>3. /\ dev' \in Devices
      /\ devAddr' \in {Unset, 0, devAddr}
  BY <1>1, SMT DEF Plug, Unplug, ResetDone, DevTypes, Devices
<1>4. DevTypes'
  <2>1. 0 \in 0 .. USB_NUMDEVICES - 1
    BY UsbHostAssumption, SMT
  <2> QED  BY <1>1, <1>2, <1>3, <2>1, Zenon DEF DevTypes
<1>5. /\ condet' \in BOOLEAN /\ busevent' \in BOOLEAN /\ resetting' \in BOOLEAN
      /\ late' \in BOOLEAN /\ lost' \in BOOLEAN
  BY <1>1, Zenon DEF Plug, Unplug, ResetDone, Raise, FlagTypes
<1>6. FlagTypes'
  BY <1>1, <1>2, <1>5, Zenon DEF FlagTypes
<1>7. ProgramTypes' /\ MainTypes' /\ TableTypes' /\ TimeTypes'
  BY <1>1, <1>2, SameTypes, Zenon DEF ProgramTypes
<1>8. UNCHANGED <<flag, device>>
  BY <1>2, Zenon DEF mainVars
<1>9. InOrder' /\ JustAddressed' /\ InOperation' /\ KeyboardThere'
  <2>1. state \in {CONFIGURING, RUNNING} => pc' \notin {"init", "clear"}
    BY <1>1, <1>2, Zenon DEF JustAddressed, InOperation
  <2> QED  BY <1>1, <1>2, <1>8, <2>1, SameTable, Zenon
<1>10. Remembered'
  BY <1>1, <1>2, <1>8, Zenon DEF Remembered
<1> QED
  BY <1>4, <1>6, <1>7, <1>9, <1>10, TypeParts, Zenon DEF UsbInv

\* The interrupt handler and the initialisation of the chip.
LEMMA ChipStep ==
  ASSUME UsbInv, ReadHirq \/ Probe \/ Ack \/ InitProbe
  PROVE  UsbInv'
<1>1. /\ ProgramTypes /\ MainTypes /\ TableTypes /\ TimeTypes /\ FlagTypes /\ DevTypes
      /\ InOrder /\ JustAddressed /\ InOperation /\ Remembered /\ KeyboardThere
      /\ UsbTypeOK
  BY TypeParts, Zenon DEF UsbInv
<1>2. UNCHANGED tableVars /\ UNCHANGED devVars /\ UNCHANGED mainVars
  BY Zenon DEF ReadHirq, Probe, Ack, InitProbe
<1>3. UNCHANGED <<flag, device, dev, devAddr, devConf>>
  BY <1>2, Zenon DEF devVars, mainVars
<1>4. TableTypes' /\ DevTypes' /\ MainTypes'
  BY <1>1, <1>2, SameTypes, Zenon
<1>5. CASE ReadHirq \/ Ack
  <2>1. UNCHANGED state /\ UNCHANGED timeVars /\ pc' \in {"probe", "task"}
        /\ pc \in {"int", "ack"} /\ (pc = "ack" => pc' = "task")
    BY <1>5, Zenon DEF ReadHirq, Ack
  <2>2. FlagTypes'
    BY <1>1, <1>5, Zenon DEF ReadHirq, Ack, FlagTypes, chipVars, lossVars
  <2>3. ProgramTypes' /\ TimeTypes'
    BY <1>1, <2>1, SameTypes, Zenon DEF ProgramTypes
  <2>4. InOrder' /\ JustAddressed' /\ InOperation' /\ KeyboardThere'
    BY <1>1, <1>2, <1>3, <2>1, SameTable, Zenon
  <2>5. Remembered'
    BY <1>1, <1>3, <2>1, Zenon DEF Remembered
  <2> QED
    BY <1>4, <2>2, <2>3, <2>4, <2>5, TypeParts, Zenon DEF UsbInv
<1>6. CASE Probe
  <2>1. /\ pc = "probe" /\ pc' = "ack"
        /\ state' = (ProbedState(state) + (IF seen THEN 1 ELSE 0)) % 256
    BY <1>6, Zenon DEF Probe
  <2>2. /\ state' \in {INITIALIZE, 2, WAIT_FOR_DEVICE, ILLEGAL, 5, ATTACHED, SETTLE,
                       WAIT_RESET_COMPLETE, WAIT_SOF}
        /\ state' \in {WAIT_RESET_COMPLETE, WAIT_SOF} => state = WAIT_RESET_COMPLETE
    BY <1>1, <2>1, ProbedStates, SMT
  <2>3. ProgramTypes'
    BY <2>1, <2>2, SMT DEF ProgramTypes
  <2>4. TimeTypes'
    BY <1>6, EnterSettlingType, LeaveSettlingType, Zenon DEF Probe, TimeTypes
  <2>5. FlagTypes'
    <3>1. lowspeed' \in BOOLEAN
      BY <1>1, <1>6, ProbedSpeedType, Zenon DEF Probe, FlagTypes
    <3> QED  BY <1>1, <1>6, <3>1, Zenon DEF Probe, FlagTypes, lossVars
  <2>6. InOrder' /\ JustAddressed' /\ InOperation' /\ KeyboardThere'
    <3>1. state' \notin {CONFIGURING, RUNNING}
      BY <2>2, SMT
    <3> QED  BY <1>1, <1>2, <1>3, <2>1, <3>1, SameTable, Zenon
  <2>7. Remembered'
    <3>1. flag => state \in {RUNNING, ERROR}
      BY <1>1, <2>1, Zenon DEF Remembered
    <3> QED  BY <1>3, <2>1, <2>2, <3>1, SMT DEF Remembered
  <2> QED
    BY <1>4, <2>3, <2>4, <2>5, <2>6, <2>7, TypeParts, Zenon DEF UsbInv
<1>7. CASE InitProbe
  <2>1. /\ pc = "init" /\ pc' = "clear" /\ state' = ProbedState(state)
        /\ LeaveSettling
    BY <1>7, Zenon DEF InitProbe
  <2>2. state' \in {INITIALIZE, WAIT_FOR_DEVICE, ILLEGAL, ATTACHED, WAIT_RESET_COMPLETE}
    BY <1>1, <2>1, ProbedStates, Zenon
  <2>3. ProgramTypes' /\ TimeTypes'
    BY <2>1, <2>2, LeaveSettlingType, SMT DEF ProgramTypes, TimeTypes
  <2>4. FlagTypes'
    <3>1. lowspeed' \in BOOLEAN
      BY <1>1, <1>7, ProbedSpeedType, Zenon DEF InitProbe, FlagTypes
    <3> QED  BY <1>1, <1>7, <3>1, Zenon DEF InitProbe, FlagTypes, lossVars
  <2>5. InOrder' /\ JustAddressed' /\ InOperation' /\ KeyboardThere'
    <3>1. state' \notin {CONFIGURING, RUNNING}
      BY <2>2, SMT
    <3> QED  BY <1>1, <1>2, <1>3, <3>1, SameTable, Zenon
  <2>6. Remembered'
    <3>1. ~flag
      BY <1>1, <2>1, Zenon DEF Remembered, InOperation
    <3> QED  BY <1>3, <3>1, Zenon DEF Remembered
  <2> QED
    BY <1>4, <2>3, <2>4, <2>5, <2>6, TypeParts, Zenon DEF UsbInv
<1> QED  BY <1>5, <1>6, <1>7

\* The table is cleared, by the initialisation of the chip and by the task machine.
LEMMA ClearStep ==
  ASSUME UsbInv, InitClear \/ Initialize
  PROVE  UsbInv'
<1>1. /\ ProgramTypes /\ MainTypes /\ TableTypes /\ TimeTypes /\ FlagTypes /\ DevTypes
      /\ InOrder /\ JustAddressed /\ InOperation /\ Remembered /\ KeyboardThere
  BY TypeParts, Zenon DEF UsbInv
<1>2. /\ UNCHANGED timeVars /\ UNCHANGED devVars /\ UNCHANGED mainVars
      /\ UNCHANGED <<tmp_addr, hid_addr, flag>>
      /\ ClearTable
      /\ pc \in {"clear", "task"}
      /\ pc' = IF pc = "clear" THEN "int" ELSE "main"
      /\ IF pc = "clear" THEN state' = state ELSE state' = WAIT_FOR_DEVICE
  BY Zenon DEF InitClear, Initialize, Task, mainVars
<1>3. state' \notin {CONFIGURING, RUNNING}
  BY <1>1, <1>2, SMT DEF JustAddressed, InOperation
<1>4. ProgramTypes'
  BY <1>1, <1>2, SMT DEF ProgramTypes
<1>5. MainTypes' /\ TimeTypes' /\ DevTypes'
  BY <1>1, <1>2, SameTypes, Zenon
<1>6. TableTypes'
  <2>1. devclass' \in [Addresses -> {0, HID_K, HID_M}]
    BY <1>2, Zenon DEF ClearTable
  <2> QED  BY <1>1, <1>2, <2>1, Zenon DEF TableTypes, ClearTable
<1>7. FlagTypes'
  BY <1>1, Zenon DEF InitClear, Initialize, FlagTypes, chipVars, lossVars
<1>8. InOrder'
  <2>1. used' = 1 .. 0 /\ 0 \in 0 .. USB_NUMDEVICES - 1
    BY <1>2, UsbHostAssumption, SMT DEF ClearTable
  <2> QED  BY <2>1, Zenon DEF InOrder
<1>9. JustAddressed' /\ InOperation' /\ KeyboardThere'
  BY <1>3, Zenon DEF JustAddressed, InOperation, KeyboardThere
<1>10. Remembered'
  BY <1>1, <1>2, SMT DEF Remembered
<1> QED
  BY <1>4, <1>5, <1>6, <1>7, <1>8, <1>9, <1>10, TypeParts, Zenon DEF UsbInv

\* The task steps that leave the table alone.
LEMMA TaskStep ==
  ASSUME UsbInv,
         \/ Attach \/ Settled \/ StillSettling \/ ResetDevice \/ WaitResetComplete \/ WaitSof
         \/ GetDescriptor \/ NothingToDo
  PROVE  UsbInv'
<1>1. /\ ProgramTypes /\ MainTypes /\ TableTypes /\ TimeTypes /\ FlagTypes /\ DevTypes
      /\ InOrder /\ JustAddressed /\ InOperation /\ Remembered /\ KeyboardThere
  BY TypeParts, Zenon DEF UsbInv
<1>2. /\ pc = "task" /\ pc' = "main"
      /\ UNCHANGED seen /\ UNCHANGED tableVars /\ UNCHANGED mainVars /\ UNCHANGED lossVars
      /\ UNCHANGED <<flag, device>>
  BY Zenon DEF Attach, Settled, StillSettling, ResetDevice, WaitResetComplete, WaitSof,
               GetDescriptor, NothingToDo, Task, mainVars
<1>3. dev' = dev /\ devAddr' \in {Unset, devAddr} /\ devConf' \in {FALSE, devConf}
      /\ (devConf' => devConf /\ UNCHANGED <<dev, devAddr>>)
  <2>1. CASE ResetDevice
    BY <2>1, Zenon DEF ResetDevice
  <2>2. CASE ~ResetDevice
    <3>1. UNCHANGED devVars
      BY <2>2, Zenon DEF Attach, Settled, StillSettling, WaitResetComplete, WaitSof,
                         GetDescriptor, NothingToDo
    <3> QED  BY <3>1, Zenon DEF devVars
  <2> QED  BY <2>1, <2>2
<1>4. \/ state = ATTACHED /\ state' = SETTLE
      \/ state = SETTLE /\ state' \in {SETTLE, RESET_DEVICE}
      \/ state = RESET_DEVICE /\ state' = WAIT_RESET_COMPLETE
      \/ state = WAIT_RESET_COMPLETE /\ state' \in {WAIT_RESET_COMPLETE, WAIT_SOF}
      \/ state = WAIT_SOF /\ state' = GET_DESCRIPTOR
      \/ state = GET_DESCRIPTOR /\ state' \in {ADDRESSING, ERROR}
      \/ state' = state /\ state \notin {INITIALIZE, ATTACHED, CONFIGURING}
  <2>1. CASE NothingToDo
    BY <2>1, Zenon DEF NothingToDo
  <2>2. CASE Attach \/ Settled \/ StillSettling
    BY <2>2, ZenonT(30) DEF Attach, Settled, StillSettling, Task
  <2>3. CASE ResetDevice \/ WaitSof \/ GetDescriptor
    BY <2>3, Zenon DEF ResetDevice, WaitSof, GetDescriptor, Task
  <2>4. CASE WaitResetComplete
    BY <2>4, SMT DEF WaitResetComplete, Task
  <2> QED  BY <2>1, <2>2, <2>3, <2>4
<1>5. ProgramTypes'
  BY <1>1, <1>2, <1>4, SMT DEF ProgramTypes
<1>6. TableTypes' /\ MainTypes'
  BY <1>1, <1>2, SameTypes, Zenon
<1>7. DevTypes'
  BY <1>1, <1>3, Zenon DEF DevTypes
<1>8. TimeTypes'
  <2>1. CASE StillSettling
    BY <1>1, <2>1, UsbHostAssumption, SMT DEF StillSettling, TimeTypes
  <2>2. CASE Attach
    BY <2>2, EnterSettlingType, Zenon DEF Attach, TimeTypes
  <2>3. CASE Settled
    BY <2>3, LeaveSettlingType, Zenon DEF Settled, TimeTypes
  <2>4. CASE ~StillSettling /\ ~Attach /\ ~Settled
    <3>1. UNCHANGED timeVars
      BY <2>4, Zenon DEF ResetDevice, WaitResetComplete, WaitSof, GetDescriptor, NothingToDo
    <3> QED  BY <1>1, <3>1, SameTypes, Zenon
  <2> QED  BY <2>1, <2>2, <2>3, <2>4, Zenon
<1>9. FlagTypes'
  <2>1. CASE ResetDevice
    BY <1>1, <2>1, Zenon DEF ResetDevice, FlagTypes, lossVars
  <2>2. CASE ~ResetDevice
    <3>1. UNCHANGED chipVars
      BY <2>2, Zenon DEF Attach, Settled, StillSettling, WaitResetComplete, WaitSof,
                         GetDescriptor, NothingToDo
    <3> QED  BY <1>1, <1>2, <3>1, SameTypes, Zenon
  <2> QED  BY <2>1, <2>2
<1>10. InOrder' /\ JustAddressed' /\ InOperation' /\ KeyboardThere'
  <2>1. state' \in {CONFIGURING, RUNNING} => state' = state
    BY <1>4, SMT
  <2>2. pc' \notin {"init", "clear"}
    BY <1>2, Zenon
  <2> QED  BY <1>1, <1>2, <1>3, <2>1, <2>2, SameTable, Zenon
<1>11. Remembered'
  <2>1. flag => state \in {RUNNING, ERROR, INITIALIZE, 2, WAIT_FOR_DEVICE, ILLEGAL, 5, ATTACHED,
                           SETTLE}
    BY <1>1, <1>2, SMT DEF Remembered
  <2> QED  BY <1>2, <1>4, <2>1, SMT DEF Remembered
<1> QED
  BY <1>5, <1>6, <1>7, <1>8, <1>9, <1>10, <1>11, TypeParts, Zenon DEF UsbInv

\* An address is handed out: the entry after the last one is taken.
LEMMA AddressingStep ==
  ASSUME UsbInv, Addressing
  PROVE  UsbInv'
<1>1. /\ ProgramTypes /\ MainTypes /\ TableTypes /\ TimeTypes /\ FlagTypes /\ DevTypes
      /\ InOrder /\ JustAddressed /\ InOperation /\ Remembered /\ KeyboardThere
  BY TypeParts, Zenon DEF UsbInv
<1>2. /\ pc = "task" /\ pc' = "main" /\ state = ADDRESSING
      /\ UNCHANGED timeVars /\ UNCHANGED mainVars /\ UNCHANGED <<seen, chipVars, lossVars>>
      /\ UNCHANGED <<flag, device, devclass, hid, hid_addr, dev, devConf>>
  BY Zenon DEF Addressing, Task, mainVars
<1>3. MainTypes' /\ TimeTypes' /\ FlagTypes'
  BY <1>1, <1>2, SameTypes, Zenon
<1>4. ~flag
  BY <1>1, <1>2, SMT DEF Remembered
<1>5. CASE Free = {}
  <2>1. state' = ERROR /\ UNCHANGED <<used, tmp_addr, devAddr>>
    BY <1>5, Zenon DEF Addressing
  <2>2. UNCHANGED tableVars /\ UNCHANGED devVars
    BY <1>2, <2>1, Zenon DEF tableVars, devVars
  <2>3. ProgramTypes'
    BY <1>2, <2>1, SMT DEF ProgramTypes
  <2>4. TableTypes' /\ DevTypes'
    BY <1>1, <2>2, SameTypes, Zenon
  <2>5. InOrder'
    BY <1>1, <2>1, Zenon DEF InOrder
  <2>6. JustAddressed' /\ InOperation' /\ KeyboardThere' /\ Remembered'
    BY <1>2, <1>4, <2>1, SMT DEF JustAddressed, InOperation, KeyboardThere, Remembered
  <2> QED
    BY <1>3, <2>3, <2>4, <2>5, <2>6, TypeParts, Zenon DEF UsbInv
<1>6. CASE Free # {}
  <2>1. PICK k \in 0 .. USB_NUMDEVICES - 1 : used = 1 .. k
    BY <1>1, Zenon DEF InOrder
  <2>2. FirstFree = k + 1 /\ k + 1 \in Addresses
    BY <1>6, <2>1, FirstFreeNext
  <2>3. /\ used' = used \cup {k + 1}
        /\ \/ devAddr' = k + 1 /\ tmp_addr' = k + 1 /\ state' = CONFIGURING
           \/ devAddr' \in {devAddr, k + 1} /\ state' = ERROR /\ tmp_addr' = tmp_addr
    BY <1>6, <2>2, Zenon DEF Addressing, SetAddress
  <2>4. used' = 1 .. k + 1 /\ k + 1 \in 0 .. USB_NUMDEVICES - 1
    BY <2>1, <2>2, <2>3, UsbHostAssumption, SMT DEF Addresses
  <2>5. ProgramTypes'
    BY <1>2, <2>3, SMT DEF ProgramTypes
  <2>6. TableTypes'
    <3>1. used' \subseteq Addresses /\ used \subseteq used'
      BY <1>1, <2>2, <2>3, Zenon DEF TableTypes
    <3>2. tmp_addr' \in 0 .. USB_NUMDEVICES - 1
      <4>1. tmp_addr \in 0 .. USB_NUMDEVICES - 1
        BY <1>1, Zenon DEF TableTypes
      <4> QED  BY <2>3, <2>4, <4>1, SMT
    <3> QED  BY <1>1, <1>2, <3>1, <3>2, Zenon DEF TableTypes
  <2>7. DevTypes'
    <3>1. dev \in Devices /\ devConf \in BOOLEAN
          /\ devAddr \in {Unset} \cup 0 .. USB_NUMDEVICES - 1
      BY <1>1, Zenon DEF DevTypes
    <3>2. devAddr' \in {Unset} \cup 0 .. USB_NUMDEVICES - 1
      BY <2>3, <2>4, <3>1, SMT
    <3> QED  BY <1>2, <3>1, <3>2, Zenon DEF DevTypes
  <2>8. InOrder'
    BY <2>4, Zenon DEF InOrder
  <2>9. JustAddressed'
    BY <1>2, <1>4, <2>3, <2>4, UsbHostAssumption, SMT DEF JustAddressed
  <2>10. InOperation' /\ KeyboardThere' /\ Remembered'
    BY <1>2, <1>4, <2>3, SMT DEF InOperation, KeyboardThere, Remembered
  <2> QED
    BY <1>3, <2>5, <2>6, <2>7, <2>8, <2>9, <2>10, TypeParts, Zenon DEF UsbInv
<1> QED  BY <1>5, <1>6

\* A driver takes the device, or none does.
LEMMA ConfiguringStep ==
  ASSUME UsbInv, Configuring
  PROVE  UsbInv'
<1>1. /\ ProgramTypes /\ MainTypes /\ TableTypes /\ TimeTypes /\ FlagTypes /\ DevTypes
      /\ InOrder /\ JustAddressed /\ InOperation /\ Remembered /\ KeyboardThere
  BY TypeParts, Zenon DEF UsbInv
<1>2. /\ pc = "task" /\ pc' = "main" /\ state = CONFIGURING
      /\ UNCHANGED timeVars /\ UNCHANGED mainVars /\ UNCHANGED <<seen, chipVars, lossVars>>
      /\ UNCHANGED <<flag, device, used, tmp_addr, dev, devAddr>>
  BY Zenon DEF Configuring, Task, mainVars
<1>3. MainTypes' /\ TimeTypes' /\ FlagTypes'
  BY <1>1, <1>2, SameTypes, Zenon
<1>4. /\ ~flag
      /\ tmp_addr \in used /\ \A a \in used : a <= tmp_addr
  BY <1>1, <1>2, Zenon DEF JustAddressed
<1>5. InOrder'
  BY <1>1, <1>2, Zenon DEF InOrder
<1>6. CASE state' = ERROR /\ UNCHANGED <<devclass, hid, hid_addr, devConf>>
  <2>1. UNCHANGED tableVars /\ UNCHANGED devVars
    BY <1>2, <1>6, Zenon DEF tableVars, devVars
  <2>2. TableTypes' /\ DevTypes'
    BY <1>1, <2>1, SameTypes, Zenon
  <2>3. ProgramTypes'
    BY <1>2, <1>6, SMT DEF ProgramTypes
  <2>4. JustAddressed' /\ InOperation' /\ KeyboardThere' /\ Remembered'
    BY <1>2, <1>4, <1>6, SMT DEF JustAddressed, InOperation, KeyboardThere, Remembered
  <2> QED
    BY <1>3, <1>5, <2>2, <2>3, <2>4, TypeParts, Zenon DEF UsbInv
<1>7. CASE /\ HIDMProbe \/ HIDKProbe
           /\ \/ state' = RUNNING /\ devConf' = TRUE
              \/ state' = ERROR /\ devConf' \in {devConf, TRUE}
  <2>1. PICK c \in {HID_K, HID_M} : Recognise(c) /\ (c = HID_K => dev = "kbd")
    BY <1>7, SMT DEF HIDMProbe, HIDKProbe
  <2>2. /\ tmp_addr \in Addresses
        /\ hid' \subseteq used /\ tmp_addr \in hid' /\ hid_addr' = tmp_addr
    BY <1>1, <1>4, <2>1, Zenon DEF TableTypes, Recognise
  <2>3. /\ devclass' \in [Addresses -> {0, HID_K, HID_M}]
        /\ devclass'[tmp_addr] = c
    BY <1>1, <2>1, <2>2, Zenon DEF TableTypes, Recognise
  <2>4. TableTypes'
    BY <1>1, <1>2, <2>2, <2>3, Zenon DEF TableTypes
  <2>5. ProgramTypes'
    <3>1. state' \in {RUNNING, ERROR}
      BY <1>7, Zenon
    <3> QED  BY <1>2, <3>1, SMT DEF ProgramTypes
  <2>6. devConf' \in BOOLEAN
    BY <1>1, <1>7, Zenon DEF DevTypes
  <2>7. DevTypes'
    BY <1>1, <1>2, <2>6, Zenon DEF DevTypes
  <2>8. InOperation' /\ KeyboardThere'
    BY <1>2, <1>4, <2>1, <2>2, <2>3, Zenon DEF InOperation, KeyboardThere
  <2>9. JustAddressed' /\ Remembered'
    BY <1>2, <1>4, <1>7, SMT DEF JustAddressed, Remembered
  <2> QED
    BY <1>3, <1>5, <2>4, <2>5, <2>7, <2>8, <2>9, TypeParts, Zenon DEF UsbInv
<1> QED
  BY <1>6, <1>7, Zenon DEF Configuring

\* The rest of the loop: the class is looked up, a report taken, an error waited out.
LEMMA MainStep ==
  ASSUME UsbInv, FirstRound \/ Poll \/ NotRunning
  PROVE  UsbInv'
<1>1. /\ ProgramTypes /\ MainTypes /\ TableTypes /\ TimeTypes /\ FlagTypes /\ DevTypes
      /\ InOrder /\ JustAddressed /\ InOperation /\ Remembered /\ KeyboardThere
      /\ UsbTypeOK
  BY TypeParts, Zenon DEF UsbInv
<1>2. /\ pc = "main" /\ UNCHANGED state
      /\ UNCHANGED tableVars /\ UNCHANGED timeVars /\ UNCHANGED devVars
      /\ UNCHANGED <<seen, chipVars, lossVars>>
      /\ UNCHANGED <<used, devclass, hid, tmp_addr, hid_addr, dev, devAddr, devConf>>
  BY Zenon DEF FirstRound, Poll, NotRunning, tableVars, devVars
<1>3. TableTypes' /\ TimeTypes' /\ DevTypes' /\ FlagTypes'
  BY <1>1, <1>2, SameTypes, Zenon
<1>4. InOrder' /\ KeyboardThere'
  BY <1>1, <1>2, Zenon DEF InOrder, KeyboardThere
<1>5. CASE FirstRound
  <2>1. state = RUNNING /\ pc' = "int" /\ flag' = TRUE /\ port' = port
        /\ device' = GetDriverandReport
    BY <1>5, Zenon DEF FirstRound
  <2>2. /\ hid_addr \in used /\ \A a \in used : a <= hid_addr
        /\ hid_addr \in hid /\ devclass[hid_addr] \in {HID_K, HID_M}
    BY <1>1, <2>1, Zenon DEF InOperation, TableTypes
  <2>3. LastUsed = hid_addr
    BY <1>1, <2>2, LastUsedIs
  <2>4. device' = devclass[hid_addr]
    BY <2>1, <2>2, <2>3, Zenon DEF GetDriverandReport
  <2>5. ProgramTypes' /\ MainTypes'
    BY <1>1, <1>2, <2>1, <2>2, <2>4, Zenon DEF ProgramTypes, MainTypes
  <2>6. InOperation'
    BY <1>2, <2>1, <2>2, <2>4, Zenon DEF InOperation
  <2>7. JustAddressed' /\ Remembered'
    BY <1>2, <2>1, SMT DEF JustAddressed, Remembered
  <2> QED
    BY <1>3, <1>4, <2>5, <2>6, <2>7, TypeParts, Zenon DEF UsbInv
<1>6. CASE Poll
  <2>1. state = RUNNING /\ pc' = "int" /\ UNCHANGED <<flag, device>>
        /\ (port' = port \/ (port' = dev /\ dev \in Working))
    BY <1>6, Zenon DEF Poll, Reach
  <2>2. ProgramTypes' /\ MainTypes'
    BY <1>1, <1>2, <2>1, Zenon DEF ProgramTypes, MainTypes
  <2>3. JustAddressed' /\ InOperation'
    BY <1>1, <1>2, <2>1, SMT DEF JustAddressed, InOperation
  <2>4. Remembered'
    BY <1>2, <2>1, SMT DEF Remembered
  <2> QED
    BY <1>3, <1>4, <2>2, <2>3, <2>4, TypeParts, Zenon DEF UsbInv
<1>7. CASE NotRunning
  <2>1. /\ state # RUNNING /\ UNCHANGED <<device, port>>
        /\ flag' = (flag /\ state = ERROR)
        /\ pc' = IF flag /\ state # ERROR THEN "init" ELSE "int"
    BY <1>7, Zenon DEF NotRunning
  <2>2. ProgramTypes' /\ MainTypes'
    <3>1. flag' \in BOOLEAN
      BY <2>1, Zenon
    <3>2. pc' \in {"init", "int"}
      BY <2>1, Zenon
    <3> QED  BY <1>1, <1>2, <2>1, <3>1, <3>2, ZenonT(30) DEF ProgramTypes, MainTypes
  <2>3. InOperation'
    BY <1>2, <2>1, Zenon DEF InOperation
  <2>4. JustAddressed'
    <3>1. CASE state = CONFIGURING
      <4>1. ~flag /\ tmp_addr \in used /\ \A a \in used : a <= tmp_addr
        BY <1>1, <3>1, Zenon DEF JustAddressed
      <4>2. pc' = "int" /\ ~flag'
        BY <2>1, <4>1, Zenon
      <4> QED  BY <1>2, <4>1, <4>2, Zenon DEF JustAddressed
    <3>2. CASE state # CONFIGURING
      BY <1>2, <3>2, Zenon DEF JustAddressed
    <3> QED  BY <3>1, <3>2
  <2>5. Remembered'
    <3>1. flag' => state' = ERROR /\ pc' = "int"
      BY <1>2, <2>1, Zenon
    <3> QED  BY <3>1, Zenon DEF Remembered
  <2> QED
    BY <1>3, <1>4, <2>2, <2>3, <2>4, <2>5, TypeParts, Zenon DEF UsbInv
<1> QED  BY <1>5, <1>6, <1>7

LEMMA UsbStep ==
  ASSUME UsbInv, [UsbNext]_usbVars
  PROVE  UsbInv'
<1>1. CASE Plug \/ Unplug \/ \E detects \in BOOLEAN : ResetDone(detects)
  BY <1>1, BusStep
<1>2. CASE ReadHirq \/ Probe \/ Ack \/ InitProbe
  BY <1>2, ChipStep
<1>3. CASE InitClear \/ Initialize
  BY <1>3, ClearStep
<1>4. CASE \/ Attach \/ Settled \/ StillSettling \/ ResetDevice \/ WaitResetComplete \/ WaitSof
           \/ GetDescriptor \/ NothingToDo
  BY <1>4, TaskStep
<1>5. CASE Addressing \/ Configuring
  BY <1>5, AddressingStep, ConfiguringStep
<1>6. CASE FirstRound \/ Poll \/ NotRunning
  BY <1>6, MainStep
<1>7. CASE UNCHANGED usbVars
  <2>1. /\ UNCHANGED <<pc, state, seen>> /\ UNCHANGED tableVars /\ UNCHANGED timeVars
        /\ UNCHANGED chipVars /\ UNCHANGED devVars /\ UNCHANGED mainVars /\ UNCHANGED lossVars
    BY <1>7, Zenon DEF usbVars
  <2>2. UsbTypeOK'
    BY <2>1, TypeParts, SameTypes, Zenon DEF UsbInv, ProgramTypes
  <2>3. /\ UNCHANGED <<used, devclass, hid, tmp_addr, hid_addr, dev, devAddr, devConf, flag, device>>
    BY <2>1, Zenon DEF tableVars, devVars, mainVars
  <2>4. InOrder' /\ JustAddressed' /\ InOperation'
    BY <2>1, <2>3, Zenon DEF UsbInv, InOrder, JustAddressed, InOperation
  <2>5. Remembered' /\ KeyboardThere'
    BY <2>1, <2>3, ZenonT(30) DEF UsbInv, Remembered, KeyboardThere
  <2> QED  BY <2>2, <2>4, <2>5, Zenon DEF UsbInv
<1> QED
  BY <1>1, <1>2, <1>3, <1>4, <1>5, <1>6, <1>7, Zenon DEF UsbNext, Program, USB_Task

-----------------------------------------------------------------------------
(* The theorems. *)

\* What the table and the program's variables say of each other, in every state of
\* the program: the invariant all the rest follows from.
THEOREM UsbInvariant == UsbSpec => []UsbInv
BY UsbInitInv, UsbStep, PTL DEF UsbSpec

\* The types: no step of the task machine leads to a state it has no case for, and
\* no entry beyond the table is written.
THEOREM UsbTypes == UsbSpec => []UsbTypeOK
<1>1. UsbInv => UsbTypeOK
  BY Zenon DEF UsbInv
<1> QED  BY <1>1, UsbInvariant, PTL

\* When the loop polls, the entry it polls has endpoints and the class the loop acts
\* on, and entry 1, the only one GetDriverandReport asks, is in use.
THEOREM TableIsReady == UsbSpec => []TableReady
<1>1. ASSUME UsbInv  PROVE TableReady
  <2> SUFFICES ASSUME pc = "main", state = RUNNING
               PROVE  /\ 1 \in used /\ hid_addr \in hid
                      /\ devclass[hid_addr] \in {HID_K, HID_M}
                      /\ flag => device = devclass[hid_addr]
    BY Zenon DEF TableReady
  <2>1. /\ hid_addr \in hid /\ devclass[hid_addr] \in {HID_K, HID_M}
        /\ flag => device = devclass[hid_addr]
    BY <1>1, Zenon DEF UsbInv, InOperation
  <2>2. hid_addr \in used
    BY <1>1, <2>1, TypeParts, Zenon DEF UsbInv, TableTypes
  <2>3. PICK k \in 0 .. USB_NUMDEVICES - 1 : used = 1 .. k
    BY <1>1, Zenon DEF UsbInv, InOrder
  <2>4. 1 \in used
    BY <2>2, <2>3, UsbHostAssumption, SMT
  <2> QED  BY <2>1, <2>4
<1> QED  BY <1>1, UsbInvariant, PTL

\* The keycodes that reach the port of the game are those of a keyboard: after any
\* sequence of plugging, unplugging, resets and errors, the loop never polls another
\* device as if it were the keyboard it found.
THEOREM KeyboardsOnly == UsbSpec => OnlyKeyboards
<1>1. ASSUME UsbInv, UsbNext  PROVE [port' # port => port' = "kbd"]_port
  <2>1. CASE Poll
    <3>1. CASE port' = port
      BY <3>1
    <3>2. CASE device = HID_K /\ Reach(hid_addr) /\ devConf /\ port' = dev
      <4>1. state = RUNNING /\ flag
        BY <2>1, Zenon DEF Poll
      <4>2. devclass[hid_addr] = HID_K
        BY <1>1, <3>2, <4>1, Zenon DEF UsbInv, InOperation
      <4>3. devAddr = hid_addr
        BY <3>2, Zenon DEF Reach
      <4> QED  BY <1>1, <3>2, <4>1, <4>2, <4>3, Zenon DEF UsbInv, KeyboardThere
    <3> QED  BY <2>1, <3>1, <3>2, Zenon DEF Poll
  <2>2. CASE ~Poll
    <3>1. port' = port
      BY <1>1, <2>2, Zenon
         DEF UsbNext, Program, USB_Task, Plug, Unplug, ResetDone, ReadHirq, Probe, Ack, InitProbe,
             InitClear, Initialize, Attach, Settled, StillSettling, ResetDevice,
             WaitResetComplete, WaitSof, GetDescriptor, Addressing, Configuring, NothingToDo,
             FirstRound, NotRunning, mainVars
    <3> QED  BY <3>1
  <2> QED  BY <2>1, <2>2
<1>2. UsbInv /\ [UsbNext]_usbVars => [port' # port => port' = "kbd"]_port
  <2>1. UNCHANGED usbVars => port' = port
    BY Zenon DEF usbVars, mainVars
  <2> QED  BY <1>1, <2>1
<1> QED
  BY <1>2, UsbInvariant, PTL DEF UsbSpec, OnlyKeyboards
=============================================================================
