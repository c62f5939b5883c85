------------------------------- MODULE UsbHost -------------------------------
(***************************************************************************)
(* The USB host program: the loop of main.c, the interrupt handler and the *)
(* bus probe of MAX3421E.c, the task machine of transfer.c and the probes  *)
(* of HID.c.  One thread polls everything; the bus moves between any two   *)
(* of its accesses.  A device is plugged and unplugged at any time, a      *)
(* request may fail at any time with or without an effect on the device,   *)
(* and the controller chip raises its two interrupt flags by itself:       *)
(* CONDETIRQ when a device comes or goes and with some bus resets, and     *)
(* BUSEVENTIRQ when a bus reset is over.                                   *)
(*                                                                         *)
(* A request is one step here (Transfer has its packets), and one round of *)
(* the loop is a few steps, told apart by pc, with a step between any two  *)
(* accesses to the chip that the bus can come between:                     *)
(*   int    MaxIntHandler reads HIRQ           task  USB_Task              *)
(*   probe  MAX_busprobe reads HRSL            main  the rest of main      *)
(*   ack    HIRQ is written back               init  MAX3421E_init up to   *)
(*                                                   its probe             *)
(*                                             clear the rest of it        *)
(* Time matters in one place, the settling of the bus, and is kept there.  *)
(***************************************************************************)
EXTENDS Integers, FiniteSets

CONSTANTS
  Working,         \* the devices that may be plugged in: among "kbd", "mouse", "other"
  LowSpeed,        \* those of them that are low-speed devices
  USB_NUMDEVICES,  \* entries 0 .. USB_NUMDEVICES - 1 of the table are used (8)
  MsMax,           \* the clock of milliseconds: 2^32 \div 1000 + 1 values
  SettleMs         \* 200

ASSUME UsbHostAssumption ==
  /\ Working \subseteq {"kbd", "mouse", "other"} /\ LowSpeed \subseteq Working
  /\ USB_NUMDEVICES \in Nat /\ USB_NUMDEVICES >= 2
  /\ MsMax \in Nat \ {0} /\ SettleMs \in Nat /\ SettleMs < MsMax

\* usb_task_state (USB.h): the upper four bits are the state.
INITIALIZE          == 1
WAIT_FOR_DEVICE     == 3
ILLEGAL             == 4
ATTACHED            == 16
SETTLE              == 17
RESET_DEVICE        == 18
WAIT_RESET_COMPLETE == 19
WAIT_SOF            == 20
GET_DESCRIPTOR      == 21
ADDRESSING          == 32
CONFIGURING         == 48
RUNNING             == 64
ERROR               == 255

Detached(s) == s \div 16 = 0

Addresses == 1 .. USB_NUMDEVICES - 1
HID_K == 1
HID_M == 2
NoDriver == 255                    \* device = 0xFF in GetDriverandReport

\* What is plugged in: "bad" holds both lines high (SE1).
Devices == Working \cup {"none", "bad"}
Unset   == -1                      \* the address of a device no reset has reached

VARIABLES
  pc, state, flag, device,         \* the program; usb_task_state, runningdebugflag
  used, devclass,                  \* devtable: which entries have an epinfo, classes
  hid, tmp_addr, hid_addr,         \* the entry whose epinfo is hid_ep; hid_device.addr
  ms, usb_delay,                   \* the clock, and when the bus has settled
  condet, busevent, seen,          \* HIRQ, and the value MaxIntHandler has read
  lowspeed, resetting,             \* rMODE and rHCTL
  dev, devAddr, devConf,    \* what is plugged in
  port,                            \* whose report the keycode port holds
  late, lost                       \* history: see Raise and Ack

tableVars == <<used, devclass, hid, tmp_addr, hid_addr>>
timeVars  == <<ms, usb_delay>>
chipVars  == <<condet, busevent, lowspeed, resetting>>
devVars   == <<dev, devAddr, devConf>>
mainVars  == <<flag, device, port>>
lossVars  == <<late, lost>>
usbVars   == <<pc, state, seen, tableVars, timeVars, chipVars, devVars, mainVars, lossVars>>

UsbInit ==
  /\ pc = "init" /\ state = INITIALIZE /\ flag = FALSE /\ device = NoDriver
  /\ used = {} /\ devclass = [a \in Addresses |-> 0]
  /\ hid = {} /\ tmp_addr = 0 /\ hid_addr = 0
  /\ ms = 0 /\ usb_delay = 0
  /\ condet = FALSE /\ busevent = FALSE /\ seen = FALSE
  /\ lowspeed = FALSE /\ resetting = FALSE
  /\ dev \in Devices /\ devAddr = Unset /\ devConf = FALSE
  /\ port = "none" /\ late = FALSE /\ lost = FALSE

-----------------------------------------------------------------------------
(* The bus. *)

\* CONDETIRQ.  A change after MAX_busprobe has looked and before the flag is
\* cleared is marked late.
Raise ==
  /\ condet' = TRUE
  /\ late' = (late \/ pc \in {"ack", "clear"})

Plug ==
  /\ dev = "none"
  /\ dev' \in Devices \ {"none"}
  /\ devAddr' = Unset /\ devConf' = FALSE
  /\ Raise /\ lost' = FALSE
  /\ UNCHANGED <<pc, state, seen, tableVars, timeVars, busevent, lowspeed, resetting, mainVars>>

Unplug ==
  /\ dev # "none"
  /\ dev' = "none" /\ devAddr' = Unset /\ devConf' = FALSE
  /\ Raise /\ lost' = FALSE
  /\ UNCHANGED <<pc, state, seen, tableVars, timeVars, busevent, lowspeed, resetting, mainVars>>

\* The chip ends a bus reset; "bus reset causes connection detect interrupt", but
\* nothing says when.
ResetDone(detects) ==
  /\ resetting
  /\ resetting' = FALSE /\ busevent' = TRUE
  /\ devAddr' = (IF dev \in Working THEN 0 ELSE devAddr)
  /\ devConf' = FALSE
  /\ IF detects THEN Raise ELSE UNCHANGED <<condet, late>>
  /\ UNCHANGED <<pc, state, seen, tableVars, timeVars, lowspeed, dev, mainVars, lost>>

-----------------------------------------------------------------------------
(* MAX3421E.c. *)

\* The lines as HRSL shows them, J and K as seen from the chip's present speed.
SE0 == dev = "none"
SE1 == dev = "bad"

ProbedState_KeepsRunning(s) ==
  CASE SE1 -> ILLEGAL
    [] SE0 -> IF Detached(s) THEN WAIT_FOR_DEVICE ELSE IF s = RUNNING THEN s ELSE INITIALIZE
    [] OTHER -> IF s \in {WAIT_RESET_COMPLETE, RUNNING} THEN s ELSE ATTACHED

\* MAX_busprobe: the new task state and the LOWSPEED bit of rMODE.
ProbedState(s) ==
  CASE SE1 -> ILLEGAL
    [] SE0 -> IF Detached(s) THEN WAIT_FOR_DEVICE ELSE INITIALIZE
    [] OTHER -> IF s = WAIT_RESET_COMPLETE THEN s ELSE ATTACHED

ProbedSpeed(s, low) ==
  CASE SE1 -> low
    [] SE0 -> IF Detached(s) THEN FALSE ELSE low
    [] OTHER -> IF s = WAIT_RESET_COMPLETE THEN low ELSE dev \in LowSpeed

\* Only CONDETIRQ pulls the pin; HIRQ is read with BUSEVENTIRQ in it.
ReadHirq ==
  /\ pc = "int"
  /\ pc' = IF condet THEN "probe" ELSE "task"
  /\ seen' = (condet /\ busevent)
  /\ UNCHANGED <<state, tableVars, timeVars, chipVars, devVars, mainVars, lossVars>>

\* A settling begins at any time of the clock.  The clock and usb_delay are kept at
\* zero outside the settling: an increment that leads into it finds the usb_delay
\* of any earlier one, or none.
EnterSettling(stale) ==
  /\ ms' \in 0 .. MsMax - 1
  /\ usb_delay' \in {ms' + SettleMs}
       \cup (IF stale THEN {0} \cup SettleMs .. MsMax - 1 + SettleMs ELSE {})

LeaveSettling == ms' = 0 /\ usb_delay' = 0

\* MAX_busprobe, and then usb_task_state++ if HIRQ had BUSEVENTIRQ.
Probe ==
  /\ pc = "probe" /\ pc' = "ack"
  /\ state' = (ProbedState(state) + (IF seen THEN 1 ELSE 0)) % 256
  /\ lowspeed' = ProbedSpeed(state, lowspeed)
  /\ IF state' = SETTLE THEN EnterSettling(TRUE) ELSE LeaveSettling
  /\ UNCHANGED <<seen, tableVars, condet, busevent, resetting, devVars, mainVars, lossVars>>

\* What was seen is cleared, and a CONDETIRQ that came in between with it.
Ack ==
  /\ pc = "ack" /\ pc' = "task"
  /\ condet' = FALSE
  /\ busevent' = (busevent /\ ~seen) /\ seen' = FALSE
  /\ lost' = (lost \/ late) /\ late' = FALSE
  /\ UNCHANGED <<state, tableVars, timeVars, lowspeed, resetting, devVars, mainVars>>

\* MAX3421E_init: the chip is reset, which ends a bus reset and clears its flags
\* and its mode, and the bus is probed.
InitProbe ==
  /\ pc = "init" /\ pc' = "clear"
  /\ state' = ProbedState(state)
  /\ lowspeed' = ProbedSpeed(state, FALSE)
  /\ condet' = FALSE /\ busevent' = FALSE /\ resetting' = FALSE
  /\ LeaveSettling
  /\ UNCHANGED <<seen, tableVars, devVars, mainVars, lossVars>>

ClearTable == used' = {} /\ hid' = {} /\ devclass' = [a \in Addresses |-> 0]

\* CONDETIRQ is cleared, whatever it has to say, and USB_init follows.
InitClear ==
  /\ pc = "clear" /\ pc' = "int"
  /\ condet' = FALSE
  /\ lost' = (lost \/ late) /\ late' = FALSE
  /\ ClearTable
  /\ UNCHANGED <<state, seen, tmp_addr, hid_addr, timeVars, busevent, lowspeed, resetting,
                 devVars, mainVars>>

-----------------------------------------------------------------------------
(* USB_Task (transfer.c). *)

\* A request to address a can succeed; it may fail at any time.
Reach(a) ==
  dev \in Working /\ lowspeed = (dev \in LowSpeed) /\ devAddr = a /\ ~resetting

Task(s) == pc = "task" /\ pc' = "main" /\ state = s

Initialize ==
  /\ Task(INITIALIZE)
  /\ ClearTable
  /\ state' = WAIT_FOR_DEVICE
  /\ UNCHANGED <<seen, tmp_addr, hid_addr, timeVars, chipVars, devVars, mainVars, lossVars>>

Attach ==
  /\ Task(ATTACHED)
  /\ EnterSettling(FALSE)
  /\ state' = SETTLE
  /\ UNCHANGED <<seen, tableVars, chipVars, devVars, mainVars, lossVars>>

Settled ==
  /\ Task(SETTLE)
  /\ ms > usb_delay
  /\ state' = RESET_DEVICE /\ LeaveSettling
  /\ UNCHANGED <<seen, tableVars, chipVars, devVars, mainVars, lossVars>>

\* The clock is counted in rounds of the loop.  alt_nticks() * 1000 is computed in
\* 32 bits: the milliseconds start again long before the ticks do.
StillSettling ==
  /\ Task(SETTLE)
  /\ ms <= usb_delay
  /\ ms' = (ms + 1) % MsMax
  /\ UNCHANGED <<state, seen, tableVars, usb_delay, chipVars, devVars, mainVars, lossVars>>

\* A reset takes the device's address; its start may raise CONDETIRQ.
ResetDevice ==
  /\ Task(RESET_DEVICE)
  /\ state' = WAIT_RESET_COMPLETE
  /\ busevent' = FALSE /\ resetting' = TRUE
  /\ devAddr' = Unset /\ devConf' = FALSE
  /\ condet' \in {condet, TRUE}
  /\ UNCHANGED <<seen, tableVars, timeVars, lowspeed, dev, mainVars, lossVars>>

WaitResetComplete ==
  /\ Task(WAIT_RESET_COMPLETE)
  /\ state' = IF resetting THEN state ELSE WAIT_SOF
  /\ UNCHANGED <<seen, tableVars, timeVars, chipVars, devVars, mainVars, lossVars>>

\* The register is ORed with the mask where it should be ANDed: no wait at all.
WaitSof ==
  /\ Task(WAIT_SOF)
  /\ state' = GET_DESCRIPTOR
  /\ UNCHANGED <<seen, tableVars, timeVars, chipVars, devVars, mainVars, lossVars>>

\* Only the first request decides; the results of the later ones are not used.
GetDescriptor ==
  /\ Task(GET_DESCRIPTOR)
  /\ \/ Reach(0) /\ state' = ADDRESSING
     \/ state' = ERROR
  /\ UNCHANGED <<seen, tableVars, timeVars, chipVars, devVars, mainVars, lossVars>>

Free_OneMore == (1 .. USB_NUMDEVICES) \ used

Free == Addresses \ used
FirstFree == CHOOSE a \in Free : \A b \in Free : a <= b

\* SET_ADDRESS: the entry is taken before the request, and stays taken if it
\* fails; the device may have heard a request that fails.
SetAddress ==
  /\ used' = used \cup {FirstFree}
  /\ \/ /\ Reach(0)
        /\ devAddr' = FirstFree /\ tmp_addr' = FirstFree
        /\ state' = CONFIGURING
     \/ /\ devAddr' \in {devAddr} \cup (IF Reach(0) THEN {FirstFree} ELSE {})
        /\ state' = ERROR /\ UNCHANGED tmp_addr

Addressing_NoError ==
  /\ Task(ADDRESSING)
  /\ IF Free = {} THEN UNCHANGED <<state, used, tmp_addr, devAddr>> ELSE SetAddress
  /\ UNCHANGED <<seen, devclass, hid, hid_addr, timeVars, chipVars, dev, devConf,
                 mainVars, lossVars>>

Addressing ==
  /\ Task(ADDRESSING)
  /\ IF Free = {} THEN state' = ERROR /\ UNCHANGED <<used, tmp_addr, devAddr>>
                  ELSE SetAddress
  /\ UNCHANGED <<seen, devclass, hid, hid_addr, timeVars, chipVars, dev, devConf,
                 mainVars, lossVars>>

\* What the first probe to recognise the device leaves in the table before it sets
\* the configuration and the protocol.
Recognise(c) ==
  /\ devclass' = [devclass EXCEPT ![tmp_addr] = c]
  /\ hid' = hid \cup {tmp_addr}
  /\ hid_addr' = tmp_addr

HIDMProbe == dev = "mouse" /\ Recognise(HID_M)
HIDKProbe == dev = "kbd" /\ Recognise(HID_K)

\* The probes in turn.  The descriptor may not be read, or describe no boot device;
\* else the table is changed, and the configuration or the protocol may fail.
Configuring ==
  /\ Task(CONFIGURING)
  /\ \/ state' = ERROR /\ UNCHANGED <<devclass, hid, hid_addr, devConf>>
     \/ /\ Reach(tmp_addr)
        /\ HIDMProbe \/ HIDKProbe
        /\ \/ state' = RUNNING /\ devConf' = TRUE
           \/ state' = ERROR /\ devConf' \in {devConf, TRUE}
  /\ UNCHANGED <<seen, used, tmp_addr, timeVars, chipVars, dev, devAddr, mainVars, lossVars>>

\* The other states, named or not: nothing is done.
NothingToDo ==
  /\ pc = "task" /\ pc' = "main"
  /\ state \notin {INITIALIZE, ATTACHED, SETTLE, RESET_DEVICE, WAIT_RESET_COMPLETE, WAIT_SOF,
                   GET_DESCRIPTOR, ADDRESSING, CONFIGURING}
  /\ UNCHANGED <<state, seen, tableVars, timeVars, chipVars, devVars, mainVars, lossVars>>

USB_Task ==
  \/ Initialize \/ Attach \/ Settled \/ StillSettling \/ ResetDevice \/ WaitResetComplete \/ WaitSof
  \/ GetDescriptor \/ Addressing \/ Configuring \/ NothingToDo

-----------------------------------------------------------------------------
(* main. *)

\* GetDriverandReport: the class of the last entry in use.
LastUsed == CHOOSE a \in used : \A b \in used : b <= a
FirstUsed == CHOOSE a \in used : \A b \in used : a <= b

GetDriverandReport_First == IF used = {} THEN NoDriver ELSE devclass[FirstUsed]

GetDriverandReport == IF used = {} THEN NoDriver ELSE devclass[LastUsed]

FirstRound ==
  /\ pc = "main" /\ state = RUNNING /\ ~flag
  /\ flag' = TRUE /\ device' = GetDriverandReport
  /\ pc' = "int"
  /\ UNCHANGED <<state, seen, tableVars, timeVars, chipVars, devVars, port, lossVars>>

\* A report of whatever answers at hid_device.addr reaches the port of the game.
Poll ==
  /\ pc = "main" /\ state = RUNNING /\ flag
  /\ \/ UNCHANGED port
     \/ device = HID_K /\ Reach(hid_addr) /\ devConf /\ port' = dev
  /\ pc' = "int"
  /\ UNCHANGED <<state, seen, tableVars, timeVars, chipVars, devVars, flag, device, lossVars>>

NotRunning_NoReset ==
  /\ pc = "main" /\ state # RUNNING
  /\ pc' = "int"
  /\ UNCHANGED <<state, seen, tableVars, timeVars, chipVars, devVars, flag, device, port, lossVars>>

\* An error changes nothing; otherwise a program that has been running resets the
\* chip and the table.
NotRunning ==
  /\ pc = "main" /\ state # RUNNING
  /\ pc' = IF flag /\ state # ERROR THEN "init" ELSE "int"
  /\ flag' = (flag /\ state = ERROR)
  /\ UNCHANGED <<state, seen, tableVars, timeVars, chipVars, devVars, device, port, lossVars>>

-----------------------------------------------------------------------------

Program ==
  \/ ReadHirq \/ Probe \/ Ack \/ InitProbe \/ InitClear
  \/ USB_Task \/ FirstRound \/ Poll \/ NotRunning

UsbNext ==
  \/ Program
  \/ Plug \/ Unplug
  \/ \E detects \in BOOLEAN : ResetDone(detects)

UsbSpec == UsbInit /\ [][UsbNext]_usbVars

\* The loop goes on, and a bus reset ends.
FairUsb ==
  /\ UsbSpec
  /\ WF_usbVars(Program)
  /\ WF_usbVars(\E detects \in BOOLEAN : ResetDone(detects))

-----------------------------------------------------------------------------
(* Properties. *)

\* The types, and the task states there are: 2 and 5 are no states of USB.h, and
\* nothing leads to the others.
UsbTypeOK ==
  /\ pc \in {"int", "probe", "ack", "task", "main", "init", "clear"}
  /\ state \in {INITIALIZE, 2, WAIT_FOR_DEVICE, ILLEGAL, 5, ATTACHED, SETTLE, RESET_DEVICE,
                WAIT_RESET_COMPLETE, WAIT_SOF, GET_DESCRIPTOR, ADDRESSING, CONFIGURING,
                RUNNING, ERROR}
  /\ flag \in BOOLEAN /\ device \in {NoDriver, 0, HID_K, HID_M}
  /\ used \subseteq Addresses /\ hid \subseteq used
  /\ devclass \in [Addresses -> {0, HID_K, HID_M}]
  /\ tmp_addr \in 0 .. USB_NUMDEVICES - 1 /\ hid_addr \in 0 .. USB_NUMDEVICES - 1
  /\ ms \in 0 .. MsMax - 1 /\ usb_delay \in 0 .. MsMax - 1 + SettleMs
  /\ condet \in BOOLEAN /\ busevent \in BOOLEAN /\ seen \in BOOLEAN
  /\ lowspeed \in BOOLEAN /\ resetting \in BOOLEAN
  /\ dev \in Devices
  /\ devAddr \in {Unset} \cup 0 .. USB_NUMDEVICES - 1 /\ devConf \in BOOLEAN
  /\ port \in {"none"} \cup Working /\ late \in BOOLEAN /\ lost \in BOOLEAN

\* When the loop polls, the table says what it relies on: the polled entry has the
\* endpoints of a boot device and the class that the loop acts on, and entry 1,
\* which GetDriverandReport asks whatever the address, is in use.
TableReady ==
  (pc = "main" /\ state = RUNNING) =>
    /\ 1 \in used /\ hid_addr \in hid
    /\ devclass[hid_addr] \in {HID_K, HID_M}
    /\ flag => device = devclass[hid_addr]

\* The port of the game takes the reports of keyboards, however devices are swapped.
OnlyKeyboards == [][port' # port => port' = "kbd"]_port

NeverSettles == state = SETTLE /\ usb_delay >= MsMax - 1

\* A device that is gone for good is noticed: the loop ends up detached or in the
\* error state, unless the settling never ends.
GoneIsNoticed ==
  <>[](dev = "none") => <>[](Detached(state) \/ state = ERROR \/ NeverSettles)

\* Not a fairness of the code: some bus reset ends without a late CONDETIRQ.
ResetsQuietly == SF_usbVars(ResetDone(FALSE))

\* A device that stays is brought up, or an error is reported.  The other ends are
\* named: a CONDETIRQ cleared unread, and a settling that never ends.
ComesUp ==
  ResetsQuietly =>
    (<>[](dev \in Working) =>
       <>[](state \in {RUNNING, ERROR} \/ (lost /\ Detached(state)) \/ NeverSettles))

\* "waiting for settle timer to expire" (transfer.c:280): the settling ends.
SettleEnds == state = SETTLE ~> state # SETTLE
=============================================================================
