# Hot Pursuit: a TLA+ model

Hot Pursuit is a car game for an FPGA board. The player steers a car on a road of
five lanes with a USB keyboard, avoids rocks, trees, cones and oil barrels, picks up
hearts, shields and nitrous bottles, and wins by gathering three stars before the
damage bar is full. The game is written in SystemVerilog (`src/Quartus/*.sv`); a C
program on a soft processor (`src/Quartus/software/usb_kb`) talks to a MAX3421E USB
host controller, reads the keyboard and leaves one keycode on a port of the game.

This directory holds TLA+ modules translated from that source, the TLC
configurations that check them, and machine-checked proofs of every safety property among them.
`PROJECT.json` names, for every definition, the source lines it stands for.

## 1. Inventory

### Components

| Component | Source | State | Operations |
| --- | --- | --- | --- |
| Player's car | `car.sv` | position, motion, target lane, `shifting`, boost registers, police car | one frame; reset |
| Road objects | `objects.sv`, `generateX.sv`, `LFSR.sv` | position and motion of eight objects, `exprdObjs`, `genX`, the generator's register | advance or respawn; reset |
| Stars | `stars.sv`, `spawnStar.sv` | path of the star, `starLive`, `expired`, delay counter, the generator's register | wait, launch, fly; reset |
| Collision logic | `Color_Mapper.sv`, lines 146-454 and 591 | contact latch, object to put back, damage, stars, pick-ups and timers, `lost`, `won`, `replay` | one tick of 50 MHz; reset |
| Picture | `Color_Mapper.sv` from line 456, `lanes.sv` | sprite addresses, `*_on` flags, 60 stripes | one pixel; one frame |
| Clocks, start menu, wiring | `VGA_controller.sv`, `start.sv`, `finalproject.sv` | pixel and line counters, sync, `start`, `difficulty`, the clock gates | one clock edge; resets |
| Sprite memories, displays | `rom_*.sv`, `HexDriver.sv` | none | table lookup |
| USB main loop | `main.c` | debug and error flags, device kind, the keycode port | loop: two tasks, then poll, or reset after a disconnect |
| USB controller, transfers, task machine | `MAX3421E.c`, `transfer.c` | task state, device table, toggles, settling time | interrupt handler, bus probe, packet dispatch, enumeration |
| USB keyboard and mouse driver | `HID.c` | endpoint tables, report buffers | probe, set up, poll |
| Console driver | `altera_avalon_jtag_uart_*.c` of the board support package | two rings, interrupt enables, seconds without the host | read, write, close; interrupt routine; alarm callback |
| System clock | `alt_tick.c`, `alt_alarm_start.c`, `altera_avalon_timer_sc.c` | tick count, due time of the alarm, `rollover` | tick; start of an alarm |
| HAL services | the rest of `HAL/src` | descriptor tables, heap | library calls |
| Generated system, tools | Qsys output, `system.h`, image scripts | - | no logic of the game |

### How they interact

* Two clocks. The collision logic runs at 50 MHz; the car, the objects and the star
  move on `VGA_VS && startKey0`, about sixty times a second. `finalproject.sv` gates
  both clocks until a level has been chosen.
* Flags without acknowledgement cross between the two clocks: `trshdObjs` and `collect`
  (collision logic to objects and star), `nosLoadedOut` and `noShift` (to the car),
  `nosLoadedIn` (back from the car), and all positions. Each side reads the other's
  registers at its own edges.
* `replay`, a register of the collision logic, drives the reset of everything but the
  start menu, itself included.
* `keycode`, a port written by the USB program, is read by car, menu and collision logic.
* The USB program is one thread that polls the controller chip; the chip changes its
  registers, and devices come and go, between any two accesses. Everything it prints
  goes through the console driver, which shares two rings and a register with its
  interrupt routine, and learns from the system clock's alarm that nobody reads.

### What is hard, and what makes each component correct

* *Car.* A lane shift goes on for up to 32 frames by itself, at a speed fixed when it
  began, while the boost may start or end; from the outer lanes it leaves the screen
  and relies on the wrap of an eleven-bit word. It must end in the middle of its lane
  and nowhere else. The edge tests read the position before it moves and the motion
  before it is corrected, yet the car has to stay on the road.
* *Objects.* Leaving the road takes two frames and everything else stands still
  meanwhile; the generator's output is read before the step that the read requests.
  Objects must stay in lanes, be caught at the bottom and come back.
* *Stars.* `collect` is held by the other clock until the star is gone, and the delay
  counter, which no reset clears, decides how long that takes.
* *Collision logic.* Eight comparators share a latch in a priority chain; several
  blocks write the same registers and the last assignment wins. A contact must be
  counted once; counters of two and three bits must not wrap; the end of the game must
  be final.
* *Across the clocks.* A flag must not change while the other side reads it, a bottle
  must not be lit twice, and comparators whose edges are partly one tick old must miss
  nothing and invent nothing.
* *USB.* Packets, acknowledgements and answers are lost; retries have separate limits;
  a toggle is written before a transfer and saved after it, unless it failed. The
  interrupt handler overwrites the task state, then may add one to it; a flag is cleared
  after the bus was looked at; probes fail half way. What is polled must be what was
  configured, no report may be lost or doubled, and devices that come or go be noticed.
* *Console.* No lock between calls and interrupt routine. Each direction must be a
  queue, no byte may be left lying with its interrupt off, and a write must not wait
  for ever for a host that is gone.
* *Clock.* The tick count and the due time wrap at different moments.

The full list, with lines, is `hazards` in `PROJECT.json`.

## 2. Modules

```
Word11   Nitrous        LaneGenerator   RoadObjects        FrameClock
    \     /                /     \        /     \
      Car               Stars   Objects        ColorMapper --- refines --- GameRules
        \                  |      |            /        \
         +----------------- Game +------------+          Play --- refines --- NitrousTank
                                                        (ColorMapper + Nitrous)

Transfer --- refines --- ReportPipe        SystemClock
                                                |
UsbHost                                     JtagUart --- refines --- ByteQueue (twice)

The modules *_proofs extend the module they are named for; besides,
Play_proofs extends ColorMapper_proofs,
Game_proofs extends Car_proofs and ColorMapper_proofs
```

`Game_proofs` also holds the proofs about `Objects` and `Stars`, whose invariants it puts
together with those of the car and of the collision logic.

| Module | Models | State and actions |
| --- | --- | --- |
| `Word11` | eleven-bit words | `Wrap`, `Unsigned`: two readings of the same bits |
| `Nitrous` | the boost in `car.sv:100-124` | `Coast`, `Ignite`, `Burn`, `BurnOut` |
| `Car` | `car.sv` | `Frame` (one edge of the frame clock), `Reset`; the edge tests, key decoder, shift, arrival and position update are its conjuncts |
| `LaneGenerator` | `LFSR.sv` at three bits, `generateX.sv` | `LFSRStep`, `GenX` |
| `RoadObjects` | sizes and places of the eight kinds | constants |
| `Objects` | `objects.sv` | `ObjStep` (advance or respawn, with the generator's own step), `ResetObjects` |
| `Stars` | `stars.sv`, `spawnStar.sv` | `StarStep` (`Wait`, `Launch` or `Fly`), `ResetStar` |
| `ColorMapper` | the registers of `Color_Mapper.sv` that decide the game | `MapperTick`, `ResetMapper`; a tick is one conjunct per block of the code |
| `GameRules` | what the player is promised: five lives, three stars, what each kind of object costs, and that what the car touches counts once until it is clear | abstract specification: `Turn(contact, star)`, `Restart` |
| `NitrousTank` | what the nitrous handshake promises: room for one bottle | abstract specification |
| `Play` | collision logic and boost on their two clocks | `FastTick`, `FrameEdge`, `ResetPlay` |
| `Game` | the whole game to the pixel | `FastTick`, `FrameEdge`, `Replay` |
| `FrameClock` | counters and sync, start menu, clock gates, resets | `Rise`, `Fall`, `PushReset`, `ReleaseReset`, `ReplayReset` |
| `ReportPipe` | what polling promises: a pipe of one place | abstract specification |
| `Transfer` | `XferCtrlReq` to `XferInTransfer` of `transfer.c`, `HID_init` and the polls of `HID.c` | `CallGet`, `CallSet`, `CallPoll`; one action per outcome of a launched packet: `Nak`, `Garbled`, `Silent`, `Setup`, `DataIn`, `Repeated`, `Status` |
| `UsbHost` | `main.c`, `MaxIntHandler`, `MAX_busprobe`, `MAX3421E_init`, `USB_Task`, the probes of `HID.c` | one action per case of `USB_Task`; `ReadHirq`, `Probe`, `Ack` of the handler; `InitProbe`, `InitClear`; `FirstRound`, `Poll`, `NotRunning` of the loop; `Plug`, `Unplug`, `ResetDone` of the bus |
| `SystemClock` | `alt_tick.c`, `alt_alarm_start.c` | `alt_tick` |
| `ByteQueue` | what each direction of the console promises | abstract specification |
| `JtagUart` | write, read, close, interrupt routine and timeout of the console driver | one action per access that the other side can come between; `Tick`; `HostPoll` |

Conventions. Names are the source's. A clocked block is one action: nonblocking
assignments are the primed variables, and where a block assigns a register several
times only the last assignment survives, as in the hardware. Blocking assignments
(`carBottom`, `objTop`, `objBottom`) are operators. Sets of raised bits (`trshdObjs`,
`exprdObjs`) are sets. Registers that no reset drives get the power-up value zero in
`Init` and are left alone by the reset. What the source leaves open (the don't-care
codes of `spawnStar.sv`, whether a clock edge falls into a reset) is
nondeterministic. Operators with an underscore and a reason in their names, such as
`Arrives_Late`, are plausible mistakes; no specification uses them. Each is put in the
place of the definition after it to see that the properties notice.

## 3. Runs

| Run | Configuration | What it asks |
| --- | --- | --- |
| `car` | `Car.cfg` | Every sequence of keys, oil and bottles, resets anywhere. A car that is not shifting stands in the lane it aimed at, and a shift is a whole number of motions from its end, across the wrap too (`LaneInv`, the invariant that is proved inductive); the vertical edges hold (`StaysOnScreen`); the boost registers agree (`NitrousConsistent`); every shift ends (`ShiftEnds`) and the bottom edge gives the keys back (`LeavesBottom`) |
| `objects` | `Objects.cfg` | Two objects under any hits, levels and resets: in their lanes and caught within a frame of passing the bottom (`StaysOnRoad`), and back at the top again and again (`Circulates`) |
| `mapper` | `ColorMapper.cfg` | Comparators that say anything at every tick: `MapperInv` (damage within the bar, one object put back at a time, timers ready), timers run out, three stars win; the logic refines `GameRules`, and each tick is the turn that the rules take on what the comparators say in it (`PlaysByTheRules`) |
| `play` | `Play.cfg` | Two clocks: the nitrous handshake is a tank for one bottle (`OneBottle`, a refinement of `NitrousTank`), flags have settled before the other side reads them (`FlagsSettle`), a game that is both won and lost ended in one frame (`BothOnlyInOneFrame`) |
| `stars` | `Stars.cfg` | Any behaviour of `collect`, resets anywhere: a live star is on the screen, the next star comes |
| `frame_clock` | `FrameClock.cfg` | Keys and resets at every half tick: frames are one picture apart, and after every irregular edge the collision logic still has its ticks (`FramesApart`); frames keep coming |
| `game` | `Game.cfg` | The real road, eight objects and the star: before every frame edge each real contact has been noticed, and a gathered star is gone with the next frame |
| `game_charge` | `GameCharge.cfg` | Finding: one barrel is charged for twice, in a game with a rock and a barrel |
| `transfer` | `Transfer.cfg` | Packets, acknowledgements and answers lost at any point, a device that may refuse for ever: an answer that is returned is whole and belongs to this request (`AnswerWhole`), polling refines `ReportPipe` (`OneReportAtATime`), calls return unless their deadline lies beyond the clock's last value (`CallsReturn`), and the toggles never stay apart (`ReportsArrive`) |
| `usb_host` | `UsbHost.cfg` | A keyboard and a mouse plugged and unplugged between any two accesses, any request failing with or without effect: what is polled is configured and of the right class (`TableReady`), only keyboards reach the game (`OnlyKeyboards`), a device that leaves is noticed (`GoneIsNoticed`), one that stays is brought up or ends in one of three named ways (`ComesUp`) |
| `usb_settle` | `UsbSettle.cfg` | Finding: a settling that never ends |
| `console` | `JtagUart.cfg` | Calls, interrupts, ticks and host in every order: both directions are queues (`BytesInOrder`), nothing is left lying (`NeverStuck`), writes and closes return whatever the host does (`WritesReturn`), the alarm is on time across the wrap (`AlarmOnTime`) |

### Bounds

* `car`. Only two constants are smaller than the source's. `NosFull = 2` instead of 200:
  one frame of a burn is like the next, and two are needed for the car to overshoot the
  top edge by two boosted motions. `Car_Y_Max = 132`, `Car_Y_Start = 9`: the road between
  the edges is two rows high instead of 349, which makes the edges be met more often and
  keeps the distance from the start row to the bottom line at its smallest; the proofs
  cover the source's values. All widths, lanes and speeds are the source's.
* `objects`. `Obj_Y_Max = 62` and `Obj_Y_Start_1 = 4` instead of 479 and 160: short roads,
  so that the two objects meet the bottom in every combination of frames. Cone (the
  tallest offset) and nitrous bottle; the objects differ only in size and place.
* `mapper`. Timers of 2 and 3 ticks: a spill and a shield can begin at every phase of
  the timer. Eight sets of contacts: none, one of each kind of effect (rock stands for
  tree and cone, which have the same code), and two at once.
* `play`. Timers of one tick and `MinTicks = 3`: the handshakes need three ticks between
  frames; more change nothing, because from the third tick on nothing moves
  (`FlagsSettle`). On the board there are 840000, and 3200 after an irregular edge
  (`FramesApart`).
* `stars`. `StarDelay = 3` instead of 1000; the screen is the source's.
* `frame_clock`. A picture of 4 columns and 5 lines instead of 800 and 525; the sync
  pulse keeps its two lines.
* `game`. The source's pixels; level 3, the right key or none for 110 frames, a run of
  260 frames, 3 ticks a frame. This is a long run rather than a complete state space: it
  reaches contacts with every kind of obstacle, bottles, oil, the shield, defeat and
  replay. `WithinFrames` is its state constraint.
  Every run of the game starts as the board does, with zero in the comparators' edge
  registers.
* `game_charge`: the source's pixels, the rock and the barrel, one level, one key. The rock
  is there for the tick after power-up, whose contact with everything it takes upon itself.
* `transfer`. Limits of 3 and 2 launches instead of 200 and 3, answers of one or two
  packets, four report numbers: enough for a NAK and a timeout in one packet, a failure
  before, between and after the packets, and two reports apart. The proofs cover every
  value. Of the clock there is only what a packet can tell: whether its deadline is ahead
  or beyond the last value.
* `usb_host`. Two addresses instead of seven, so that they run out after two failures; a
  low-speed keyboard and a full-speed mouse; a clock of three values with a settling of
  one, so that a settling can begin before and across the wrap.
* `console`. Rings of three bytes, chip fifos of one, calls of up to three bytes: a call
  fills the ring and has to come back for the rest, with every position of the indices.
  A clock of five ticks, a period of two (the due time wraps at another moment than the
  count), two seconds until the host counts as gone. A program either writes and closes
  or reads; the directions share only the two bits of `irq_enable` and the order of the
  interrupt routine, and the proofs make no such restriction. `Typed` bounds the bytes
  sent to a program that never reads; bytes are numbered modulo three, as many as
  can be on the way, which still tells a lost or doubled byte from its neighbours.

Deadlock is checked in every run.

### Fairness

The steps of the clocks are weakly fair (`Frame`, `ObjStep`, `StarStep`, `MapperTick`,
`Rise`, `Fall`): they are edges of a free-running oscillator, and a block's clocked
code runs at each. `replay /\ ResetMapper` is fair because the reset it stands for is
combinational. Nothing is assumed of the player: no key and no push button is fair.
In `UsbHost` the loop goes on and a bus reset ends; in `Transfer` the program polls for
ever, as `main` does, and a launched packet has an outcome: an answer, the deadline, or a
wait for a deadline that the clock never reaches, which goes on for ever (`WaitOn`); in `JtagUart` the processor runs, in the program or in the interrupt routine,
and the timer ticks, while nothing is asked of the host. Two properties need luck that
no code can give, and say so as assumptions of their own: `LineClears` (a line on which
packets keep being sent lets one through, with its acknowledgement, now and then) for
`ReportsArrive`, and `ResetsQuietly` (some bus reset ends without raising the connection
flag at the wrong moment) for `ComesUp`. Where a player could keep something from happening for ever by resetting the game or
hitting objects without end, the property says so (`LeavesBottom`, `Circulates`,
`NextStarComes`, `FramesKeepComing`).

`FrameClock` justifies what `Play` and `Game` assume: between two frame edges the
collision logic has its ticks. The exception is the first edge after a reset or the
choice of a level, which may follow at once; `Play` and `Game` start, and resume after
a reset, in such a phase.

## 4. Proofs

The eight modules `*_proofs` prove every safety property that a run checks, invariants,
action properties and refinements, for every value of the constants. They use the named
assumptions of the modules only, which TLC evaluates in the runs:

| Assumption | What it asks |
| --- | --- |
| `NosFullAssumption` | the boost's counter has eight bits |
| `CarAssumption`, `HeldAssumption` | the car fits on the screen and starts at or below the line where the bottom edge pushes it up; keys are keys |
| `ObjectsAssumption` | the road is at most 900 rows high, and every object fits on it where it starts |
| `StarAssumption` | the delay counter has ten bits |
| `MapperAssumption` | timers are numbers, contacts sets of objects |
| `PlayAssumption` | three ticks at least between two frames |
| `GameAssumption` | the same for the whole game; and the car starts below every object that starts with it (in the source the lowest ends at row 220, the car starts at 419) |
| `FrameClockAssumption` | the sync pulse lies inside the picture |
| `TransferAssumption` | at least three report numbers, and a report ends a poll |
| `UsbHostAssumption` | two addresses at least, a settling shorter than the clock |
| `ClockAssumption`, `JtagAssumption` | a ring of two bytes at least, a period shorter than the clock |

* **The boost** (`BoostStaysConsistent`). `NitrousConsistent` is inductive by itself.
* **Lane shifts** (`LaneInvariant`, hence `RestsInLaneAlways` and `StaysOnItsWayAlways`).
  `RestsInLane` is not inductive: a shift in mid-flight says nothing of where it will
  stop. `LaneInv` adds `InShift`: the car is a whole number of motions away from the
  lane it is aimed at, with at least one to go, and in one of four strips, of which the
  two off the sides of the screen contain the wrap. One lemma for each direction does
  the arithmetic of one motion (`StepRight`, `StepLeft`, `StepOffRight`, `StepOffLeft`),
  `ShiftAdvances` and `ShiftStarts` put them together, `LaneFrame` does the frame.
* **The edges of the road** (`StaysOnScreenAlways`). `RoadInv` adds the motion: past an
  edge by more than one frame's motion, the motion points back.
* **Widths** (`CarTypeCorrect`, `MapperTypeCorrect`). The first needs `LaneInv`, for a
  target lane is computed from the position.
* **The collision logic** (`MapperInvariant`, hence `DamageStaysWithinBar`,
  `OneTrashedAlways`, `OilTimerReadyAlways`, `ThirdStarLatchedAlways`). `MapperInv` is
  the conjunction. `stars # 3 \/ won` is false for one tick; what is inductive is
  `ThirdStarLatched`: a third star has won, or it was counted only now, its latch is up
  and the game was not lost before. From it follow the action properties
  `StarsNeverWrapEver` and `OverIsOverEver`.
* **Refinement** (`PlaysByTheRulesAlways`). Lives are `5 - damage`, or none once the game is
  lost; the thing that counts is the one being put back; the star and the shield are the
  latches. `TickOfRules` proves that a tick under the contact and the star that the
  comparators report is the rules' turn on the same contact and star, one case per branch
  of the chain: `HitSuffers` (with `HurtSuffers` for the obstacles, `FreeSuffers` for the
  pick-ups) prices a hit by its kind, and `FirstOfChain` gives the object that is hit. It
  needs `OneTrashed`: the rules tell from the thing that counts what the code tells from
  `col_on`.
* **Transfers** (`TransferType`, `PipeImplemented`, `AnswersWhole`). For the pipe, what is
  inductive is `PipeInv`: the saved toggle is the device's exactly while the report on
  offer is new, a poll works on a copy of it, and before the configuration nothing has
  been taken. A poll that fails half way leaves it true, because neither side has moved
  alone. `AnswerInv` does the same for the packets of an answer: the buffer holds what
  the device knows to have arrived, and one packet more exactly while the toggles differ,
  after a lost acknowledgement.
* **The console** (`JtagInvariant`, hence `JtagTypeCorrect`, `NeverStuckAlways` and
  `AlarmAlwaysOnTime`). `JtagInv` adds to the types what keeps indices and fifos within
  bounds: a call copies no more than it has to, and the interrupt routine writes no more
  than the room it read, which only the host can change, by making more of it. `StuckInv`
  adds to `NeverStuck` that a read which has taken bytes remembers it (`moved`) until it has
  turned receive interrupts on: without it, a ring that was full when the interrupts
  went off would be left with room and no interrupt. `AlarmAhead` says that `rollover` is
  up exactly if the due time lies beyond the wrap, and that it is at most a period away;
  the ticks left then count down by one.

* **Queues without a lock** (`BytesAlwaysInOrder`). `OrderInv` says what a call in mid-flight
  may rely on although the interrupt routine moves the other index meanwhile: a write
  still has the room it saw (`WriteFits`), the bytes it has copied but not published are
  the next ones (`Copied`), and a read takes no more than there is (`ReadFits`). The
  abstract queue is the chip's fifo and the ring, put end to end. Lemmas about rings
  (`RingBytes`, `RingDrops`, `RingGrows`, `RingKept`) say what moving one index does to the
  bytes, whatever the wrap; lemmas about sequences (`FrontDropped`, `BackAdded`,
  `HandedOver`) say that a byte that goes from the ring to the fifo, or back, does not
  change the whole. Each step then accepts, delivers or stutters: a write accepts when it
  publishes the index, a read delivers when it copies.
* **The USB host** (`UsbInvariant`, hence `UsbTypes`, `TableIsReady` and `KeyboardsOnly`).
  `TableReady` is not inductive: that entry 1 is configured when the loop polls depends on
  how addresses were handed out and given back on the way there. `UsbInv` adds that the
  entries in use are the first ones (`InOrder`), what an address that was just assigned is
  for (`JustAddressed`), what is true in operation and of what the loop remembers of a
  device (`InOperation`, `Remembered`), and that a configured keyboard entry has a
  keyboard behind it (`KeyboardThere`). One lemma for each action, for any table size.
* **Objects and stars** (`ObjInvariant`, `StarInvariant`, hence `ObjTypes`,
  `StaysOnRoadAlways`, `StarTypes`, `LiveOnScreenAlways`). The generator never reaches the
  code that feeds itself (`LFSRCodes`), every other code names a lane (`GenXLane`), and a
  row past the bottom is at most one motion past it. A live star has count zero.
* **The whole game** (`GameInvariant`, hence `ContactsAlwaysNoticed`, `StarAlwaysGone` and
  `PartsKeepPromises`). `PartsInv` is the conjunction of the parts' invariants: each step
  of the game is a step of the parts under inputs they allow. `ContactInv` relates edge
  registers and latches to the tick of the frame: from the first tick on the edges are
  those of the positions, or nothing can be touched, because a game has just been reset
  (`Home`, for which the assumption on the starting rows is needed); from the second tick
  on what touches is latched. The promises of the collision logic are kept under
  comparators that really look: `GamePlaysByTheRules` is the refinement of `GameRules`, with
  the contacts that the comparators report from positions and old edges, and
  `OneBottleInGameAlways` that of `NitrousTank`, with `BottleInv` for the pulse of a second
  bottle.
* **The clocks** (`ClockInvariant`, hence `ClockTypes` and `FramesAlwaysApart`). Places in
  the picture are numbered by `Row`; `SinceRise` and `SinceFall` are distances along the
  picture, for which the only facts about the product of lines and columns that are used
  are that it adds up and is monotone (`RowsAdd`, `RowsGrow`). `RunningInv` ties the ticks
  counted since a frame edge to them. From the invariant, frames of an undisturbed game
  are exactly one picture apart, and no edge comes sooner than a sync pulse after one.
* **Across the clocks** (`PlayInvariant`, hence `FlagsAlwaysSettle`,
  `BothOnlyInOneFrameEver` and `OneBottleAlways`). `PlayInv` says by the age of a move what
  the flags are worth: `Aged` and `Fresh` relate the two counters of ticks, `Settled` says
  that after two ticks the flags agree with the comparators, `PulseOver` that the line of a
  lost bottle is low again after two, `ThirdStarNew` that a third star not yet won with
  was counted in the tick before. With fewer than three ticks between frames the pulse
  would be seen as a bottle, which is where `MinTicks >= 3` is needed.

Only model-checked: liveness (`ShiftEnds`, `LeavesBottom`, `Circulates`, `TimersRunOut`,
`ThreeStarsWin`, `NextStarComes`, `FramesKeepComing`, `CallsReturn`, `ReportsArrive`,
`GoneIsNoticed`, `ComesUp`, `WritesReturn`), which is out of the prover's reach, and the two
findings (`ChargedOnce`, `SettleEnds`), which are false. Several theorems
(`RestsInLaneAlways`, `OverIsOverEver`, `PartsKeepPromises`, `GamePlaysByTheRules`,
`OneBottleInGameAlways` and others) state consequences of an invariant that have no run of
their own.

## 5. Findings

* `ChargedOnce` (`Color_Mapper.sv:177`). Half of the comparators' edges are registered and one
  tick old. In the first tick after a frame they can see a contact that neither the old
  nor the new frame has, charge for it, and release the latch one tick later, before the
  object's frame edge could put it back. The same barrel is then charged for again.

* `SettleEnds` (`transfer.c:281`). "Waiting for settle timer to expire": the clock of
  milliseconds is `alt_nticks()*1000` in 32 bits, divided by a thousand ticks a second, and
  so starts again every 71.6 minutes. A settling that begins in the last 200 ms of that
  time waits for a value the clock never reaches, until the device is unplugged.
  `usb_host` names this end (`NeverSettles`) and shows that with requests that return, as
  that model assumes, the program waits for nothing else of this kind; the wait inside a
  request is the first entry of the list below.

Seen while modelling, and in the models as the code has them, without a run of their own:

* A packet's deadline is taken on the same clock (`transfer.c:144`). A packet that is begun in
  the last `USB_XFER_TIMEOUT` milliseconds of the clock's round, on a chip that stays silent,
  is waited for without an end: line 153 compares the clock with a value it never has,
  although line 141 says "0xff means timeout" and line 161 "exit if timeout". `CallsReturn`
  and `ReportsArrive` name this end (`NeverTimesOut`).
* No reset drives the comparators' edge registers (`Color_Mapper.sv:175`, `:195`, `:250`). At
  power-up they hold zero, the first tick finds every object in contact, and the first of
  the chain, the rock, costs the first game one damage. A game that is reset or replayed
  starts with the edges of the game before it.
* Objects can lie on top of each other, although `objects.sv:58` and `:81` move them by
  pixels "so you can't collide w/ 2 objs at same time": an object is put back at row 0 of
  whatever lane the generator names.
* The test for the last life precedes the test of the shield (`Color_Mapper.sv:318`): a
  fifth hit loses the game, invincible or not.
* `CONDETIRQ` is cleared after the bus has been looked at (`MAX3421E.c:231` and `:193`). A device
  that comes in between stays unseen until it is plugged again; `ComesUp` names this end.
* `USB_STATE_ERROR` is `0xff`, and `usb_task_state & USB_STATE_MASK` is then `0xf0`: the error
  state is served by the default case, "Should never get here" (`transfer.c:381`).
* `WAIT_SOF` waits for nothing: `MAXreg_rd( rHIRQ ) | bmFRAMEIRQ` is never zero
  (`transfer.c:298`).
* An address is lost with every `SET_ADDRESS` that fails (`transfer.c:339`), until the table is
  cleared at the next disconnect.
* A write gives up when `host_inactive` is merely not zero (`altera_avalon_jtag_uart_write.c:187`),
  that is after one second without activity, not after `timeout` of them.
* `printSignedHex0` (`main.c:72`) negates a signed char: for -128 the digits are taken of a
  negative number.

## 6. What the models leave out

* The pixels: `blank`, horizontal sync, sprite addresses, colours, the menus' pictures.
* The registers that only the picture reads (`explode`, `siren`, `car`, `switch`).
* Gate delays: `replay` clears itself through the reset it causes, and whether every
  register sees so short a pulse is a question of timing. The models reset everything at
  once. In the same way a sample of a register of the other clock is its old or its new
  value, never a metastable one.
* Registers are words of their width only where a wrap can happen: the eleven-bit
  positions of car and star, the two-bit star counter, the comparators' edges. The
  others are proved or checked to stay within theirs.
* The keyboard: in the models of the game, `keycode` takes any value at any frame.
* `Transfer`: the chip answers a launch well before `USB_XFER_TIMEOUT`, or never; between, a
  deadline could fall inside a retry, and the call would end one launch earlier. A
  request is a get or a set, whose last is the configuration: `SET_PROTOCOL` and
  `SET_ADDRESS` are sets like it, and the two requests of `GetDriverandReport` use endpoint 0,
  whose toggle every get forces anew. A report is one packet: a mouse with shorter
  packets that are not short of its endpoint's size is excluded by `TransferAssumption`.
* `UsbHost`: a request is one step, with `Transfer`'s outcomes: success, failure, or failure
  after the device has heard it. The chip shows on its lines what is plugged in.
  Descriptors say only whether the device is a boot keyboard, a boot mouse or neither;
  strings, LEDs, digits and `usb_error` have no effect on control. A request returns: the
  endless wait that `Transfer` names is left out. The settling counts in rounds of the
  loop, one millisecond each. Printing does not wait here; that it returns is `WritesReturn`.
* `JtagUart`: a host that polls takes a byte if there is one; one that is active and never
  reads would keep a write waiting, as in the code. `ioctl`, which could change the
  timeout, is not called by this program; the values that calls return are left out. The
  build is without optimisation, so that `host_inactive`, which is not volatile, is read
  anew in every round of a wait. The interrupt routine runs to its end before the
  program goes on, and the timer's interrupt is one step between its runs.
* `SystemClock`: one alarm, the only one that is started; its callback never returns zero.

### Not modelled

The picture pipeline, stripes, sprite memories and displays: lookups per pixel that
nothing reads back. The HAL's services (descriptor tables, heap, caches, start-up) are
sequential library code around one thread that opens its descriptors once. Most lines
of C in the repository are of this kind or generated: `system.h`, option and logging
headers, drivers of devices that are not used. They have no state that a property could
be about, and so the share of the C lines that the models stand for is small, while the
game's own logic is in SystemVerilog.

## 7. Running

`tlc -config Car.cfg Car.tla` and so on for each row of section 3; `tlapm Car_proofs.tla`
and so on for the proofs. The longest runs are `console` (755,598 states, under three
minutes with two workers), `game` (990,903 states) and `usb_host` (639,814 states), about a
minute each.

## 8. Plan

Done, in this order: `Car`, `Objects`, `Stars`, `ColorMapper` and `GameRules`, `Play` and
`NitrousTank`, `FrameClock`, `Game`, the proofs about `Car` and `ColorMapper`; then `Transfer`
and `ReportPipe`, `UsbHost`, `SystemClock`, `JtagUart` and `ByteQueue`, and the proofs about
`Transfer` and `JtagUart`; then the proofs about `UsbHost`, `Objects`, `Stars`, `Game`,
`FrameClock`, `Play` and the order of the console's bytes.

Next:

1. `Game` implements `Play`: the pixels and the edge registers are one of the behaviours
   that the comparators of `Play` may show, so that what is proved there holds of the game.
2. The safety halves of liveness: measures that a step lowers (the motions left in a
   shift, the ticks left of a timer, the rows left to the bottom), of which the fairness
   of the clock makes the end of a shift, a timer or a fall.
