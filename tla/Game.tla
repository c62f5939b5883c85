-------------------------------- MODULE Game --------------------------------
(***************************************************************************)
(* The game on its real road: the car, the objects, the star and the       *)
(* collision logic as finalproject.sv wires them, with every position and  *)
(* size to the pixel.  A frame edge moves everything at once; between two  *)
(* frames the collision logic runs through TicksPerFrame ticks.            *)
(***************************************************************************)
EXTENDS Car, Objects, Stars, ColorMapper

CONSTANTS
  KeyFrames,          \* frames in which the player may press a key
  MaxFrames,          \* frames a run looks at
  TicksPerFrame       \* 840000 on the board

ASSUME GameAssumption ==
  /\ KeyFrames \in Nat /\ MaxFrames \in Nat
  /\ TicksPerFrame \in Nat /\ TicksPerFrame >= 3
  /\ \A i \in Objs : Obj_Y_Start_1 + Obj_Height(i) < Car_Y_Start    \* the car starts below

VARIABLES
  difficulty,         \* chosen in the start menu
  edges,              \* the positions of the tick before, in the edge registers
  phase,              \* ticks since the frame edge
  frames,             \* frames so far: bounds the steering and the run
  charged             \* history: obstacles that cost damage since they were put back

gameVars == <<carVars, objVars, starVars, mapperVars,
              difficulty, edges, phase, frames, charged>>

-----------------------------------------------------------------------------
(* The comparators.  Eleven-bit unsigned edges; carBottom, objTop and      *)
(* objBottom are computed in the tick that compares them, the other edges  *)
(* were registered in the tick before.                                     *)

Edge(n) == n % 2048

Positions ==
  [car |-> <<Unsigned(Car_X_Pos), Unsigned(Car_Y_Pos)>>,
   obj |-> Obj_X_Pos,
   star |-> <<Unsigned(Star_X_Pos), Unsigned(Star_Y_Pos)>>]

carBottom == Edge(Unsigned(Car_Y_Pos) + 130)

\* The objects, and the star, that the comparators find in contact when the edge
\* registers hold the positions p.
Touched(p) ==
  {i \in Objs : /\ Edge(p.car[1] + 64) >= p.obj[i]
                /\ p.car[1] <= p.obj[i] + Obj_Width(i)
                /\ carBottom >= Obj_Y_Pos[i]
                /\ p.car[2] <= Obj_Y_Pos[i] + Obj_Height(i)}

StarTouched(p) ==
  /\ Edge(p.car[1] + 64) >= p.star[1]
  /\ p.car[1] <= Edge(p.star[1] + 40)
  /\ carBottom >= p.star[2]
  /\ p.car[2] <= Edge(p.star[2] + 38)
  /\ starLive

Obstacles == {Rock, Tree, Barrel, Cone}

-----------------------------------------------------------------------------

\* No reset drives the edge registers, and at power-up those of the right sides hold
\* zero like the others; adding the widths to them here changes no comparison.  The
\* first tick finds every object in contact, and charges for the first of the chain.
NoEdges == [car |-> <<0, 0>>, obj |-> [i \in Objs |-> 0], star |-> <<0, 0>>]

GameInit ==
  /\ CarInit /\ ObjInit /\ StarInit /\ MapperInit
  /\ difficulty \in Diffs
  /\ edges = NoEdges
  /\ phase = 0                       \* the start menu: a level clocks the first frame
  /\ frames = 0
  /\ charged = {}

\* Once the game is over the player may choose another level.
Levels(key) == IF menuLive /\ key = NoKey THEN Diffs ELSE {difficulty}

\* Edge registers that only keep up with the frame clock.
FastTick_StaleEdges ==
  /\ ~replay
  /\ phase < TicksPerFrame
  /\ \E key \in {KeyR, NoKey} :
       /\ Tick(Touched(edges), StarTouched(edges), nosLoadedIn, key)
       /\ difficulty' \in Levels(key)
  /\ edges' = IF phase = TicksPerFrame - 1 THEN Positions ELSE edges
  /\ phase' = phase + 1
  /\ charged' = charged \cup (Hit(Touched(edges)) \cap Obstacles)
  /\ UNCHANGED <<carVars, objVars, starVars, frames>>

FastTick ==
  /\ ~replay
  /\ phase < TicksPerFrame
  /\ \E key \in {KeyR, NoKey} :
       /\ Tick(Touched(edges), StarTouched(edges), nosLoadedIn, key)
       /\ difficulty' \in Levels(key)
  /\ edges' = Positions
  /\ phase' = phase + 1
  /\ charged' = charged \cup (Hit(Touched(edges)) \cap Obstacles)
  /\ UNCHANGED <<carVars, objVars, starVars, frames>>

\* The car stands still in the menus; the objects and the star do not.
FrameEdge ==
  /\ ~replay
  /\ phase = TicksPerFrame
  /\ IF menuLive THEN UNCHANGED carVars
     ELSE \E key \in (IF frames < KeyFrames THEN Held \cup {None} ELSE {None}) :
            CarFrame(key, noShift, nosLoadedOut)
  /\ ObjFrame(trshdObjs, difficulty)
  /\ StarFrame(collect)
  /\ charged' = charged \ (trshdObjs \cup exprdObjs)
  /\ phase' = 0
  /\ frames' = frames + 1
  /\ UNCHANGED <<mapperVars, difficulty, edges>>

\* The replay key resets everything but the start menu and the edge registers; the
\* picture starts anew with it, whose first tick brings a frame edge.
Replay ==
  /\ replay
  /\ Reset /\ ResetObjects /\ ResetStar /\ ResetMapper
  /\ charged' = {}
  /\ phase' = TicksPerFrame - 1
  /\ UNCHANGED <<difficulty, edges, frames>>

GameNext == FastTick \/ FrameEdge \/ Replay

GameSpec == GameInit /\ [][GameNext]_gameVars /\ WF_gameVars(GameNext)

\* The state constraint of the runs.
WithinFrames == frames <= MaxFrames

-----------------------------------------------------------------------------
(* Properties. *)

Playing == ~menuLive

\* Before every frame edge each contact there really is has been noticed, old
\* edges in the comparators or not: with the car on an object a contact is
\* latched, and with the car on nothing but a live star the star is gathered.
ContactsNoticed ==
  phase = TicksPerFrame /\ Playing =>
    /\ Touched(Positions) # {} => col_on
    /\ Touched(Positions) = {} /\ StarTouched(Positions) => collect

\* A gathered star is gone with the next frame, before it can be counted again:
\* the delay counter of the star module is at zero when the flag reaches it.
StarGoneOnceGathered ==
  [][FrameEdge /\ collect /\ starLive => ~starLive']_gameVars

\* The start menu's text ("start menu body text.docx", line 3): "Oil barrels
\* explode, incurring 2 damage points", and line 2 gives the other obstacles one.
\* An obstacle that has cost damage costs none again before it has been put back
\* at the top.
ChargedOnce ==
  [][FastTick => Hit(Touched(edges)) \cap charged = {}]_gameVars
=============================================================================
