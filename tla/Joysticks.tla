----------------------------- MODULE Joysticks -----------------------------
(***************************************************************************)
(* The joysticks of InputManager: the handles its constructor opens, the   *)
(* axes made of them, the keys and the mouse, and what the destructor      *)
(* closes.  SDL notices pads and sticks only while it is polled.           *)
(*                                                                         *)
(* The four axis functions read an axis each and are alike: stick is the   *)
(* position of the one in question, minus and plus the two actions that    *)
(* stand for its ends, mouse the offset along it.  An axis counts in       *)
(* quarters of 1 / FullScale, so that the code's divisions come out even   *)
(* for its dead zone of 0.2.                                               *)
(***************************************************************************)
EXTENDS Integers, Sequences, SequencesExt, FiniteSetsExt

CONSTANTS
    Pads,           \* joysticks; one that comes back is another one
    JoySlots,       \* elements of mJoy (4)
    FullScale,      \* 32767
    Sticks,         \* the positions that occur
    MouseOffsets,   \* mMouseOffset / mWidth / mMouseSensitivity, in units of an axis
    NULL, Stray     \* the null pointer; what an uninitialised mJoy[i] holds

\* What is assumed of the constants.
JoyAssumption ==
    /\ JoySlots \in Nat /\ JoySlots > 1
    /\ FullScale \in Nat \ {0}
    /\ Sticks \subseteq -(FullScale + 1) .. FullScale /\ 0 \in Sticks
    /\ MouseOffsets \subseteq Int /\ 0 \in MouseOffsets
    /\ NULL \notin Pads /\ Stray \notin Pads /\ NULL # Stray

VARIABLES
    attached,       \* SDL's devices, in the order of their indices
    opened,         \* pads with a handle that was not closed
    mJoy,           \* a pad stands for its handle
    stick,          \* the position of each pad's stick
    minus, plus,    \* mActiveActions of the left and right, or down and up, actions
    mouse           \* the mouse's offset in this frame

padVars == <<attached, opened, mJoy>>
valueVars == <<stick, minus, plus, mouse>>
joyVars == <<padVars, valueVars>>

SlotsAndOne == 0 .. JoySlots        \* variant
Slots == 0 .. JoySlots - 1
SDL_NumJoysticks == Len(attached)

JoyInit ==
    /\ attached \in {s \in SeqOf(Pads, Cardinality(Pads)) : IsInjective(s)}
    /\ opened = {}
    /\ mJoy = [i \in Slots |-> NULL]
    /\ stick = [p \in Pads |-> 0]
    /\ minus = FALSE /\ plus = FALSE /\ mouse = 0

-----------------------------------------------------------------------------
(***************************************************************************)
(* The constructor sets mJoy only if there is a joystick, and opens all.   *)
(***************************************************************************)
OverrunsArray == SDL_NumJoysticks > JoySlots

openJoysticks ==
    /\ IF SDL_NumJoysticks = 0
       THEN mJoy' \in [Slots -> {NULL, Stray}] /\ UNCHANGED opened
       ELSE /\ opened' \in SUBSET ToSet(attached)       \* opening one may fail
            /\ mJoy' = [i \in Slots |->
                    IF i < SDL_NumJoysticks /\ attached[i + 1] \in opened'
                    THEN attached[i + 1] ELSE NULL]
    /\ UNCHANGED <<attached, valueVars>>

-----------------------------------------------------------------------------
(***************************************************************************)
(* SDL_PollEvent: pads come and go, sticks and the mouse move, and the     *)
(* handlers change the actions.  The stick of a pad that went reads 0.     *)
(***************************************************************************)
plug(p) ==
    /\ p \notin ToSet(attached) \cup opened
    /\ attached' = Append(attached, p)
    /\ UNCHANGED <<opened, mJoy, valueVars>>

unplug(p) ==
    /\ \E i \in DOMAIN attached : attached[i] = p /\ attached' = RemoveAt(attached, i)
    /\ stick' = [stick EXCEPT ![p] = 0]
    /\ UNCHANGED <<opened, mJoy, minus, plus, mouse>>

move ==
    /\ \/ \E p \in ToSet(attached), v \in Sticks :
            stick' = [stick EXCEPT ![p] = v] /\ UNCHANGED <<minus, plus, mouse>>
       \/ minus' = ~minus /\ UNCHANGED <<stick, plus, mouse>>
       \/ plus' = ~plus /\ UNCHANGED <<stick, minus, mouse>>
       \/ mouse' \in MouseOffsets /\ UNCHANGED <<stick, minus, plus>>
    /\ UNCHANGED padVars

pump == move \/ \E p \in Pads : plug(p) \/ unplug(p)

-----------------------------------------------------------------------------
(***************************************************************************)
(* The axes.  The devices are an enumeration that begins with the slots.   *)
(***************************************************************************)
D_KEYBOARD == JoySlots
D_MOUSE == JoySlots + 1
D_ALL == JoySlots + 2
Devices == 0 .. D_ALL
Unit == 4 * FullScale

\* getHorizAxis and the others look at mJoy only while SDL has a joystick.
UsesStray == SDL_NumJoysticks > 0 /\ \E i \in Slots : mJoy[i] \notin opened \cup {NULL}

Selected(device) == {i \in Slots : mJoy[i] # NULL /\ device \in {D_ALL, i}}

ShapedFolded(v) ==      \* variant: the sign of the negative side is lost
    IF 5 * v > FullScale THEN 5 * v - FullScale
    ELSE IF 5 * v < -FullScale THEN -(5 * v + FullScale)
    ELSE 0
ShapedUncut(v) ==       \* variant: the dead zone is not taken off
    IF 5 * v > FullScale \/ 5 * v < -FullScale THEN 5 * v ELSE 0

\* Beyond the dead zone of 0.2, what is left is stretched to the whole range.
Shaped(v) ==
    IF 5 * v > FullScale THEN 5 * v - FullScale
    ELSE IF 5 * v < -FullScale THEN 5 * v + FullScale
    ELSE 0

\* SDL_JoystickGetAxis
GetAxis(i) == IF mJoy[i] \in ToSet(attached) THEN stick[mJoy[i]] ELSE 0

\* Of all sticks asked for, the last one counts, even at rest.
FromSticks(device, sign) ==
    IF SDL_NumJoysticks = 0 \/ Selected(device) = {} THEN 0
    ELSE Shaped(sign * GetAxis(Max(Selected(device))))

\* getHorizAxis (sign 1) and getVertAxis (sign -1): the keys take precedence.
KeyAxis(device, sign) ==
    IF device \in {D_KEYBOARD, D_ALL} /\ (minus \/ plus)
    THEN CASE ~plus -> -Unit [] ~minus -> Unit [] OTHER -> 0
    ELSE FromSticks(device, sign)

Clamped(v) == IF v < -Unit THEN -Unit ELSE IF v > Unit THEN Unit ELSE v
Size(v) == IF v < 0 THEN -v ELSE v

\* getRHorizAxis and getRVertAxis: the larger of stick and mouse.
MouseAxis(device, sign) ==
    LET joy == FromSticks(device, sign)
        offset == Clamped(sign * mouse)
    IN IF device \in {D_MOUSE, D_ALL} /\ Size(offset) > Size(joy) THEN offset ELSE joy

-----------------------------------------------------------------------------
(***************************************************************************)
(* The destructor looks at mJoy[i] for every joystick SDL has now, and     *)
(* closes mJoy[1] for each that is attached.                               *)
(***************************************************************************)
AttachedSlots == {i \in Slots : i < SDL_NumJoysticks /\ mJoy[i] \in ToSet(attached)}

ClosesBad ==
    \/ OverrunsArray
    \/ UsesStray
    \/ mJoy[1] # NULL /\ SDL_NumJoysticks > 1 /\ 0 \in AttachedSlots
    \/ mJoy[1] # NULL /\ \E i, j \in AttachedSlots : i # j

closeJoysticks ==
    /\ opened' = IF AttachedSlots = {} THEN opened ELSE opened \ {mJoy[1]}
    /\ UNCHANGED <<attached, mJoy, valueVars>>

\* SDL_Quit closes the rest.
quitJoysticks ==
    /\ opened' = {}
    /\ UNCHANGED <<attached, mJoy, valueVars>>

-----------------------------------------------------------------------------
(***************************************************************************)
(* Properties of the axes, while no stray pointer is read for them.        *)
(***************************************************************************)
Signs == {-1, 1}
Beyond(sign) == \E p \in ToSet(attached) : 5 * sign * stick[p] > FullScale

\* An axis stays within one, or one and the last step of a stick that is all the
\* way to the left (5 of Unit), and leaves 0 only for something the user does.
AxesTrue ==
    ~UsesStray => \A device \in Devices, sign \in Signs :
        /\ \A axis \in {KeyAxis(device, sign), MouseAxis(device, sign)} :
             /\ Size(axis) <= Unit + 5
             /\ Size(axis) > Unit => \E p \in Pads : stick[p] < -FullScale
        /\ KeyAxis(device, sign) > 0 => plus \/ Beyond(sign)
        /\ KeyAxis(device, sign) < 0 => minus \/ Beyond(-sign)
        /\ MouseAxis(device, sign) > 0 => sign * mouse > 0 \/ Beyond(sign)
        /\ MouseAxis(device, sign) < 0 => sign * mouse < 0 \/ Beyond(-sign)

OnlySticksRise ==
    /\ UNCHANGED <<padVars, minus, plus, mouse>>
    /\ \A p \in Pads : stick'[p] >= stick[p]

\* When sticks only go up, no axis goes the other way, whatever the keys and the
\* mouse are doing.
AxesFollowSticks ==
    OnlySticksRise /\ ~UsesStray => \A device \in Devices, sign \in Signs :
        /\ sign * KeyAxis(device, sign)' >= sign * KeyAxis(device, sign)
        /\ sign * MouseAxis(device, sign)' >= sign * MouseAxis(device, sign)

JoyTypeOK ==
    /\ attached \in Seq(Pads)
    /\ opened \subseteq Pads
    /\ mJoy \in [0 .. JoySlots - 1 -> Pads \cup {NULL, Stray}]
    /\ stick \in [Pads -> Sticks]
    /\ minus \in BOOLEAN /\ plus \in BOOLEAN
    /\ mouse \in MouseOffsets
=============================================================================
