-------------------------- MODULE LifecycleProofs --------------------------
(***************************************************************************)
(* Proofs about Lifecycle, for every number of pads and slots, every range *)
(* of sticks and mouse, and every subset of the contract.                  *)
(*                                                                         *)
(* As long as nothing failed, the stage says which parts there are; from   *)
(* the first failure on, what matters is which parts are never there       *)
(* without which others, and that what ~BaseApplication went past is gone. *)
(* LifeInv holds whatever the contract says, for a crash ends the program  *)
(* before main returns.  PointersGood needs the whole contract, and with   *)
(* it no crash happens before ~Oculus.                                     *)
(***************************************************************************)
EXTENDS Lifecycle, TLAPS

\* JoyAssumption, as the instance Joy has it.
LEMMA AboutConstants ==
    /\ JoySlots \in Nat /\ JoySlots > 1
    /\ FullScale \in Nat /\ FullScale > 0
    /\ Sticks \subseteq -(FullScale + 1) .. FullScale /\ 0 \in Sticks
    /\ MouseOffsets \subseteq Int /\ 0 \in MouseOffsets
    /\ NULL \notin Pads /\ Stray \notin Pads /\ NULL # Stray
<1>1. Joy!JoyAssumption
  BY LifecycleAssumption
<1> QED BY <1>1 DEF Joy!JoyAssumption

-----------------------------------------------------------------------------
(***************************************************************************)
(* Joysticks: types, and the axes.                                         *)
(***************************************************************************)
LEMMA JoyInitType == Joy!JoyInit => Joy!JoyTypeOK
<1> SUFFICES ASSUME Joy!JoyInit PROVE Joy!JoyTypeOK
  OBVIOUS
<1>1. attached \in Seq(Pads)
  <2>1. PICK m \in 0 .. Joy!Cardinality(Pads) : attached \in [1 .. m -> Pads]
    BY DEF Joy!JoyInit, Joy!SeqOf
  <2> QED BY <2>1
<1> QED BY <1>1, AboutConstants DEF Joy!JoyInit, Joy!JoyTypeOK, Joy!Slots

LEMMA PumpKeepsTypes ==
    ASSUME Joy!JoyTypeOK, Joy!pump
    PROVE  Joy!JoyTypeOK'
<1>1. CASE Joy!move
  BY <1>1, AboutConstants DEF Joy!JoyTypeOK, Joy!move, Joy!padVars, Joy!ToSet
<1>2. ASSUME NEW p \in Pads, Joy!plug(p) PROVE Joy!JoyTypeOK'
  BY <1>2 DEF Joy!JoyTypeOK, Joy!plug, Joy!valueVars
<1>3. ASSUME NEW p \in Pads, Joy!unplug(p) PROVE Joy!JoyTypeOK'
  <2>1. PICK i \in DOMAIN attached : attached' = Joy!RemoveAt(attached, i)
    BY <1>3 DEF Joy!unplug
  <2>2. attached' \in Seq(Pads)
    BY <2>1 DEF Joy!RemoveAt, Joy!JoyTypeOK
  <2> QED BY <1>3, <2>2, AboutConstants DEF Joy!JoyTypeOK, Joy!unplug
<1> QED BY <1>1, <1>2, <1>3 DEF Joy!pump

\* Shaped, on the positions of a stick and their negations.
LEMMA ShapedBounds ==
    ASSUME NEW v \in Int, -(FullScale + 1) <= v, v <= FullScale + 1
    PROVE  /\ Joy!Shaped(v) \in Int
           /\ Joy!Size(Joy!Shaped(v)) <= Joy!Unit + 5
           /\ Joy!Size(Joy!Shaped(v)) > Joy!Unit => v = FullScale + 1 \/ v = -(FullScale + 1)
           /\ Joy!Shaped(v) > 0 => 5 * v > FullScale
           /\ Joy!Shaped(v) < 0 => 5 * v < -FullScale
<1>1. FullScale \in Nat /\ FullScale > 0
  BY AboutConstants
<1> QED BY <1>1 DEF Joy!Shaped, Joy!Size, Joy!Unit

LEMMA ShapedRises ==
    ASSUME NEW v \in Int, NEW w \in Int, v <= w
    PROVE  Joy!Shaped(v) \in Int /\ Joy!Shaped(w) \in Int /\ Joy!Shaped(v) <= Joy!Shaped(w)
<1>1. FullScale \in Nat /\ FullScale > 0
  BY AboutConstants
<1> QED BY <1>1 DEF Joy!Shaped

\* What an axis takes from the sticks is what one of them says, or nothing.
LEMMA FromSticksCases ==
    ASSUME Joy!JoyTypeOK, NEW device, NEW sign \in {-1, 1}
    PROVE  \/ Joy!FromSticks(device, sign) = 0
           \/ \E p \in Joy!ToSet(attached) : p \in Pads /\ Joy!FromSticks(device, sign) = Joy!Shaped(sign * stick[p])
<1>1. \A p \in Joy!ToSet(attached) : p \in Pads
  BY DEF Joy!ToSet, Joy!JoyTypeOK
<1>2. Joy!Shaped(sign * 0) = 0
  <2>1. FullScale \in Nat /\ FullScale > 0
    BY AboutConstants
  <2>2. sign * 0 = 0
    OBVIOUS
  <2> QED BY <2>1, <2>2 DEF Joy!Shaped
<1> DEFINE i == Joy!Max(Joy!Selected(device))
<1>3. CASE Joy!FromSticks(device, sign) = Joy!Shaped(sign * Joy!GetAxis(i))
  <2> HIDE DEF i
  <2>1. CASE mJoy[i] \in Joy!ToSet(attached)
    BY <1>1, <1>3, <2>1 DEF Joy!GetAxis
  <2>2. CASE mJoy[i] \notin Joy!ToSet(attached)
    BY <1>2, <1>3, <2>2 DEF Joy!GetAxis
  <2> QED BY <2>1, <2>2
<1> QED BY <1>3 DEF Joy!FromSticks

\* So it keeps to the range, and leaves 0 only for a stick beyond the dead zone.
LEMMA FromSticksTrue ==
    ASSUME Joy!JoyTypeOK, NEW device, NEW sign \in {-1, 1}
    PROVE  LET joy == Joy!FromSticks(device, sign)
           IN /\ joy \in Int
              /\ Joy!Size(joy) <= Joy!Unit + 5
              /\ Joy!Size(joy) > Joy!Unit => \E p \in Pads : stick[p] < -FullScale
              /\ joy > 0 => Joy!Beyond(sign)
              /\ joy < 0 => Joy!Beyond(-sign)
<1> DEFINE joy == Joy!FromSticks(device, sign)
<1> SUFFICES /\ joy \in Int
             /\ Joy!Size(joy) <= Joy!Unit + 5
             /\ Joy!Size(joy) > Joy!Unit => \E p \in Pads : stick[p] < -FullScale
             /\ joy > 0 => Joy!Beyond(sign)
             /\ joy < 0 => Joy!Beyond(-sign)
  OBVIOUS
<1>1. FullScale \in Nat /\ FullScale > 0
  BY AboutConstants
<1>2. CASE joy = 0
  BY <1>1, <1>2 DEF Joy!Size, Joy!Unit
<1>3. ASSUME NEW p \in Joy!ToSet(attached), p \in Pads, joy = Joy!Shaped(sign * stick[p])
      PROVE  /\ joy \in Int
             /\ Joy!Size(joy) <= Joy!Unit + 5
             /\ Joy!Size(joy) > Joy!Unit => stick[p] < -FullScale
             /\ joy > 0 => 5 * sign * stick[p] > FullScale
             /\ joy < 0 => 5 * (-sign) * stick[p] > FullScale
  <2> DEFINE v == stick[p]
  <2>1. v \in Int /\ -(FullScale + 1) <= v /\ v <= FullScale
    <3>1. v \in Sticks
      BY <1>3 DEF Joy!JoyTypeOK
    <3>2. v \in -(FullScale + 1) .. FullScale
      BY <3>1, AboutConstants
    <3> HIDE DEF v
    <3> QED BY <1>1, <3>2
  <2>2. joy = Joy!Shaped(sign * v)
    BY <1>3
  <2> HIDE DEF v, joy
  <2>3. CASE sign = 1
    <3>1. sign * v = v /\ 5 * sign * v = 5 * v /\ 5 * (-sign) * v = -5 * v
      BY <2>1, <2>3
    <3>2. v <= FullScale + 1
      BY <1>1, <2>1
    <3> QED BY <1>1, <2>1, <2>2, <3>1, <3>2, ShapedBounds DEF v
  <2>4. CASE sign = -1
    <3>1. sign * v = -v /\ 5 * sign * v = -5 * v /\ 5 * (-sign) * v = 5 * v
      BY <2>1, <2>4
    <3>2. -v \in Int /\ -(FullScale + 1) <= -v /\ -v <= FullScale + 1
      BY <1>1, <2>1
    <3>3. /\ joy \in Int
          /\ Joy!Size(joy) <= Joy!Unit + 5
          /\ Joy!Size(joy) > Joy!Unit => -v = FullScale + 1 \/ -v = -(FullScale + 1)
          /\ joy > 0 => 5 * (-v) > FullScale
          /\ joy < 0 => 5 * (-v) < -FullScale
      BY <2>2, <3>1, <3>2, ShapedBounds
    <3> QED BY <1>1, <2>1, <3>1, <3>3 DEF v
  <2> QED BY <2>3, <2>4
<1>4. CASE \E p \in Joy!ToSet(attached) : p \in Pads /\ joy = Joy!Shaped(sign * stick[p])
  <2>1. PICK p \in Joy!ToSet(attached) : p \in Pads /\ joy = Joy!Shaped(sign * stick[p])
    BY <1>4
  <2> HIDE DEF joy
  <2> QED BY <1>3, <2>1 DEF Joy!Beyond
<1>5. joy = 0 \/ \E p \in Joy!ToSet(attached) : p \in Pads /\ joy = Joy!Shaped(sign * stick[p])
  BY FromSticksCases
<1> HIDE DEF joy
<1> QED BY <1>2, <1>4, <1>5

\* Whatever sticks, keys and mouse say, an axis is one of: all the way to an end,
\* at rest, what the sticks say, the mouse's offset cut to the range.
LEMMA AxesTrueOfTypes == Joy!JoyTypeOK => Joy!AxesTrue
<1> SUFFICES ASSUME Joy!JoyTypeOK, NEW device \in Joy!Devices, NEW sign \in {-1, 1}
             PROVE  /\ \A axis \in {Joy!KeyAxis(device, sign), Joy!MouseAxis(device, sign)} :
                         /\ Joy!Size(axis) <= Joy!Unit + 5
                         /\ Joy!Size(axis) > Joy!Unit => \E p \in Pads : stick[p] < -FullScale
                    /\ Joy!KeyAxis(device, sign) > 0 => plus \/ Joy!Beyond(sign)
                    /\ Joy!KeyAxis(device, sign) < 0 => minus \/ Joy!Beyond(-sign)
                    /\ Joy!MouseAxis(device, sign) > 0 => sign * mouse > 0 \/ Joy!Beyond(sign)
                    /\ Joy!MouseAxis(device, sign) < 0 => sign * mouse < 0 \/ Joy!Beyond(-sign)
  BY DEF Joy!AxesTrue, Joy!Signs
<1> DEFINE joy == Joy!FromSticks(device, sign)
<1>1. /\ joy \in Int
      /\ Joy!Size(joy) <= Joy!Unit + 5
      /\ Joy!Size(joy) > Joy!Unit => \E p \in Pads : stick[p] < -FullScale
      /\ joy > 0 => Joy!Beyond(sign)
      /\ joy < 0 => Joy!Beyond(-sign)
  BY FromSticksTrue
<1>2. Joy!Unit \in Nat /\ Joy!Unit > 0
  <2>1. FullScale \in Nat /\ FullScale > 0
    BY AboutConstants
  <2> QED BY <2>1 DEF Joy!Unit
<1>3. sign * mouse \in Int
  <2>1. mouse \in Int
    BY AboutConstants DEF Joy!JoyTypeOK
  <2> QED BY <2>1
<1> DEFINE drift == sign * mouse
<1> HIDE DEF joy, drift
<1>4. LET axis == Joy!KeyAxis(device, sign)
      IN \/ axis = joy
         \/ axis = -Joy!Unit /\ minus
         \/ axis = Joy!Unit /\ plus
         \/ axis = 0
  BY DEF Joy!KeyAxis, joy
<1>5. LET axis == Joy!MouseAxis(device, sign)
      IN axis = joy \/ axis = Joy!Clamped(drift)
  BY DEF Joy!MouseAxis, joy, drift
<1>6. LET offset == Joy!Clamped(drift)
      IN /\ offset \in Int
         /\ Joy!Size(offset) <= Joy!Unit
         /\ offset > 0 => drift > 0
         /\ offset < 0 => drift < 0
  BY <1>2, <1>3 DEF Joy!Clamped, Joy!Size, drift
<1>7. /\ Joy!Size(0) = 0
      /\ Joy!Size(Joy!Unit) = Joy!Unit
      /\ Joy!Size(-Joy!Unit) = Joy!Unit
  BY <1>2 DEF Joy!Size
<1> DEFINE key == Joy!KeyAxis(device, sign)
           look == Joy!MouseAxis(device, sign)
           beyond == \E p \in Pads : stick[p] < -FullScale
           up == Joy!Beyond(sign)
           down == Joy!Beyond(-sign)
           offset == Joy!Clamped(drift)
<1> HIDE DEF key, look, beyond, up, down, offset
<1>8. /\ Joy!Size(key) <= Joy!Unit + 5
      /\ Joy!Size(key) > Joy!Unit => beyond
      /\ key > 0 => plus \/ up
      /\ key < 0 => minus \/ down
  BY <1>1, <1>2, <1>4, <1>7 DEF key, beyond, up, down, Joy!Size
<1>9. /\ Joy!Size(look) <= Joy!Unit + 5
      /\ Joy!Size(look) > Joy!Unit => beyond
      /\ look > 0 => drift > 0 \/ up
      /\ look < 0 => drift < 0 \/ down
  BY <1>1, <1>2, <1>5, <1>6 DEF look, beyond, up, down, offset, Joy!Size
<1> QED BY <1>8, <1>9 DEF key, look, beyond, up, down, drift

\* While no pad comes, goes or is opened, every axis takes the same stick.
LEMMA FromSticksRise ==
    ASSUME Joy!JoyTypeOK, Joy!JoyTypeOK', Joy!OnlySticksRise, NEW device, NEW sign \in {-1, 1}
    PROVE  LET joy == Joy!FromSticks(device, sign)
           IN joy \in Int /\ joy' \in Int /\ sign * joy' >= sign * joy
<1> DEFINE joy == Joy!FromSticks(device, sign)
           i == Joy!Max(Joy!Selected(device))
<1> SUFFICES joy \in Int /\ joy' \in Int /\ sign * joy' >= sign * joy
  OBVIOUS
<1>1. UNCHANGED <<attached, opened, mJoy>> /\ \A p \in Pads : stick'[p] >= stick[p]
  BY DEF Joy!OnlySticksRise, Joy!padVars
<1>2. Joy!Selected(device)' = Joy!Selected(device) /\ (Joy!SDL_NumJoysticks)' = Joy!SDL_NumJoysticks
  BY <1>1 DEF Joy!Selected, Joy!SDL_NumJoysticks
<1>3. FullScale \in Nat /\ FullScale > 0
  BY AboutConstants
<1>4. CASE Joy!SDL_NumJoysticks = 0 \/ Joy!Selected(device) = {}
  <2>1. joy = 0 /\ joy' = 0
    BY <1>2, <1>4 DEF Joy!FromSticks
  <2> QED BY <2>1
<1>5. CASE ~(Joy!SDL_NumJoysticks = 0 \/ Joy!Selected(device) = {})
  <2> DEFINE g == IF mJoy[i] \in Joy!ToSet(attached) THEN stick[mJoy[i]] ELSE 0
             h == IF mJoy[i] \in Joy!ToSet(attached) THEN stick'[mJoy[i]] ELSE 0
  <2>1. joy = Joy!Shaped(sign * g)
    BY <1>5 DEF Joy!FromSticks, Joy!GetAxis
  <2>2. joy' = Joy!Shaped(sign * h)
    BY <1>1, <1>2, <1>5 DEF Joy!FromSticks, Joy!GetAxis, Joy!Shaped, Joy!ToSet
  <2>3. g \in Int /\ h \in Int /\ g <= h
    <3>1. \A p \in Joy!ToSet(attached) : p \in Pads
      BY DEF Joy!ToSet, Joy!JoyTypeOK
    <3>2. \A p \in Pads : stick[p] \in Int /\ stick'[p] \in Int
      <4>1. \A p \in Pads : stick[p] \in Sticks /\ stick'[p] \in Sticks
        BY DEF Joy!JoyTypeOK
      <4>2. \A v \in Sticks : v \in Int
        BY <1>3, AboutConstants
      <4> QED BY <4>1, <4>2
    <3> HIDE DEF i
    <3> QED BY <1>1, <3>1, <3>2
  <2> HIDE DEF g, h, joy
  <2>4. CASE sign = 1
    <3>1. joy = Joy!Shaped(g) /\ joy' = Joy!Shaped(h)
      BY <2>1, <2>2, <2>3, <2>4
    <3> QED BY <2>3, <2>4, <3>1, ShapedRises
  <2>5. CASE sign = -1
    <3>1. joy = Joy!Shaped(-g) /\ joy' = Joy!Shaped(-h)
      BY <2>1, <2>2, <2>3, <2>5
    <3>2. -g \in Int /\ -h \in Int /\ -h <= -g
      BY <2>3
    <3> QED BY <2>5, <3>1, <3>2, ShapedRises
  <2> QED BY <2>4, <2>5
<1> QED BY <1>4, <1>5

\* The larger of a rising stick and a mouse that stays where it is rises, in the
\* sense of the sign.
LEMMA LargerRises ==
    ASSUME NEW offset \in Int, NEW j \in Int, NEW k \in Int, NEW sign \in {-1, 1},
           sign * k >= sign * j
    PROVE  sign * (IF Joy!Size(offset) > Joy!Size(k) THEN offset ELSE k)
             >= sign * (IF Joy!Size(offset) > Joy!Size(j) THEN offset ELSE j)
<1>1. CASE sign = 1
  BY <1>1 DEF Joy!Size
<1>2. CASE sign = -1
  BY <1>2 DEF Joy!Size
<1> QED BY <1>1, <1>2

\* Keys, mouse and pads as they were, each axis moves with its stick or not at all.
LEMMA AxesFollow ==
    ASSUME Joy!JoyTypeOK, Joy!JoyTypeOK'
    PROVE  Joy!AxesFollowSticks
<1> SUFFICES ASSUME Joy!OnlySticksRise, NEW device \in Joy!Devices, NEW sign \in {-1, 1}
             PROVE  /\ sign * Joy!KeyAxis(device, sign)' >= sign * Joy!KeyAxis(device, sign)
                    /\ sign * Joy!MouseAxis(device, sign)' >= sign * Joy!MouseAxis(device, sign)
  BY DEF Joy!AxesFollowSticks, Joy!Signs
<1> DEFINE joy == Joy!FromSticks(device, sign)
           offset == Joy!Clamped(sign * mouse)
<1>1. joy \in Int /\ joy' \in Int /\ sign * joy' >= sign * joy
  BY FromSticksRise
<1>2. UNCHANGED <<minus, plus, mouse>>
  BY DEF Joy!OnlySticksRise
<1>3. Joy!Unit \in Int
  BY AboutConstants DEF Joy!Unit
<1>4. offset \in Int /\ offset' = offset
  <2>1. mouse \in Int
    BY AboutConstants DEF Joy!JoyTypeOK
  <2>2. sign * mouse \in Int
    BY <2>1
  <2> QED BY <1>2, <1>3, <2>2 DEF Joy!Clamped
<1>5. sign * Joy!KeyAxis(device, sign)' >= sign * Joy!KeyAxis(device, sign)
  <2> DEFINE keys == device \in {Joy!D_KEYBOARD, Joy!D_ALL} /\ (minus \/ plus)
             key == CASE ~plus -> -Joy!Unit [] ~minus -> Joy!Unit [] OTHER -> 0
  <2>1. Joy!KeyAxis(device, sign) = IF keys THEN key ELSE joy
    BY DEF Joy!KeyAxis
  <2>2. Joy!KeyAxis(device, sign)' = IF keys THEN key ELSE joy'
    BY <1>2 DEF Joy!KeyAxis
  <2>3. key \in Int
    BY <1>3
  <2> HIDE DEF keys, key, joy
  <2>4. sign * key >= sign * key
    BY <2>3
  <2> QED BY <1>1, <2>1, <2>2, <2>4
<1>6. sign * Joy!MouseAxis(device, sign)' >= sign * Joy!MouseAxis(device, sign)
  <2> DEFINE larger(j) == IF Joy!Size(offset) > Joy!Size(j) THEN offset ELSE j
             moved == device \in {Joy!D_MOUSE, Joy!D_ALL}
  <2>1. Joy!MouseAxis(device, sign) = IF moved THEN larger(joy) ELSE joy
    BY DEF Joy!MouseAxis
  <2>2. Joy!MouseAxis(device, sign)' = IF moved THEN larger(joy') ELSE joy'
    BY <1>2, <1>4 DEF Joy!MouseAxis
  <2>3. sign * larger(joy') >= sign * larger(joy)
    <3> HIDE DEF joy, offset
    <3> QED BY <1>1, <1>4, LargerRises
  <2> HIDE DEF moved, larger, joy
  <2> QED BY <1>1, <2>1, <2>2, <2>3
<1> QED BY <1>5, <1>6

-----------------------------------------------------------------------------
(***************************************************************************)
(* The inductive invariant.                                                *)
(***************************************************************************)
Building == pc \in {"initialize", "scripts", "run", "update"}

\* The stage of initialize that makes a part.
StageOf(p) ==
    CASE p = "SDL" -> 1
      [] p \in {"Root", "LogManager"} -> 2
      [] p = "Log" -> 3
      [] p = "Window" -> 4
      [] p = "SceneManager" -> 5
      [] p = "OverlaySystem" -> 8
      [] p = "Physics" -> 9
      [] p = "Sound" -> 10
      [] p = "Input" -> 11
      [] OTHER -> 12

\* As long as nothing failed, the parts there are follow from the stage.
MadeInOrder ==
    Building =>
        /\ failedAt = "none" /\ outcome = "none"
        /\ pc = "initialize" => made = {p \in Parts : StageOf(p) < stage}
        /\ pc # "initialize" => made = Parts
        /\ pc = "scripts" => stage = 12

\* Which parts are never there without others, from the first failure to the end.
KeptTogether ==
    /\ "lua" \in made <=> "Script" \in made \/ failedAt = "Script"
    /\ "Script" \in made => failedAt # "Script"
    /\ "LogManager" \in made <=> "Root" \in made \/ (failedAt = "Root" /\ outcome = "throws")
    /\ "Root" \in made => ~(failedAt = "Root" /\ outcome = "throws")
    /\ \A p \in {"Log", "Window", "SceneManager", "OverlaySystem"} : p \in made => "Root" \in made
    /\ "Input" \in made => "SDL" \in made
    /\ pc = "catch" => "LogManager" \in made
    /\ grips \subseteq made
    /\ live \subseteq handles

\* What ~BaseApplication went past is gone.
TakenApart ==
    pc = "deleting" =>
        /\ stage <= Len(Deletions) + 1
        /\ stage > 1 => grips = {}
        /\ stage > 2 => "Sound" \notin made
        /\ stage > 3 => "Input" \notin made
        /\ stage > 4 => "Script" \notin made
        /\ stage > 5 => "Physics" \notin made
        /\ stage > 6 => "OverlaySystem" \notin made
        /\ stage > 7 => "Root" \notin made
        /\ stage > 9 => "SDL" \notin made /\ opened = {}

LifeInv == TypeOK /\ MadeInOrder /\ KeptTogether /\ TakenApart /\ AllReturned

\* The machine and the user keep to all of the contract.
Promised == {"soundDevice", "deviceManager", "padsFirst", "fewPads", "onePad"} \subseteq Contract

\* The manager is there, and nobody has closed a pad yet.
PadsInUse == pc \in {"initialize", "scripts", "run", "update", "catch", "destroy"}
                \/ (pc = "deleting" /\ stage <= 3)

\* Then what the axes and ~InputManager take from mJoy is open, and what ~Oculus
\* uses too late is all that is.
PointersGood ==
    /\ OnlyOculusOutlives
    /\ Len(attached) <= JoySlots
    /\ PadsInUse => \A i \in Joy!Slots : mJoy[i] \in opened \cup {NULL, Stray}
    /\ Len(attached) > 0 => \A i \in Joy!Slots : mJoy[i] # Stray
    /\ pc \in {"catch", "destroy", "deleting"} /\ "Input" \in made => Len(attached) < 2
    /\ pc = "initialize" /\ stage > 13 => "m_stereoConfig" \in handles
    /\ pc = "deleting" /\ stage > 8 => handles \subseteq {"m_sensor"}

-----------------------------------------------------------------------------
(***************************************************************************)
(* Tables: the sequences and the CASEs of Lifecycle, spelled out.          *)
(***************************************************************************)
LEMMA StageTable ==
    /\ StageOf("SDL") = 1 /\ StageOf("Root") = 2 /\ StageOf("LogManager") = 2
    /\ StageOf("Log") = 3 /\ StageOf("Window") = 4 /\ StageOf("SceneManager") = 5
    /\ StageOf("OverlaySystem") = 8 /\ StageOf("Physics") = 9 /\ StageOf("Sound") = 10
    /\ StageOf("Input") = 11 /\ StageOf("Script") = 12 /\ StageOf("lua") = 12
  BY DEF StageOf

LEMMA StagesTable ==
    /\ Len(Stages) = 15
    /\ Stages[1] = "SDL" /\ Stages[2] = "Root" /\ Stages[3] = "Log" /\ Stages[4] = "Window"
    /\ Stages[5] = "SceneManager" /\ Stages[6] = "Resources" /\ Stages[7] = "Viewports"
    /\ Stages[8] = "GUI" /\ Stages[9] = "Physics" /\ Stages[10] = "Sound" /\ Stages[11] = "Input"
    /\ Stages[12] = "Script" /\ Stages[13] = "Oculus" /\ Stages[14] = "Display"
    /\ Stages[15] = "Objects"
    /\ \A k \in 1 .. 15 : Stages[k] \in ToSet(Stages)
  BY DEF Stages, ToSet

LEMMA DeletionsTable ==
    /\ Len(Deletions) = 9
    /\ Deletions[1] = "objects" /\ Deletions[2] = "Sound" /\ Deletions[3] = "Input"
    /\ Deletions[4] = "Script" /\ Deletions[5] = "Physics" /\ Deletions[6] = "OverlaySystem"
    /\ Deletions[7] = "Root" /\ Deletions[8] = "oculus" /\ Deletions[9] = "SDL"
  BY DEF Deletions

LEMMA StageAt ==
    ASSUME stage \in 1 .. 15
    PROVE  /\ Stages[stage] = "Sound" <=> stage = 10
           /\ Stages[stage] = "Input" <=> stage = 11
           /\ Stages[stage] = "Script" <=> stage = 12
           /\ Stages[stage] = "Oculus" <=> stage = 13
           /\ Stages[stage] = "Display" <=> stage = 14
           /\ Stages[stage] = "Objects" <=> stage = 15
           /\ Stages[stage] = "Root" <=> stage = 2
           /\ Stages[stage] \in ToSet(Stages)
  BY StagesTable

LEMMA EndingsTable ==
    /\ Endings("SDL") = {Ending("continues", {"SDL"}), Ending("code", {})}
    /\ Endings("Root") = {Ending("continues", {"Root", "LogManager"}),
                          Ending("code", {"Root", "LogManager"}), Ending("throws", {"LogManager"})}
    /\ Endings("Log") = {Ending("continues", {"Log"})}
    /\ Endings("Window") = {Ending("continues", {"Window"}), Ending("code", {}),
                            Ending("code", {"Window"}), Ending("throws", {})}
    /\ Endings("SceneManager") = {Ending("continues", {"SceneManager"}), Ending("throws", {})}
    /\ Endings("Resources") = {Ending("continues", {}), Ending("throws", {})}
    /\ Endings("GUI") = {Ending("continues", {"OverlaySystem"}), Ending("throws", {"OverlaySystem"})}
    /\ Endings("Viewports") = {Ending("continues", {})}
    /\ Endings("Physics") = {Ending("continues", {"Physics"})}
    /\ \A s \in {"Sound", "Input", "Script", "Oculus", "Display", "Objects"} : Endings(s) = {}
<1> HIDE DEF Ending
<1> QED BY DEF Endings

\* What stage k may make, and what it makes when initialize goes on.
Fits(e, k) ==
    /\ k <= 9
    /\ e.how \in {"continues", "code", "throws"}
    /\ \A p \in e.parts : p \in Parts /\ StageOf(p) = k
    /\ e.how = "continues" => \A p \in Parts : StageOf(p) = k => p \in e.parts
    /\ k = 2 /\ e.how = "code" => "Root" \in e.parts /\ "LogManager" \in e.parts
    /\ k = 2 /\ e.how = "throws" => e.parts = {"LogManager"}
    /\ e.how = "throws" => k > 1

\* The parts each stage makes.
LEMMA PartsOfStage ==
    /\ {p \in Parts : StageOf(p) = 1} = {"SDL"}
    /\ {p \in Parts : StageOf(p) = 2} = {"Root", "LogManager"}
    /\ {p \in Parts : StageOf(p) = 3} = {"Log"}
    /\ {p \in Parts : StageOf(p) = 4} = {"Window"}
    /\ {p \in Parts : StageOf(p) = 5} = {"SceneManager"}
    /\ {p \in Parts : StageOf(p) = 6} = {}
    /\ {p \in Parts : StageOf(p) = 7} = {}
    /\ {p \in Parts : StageOf(p) = 8} = {"OverlaySystem"}
    /\ {p \in Parts : StageOf(p) = 9} = {"Physics"}
<1>1. Parts = {"SDL", "Root", "LogManager", "Log", "Window", "SceneManager", "OverlaySystem",
               "Physics", "Sound", "Input", "Script", "lua"}
  BY DEF Parts
<1>2. {p \in Parts : StageOf(p) = 1} = {"SDL"}
  BY <1>1, StageTable
<1>3. {p \in Parts : StageOf(p) = 2} = {"Root", "LogManager"}
  BY <1>1, StageTable
<1>4. {p \in Parts : StageOf(p) = 3} = {"Log"}
  BY <1>1, StageTable
<1>5. {p \in Parts : StageOf(p) = 4} = {"Window"}
  BY <1>1, StageTable
<1>6. {p \in Parts : StageOf(p) = 5} = {"SceneManager"}
  BY <1>1, StageTable
<1>7. {p \in Parts : StageOf(p) = 6} = {}
  BY <1>1, StageTable
<1>8. {p \in Parts : StageOf(p) = 7} = {}
  BY <1>1, StageTable
<1>9. {p \in Parts : StageOf(p) = 8} = {"OverlaySystem"}
  BY <1>1, StageTable
<1>10. {p \in Parts : StageOf(p) = 9} = {"Physics"}
  BY <1>1, StageTable
<1> QED BY <1>2, <1>3, <1>4, <1>5, <1>6, <1>7, <1>8, <1>9, <1>10

LEMMA EndingsFit ==
    ASSUME stage \in 1 .. 15, NEW e \in Endings(Stages[stage])
    PROVE  Fits(e, stage)
<1>1. CASE stage = 1
  <2>1. e \in Endings("SDL")
    BY <1>1, StagesTable
  <2>2. \/ e.how = "continues" /\ e.parts = {"SDL"}
        \/ e.how = "code" /\ e.parts = {}
    BY <2>1, EndingsTable DEF Ending
  <2>3. {p \in Parts : StageOf(p) = 1} = {"SDL"}
    BY PartsOfStage
  <2> QED BY <1>1, <2>2, <2>3 DEF Fits
<1>2. CASE stage = 2
  <2>1. e \in Endings("Root")
    BY <1>2, StagesTable
  <2>2. \/ e.how = "continues" /\ e.parts = {"Root", "LogManager"}
        \/ e.how = "code" /\ e.parts = {"Root", "LogManager"}
        \/ e.how = "throws" /\ e.parts = {"LogManager"}
    BY <2>1, EndingsTable DEF Ending
  <2>3. {p \in Parts : StageOf(p) = 2} = {"Root", "LogManager"}
    BY PartsOfStage
  <2> QED BY <1>2, <2>2, <2>3 DEF Fits
<1>3. CASE stage = 3
  <2>1. e \in Endings("Log")
    BY <1>3, StagesTable
  <2>2. \/ e.how = "continues" /\ e.parts = {"Log"}
    BY <2>1, EndingsTable DEF Ending
  <2>3. {p \in Parts : StageOf(p) = 3} = {"Log"}
    BY PartsOfStage
  <2> QED BY <1>3, <2>2, <2>3 DEF Fits
<1>4. CASE stage = 4
  <2>1. e \in Endings("Window")
    BY <1>4, StagesTable
  <2>2. \/ e.how = "continues" /\ e.parts = {"Window"}
        \/ e.how = "code" /\ e.parts = {}
        \/ e.how = "code" /\ e.parts = {"Window"}
        \/ e.how = "throws" /\ e.parts = {}
    BY <2>1, EndingsTable DEF Ending
  <2>3. {p \in Parts : StageOf(p) = 4} = {"Window"}
    BY PartsOfStage
  <2> QED BY <1>4, <2>2, <2>3 DEF Fits
<1>5. CASE stage = 5
  <2>1. e \in Endings("SceneManager")
    BY <1>5, StagesTable
  <2>2. \/ e.how = "continues" /\ e.parts = {"SceneManager"}
        \/ e.how = "throws" /\ e.parts = {}
    BY <2>1, EndingsTable DEF Ending
  <2>3. {p \in Parts : StageOf(p) = 5} = {"SceneManager"}
    BY PartsOfStage
  <2> QED BY <1>5, <2>2, <2>3 DEF Fits
<1>6. CASE stage = 6
  <2>1. e \in Endings("Resources")
    BY <1>6, StagesTable
  <2>2. \/ e.how = "continues" /\ e.parts = {}
        \/ e.how = "throws" /\ e.parts = {}
    BY <2>1, EndingsTable DEF Ending
  <2>3. {p \in Parts : StageOf(p) = 6} = {}
    BY PartsOfStage
  <2> QED BY <1>6, <2>2, <2>3 DEF Fits
<1>7. CASE stage = 7
  <2>1. e \in Endings("Viewports")
    BY <1>7, StagesTable
  <2>2. \/ e.how = "continues" /\ e.parts = {}
    BY <2>1, EndingsTable DEF Ending
  <2>3. {p \in Parts : StageOf(p) = 7} = {}
    BY PartsOfStage
  <2> QED BY <1>7, <2>2, <2>3 DEF Fits
<1>8. CASE stage = 8
  <2>1. e \in Endings("GUI")
    BY <1>8, StagesTable
  <2>2. \/ e.how = "continues" /\ e.parts = {"OverlaySystem"}
        \/ e.how = "throws" /\ e.parts = {"OverlaySystem"}
    BY <2>1, EndingsTable DEF Ending
  <2>3. {p \in Parts : StageOf(p) = 8} = {"OverlaySystem"}
    BY PartsOfStage
  <2> QED BY <1>8, <2>2, <2>3 DEF Fits
<1>9. CASE stage = 9
  <2>1. e \in Endings("Physics")
    BY <1>9, StagesTable
  <2>2. \/ e.how = "continues" /\ e.parts = {"Physics"}
    BY <2>1, EndingsTable DEF Ending
  <2>3. {p \in Parts : StageOf(p) = 9} = {"Physics"}
    BY PartsOfStage
  <2> QED BY <1>9, <2>2, <2>3 DEF Fits
<1>10. CASE stage \in 10 .. 15
  <2>1. Stages[stage] \in {"Sound", "Input", "Script", "Oculus", "Display", "Objects"}
    BY <1>10, StagesTable
  <2> QED BY <2>1, EndingsTable
<1> QED BY <1>1, <1>2, <1>3, <1>4, <1>5, <1>6, <1>7, <1>8, <1>9, <1>10

-----------------------------------------------------------------------------
(***************************************************************************)
(* Every step keeps LifeInv, whatever the contract.                        *)
(***************************************************************************)
LEMMA InitLife == Init => LifeInv
<1> SUFFICES ASSUME Init PROVE LifeInv
  OBVIOUS
<1>1. TypeOK
  <2>1. Joy!JoyTypeOK
    BY JoyInitType DEF Init
  <2>2. stage \in 1 .. Len(Stages)
    BY StagesTable DEF Init
  <2> QED BY <2>1, <2>2 DEF Init, TypeOK
<1>2. MadeInOrder
  <2>1. \A p \in Parts : StageOf(p) \in 1 .. 12
    BY StageTable DEF Parts
  <2> QED BY <2>1 DEF Init, MadeInOrder
<1> QED BY <1>1, <1>2 DEF Init, LifeInv, KeptTogether, TakenApart, AllReturned

\* A crash leaves everything where it was.
LEMMA CrashLife ==
    ASSUME LifeInv, NEW missing, Crash(missing)
    PROVE  LifeInv'
<1>1. UNCHANGED <<attached, opened, mJoy, stick, minus, plus, mouse, stage, outcome, failedAt,
                  made, grips, system, handles, live, display>> /\ pc' = "crashed"
  BY DEF Crash, joyVars, mainVars, ovrVars
<1>2. TypeOK'
  BY <1>1 DEF LifeInv, TypeOK, Joy!JoyTypeOK
<1>3. KeptTogether'
  BY <1>1 DEF LifeInv, KeptTogether
<1> QED BY <1>1, <1>2, <1>3 DEF LifeInv, MadeInOrder, Building, TakenApart, AllReturned

LEMMA StutterLife ==
    ASSUME LifeInv, UNCHANGED vars
    PROVE  LifeInv'
<1>1. UNCHANGED <<attached, opened, mJoy, stick, minus, plus, mouse, pc, stage, outcome, failedAt,
                  made, grips, system, handles, live, display>>
  BY DEF vars, joyVars, mainVars, ovrVars
<1>2. TypeOK'
  BY <1>1 DEF LifeInv, TypeOK, Joy!JoyTypeOK
<1>3. MadeInOrder' /\ KeptTogether'
  BY <1>1 DEF LifeInv, MadeInOrder, Building, KeptTogether
<1>4. TakenApart' /\ AllReturned'
  BY <1>1 DEF LifeInv, TakenApart, AllReturned, LeftBehind
<1> QED BY <1>2, <1>3, <1>4 DEF LifeInv

\* Where a part stands among the others while nothing failed.
LEMMA Built ==
    ASSUME LifeInv, pc = "initialize"
    PROVE  /\ stage \in 1 .. 15
           /\ failedAt = "none" /\ outcome = "none"
           /\ \A p \in Parts : p \in made <=> StageOf(p) < stage
  BY StagesTable DEF LifeInv, TypeOK, MadeInOrder, Building

\* A stage of initialize goes on, returns a code or throws, whatever it has made.
LEMMA StageLife ==
    ASSUME LifeInv, initializeStage
    PROVE  LifeInv'
<1>1. PICK e \in Endings(Stages[stage]) :
        IF Lacking(Needs(Stages[stage])) # {} THEN Crash(Lacking(Needs(Stages[stage])))
        ELSE /\ made' = made \cup e.parts
             /\ IF e.how = "continues" THEN GoOn ELSE EndsWith(e.how, Stages[stage]) /\ UNCHANGED stage
             /\ UNCHANGED <<joyVars, grips, ovrVars, faults>>
  BY DEF initializeStage
<1>2. CASE Lacking(Needs(Stages[stage])) # {}
  BY <1>1, <1>2, CrashLife
<1>3. CASE Lacking(Needs(Stages[stage])) = {}
  <2> USE DEF LifeInv
  <2>1. pc = "initialize"
    BY DEF initializeStage
  <2>2. /\ stage \in 1 .. 15
        /\ failedAt = "none" /\ outcome = "none"
        /\ \A p \in Parts : p \in made <=> StageOf(p) < stage
    BY <2>1, Built
  <2>3. Fits(e, stage)
    BY <2>2, EndingsFit
  <2>4. made' = made \cup e.parts
        /\ UNCHANGED <<attached, opened, mJoy, stick, minus, plus, mouse, grips, system, handles, live, display>>
    BY <1>1, <1>3 DEF joyVars, ovrVars
  <2>5. \/ pc' = "initialize" /\ stage' = stage + 1 /\ outcome' = outcome /\ failedAt' = failedAt
           /\ e.how = "continues"
        \/ pc' = "catch" /\ stage' = stage /\ outcome' = "throws" /\ failedAt' = Stages[stage]
           /\ e.how = "throws"
        \/ pc' = "destroy" /\ stage' = stage /\ outcome' = "code" /\ failedAt' = Stages[stage]
           /\ e.how = "code"
    BY <1>1, <1>3, <2>1, <2>3 DEF GoOn, EndsWith, mainVars, Fits
  <2>6. \A p \in Parts : p \in made' <=> StageOf(p) < stage \/ p \in e.parts
    BY <2>2, <2>4
  <2>7. \A p \in Parts : p \in e.parts => StageOf(p) = stage
    BY <2>3 DEF Fits
  <2>8. TypeOK'
    <3>1. made' \subseteq Parts
      BY <2>3, <2>4 DEF TypeOK, Fits
    <3>2. stage' \in 1 .. Len(Stages)
      BY <2>2, <2>3, <2>5, StagesTable DEF Fits
    <3>3. failedAt' \in ToSet(Stages) \cup {"none", "run"}
      BY <2>2, <2>5, StageAt
    <3> QED BY <2>4, <2>5, <3>1, <3>2, <3>3 DEF TypeOK, Joy!JoyTypeOK
  <2>9. MadeInOrder'
    <3>1. CASE pc' = "initialize"
      <4>1. \A p \in Parts : p \in made' <=> StageOf(p) < stage + 1
        <5>1. \A p \in Parts : StageOf(p) \in Int
          BY StageTable DEF Parts
        <5> QED BY <2>2, <2>3, <2>5, <2>6, <2>7, <3>1, <5>1 DEF Fits
      <4>2. made' = {p \in Parts : StageOf(p) < stage'}
        BY <2>5, <2>8, <3>1, <4>1 DEF TypeOK
      <4> QED BY <2>2, <2>5, <3>1, <4>2 DEF MadeInOrder
    <3>2. CASE pc' # "initialize"
      BY <2>5, <3>2 DEF MadeInOrder, Building
    <3> QED BY <3>1, <3>2
  <2>10. KeptTogether'
    <3>1. {"lua", "Script", "LogManager", "Root", "Log", "Window", "SceneManager", "OverlaySystem",
           "Input", "SDL"} \subseteq Parts
      BY DEF Parts
    <3>2. "lua" \notin made' /\ "Script" \notin made' /\ "Input" \notin made' /\ failedAt' # "Script"
      BY <2>2, <2>3, <2>5, <2>6, <2>7, <3>1, StageTable, StageAt DEF Fits
    <3>3. CASE stage = 1
      <4>1. \A p \in {"LogManager", "Root", "Log", "Window", "SceneManager", "OverlaySystem"} : p \notin made'
        BY <2>6, <2>7, <3>1, <3>3, StageTable
      <4>2. failedAt' # "Root" /\ pc' # "catch"
        BY <2>2, <2>3, <2>5, <3>3, StageAt DEF Fits
      <4> QED BY <2>4, <3>2, <4>1, <4>2 DEF KeptTogether
    <3>4. CASE stage = 2
      <4>1. \A p \in {"Log", "Window", "SceneManager", "OverlaySystem"} : p \notin made'
        BY <2>6, <2>7, <3>1, <3>4, StageTable
      <4>2. "LogManager" \in made' /\ ("Root" \in made' <=> e.how # "throws")
        BY <2>3, <2>6, <3>1, <3>4, StageTable DEF Fits
      <4>3. failedAt' = "Root" /\ outcome' = "throws" <=> e.how = "throws"
        BY <2>2, <2>5, StageAt, <3>4
      <4> QED BY <2>4, <3>2, <4>1, <4>2, <4>3 DEF KeptTogether
    <3>5. CASE stage > 2
      <4>1. "LogManager" \in made' /\ "Root" \in made'
        BY <2>6, <3>1, <3>5, StageTable
      <4>2. failedAt' # "Root"
        BY <2>2, <2>5, <3>5, StageAt
      <4> QED BY <2>4, <3>2, <4>1, <4>2 DEF KeptTogether
    <3> QED BY <2>2, <3>3, <3>4, <3>5
  <2> QED BY <2>5, <2>8, <2>9, <2>10 DEF TakenApart, AllReturned
<1> QED BY <1>2, <1>3

LEMMA OpenKeepsTypes ==
    ASSUME Joy!JoyTypeOK, Joy!openJoysticks
    PROVE  Joy!JoyTypeOK'
<1>1. UNCHANGED <<attached, stick, minus, plus, mouse>>
  BY DEF Joy!openJoysticks, Joy!valueVars
<1>2. \A p \in Joy!ToSet(attached) : p \in Pads
  BY DEF Joy!ToSet, Joy!JoyTypeOK
<1>3. CASE Joy!SDL_NumJoysticks = 0
  BY <1>1, <1>3 DEF Joy!openJoysticks, Joy!JoyTypeOK, Joy!Slots
<1>4. CASE Joy!SDL_NumJoysticks # 0
  <2>1. opened' \subseteq Pads
    BY <1>2, <1>4 DEF Joy!openJoysticks
  <2>2. mJoy' = [i \in Joy!Slots |->
                   IF i < Joy!SDL_NumJoysticks /\ attached[i + 1] \in opened'
                   THEN attached[i + 1] ELSE NULL]
    BY <1>4 DEF Joy!openJoysticks
  <2>3. mJoy' \in [0 .. JoySlots - 1 -> Pads \cup {NULL, Stray}]
    BY <2>1, <2>2 DEF Joy!Slots
  <2> QED BY <1>1, <2>1, <2>3 DEF Joy!JoyTypeOK
<1> QED BY <1>3, <1>4

\* Two stages make one part each, in a step of their own.
LEMMA NextPartLife ==
    ASSUME LifeInv, NEW part \in {"Sound", "Input"}, pc = "initialize", Stages[stage] = part,
           made' = made \cup {part}, GoOn, UNCHANGED <<grips, ovrVars>>, Joy!JoyTypeOK'
    PROVE  LifeInv'
<1>1. /\ stage \in 1 .. 15
      /\ failedAt = "none" /\ outcome = "none"
      /\ \A p \in Parts : p \in made <=> StageOf(p) < stage
  BY Built
<1>2. stage \in {10, 11} /\ StageOf(part) = stage
  BY <1>1, StageAt, StageTable
<1>3. pc' = "initialize" /\ stage' = stage + 1
      /\ UNCHANGED <<outcome, failedAt, grips, system, handles, live, display>>
  BY DEF GoOn, mainVars, ovrVars
<1>4. made' = {p \in Parts : StageOf(p) < stage'}
  <2>1. part \in Parts /\ made \subseteq Parts
    BY DEF Parts, LifeInv, TypeOK
  <2>2. \A p \in Parts : StageOf(p) \in Int /\ (StageOf(p) = stage => p = part)
    BY <1>2, StageTable DEF Parts
  <2>3. \A p \in Parts : p \in made' <=> StageOf(p) < stage'
    BY <1>1, <1>2, <1>3, <2>2
  <2> QED BY <2>1, <2>3
<1>5. TypeOK'
  <2>1. stage' \in 1 .. Len(Stages)
    BY <1>2, <1>3, StagesTable
  <2> QED BY <1>3, <1>4, <2>1 DEF LifeInv, TypeOK
<1>6. MadeInOrder'
  BY <1>1, <1>3, <1>4 DEF MadeInOrder
<1>7. KeptTogether'
  <2>1. {"lua", "Script", "LogManager", "Root", "SDL"} \subseteq Parts
    BY DEF Parts
  <2>2. "lua" \notin made' /\ "Script" \notin made'
    BY <1>2, <1>3, <1>4, <2>1, StageTable
  <2>3. "LogManager" \in made' /\ "Root" \in made' /\ "SDL" \in made'
    BY <1>2, <1>3, <1>4, <2>1, StageTable
  <2> QED BY <1>1, <1>3, <2>2, <2>3 DEF LifeInv, KeptTogether
<1> QED BY <1>3, <1>5, <1>6, <1>7 DEF LifeInv, TakenApart, AllReturned

\* The managers whose constructors need more than the parts before them.
LEMMA SoundLife ==
    ASSUME LifeInv, initializeSoundManager
    PROVE  LifeInv'
<1>1. CASE \E missing : Crash(missing)
  BY <1>1, CrashLife
<1>2. CASE ~ \E missing : Crash(missing)
  <2>1. pc = "initialize" /\ Stages[stage] = "Sound"
    BY DEF initializeSoundManager, At
  <2>2. made' = made \cup {"Sound"} /\ GoOn /\ UNCHANGED <<joyVars, grips, ovrVars, faults>>
    BY <1>2 DEF initializeSoundManager
  <2>3. Joy!JoyTypeOK'
    BY <2>2 DEF LifeInv, TypeOK, Joy!JoyTypeOK, joyVars
  <2> QED BY <2>1, <2>2, <2>3, NextPartLife
<1> QED BY <1>1, <1>2

LEMMA InputLife ==
    ASSUME LifeInv, initializeInputManager
    PROVE  LifeInv'
<1>1. CASE \E missing : Crash(missing)
  BY <1>1, CrashLife
<1>2. CASE ~ \E missing : Crash(missing)
  <2>1. pc = "initialize" /\ Stages[stage] = "Input"
    BY DEF initializeInputManager, At
  <2>2. made' = made \cup {"Input"} /\ GoOn /\ UNCHANGED <<grips, ovrVars>> /\ Joy!openJoysticks
    BY <1>2 DEF initializeInputManager
  <2>3. Joy!JoyTypeOK'
    BY <2>2, OpenKeepsTypes DEF LifeInv, TypeOK
  <2> QED BY <2>1, <2>2, <2>3, NextPartLife
<1> QED BY <1>1, <1>2

LEMMA ScriptLife ==
    ASSUME LifeInv, initializeScriptManager
    PROVE  LifeInv'
<1>1. CASE \E missing : Crash(missing)
  BY <1>1, CrashLife
<1>2. CASE ~ \E missing : Crash(missing)
  <2>1. pc = "initialize" /\ Stages[stage] = "Script"
    BY DEF initializeScriptManager, At
  <2>2. /\ made' = made \cup {"Script", "lua"} /\ pc' = "scripts"
        /\ UNCHANGED <<joyVars, stage, mainVars, grips, ovrVars, faults>>
    BY <1>2 DEF initializeScriptManager
  <2>3. /\ stage = 12
        /\ failedAt = "none" /\ outcome = "none"
        /\ \A p \in Parts : p \in made <=> StageOf(p) < 12
    BY <2>1, Built, StageAt
  <2>4. UNCHANGED <<attached, opened, mJoy, stick, minus, plus, mouse, stage, outcome, failedAt,
                    grips, system, handles, live, display>>
    BY <2>2 DEF joyVars, mainVars, ovrVars
  <2>5. made' = Parts
    <3>1. \A p \in Parts : StageOf(p) < 12 \/ p \in {"Script", "lua"}
      BY StageTable DEF Parts
    <3>2. "Script" \in Parts /\ "lua" \in Parts /\ made \subseteq Parts
      BY DEF Parts, LifeInv, TypeOK
    <3> QED BY <2>2, <2>3, <3>1, <3>2
  <2>6. TypeOK'
    BY <2>2, <2>4, <2>5 DEF LifeInv, TypeOK, Joy!JoyTypeOK
  <2>7. MadeInOrder'
    BY <2>2, <2>3, <2>4, <2>5 DEF MadeInOrder
  <2>8. KeptTogether'
    BY <2>2, <2>3, <2>4, <2>5 DEF LifeInv, KeptTogether, Parts
  <2> QED BY <2>2, <2>6, <2>7, <2>8 DEF LifeInv, TakenApart, AllReturned
<1> QED BY <1>1, <1>2

LEMMA UpToElements ==
    ASSUME NEW S, NEW seq \in Seq(S), NEW k \in 0 .. Len(seq)
    PROVE  UpTo(seq, k) = {seq[i] : i \in 1 .. k}
<1>1. DOMAIN SubSeq(seq, 1, k) = 1 .. k
  OBVIOUS
<1>2. \A i \in 1 .. k : SubSeq(seq, 1, k)[i] = seq[i]
  OBVIOUS
<1> QED BY <1>1, <1>2 DEF UpTo, ToSet

\* What setupOculus and setupOgre may set.
LEMMA HandlesTable ==
    /\ \A k \in {0, 2, 3, 5} : UpTo(Handles, k) \subseteq ToSet(Handles)
    /\ \A k \in {2, 3, 5} : "m_stereoConfig" \in UpTo(Handles, k)
    /\ \A k \in {0, 2, 4} : UpTo(Display, k) \subseteq ToSet(Display)
<1>1. Len(Handles) = 5 /\ Handles \in Seq({"m_deviceManager", "m_stereoConfig", "m_hmd", "m_sensor",
                                           "m_sensorFusion"})
  BY DEF Handles
<1>2. Len(Display) = 4 /\ Display \in Seq({"m_cameraNode", "m_cameras", "m_viewports", "m_compositors"})
  BY DEF Display
<1>3. Handles[2] = "m_stereoConfig"
  BY DEF Handles
<1>4. \A k \in 0 .. 5 : UpTo(Handles, k) = {Handles[i] : i \in 1 .. k}
  BY <1>1, UpToElements
<1>5. \A k \in 0 .. 4 : UpTo(Display, k) = {Display[i] : i \in 1 .. k}
  BY <1>2, UpToElements
<1>6. DOMAIN Handles = 1 .. 5 /\ DOMAIN Display = 1 .. 4
  BY <1>1, <1>2
<1>7. \A k \in {0, 2, 3, 5} : UpTo(Handles, k) \subseteq ToSet(Handles)
  BY <1>4, <1>6 DEF ToSet
<1>8. \A k \in {2, 3, 5} : "m_stereoConfig" \in UpTo(Handles, k)
  BY <1>3, <1>4
<1>9. \A k \in {0, 2, 4} : UpTo(Display, k) \subseteq ToSet(Display)
  BY <1>5, <1>6 DEF ToSet
<1> QED BY <1>7, <1>8, <1>9

\* A step that makes and ends no part and leaves the pads alone, before main takes
\* the application apart, keeps the invariant if what it changes keeps its type.
LEMMA QuietLife ==
    ASSUME LifeInv, UNCHANGED <<joyVars, made, failedAt, outcome>>,
           pc' \in {"scripts", "run", "update", "initialize"}, pc \in {"scripts", "run", "update", "initialize"},
           pc' = "initialize" => made = {p \in Parts : StageOf(p) < stage'},
           pc' # "initialize" => made = Parts,
           pc' = "scripts" => stage' = 12,
           stage' \in 1 .. Len(Stages),
           grips' \subseteq made, grips' \subseteq {"SceneManager", "Sound", "Physics"},
           system' \in BOOLEAN, live' \subseteq handles', handles' \subseteq ToSet(Handles),
           display' \subseteq ToSet(Display)
    PROVE  LifeInv'
<1>1. UNCHANGED <<attached, opened, mJoy, stick, minus, plus, mouse>>
  BY DEF joyVars
<1>2. TypeOK'
  BY <1>1 DEF LifeInv, TypeOK, Joy!JoyTypeOK
<1>3. MadeInOrder'
  BY DEF LifeInv, MadeInOrder, Building
<1>4. KeptTogether'
  BY DEF LifeInv, KeptTogether
<1> QED BY <1>2, <1>3, <1>4 DEF LifeInv, TakenApart, AllReturned

LEMMA ObjectLife ==
    ASSUME LifeInv, NEW kind \in {"object", "sounding", "body"}, newGameObject(kind)
    PROVE  LifeInv'
<1>1. CASE \E missing : Crash(missing)
  BY <1>1, CrashLife
<1>2. CASE ~ \E missing : Crash(missing)
  <2>1. /\ Scripting
        /\ Lacking({"Script", "Log"} \cup HeldBy(kind)) = {}
        /\ grips' = grips \cup HeldBy(kind)
        /\ UNCHANGED <<joyVars, pc, stage, mainVars, made, ovrVars, faults>>
    BY <1>2 DEF newGameObject
  <2>2. HeldBy(kind) \subseteq made /\ HeldBy(kind) \subseteq {"SceneManager", "Sound", "Physics"}
    BY <2>1 DEF Lacking, HeldBy
  <2>3. made = Parts /\ (pc = "scripts" => stage = 12) /\ grips \subseteq made
    BY <2>1 DEF LifeInv, MadeInOrder, Building, Scripting, KeptTogether
  <2> QED BY <2>1, <2>2, <2>3, QuietLife DEF LifeInv, TypeOK, KeptTogether, Scripting, mainVars, ovrVars
<1> QED BY <1>1, <1>2

LEMMA OtherScriptLife ==
    ASSUME LifeInv, destroyObjects \/ useInput \/ scriptsDone
    PROVE  LifeInv'
<1>1. CASE \E missing : Crash(missing)
  BY <1>1, CrashLife
<1>2. CASE destroyObjects
  <2>1. made = Parts /\ (pc = "scripts" => stage = 12) /\ grips \subseteq made
    BY <1>2 DEF LifeInv, MadeInOrder, Building, Scripting, KeptTogether, destroyObjects
  <2> QED BY <1>2, <2>1, QuietLife
      DEF LifeInv, TypeOK, KeptTogether, Scripting, mainVars, ovrVars, destroyObjects
<1>3. CASE useInput /\ ~ \E missing : Crash(missing)
  <2>1. UNCHANGED vars
    BY <1>3 DEF useInput
  <2> QED BY <2>1, StutterLife
<1>4. CASE scriptsDone
  <2>1. made = Parts /\ stage = 12 /\ stage' = 13 /\ pc' = "initialize"
    BY <1>4 DEF LifeInv, MadeInOrder, Building, scriptsDone, GoOn
  <2>2. made = {p \in Parts : StageOf(p) < stage'}
    BY <2>1, StageTable DEF Parts
  <2>3. stage' \in 1 .. Len(Stages)
    BY <2>1, StagesTable
  <2> QED BY <1>4, <2>1, <2>2, <2>3, QuietLife
      DEF LifeInv, TypeOK, KeptTogether, mainVars, ovrVars, scriptsDone, GoOn
<1> QED BY <1>1, <1>2, <1>3, <1>4

LEMMA ThrowLife ==
    ASSUME LifeInv, scriptThrows
    PROVE  LifeInv'
<1>1. /\ pc \in {"scripts", "run", "update"} /\ made = Parts
      /\ failedAt = "none"
    BY DEF LifeInv, MadeInOrder, Building, Scripting, scriptThrows
<1>2. /\ outcome' = "throws" /\ pc' = "catch"
      /\ failedAt' = IF pc = "scripts" THEN "Script" ELSE "run"
      /\ made' = IF pc = "scripts" THEN made \ {"Script"} ELSE made
  BY DEF scriptThrows, EndsWith
<1>3. UNCHANGED <<attached, opened, mJoy, stick, minus, plus, mouse, stage,
                  grips, system, handles, live, display>>
  BY DEF joyVars, ovrVars, scriptThrows
<1>4. TypeOK'
  <2>1. "Script" \in ToSet(Stages)
    BY StagesTable
  <2> QED BY <1>1, <1>2, <1>3, <2>1 DEF LifeInv, TypeOK, Joy!JoyTypeOK
<1>5. KeptTogether'
  <2>1. "lua" \in made' /\ "LogManager" \in made' /\ "Root" \in made' /\ "SDL" \in made'
    BY <1>1, <1>2 DEF Parts
  <2>2. grips' \subseteq made'
    BY <1>1, <1>2, <1>3 DEF LifeInv, TypeOK, Parts
  <2>3. "Script" \in made' <=> failedAt' # "Script"
    BY <1>1, <1>2 DEF Parts
  <2>4. failedAt' # "Root"
    BY <1>2
  <2> QED BY <1>3, <2>1, <2>2, <2>3, <2>4 DEF LifeInv, KeptTogether
<1> QED BY <1>2, <1>4, <1>5 DEF LifeInv, MadeInOrder, Building, TakenApart, AllReturned

\* An exception once the scripts are done, or the end of run.
LEMMA EndLife ==
    ASSUME LifeInv, pc \in {"initialize", "run", "update"}, "LogManager" \in made,
           NEW how \in {"throws", "quit"}, NEW at \in {"Display", "Objects", "run"}, EndsWith(how, at),
           UNCHANGED <<joyVars, stage, made, system, handles, live>>,
           grips' \subseteq made, grips' \subseteq {"SceneManager", "Sound", "Physics"},
           display' \subseteq ToSet(Display)
    PROVE  LifeInv'
<1>1. UNCHANGED <<attached, opened, mJoy, stick, minus, plus, mouse>>
  BY DEF joyVars
<1>2. outcome' = how /\ failedAt' = at /\ pc' \in {"catch", "destroy"}
  BY DEF EndsWith
<1>3. failedAt = "none" /\ outcome = "none"
  BY DEF LifeInv, MadeInOrder, Building
<1>4. TypeOK'
  <2>1. at \in ToSet(Stages) \cup {"run"}
    <3>1. 14 \in 1 .. 15 /\ 15 \in 1 .. 15
      OBVIOUS
    <3> QED BY <3>1, StagesTable
  <2> QED BY <1>1, <1>2, <2>1 DEF LifeInv, TypeOK, Joy!JoyTypeOK
<1>5. KeptTogether'
  BY <1>2, <1>3 DEF LifeInv, KeptTogether
<1> QED BY <1>2, <1>4, <1>5 DEF LifeInv, MadeInOrder, Building, TakenApart, AllReturned

LEMMA OculusLife ==
    ASSUME LifeInv, setupOculus
    PROVE  LifeInv'
<1>1. CASE \E missing : Crash(missing)
  BY <1>1, CrashLife
<1>2. CASE ~ \E missing : Crash(missing)
  <2>1. pc = "initialize" /\ Stages[stage] = "Oculus"
    BY DEF setupOculus, At
  <2>2. /\ \E k \in {0, 2, 3, 5} : handles' = UpTo(Handles, k) /\ live' = UpTo(Handles, k)
        /\ system' = TRUE /\ GoOn
        /\ UNCHANGED <<joyVars, made, grips, display, faults>>
    BY <1>2 DEF setupOculus
  <2>3. stage = 13 /\ stage' = 14 /\ pc' = "initialize"
    BY <2>1, <2>2, Built, StageAt DEF GoOn
  <2>4. made = {p \in Parts : StageOf(p) < stage'} /\ stage' \in 1 .. Len(Stages)
    <3>1. \A p \in Parts : StageOf(p) < 13 /\ StageOf(p) < 14
      BY StageTable DEF Parts
    <3>2. made = Parts
      BY <2>1, <2>3, <3>1, Built DEF LifeInv, TypeOK
    <3>3. made = {p \in Parts : StageOf(p) < stage'}
      BY <2>3, <3>1, <3>2
    <3> QED BY <2>3, <3>3, StagesTable
  <2>5. live' \subseteq handles' /\ handles' \subseteq ToSet(Handles)
    BY <2>2, HandlesTable
  <2> QED BY <2>1, <2>2, <2>3, <2>4, <2>5, QuietLife DEF LifeInv, TypeOK, KeptTogether, GoOn, mainVars
<1> QED BY <1>1, <1>2

LEMMA DisplayLife ==
    ASSUME LifeInv, setupOgre
    PROVE  LifeInv'
<1>1. CASE \E missing : Crash(missing)
  BY <1>1, CrashLife
<1>2. CASE ~ \E missing : Crash(missing)
  <2>1. pc = "initialize" /\ Stages[stage] = "Display"
    BY DEF setupOgre, At
  <2>2. PICK k \in {0, 2, 4} :
          /\ display' = UpTo(Display, k)
          /\ IF k = 4 THEN GoOn ELSE EndsWith("throws", "Display") /\ UNCHANGED stage
          /\ UNCHANGED <<joyVars, made, grips, system, handles, live, faults>>
    BY <1>2 DEF setupOgre
  <2>3. stage = 14
    BY <2>1, Built, StageAt
  <2>4. made = Parts /\ \A p \in Parts : StageOf(p) < 13
    <3>1. \A p \in Parts : StageOf(p) < 13
      BY StageTable DEF Parts
    <3>2. \A p \in Parts : p \in made <=> StageOf(p) < 14
      BY <2>1, <2>3, Built
    <3>3. \A p \in Parts : StageOf(p) < 14
      BY StageTable DEF Parts
    <3> QED BY <3>1, <3>2, <3>3 DEF LifeInv, TypeOK
  <2>5. display' \subseteq ToSet(Display)
    BY <2>2, HandlesTable
  <2>6. CASE k = 4
    <3>1. pc' = "initialize" /\ stage' = 15 /\ UNCHANGED <<outcome, failedAt>>
      BY <2>2, <2>3, <2>6 DEF GoOn, mainVars
    <3>2. \A p \in Parts : StageOf(p) < 15
      BY StageTable DEF Parts
    <3>3. made = {p \in Parts : StageOf(p) < stage'}
      BY <2>4, <3>1, <3>2
    <3>4. stage' \in 1 .. Len(Stages)
      BY <3>1, StagesTable
    <3> QED BY <2>1, <2>2, <2>5, <3>1, <3>3, <3>4, QuietLife DEF LifeInv, TypeOK, KeptTogether
  <2>7. CASE k # 4
    <3>1. "LogManager" \in made
      BY <2>4 DEF Parts
    <3> QED BY <2>1, <2>2, <2>5, <2>7, <3>1, EndLife DEF LifeInv, TypeOK, KeptTogether
  <2> QED BY <2>6, <2>7
<1> QED BY <1>1, <1>2

LEMMA SceneLife ==
    ASSUME LifeInv, createScene
    PROVE  LifeInv'
<1>1. CASE \E missing : Crash(missing)
  BY <1>1, CrashLife
<1>2. CASE ~ \E missing : Crash(missing)
  <2>1. pc = "initialize" /\ Stages[stage] = "Objects"
    BY DEF createScene, At
  <2>2. UNCHANGED <<joyVars, stage, made, system, handles, live, display>>
    BY <1>2 DEF createScene, ovrVars
  <2>3. \/ grips' = grips \cup {"SceneManager", "Physics"} /\ pc' = "run" /\ UNCHANGED mainVars
        \/ /\ \E held \in {{}, {"SceneManager"}, {"SceneManager", "Physics"}} : grips' = grips \cup held
           /\ EndsWith("throws", "Objects")
    BY <1>2 DEF createScene
  <2>4. made = Parts
    <3>1. \A p \in Parts : StageOf(p) < 15
      BY StageTable DEF Parts
    <3>2. stage = 15
      BY <2>1, Built, StageAt
    <3> QED BY <2>1, <3>1, <3>2, Built DEF LifeInv, TypeOK
  <2>5. "LogManager" \in made /\ grips' \subseteq made /\ grips' \subseteq {"SceneManager", "Sound", "Physics"}
    BY <2>3, <2>4 DEF LifeInv, TypeOK, KeptTogether, Parts
  <2>6. CASE pc' = "run" /\ UNCHANGED mainVars
    BY <2>2, <2>1, <2>4, <2>5, <2>6, QuietLife DEF LifeInv, TypeOK, KeptTogether, mainVars
  <2>7. CASE EndsWith("throws", "Objects")
    BY <2>2, <2>1, <2>5, <2>7, EndLife DEF LifeInv, TypeOK
  <2> QED BY <2>3, <2>6, <2>7
<1> QED BY <1>1, <1>2

LEMMA FrameLife ==
    ASSUME LifeInv, pollInput \/ updateFrame
    PROVE  LifeInv'
<1>1. CASE \E missing : Crash(missing)
  BY <1>1, CrashLife
<1>2. CASE updateFrame /\ ~ \E missing : Crash(missing)
  <2>1. /\ pc = "update"
        /\ (pc' = "run" /\ UNCHANGED mainVars) \/ EndsWith("quit", "run")
        /\ UNCHANGED <<joyVars, stage, made, grips, system, handles, live, display>>
    BY <1>2 DEF updateFrame, ovrVars
  <2>2. made = Parts /\ "LogManager" \in made /\ grips \subseteq made
    BY <2>1 DEF LifeInv, MadeInOrder, Building, Parts, KeptTogether
  <2>3. CASE pc' = "run" /\ UNCHANGED mainVars
    BY <2>1, <2>2, <2>3, QuietLife DEF LifeInv, TypeOK, KeptTogether, mainVars
  <2>4. CASE EndsWith("quit", "run")
    BY <2>1, <2>2, <2>4, EndLife DEF LifeInv, TypeOK
  <2> QED BY <2>1, <2>3, <2>4
<1>3. CASE pollInput /\ ~ \E missing : Crash(missing)
  <2>1. /\ pc = "run" /\ pc' = "update"
        /\ Joy!pump \/ UNCHANGED joyVars
        /\ UNCHANGED <<stage, outcome, failedAt, made, grips, system, handles, live, display>>
    BY <1>3 DEF pollInput, mainVars, ovrVars
  <2>2. Joy!JoyTypeOK'
    <3>1. CASE Joy!pump
      BY <3>1, PumpKeepsTypes DEF LifeInv, TypeOK
    <3>2. CASE UNCHANGED joyVars
      BY <3>2 DEF LifeInv, TypeOK, Joy!JoyTypeOK, joyVars
    <3> QED BY <2>1, <3>1, <3>2
  <2>3. TypeOK'
    BY <2>1, <2>2 DEF LifeInv, TypeOK
  <2>4. MadeInOrder' /\ KeptTogether'
    BY <2>1 DEF LifeInv, MadeInOrder, Building, KeptTogether
  <2> QED BY <2>1, <2>3, <2>4 DEF LifeInv, TakenApart, AllReturned
<1> QED BY <1>1, <1>2, <1>3

LEMMA DeletionAt ==
    ASSUME stage \in 1 .. 9
    PROVE  /\ Deletions[stage] = "objects" <=> stage = 1
           /\ Deletions[stage] = "Sound" <=> stage = 2
           /\ Deletions[stage] = "Input" <=> stage = 3
           /\ Deletions[stage] = "Script" <=> stage = 4
           /\ Deletions[stage] = "Physics" <=> stage = 5
           /\ Deletions[stage] = "OverlaySystem" <=> stage = 6
           /\ Deletions[stage] = "Root" <=> stage = 7
           /\ Deletions[stage] = "oculus" <=> stage = 8
           /\ Deletions[stage] = "SDL" <=> stage = 9
  BY DeletionsTable

LEMMA WarnLife ==
    ASSUME LifeInv, catchException \/ startDestroying
    PROVE  LifeInv'
<1>1. CASE \E missing : Crash(missing)
  BY <1>1, CrashLife
<1>2. CASE ~ \E missing : Crash(missing)
  <2>1. \/ pc' = "destroy" /\ stage' = stage
        \/ pc' = "deleting" /\ stage' = 1
    BY <1>2 DEF catchException, startDestroying
  <2>2. UNCHANGED <<attached, opened, mJoy, stick, minus, plus, mouse, outcome, failedAt,
                    made, grips, system, handles, live, display>>
    BY <1>2 DEF catchException, startDestroying, joyVars, mainVars, ovrVars
  <2>3. TypeOK'
    <3>1. stage' \in 1 .. Len(Stages)
      BY <2>1, StagesTable DEF LifeInv, TypeOK
    <3> QED BY <2>1, <2>2, <3>1 DEF LifeInv, TypeOK, Joy!JoyTypeOK
  <2>4. KeptTogether'
    BY <2>1, <2>2 DEF LifeInv, KeptTogether
  <2>5. TakenApart'
    BY <2>1, DeletionsTable DEF TakenApart
  <2> QED BY <2>1, <2>3, <2>4, <2>5 DEF LifeInv, MadeInOrder, Building, AllReturned
<1> QED BY <1>1, <1>2

\* A deletion that leaves the pads' and the display's types and keeps together what
\* belongs together goes on to the next one.
LEMMA NextDeletionLife ==
    ASSUME LifeInv, pc = "deleting", stage \in 1 .. 9, NextDeletion, Joy!JoyTypeOK',
           UNCHANGED <<outcome, failedAt, display>>, made' \subseteq made, grips' \subseteq grips,
           system' \in BOOLEAN, live' \subseteq handles', handles' \subseteq handles,
           KeptTogether', TakenApart'
    PROVE  LifeInv'
<1>1. pc' = "deleting" /\ stage' = stage + 1
  BY DEF NextDeletion
<1>2. TypeOK'
  <2>1. stage' \in 1 .. Len(Stages)
    BY <1>1, StagesTable
  <2> QED BY <1>1, <2>1 DEF LifeInv, TypeOK, KeptTogether
<1> QED BY <1>1, <1>2 DEF LifeInv, MadeInOrder, Building, AllReturned

LEMMA ObjectsGoLife ==
    ASSUME LifeInv, deleteObjects
    PROVE  LifeInv'
<1>1. CASE \E missing : Crash(missing)
  BY <1>1, CrashLife
<1>2. CASE ~ \E missing : Crash(missing)
  <2>1. pc = "deleting" /\ stage <= 9 /\ Deletions[stage] = "objects"
    BY DeletionsTable DEF deleteObjects, Deleting
  <2>2. grips' = {} /\ NextDeletion /\ UNCHANGED <<joyVars, mainVars, made, ovrVars, faults>>
    BY <1>2 DEF deleteObjects
  <2>3. stage = 1 /\ stage' = 2 /\ pc' = "deleting"
    BY <2>1, <2>2, DeletionAt DEF NextDeletion, LifeInv, TypeOK
  <2>4. UNCHANGED <<attached, opened, mJoy, stick, minus, plus, mouse, outcome, failedAt, made,
                    system, handles, live, display>>
    BY <2>2 DEF joyVars, mainVars, ovrVars
  <2>5. KeptTogether'
    BY <2>2, <2>3, <2>4 DEF LifeInv, KeptTogether
  <2>6. TakenApart'
    BY <2>2, <2>3, DeletionsTable DEF TakenApart
  <2>7. Joy!JoyTypeOK'
    BY <2>4 DEF LifeInv, TypeOK, Joy!JoyTypeOK
  <2> QED BY <2>1, <2>2, <2>3, <2>4, <2>5, <2>6, <2>7, NextDeletionLife DEF LifeInv, TypeOK, KeptTogether
<1> QED BY <1>1, <1>2

LEMMA PartGoesLife ==
    ASSUME LifeInv, deletePart
    PROVE  LifeInv'
<1> DEFINE p == Deletions[stage]
<1>1. pc = "deleting" /\ stage \in 1 .. 9
  BY DeletionsTable DEF deletePart, LifeInv, TypeOK
<1>2. p \in {"Sound", "Script", "Physics", "OverlaySystem", "Root"}
  BY DEF deletePart
<1>3. NextDeletion
  BY DEF deletePart
<1>4. made' = IF p \in made THEN made \ GoesWith(p) ELSE made
  BY DEF deletePart
<1>5. UNCHANGED <<attached, opened, mJoy, stick, minus, plus, mouse, outcome, failedAt, grips,
                  system, handles, live, display>>
  BY DEF deletePart, joyVars, mainVars, ovrVars
<1>6. pc' = "deleting" /\ stage' = stage + 1
  BY <1>3 DEF NextDeletion
<1>7. /\ p = "Sound" <=> stage = 2
      /\ p = "Script" <=> stage = 4
      /\ p = "Physics" <=> stage = 5
      /\ p = "OverlaySystem" <=> stage = 6
      /\ p = "Root" <=> stage = 7
  BY <1>1, DeletionAt
<1>8. grips = {} /\ stage > 1
  BY <1>1, <1>2, <1>7 DEF LifeInv, TakenApart
<1> HIDE DEF p
<1>9. KeptTogether'
  <2>1. CASE p \notin made
    BY <1>1, <1>4, <1>5, <1>6, <2>1 DEF LifeInv, KeptTogether
  <2>2. CASE p \in {"Sound", "Physics", "OverlaySystem"}
    <3>1. GoesWith(p) = {p}
      BY <2>2 DEF GoesWith
    <3> QED BY <1>4, <1>5, <1>6, <1>8, <2>2, <3>1 DEF LifeInv, KeptTogether
  <2>3. CASE p = "Script" /\ p \in made
    <3>1. GoesWith(p) = {"Script", "lua"}
      BY <2>3 DEF GoesWith
    <3> QED BY <1>4, <1>5, <1>6, <1>8, <2>3, <3>1 DEF LifeInv, KeptTogether
  <2>4. CASE p = "Root" /\ p \in made
    <3>1. GoesWith(p) = {"Root", "LogManager", "Log", "Window", "SceneManager"}
      BY <2>4 DEF GoesWith
    <3>2. "OverlaySystem" \notin made
      BY <1>1, <1>7, <2>4 DEF LifeInv, TakenApart
    <3> QED BY <1>4, <1>5, <1>6, <1>8, <2>4, <3>1, <3>2 DEF LifeInv, KeptTogether
  <2> QED BY <1>2, <2>1, <2>2, <2>3, <2>4
<1>10. TakenApart'
  <2>1. p \notin made' /\ made' \subseteq made
    BY <1>2, <1>4 DEF GoesWith
  <2> QED BY <1>1, <1>2, <1>5, <1>6, <1>7, <1>8, <2>1, DeletionsTable DEF LifeInv, TakenApart
<1>11. Joy!JoyTypeOK' /\ made' \subseteq made
  BY <1>4, <1>5 DEF LifeInv, TypeOK, Joy!JoyTypeOK
<1> QED BY <1>1, <1>3, <1>5, <1>9, <1>10, <1>11, NextDeletionLife DEF LifeInv, TypeOK, KeptTogether

LEMMA InputGoesLife ==
    ASSUME LifeInv, deleteInput
    PROVE  LifeInv'
<1>1. CASE \E missing : Crash(missing)
  BY <1>1, CrashLife
<1>2. CASE ~ \E missing : Crash(missing)
  <2>1. pc = "deleting" /\ stage \in 1 .. 9 /\ Deletions[stage] = "Input"
    BY DeletionsTable DEF deleteInput, Deleting, LifeInv, TypeOK
  <2>2. /\ NextDeletion
        /\ made' = made \ {"Input"}
        /\ UNCHANGED <<joyVars>> \/ Joy!closeJoysticks
        /\ UNCHANGED <<outcome, failedAt, grips, system, handles, live, display>>
    <3>1. "Input" \notin made => made \ {"Input"} = made
      OBVIOUS
    <3> QED BY <1>2, <3>1 DEF deleteInput, mainVars, ovrVars
  <2>3. stage = 3 /\ stage' = 4 /\ pc' = "deleting" /\ grips = {}
    BY <2>1, <2>2, DeletionAt DEF NextDeletion, LifeInv, TakenApart
  <2>4. Joy!JoyTypeOK'
    <3>1. CASE UNCHANGED <<joyVars>>
      BY <3>1 DEF LifeInv, TypeOK, Joy!JoyTypeOK, joyVars
    <3>2. CASE Joy!closeJoysticks
      BY <3>2 DEF LifeInv, TypeOK, Joy!JoyTypeOK, Joy!closeJoysticks, Joy!valueVars
    <3> QED BY <2>2, <3>1, <3>2
  <2>5. KeptTogether'
    BY <2>2, <2>3 DEF LifeInv, KeptTogether
  <2>6. TakenApart'
    BY <2>1, <2>2, <2>3, DeletionsTable DEF LifeInv, TakenApart
  <2> QED BY <2>1, <2>2, <2>4, <2>5, <2>6, NextDeletionLife DEF LifeInv, TypeOK, KeptTogether
<1> QED BY <1>1, <1>2

LEMMA OculusGoesLife ==
    ASSUME LifeInv, firstShutDownOculus
    PROVE  LifeInv'
<1>1. pc = "deleting" /\ stage \in 1 .. 9 /\ Deletions[stage] = "oculus"
  BY DeletionsTable DEF firstShutDownOculus, Deleting, LifeInv, TypeOK
<1>2. /\ NextDeletion /\ system' = FALSE /\ live' = live \ handles /\ handles' = handles \cap {"m_sensor"}
      /\ UNCHANGED <<attached, opened, mJoy, stick, minus, plus, mouse, outcome, failedAt, made, grips, display>>
  BY DEF firstShutDownOculus, shutDownOculus, Released, HandlesAfter, joyVars, mainVars
<1>3. stage = 8 /\ stage' = 9 /\ pc' = "deleting" /\ grips = {}
  BY <1>1, <1>2, DeletionAt DEF NextDeletion, LifeInv, TakenApart
<1>4. Joy!JoyTypeOK'
  BY <1>2 DEF LifeInv, TypeOK, Joy!JoyTypeOK
<1>5. live' = {} /\ handles' \subseteq handles
  BY <1>2 DEF LifeInv, KeptTogether
<1>6. KeptTogether'
  BY <1>2, <1>3, <1>5 DEF LifeInv, KeptTogether
<1>7. TakenApart'
  BY <1>1, <1>2, <1>3, DeletionsTable DEF LifeInv, TakenApart
<1> QED BY <1>1, <1>2, <1>4, <1>5, <1>6, <1>7, NextDeletionLife

LEMMA SDLGoesLife ==
    ASSUME LifeInv, quitSDL
    PROVE  LifeInv'
<1>1. pc = "deleting" /\ stage \in 1 .. 9 /\ Deletions[stage] = "SDL"
  BY DeletionsTable DEF quitSDL, Deleting, LifeInv, TypeOK
<1>2. /\ NextDeletion /\ made' = made \ {"SDL"} /\ opened' = {}
      /\ UNCHANGED <<attached, mJoy, stick, minus, plus, mouse, outcome, failedAt, grips,
                     system, handles, live, display>>
  BY DEF quitSDL, Joy!quitJoysticks, Joy!valueVars, mainVars, ovrVars
<1>3. stage = 9 /\ stage' = 10 /\ pc' = "deleting" /\ grips = {} /\ "Input" \notin made
  BY <1>1, <1>2, DeletionAt DEF NextDeletion, LifeInv, TakenApart
<1>4. Joy!JoyTypeOK'
  BY <1>2 DEF LifeInv, TypeOK, Joy!JoyTypeOK
<1>5. KeptTogether'
  BY <1>2, <1>3 DEF LifeInv, KeptTogether
<1>6. TakenApart'
  BY <1>1, <1>2, <1>3, DeletionsTable DEF LifeInv, TakenApart
<1> QED BY <1>1, <1>2, <1>4, <1>5, <1>6, NextDeletionLife DEF LifeInv, TypeOK, KeptTogether

\* main returns: what is left is what LeftBehind says.
LEMMA ReturnLife ==
    ASSUME LifeInv, destroyOculus
    PROVE  LifeInv'
<1>1. /\ pc = "deleting" /\ stage > 9 /\ pc' \in {"returned", "crashed"}
      /\ display' = {} /\ system' = FALSE /\ live' = live \ handles /\ handles' = handles \cap {"m_sensor"}
      /\ UNCHANGED <<attached, opened, mJoy, stick, minus, plus, mouse, stage, outcome, failedAt, made, grips>>
  BY DeletionsTable
  DEF destroyOculus, shutDownOculus, Released, HandlesAfter, joyVars, mainVars
<1>2. /\ grips = {} /\ opened = {} /\ live' = {}
      /\ made \cap {"SDL", "Root", "OverlaySystem", "Physics", "Sound", "Input", "Script"} = {}
  BY <1>1, DeletionsTable DEF LifeInv, TypeOK, TakenApart, KeptTogether
<1>3. made \subseteq {"lua", "LogManager"}
  BY <1>2 DEF LifeInv, TypeOK, KeptTogether, Parts
<1>4. made = LeftBehind
  <2>1. "lua" \in made <=> failedAt = "Script"
    BY <1>2 DEF LifeInv, KeptTogether
  <2>2. "LogManager" \in made <=> failedAt = "Root" /\ outcome = "throws"
    BY <1>2 DEF LifeInv, KeptTogether
  <2>3. CASE failedAt = "Script"
    <3>1. made = {"lua"}
      BY <1>3, <2>1, <2>2, <2>3
    <3> QED BY <2>3, <3>1 DEF LeftBehind
  <2>4. CASE failedAt = "Root" /\ outcome = "throws"
    <3>1. made = {"LogManager"}
      BY <1>3, <2>1, <2>2, <2>4
    <3> QED BY <2>4, <3>1 DEF LeftBehind
  <2>5. CASE failedAt # "Script" /\ ~(failedAt = "Root" /\ outcome = "throws")
    <3>1. made = {}
      BY <1>3, <2>1, <2>2, <2>5
    <3> QED BY <2>5, <3>1 DEF LeftBehind
  <2> QED BY <2>3, <2>4, <2>5
<1>5. TypeOK'
  BY <1>1, <1>2 DEF LifeInv, TypeOK, Joy!JoyTypeOK
<1>6. KeptTogether'
  BY <1>1, <1>2 DEF LifeInv, KeptTogether
<1>7. AllReturned'
  BY <1>1, <1>2, <1>4 DEF AllReturned, LeftBehind
<1> QED BY <1>1, <1>5, <1>6, <1>7 DEF LifeInv, MadeInOrder, Building, TakenApart

LEMMA NextLife == LifeInv /\ [Next]_vars => LifeInv'
<1> SUFFICES ASSUME LifeInv, [Next]_vars PROVE LifeInv'
  OBVIOUS
<1>1. CASE initializeStage \/ initializeSoundManager \/ initializeInputManager \/ initializeScriptManager
  BY <1>1, StageLife, SoundLife, InputLife, ScriptLife
<1>2. CASE \/ scriptsDone \/ destroyObjects \/ useInput \/ scriptThrows
           \/ \E kind \in {"object", "sounding", "body"} : newGameObject(kind)
  BY <1>2, OtherScriptLife, ThrowLife, ObjectLife
<1>3. CASE setupOculus \/ setupOgre \/ createScene \/ pollInput \/ updateFrame
  BY <1>3, OculusLife, DisplayLife, SceneLife, FrameLife
<1>4. CASE catchException \/ startDestroying \/ deleteObjects \/ deletePart \/ deleteInput
  BY <1>4, WarnLife, ObjectsGoLife, PartGoesLife, InputGoesLife
<1>5. CASE firstShutDownOculus \/ quitSDL \/ destroyOculus
  BY <1>5, OculusGoesLife, SDLGoesLife, ReturnLife
<1>6. CASE ended \/ UNCHANGED vars
  BY <1>6, StutterLife DEF ended
<1> QED BY <1>1, <1>2, <1>3, <1>4, <1>5, <1>6 DEF Next

LEMMA SpecLife == Spec => []LifeInv
BY InitLife, NextLife, PTL DEF Spec

\* Every variable keeps its type, however initialize fails and whoever crashes.
THEOREM LifecycleTypeOK == Spec => []TypeOK
<1>1. LifeInv => TypeOK
  BY DEF LifeInv
<1> QED BY <1>1, SpecLife, PTL

\* When main returns nothing is left but a Lua state or a log manager whose owner's
\* constructor threw, whatever stage failed, and whoever keeps to whatever contract.
THEOREM LifecycleAllReturned == Spec => []AllReturned
<1>1. LifeInv => AllReturned
  BY DEF LifeInv
<1> QED BY <1>1, SpecLife, PTL

\* No axis leaves its range by more than the last step of a stick, and none leaves 0
\* but for what the user does, for every range of sticks and mouse.
THEOREM LifecycleAxesTrue == Spec => []AxesTrue
<1>1. LifeInv => AxesTrue
  BY AxesTrueOfTypes DEF LifeInv, TypeOK, AxesTrue
<1> QED BY <1>1, SpecLife, PTL

\* A stick that goes up takes no axis down, whatever keys and mouse say.
THEOREM LifecycleAxesFollowSticks == Spec => AxesFollowSticks
<1>1. LifeInv /\ LifeInv' => Joy!AxesFollowSticks
  <2> SUFFICES ASSUME LifeInv, LifeInv' PROVE Joy!AxesFollowSticks
    OBVIOUS
  <2>1. Joy!JoyTypeOK /\ Joy!JoyTypeOK'
    BY DEF LifeInv, TypeOK
  <2> QED BY <2>1, AxesFollow
<1>2. LifeInv /\ LifeInv' /\ [Next]_vars => [Joy!AxesFollowSticks]_vars
  BY <1>1
<1> QED BY <1>2, SpecLife, PTL DEF Spec, AxesFollowSticks

-----------------------------------------------------------------------------
(***************************************************************************)
(* Under the whole contract nothing crashes before ~Oculus.                *)
(***************************************************************************)
LEMMA NeedsTable ==
    /\ \A s \in {"SDL", "Root", "Viewports", "Physics"} : Needs(s) = {}
    /\ Needs("Log") = {"LogManager"}
    /\ Needs("Window") = {"Root", "SDL"}
    /\ Needs("SceneManager") = {"Root"} /\ Needs("Resources") = {"Root"}
    /\ Needs("GUI") = {"Root", "SceneManager"}
    /\ Needs("Sound") = {"Root", "Log"}
    /\ Needs("Input") = {"SDL", "Log"}
    /\ Needs("Script") = {"Root", "Log"}
    /\ Needs("Oculus") = {"LogManager"}
    /\ Needs("Display") = {"Root", "SceneManager", "Window"}
    /\ Needs("Objects") = {"SceneManager", "Window", "Log", "Physics", "Sound"}
  BY DEF Needs

\* Each stage of initialize uses what earlier ones have made.
LEMMA NothingLacking ==
    ASSUME LifeInv, pc = "initialize"
    PROVE  Lacking(Needs(Stages[stage])) = {}
<1>1. /\ stage \in 1 .. 15
      /\ \A p \in Parts : p \in made <=> StageOf(p) < stage
  BY Built
<1>2. {"SDL", "Root", "LogManager", "Log", "Window", "SceneManager", "Physics", "Sound"} \subseteq Parts
  BY DEF Parts
<1>3. CASE stage \in {1, 2, 7, 9}
  BY <1>3, StagesTable, NeedsTable DEF Lacking
<1>4. CASE stage \in {3, 4, 5, 6, 8}
  <2>1. stage > 2 => {"SDL", "Root", "LogManager"} \subseteq made
    BY <1>1, <1>2, StageTable
  <2>2. stage > 5 => "SceneManager" \in made
    BY <1>1, <1>2, StageTable
  <2> QED BY <1>4, <2>1, <2>2, StagesTable, NeedsTable DEF Lacking
<1>5. CASE stage \in 10 .. 15
  <2>1. {"SDL", "Root", "LogManager", "Log", "Window", "SceneManager"} \subseteq made
    BY <1>1, <1>2, <1>5, StageTable
  <2>2. stage = 15 => {"Physics", "Sound"} \subseteq made
    BY <1>1, <1>2, StageTable
  <2>3. Stages[stage] \in {"Sound", "Input", "Script", "Oculus", "Display"} \/ (stage = 15 /\ Stages[stage] = "Objects")
    BY <1>5, StagesTable
  <2> QED BY <2>1, <2>2, <2>3, NeedsTable DEF Lacking
<1> QED BY <1>1, <1>3, <1>4, <1>5

\* A step that leaves the pads alone.
LEMMA QuietGood ==
    ASSUME PointersGood, pc \notin {"returned", "crashed"}, faults' = {}, UNCHANGED joyVars,
           PadsInUse' => PadsInUse,
           pc' \in {"catch", "destroy", "deleting"} /\ "Input" \in made' => Len(attached) < 2,
           pc' = "initialize" /\ stage' > 13 => "m_stereoConfig" \in handles',
           pc' = "deleting" /\ stage' > 8 => handles' \subseteq {"m_sensor"}
    PROVE  PointersGood'
<1>1. UNCHANGED <<attached, opened, mJoy>>
  BY DEF joyVars
<1>2. OnlyOculusOutlives'
  BY DEF OnlyOculusOutlives
<1> QED BY <1>1, <1>2 DEF PointersGood, Joy!Slots

LEMMA NoFaults ==
    ASSUME PointersGood, pc \notin {"returned", "crashed"}
    PROVE  faults = {}
  BY DEF PointersGood, OnlyOculusOutlives

LEMMA NoStrayUsed ==
    ASSUME LifeInv, PointersGood, PadsInUse
    PROVE  ~Joy!UsesStray /\ ~Joy!OverrunsArray
<1>1. ~Joy!OverrunsArray
  <2>1. Len(attached) \in Nat /\ JoySlots \in Nat
    BY AboutConstants DEF LifeInv, TypeOK, Joy!JoyTypeOK
  <2> QED BY <2>1 DEF PointersGood, Joy!OverrunsArray, Joy!SDL_NumJoysticks
<1>2. ~Joy!UsesStray
  BY DEF PointersGood, Joy!UsesStray, Joy!SDL_NumJoysticks
<1> QED BY <1>1, <1>2

LEMMA InitGood ==
    ASSUME Promised, Init
    PROVE  PointersGood
<1>1. Len(attached) <= JoySlots
  <2>1. Joy!JoyTypeOK
    BY JoyInitType DEF Init
  <2>2. Len(attached) \in Nat /\ JoySlots \in Nat
    BY <2>1, AboutConstants DEF Joy!JoyTypeOK
  <2>3. ~Joy!OverrunsArray
    BY DEF Init, Promised
  <2> QED BY <2>2, <2>3 DEF Joy!OverrunsArray, Joy!SDL_NumJoysticks
<1>2. \A i \in Joy!Slots : mJoy[i] = NULL
  BY DEF Init, Joy!JoyInit
<1> QED BY <1>1, <1>2, AboutConstants DEF Init, PointersGood, OnlyOculusOutlives

LEMMA StageGood ==
    ASSUME Promised, LifeInv, PointersGood, initializeStage
    PROVE  PointersGood'
<1>1. pc = "initialize" /\ Lacking(Needs(Stages[stage])) = {}
  BY NothingLacking DEF initializeStage
<1>2. PICK e \in Endings(Stages[stage]) :
        /\ made' = made \cup e.parts
        /\ IF e.how = "continues" THEN GoOn ELSE EndsWith(e.how, Stages[stage]) /\ UNCHANGED stage
        /\ UNCHANGED <<joyVars, grips, ovrVars, faults>>
  BY <1>1 DEF initializeStage
<1>3. Fits(e, stage) /\ stage \in 1 .. 9
  <2>1. stage \in 1 .. 15
    BY <1>1, Built
  <2>2. Fits(e, stage)
    BY <2>1, EndingsFit
  <2> QED BY <2>1, <2>2 DEF Fits
<1>4. "Input" \notin made'
  <2>1. "Input" \in Parts
    BY DEF Parts
  <2> QED BY <1>1, <1>2, <1>3, <2>1, Built, StageTable DEF Fits
<1>5. \/ pc' = "initialize" /\ stage' = stage + 1
      \/ pc' \in {"catch", "destroy"}
  BY <1>2 DEF GoOn, EndsWith
<1> QED BY <1>1, <1>2, <1>3, <1>4, <1>5, QuietGood, NoFaults DEF PadsInUse

LEMMA SoundGood ==
    ASSUME Promised, LifeInv, PointersGood, initializeSoundManager
    PROVE  PointersGood'
<1>1. pc = "initialize" /\ Stages[stage] = "Sound"
  BY DEF initializeSoundManager, At
<1>2. Lacking(Needs("Sound")) = {}
  BY <1>1, NothingLacking
<1>3. GoOn /\ UNCHANGED <<joyVars, grips, ovrVars, faults>>
  BY <1>2 DEF initializeSoundManager, Promised
<1>4. stage = 10 /\ stage' = 11 /\ pc' = "initialize"
  BY <1>1, <1>3, Built, StageAt DEF GoOn
<1> QED BY <1>1, <1>3, <1>4, QuietGood, NoFaults DEF PadsInUse

LEMMA InputGood ==
    ASSUME Promised, LifeInv, PointersGood, initializeInputManager
    PROVE  PointersGood'
<1>1. pc = "initialize" /\ Stages[stage] = "Input"
  BY DEF initializeInputManager, At
<1>2. Lacking(Needs("Input")) = {} /\ ~Joy!OverrunsArray
  BY <1>1, NothingLacking, NoStrayUsed DEF PadsInUse
<1>3. Joy!openJoysticks /\ GoOn /\ UNCHANGED <<grips, ovrVars, faults>>
  BY <1>2 DEF initializeInputManager
<1>4. stage = 11 /\ stage' = 12 /\ pc' = "initialize"
  BY <1>1, <1>3, Built, StageAt DEF GoOn
<1>5. attached' = attached
  BY <1>3 DEF Joy!openJoysticks
<1>6. \A i \in Joy!Slots : mJoy'[i] \in opened' \cup {NULL, Stray}
  BY <1>3 DEF Joy!openJoysticks
<1>7. Len(attached) > 0 => \A i \in Joy!Slots : mJoy'[i] # Stray
  <2> SUFFICES ASSUME Len(attached) > 0, NEW i \in Joy!Slots PROVE mJoy'[i] # Stray
    OBVIOUS
  <2>1. Stray \notin opened'
    <3>1. opened' \subseteq Joy!ToSet(attached)
      BY <1>3 DEF Joy!openJoysticks, Joy!SDL_NumJoysticks
    <3>2. \A p \in Joy!ToSet(attached) : p \in Pads
      BY DEF Joy!ToSet, Joy!JoyTypeOK, LifeInv, TypeOK
    <3> QED BY <3>1, <3>2, AboutConstants
  <2> QED BY <1>3, <2>1, AboutConstants DEF Joy!openJoysticks, Joy!SDL_NumJoysticks
<1>8. OnlyOculusOutlives'
  BY <1>1, <1>3, NoFaults DEF OnlyOculusOutlives
<1> QED BY <1>4, <1>5, <1>6, <1>7, <1>8 DEF PointersGood, Joy!Slots

LEMMA ScriptGood ==
    ASSUME Promised, LifeInv, PointersGood, initializeScriptManager \/ scriptsDone
    PROVE  PointersGood'
<1>1. CASE initializeScriptManager
  <2>1. pc = "initialize" /\ Stages[stage] = "Script"
    BY <1>1 DEF initializeScriptManager, At
  <2>2. Lacking(Needs("Script")) = {}
    BY <2>1, NothingLacking
  <2> QED BY <1>1, <2>1, <2>2, QuietGood, NoFaults DEF PadsInUse, initializeScriptManager
<1>2. CASE scriptsDone
  <2>1. stage = 12 /\ stage' = 13 /\ pc' = "initialize" /\ pc = "scripts"
    BY <1>2 DEF scriptsDone, GoOn, LifeInv, MadeInOrder, Building
  <2> QED BY <1>2, <2>1, QuietGood, NoFaults DEF PadsInUse, scriptsDone
<1> QED BY <1>1, <1>2

LEMMA ScriptingGood ==
    ASSUME Promised, LifeInv, PointersGood,
           \/ destroyObjects \/ useInput \/ scriptThrows
           \/ \E kind \in {"object", "sounding", "body"} : newGameObject(kind)
    PROVE  PointersGood'
<1>1. /\ pc \in {"scripts", "run", "update"} /\ made = Parts
      /\ faults = {} /\ ~Joy!UsesStray
  <2>1. Scripting
    BY DEF destroyObjects, useInput, scriptThrows, newGameObject
  <2> QED BY <2>1, NoFaults, NoStrayUsed DEF Scripting, LifeInv, MadeInOrder, Building, PadsInUse
<1>2. CASE destroyObjects
  BY <1>1, <1>2, QuietGood DEF PadsInUse, destroyObjects
<1>3. CASE useInput
  <2>1. UNCHANGED vars
    BY <1>1, <1>3 DEF useInput, Lacking, Parts
  <2> QED BY <1>1, <2>1, QuietGood DEF PadsInUse, vars
<1>4. CASE scriptThrows
  <2>1. pc' = "catch" /\ Len(attached) < 2
    BY <1>4 DEF scriptThrows, EndsWith, MayEnd, Promised, Joy!SDL_NumJoysticks
  <2> QED BY <1>1, <1>4, <2>1, QuietGood DEF PadsInUse, scriptThrows
<1>5. ASSUME NEW kind \in {"object", "sounding", "body"}, newGameObject(kind) PROVE PointersGood'
  <2>1. Lacking({"Script", "Log"} \cup HeldBy(kind)) = {}
    BY <1>1 DEF Lacking, HeldBy, Parts
  <2> QED BY <1>1, <1>5, <2>1, QuietGood DEF PadsInUse, newGameObject
<1> QED BY <1>2, <1>3, <1>4, <1>5

LEMMA OculusGood ==
    ASSUME Promised, LifeInv, PointersGood, setupOculus \/ setupOgre
    PROVE  PointersGood'
<1>1. CASE setupOculus
  <2>1. pc = "initialize" /\ Stages[stage] = "Oculus"
    BY <1>1 DEF setupOculus, At
  <2>2. Lacking(Needs("Oculus")) = {}
    BY <2>1, NothingLacking
  <2>3. /\ \E k \in {2, 3, 5} : handles' = UpTo(Handles, k)
        /\ GoOn /\ UNCHANGED <<joyVars, made, grips, display, faults>>
    BY <1>1, <2>2 DEF setupOculus, Promised
  <2>4. "m_stereoConfig" \in handles'
    BY <2>3, HandlesTable
  <2>5. stage = 13 /\ stage' = 14 /\ pc' = "initialize"
    BY <2>1, <2>3, Built, StageAt DEF GoOn
  <2> QED BY <2>1, <2>3, <2>4, <2>5, QuietGood, NoFaults DEF PadsInUse
<1>2. CASE setupOgre
  <2>1. pc = "initialize" /\ Stages[stage] = "Display"
    BY <1>2 DEF setupOgre, At
  <2>2. Lacking(Needs("Display")) = {}
    BY <2>1, NothingLacking
  <2>3. stage = 14 /\ "m_stereoConfig" \in handles
    BY <2>1, Built, StageAt DEF PointersGood
  <2>4. /\ GoOn \/ EndsWith("throws", "Display")
        /\ UNCHANGED <<joyVars, made, grips, system, handles, live, faults>>
    BY <1>2, <2>2, <2>3 DEF setupOgre
  <2>5. \/ pc' = "initialize"
        \/ pc' = "catch" /\ Len(attached) < 2
    BY <2>4 DEF GoOn, EndsWith, MayEnd, Promised, Joy!SDL_NumJoysticks
  <2> QED BY <2>1, <2>3, <2>4, <2>5, QuietGood, NoFaults DEF PadsInUse
<1> QED BY <1>1, <1>2

LEMMA RunGood ==
    ASSUME Promised, LifeInv, PointersGood, createScene \/ updateFrame \/ catchException \/ startDestroying
    PROVE  PointersGood'
<1>1. CASE createScene
  <2>1. pc = "initialize" /\ Stages[stage] = "Objects"
    BY <1>1 DEF createScene, At
  <2>2. Lacking(Needs("Objects")) = {}
    BY <2>1, NothingLacking
  <2>3. /\ pc' = "run" \/ EndsWith("throws", "Objects")
        /\ UNCHANGED <<joyVars, stage, made, faults>>
    BY <1>1, <2>2 DEF createScene
  <2>4. \/ pc' = "run"
        \/ pc' = "catch" /\ Len(attached) < 2
    BY <2>3 DEF EndsWith, MayEnd, Promised, Joy!SDL_NumJoysticks
  <2> QED BY <2>1, <2>3, <2>4, QuietGood, NoFaults DEF PadsInUse
<1>2. CASE updateFrame
  <2>1. pc = "update" /\ ~Joy!UsesStray
    BY <1>2, NoStrayUsed DEF updateFrame, PadsInUse
  <2>2. /\ \/ pc' = "run"
           \/ pc' = "destroy" /\ Len(attached) < 2
        /\ UNCHANGED <<joyVars, stage, made, faults>>
    BY <1>2, <2>1 DEF updateFrame, EndsWith, MayEnd, Promised, Joy!SDL_NumJoysticks
  <2> QED BY <2>1, <2>2, QuietGood, NoFaults DEF PadsInUse
<1>3. CASE catchException
  <2>1. pc = "catch" /\ Lacking({"LogManager"}) = {}
    BY <1>3 DEF catchException, LifeInv, KeptTogether, Lacking
  <2>2. pc' = "destroy" /\ UNCHANGED <<joyVars, stage, made, faults>>
    BY <1>3, <2>1 DEF catchException
  <2> QED BY <2>1, <2>2, QuietGood, NoFaults DEF PadsInUse, PointersGood
<1>4. CASE startDestroying
  BY <1>4, QuietGood, NoFaults DEF PadsInUse, PointersGood, startDestroying
<1> QED BY <1>1, <1>2, <1>3, <1>4

LEMMA PollGood ==
    ASSUME Promised, LifeInv, PointersGood, pollInput
    PROVE  PointersGood'
<1>1. pc = "run" /\ Lacking(FrameNeeds) = {}
  BY DEF pollInput, LifeInv, MadeInOrder, Building, Lacking, FrameNeeds, Parts
<1>2. /\ Joy!pump \/ UNCHANGED joyVars
      /\ MayPump
      /\ pc' = "update"
      /\ UNCHANGED <<stage, mainVars, made, grips, ovrVars, faults>>
  BY <1>1 DEF pollInput
<1>3. UNCHANGED <<opened, mJoy>>
  <2>1. CASE Joy!pump
    BY <2>1 DEF Joy!pump, Joy!move, Joy!plug, Joy!unplug, Joy!padVars
  <2> QED BY <1>2, <2>1 DEF joyVars
<1>4. /\ Len(attached') <= JoySlots
      /\ Len(attached') > 0 => \A i \in Joy!Slots : mJoy'[i] # Stray
  BY <1>2, <1>3 DEF MayPump, Promised
<1>5. OnlyOculusOutlives'
  BY <1>1, <1>2, NoFaults DEF OnlyOculusOutlives
<1>6. \A i \in Joy!Slots : mJoy'[i] \in opened' \cup {NULL, Stray}
  BY <1>1, <1>3 DEF PointersGood, PadsInUse
<1> QED BY <1>2, <1>4, <1>5, <1>6 DEF PointersGood, Joy!Slots

LEMMA DeletionGood ==
    ASSUME Promised, LifeInv, PointersGood,
           deleteObjects \/ deletePart \/ firstShutDownOculus
    PROVE  PointersGood'
<1>1. pc = "deleting" /\ stage \in 1 .. 9 /\ faults = {}
  BY NoFaults, DeletionsTable
  DEF deleteObjects, deletePart, firstShutDownOculus, Deleting, LifeInv, TypeOK
<1>2. /\ NextDeletion /\ UNCHANGED joyVars /\ made' \subseteq made /\ faults' = {}
      /\ handles' \subseteq handles
      /\ Deletions[stage] = "oculus" => handles' \subseteq {"m_sensor"}
  <2>1. CASE deleteObjects
    <3>1. Lacking(grips) = {}
      BY DEF LifeInv, KeptTogether, Lacking
    <3> QED BY <1>1, <2>1, <3>1 DEF deleteObjects, Deleting, ovrVars
  <2>2. CASE deletePart
    <3>1. Deletions[stage] \in {"Sound", "Script", "Physics", "OverlaySystem", "Root"}
      BY <2>2 DEF deletePart
    <3>2. Deletions[stage] \in made => Lacking(DeletionNeeds(Deletions[stage])) = {}
      BY DEF LifeInv, KeptTogether, Lacking, DeletionNeeds
    <3> QED BY <1>1, <2>2, <3>1, <3>2 DEF deletePart, ovrVars
  <2>3. CASE firstShutDownOculus
    BY <1>1, <2>3 DEF firstShutDownOculus, shutDownOculus, HandlesAfter
  <2> QED BY <2>1, <2>2, <2>3
<1>3. pc' = "deleting" /\ stage' = stage + 1
  BY <1>2 DEF NextDeletion
<1>4. stage' > 8 => handles' \subseteq {"m_sensor"}
  BY <1>1, <1>2, <1>3, DeletionAt DEF PointersGood
<1> QED BY <1>1, <1>2, <1>3, <1>4, QuietGood DEF PadsInUse, PointersGood

LEMMA InputGoesGood ==
    ASSUME Promised, LifeInv, PointersGood, deleteInput
    PROVE  PointersGood'
<1>1. pc = "deleting" /\ stage = 3 /\ faults = {}
  BY NoFaults, DeletionAt, DeletionsTable DEF deleteInput, Deleting, LifeInv, TypeOK
<1>2. CASE "Input" \notin made
  BY <1>1, <1>2, QuietGood DEF deleteInput, NextDeletion, PadsInUse
<1>3. CASE "Input" \in made
  <2>1. Lacking({"SDL"}) = {}
    BY <1>3 DEF LifeInv, KeptTogether, Lacking
  <2>2. ~Joy!ClosesBad
    <3>1. Len(attached) < 2 /\ Len(attached) \in Nat
      BY <1>1, <1>3 DEF PointersGood, LifeInv, TypeOK, Joy!JoyTypeOK
    <3>2. ~Joy!UsesStray /\ ~Joy!OverrunsArray
      BY <1>1, NoStrayUsed DEF PadsInUse
    <3>3. \A i, j \in Joy!AttachedSlots : i = j
      <4>1. \A i \in Joy!AttachedSlots : i \in 0 .. JoySlots - 1 /\ i < Len(attached)
        BY DEF Joy!AttachedSlots, Joy!Slots, Joy!SDL_NumJoysticks
      <4> QED BY <3>1, <4>1
    <3> QED BY <3>1, <3>2, <3>3 DEF Joy!ClosesBad, Joy!SDL_NumJoysticks
  <2>3. Joy!closeJoysticks /\ NextDeletion /\ UNCHANGED <<mainVars, grips, ovrVars, faults>>
        /\ made' = made \ {"Input"}
    BY <1>3, <2>1, <2>2 DEF deleteInput
  <2>4. stage' = 4 /\ pc' = "deleting" /\ attached' = attached /\ mJoy' = mJoy
    BY <1>1, <2>3 DEF NextDeletion, Joy!closeJoysticks
  <2>5. OnlyOculusOutlives'
    BY <1>1, <2>3 DEF OnlyOculusOutlives
  <2> QED BY <2>3, <2>4, <2>5 DEF PointersGood, PadsInUse, Joy!Slots
<1> QED BY <1>2, <1>3

LEMMA LastGood ==
    ASSUME Promised, LifeInv, PointersGood, quitSDL \/ destroyOculus
    PROVE  PointersGood'
<1>1. CASE quitSDL
  <2>1. pc = "deleting" /\ stage = 9 /\ faults = {}
    BY <1>1, NoFaults, DeletionAt, DeletionsTable DEF quitSDL, Deleting, LifeInv, TypeOK
  <2>2. stage' = 10 /\ pc' = "deleting" /\ attached' = attached /\ mJoy' = mJoy
        /\ made' = made \ {"SDL"} /\ handles' = handles /\ faults' = faults
    BY <1>1, <2>1 DEF quitSDL, NextDeletion, Joy!quitJoysticks, ovrVars
  <2>3. OnlyOculusOutlives'
    BY <2>1, <2>2 DEF OnlyOculusOutlives
  <2>4. handles' \subseteq {"m_sensor"}
    BY <2>1, <2>2 DEF PointersGood
  <2>5. "Input" \in made' => Len(attached') < 2
    BY <2>1, <2>2 DEF PointersGood
  <2> QED BY <2>2, <2>3, <2>4, <2>5 DEF PointersGood, PadsInUse, Joy!Slots
<1>2. CASE destroyOculus
  <2>1. pc = "deleting" /\ stage > 9 /\ faults = {}
    BY <1>2, NoFaults, DeletionsTable DEF destroyOculus
  <2>2. /\ faults' = DisplayFaults \cup SensorFaults
        /\ pc' \in {"returned", "crashed"} /\ stage' = stage
        /\ UNCHANGED <<attached, opened, mJoy>>
    BY <1>2, <2>1 DEF destroyOculus, joyVars
  <2>3. DisplayFaults \cup SensorFaults \subseteq {"display", "m_sensor"}
    <3>1. stage > 8
      BY <2>1 DEF LifeInv, TypeOK
    <3>2. handles \subseteq {"m_sensor"}
      BY <2>1, <3>1 DEF PointersGood
    <3> QED BY <3>2 DEF DisplayFaults, SensorFaults
  <2>4. OnlyOculusOutlives'
    BY <2>1, <2>2, <2>3, DeletionsTable DEF OnlyOculusOutlives
  <2> QED BY <2>1, <2>2, <2>4 DEF PointersGood, PadsInUse, Joy!Slots
<1> QED BY <1>1, <1>2

LEMMA StutterGood ==
    ASSUME PointersGood, UNCHANGED vars
    PROVE  PointersGood'
<1>1. UNCHANGED <<attached, opened, mJoy, pc, stage, made, handles, faults>>
  BY DEF vars, joyVars, ovrVars
<1>2. OnlyOculusOutlives'
  BY <1>1 DEF PointersGood, OnlyOculusOutlives
<1> QED BY <1>1, <1>2 DEF PointersGood, PadsInUse, Joy!Slots

LEMMA NextGood == Promised /\ LifeInv /\ PointersGood /\ [Next]_vars => PointersGood'
<1> SUFFICES ASSUME Promised, LifeInv, PointersGood, [Next]_vars PROVE PointersGood'
  OBVIOUS
<1>1. CASE \/ initializeStage \/ initializeSoundManager \/ initializeInputManager
           \/ initializeScriptManager \/ scriptsDone
  BY <1>1, StageGood, SoundGood, InputGood, ScriptGood
<1>2. CASE \/ destroyObjects \/ useInput \/ scriptThrows
           \/ \E kind \in {"object", "sounding", "body"} : newGameObject(kind)
  BY <1>2, ScriptingGood
<1>3. CASE setupOculus \/ setupOgre \/ createScene \/ updateFrame \/ catchException \/ startDestroying
  BY <1>3, OculusGood, RunGood
<1>4. CASE pollInput \/ deleteObjects \/ deletePart \/ firstShutDownOculus
  BY <1>4, PollGood, DeletionGood
<1>5. CASE deleteInput \/ quitSDL \/ destroyOculus
  BY <1>5, InputGoesGood, LastGood
<1>6. CASE ended \/ UNCHANGED vars
  BY <1>6, StutterGood DEF ended
<1> QED BY <1>1, <1>2, <1>3, <1>4, <1>5, <1>6 DEF Next

\* As long as machine and user keep to the contract, whatever stage fails, whatever
\* scripts make and whichever pads come and go, nothing is used before it is made or
\* after its end, but for the display and the sensor in ~Oculus.
THEOREM LifecycleOnlyOculusOutlives ==
    ASSUME Promised
    PROVE  Spec => []OnlyOculusOutlives
<1>1. Init => PointersGood
  BY InitGood
<1>2. LifeInv /\ PointersGood /\ [Next]_vars => PointersGood'
  BY NextGood
<1>3. PointersGood => OnlyOculusOutlives
  BY DEF PointersGood
<1> QED BY <1>1, <1>2, <1>3, SpecLife, PTL DEF Spec
=============================================================================
