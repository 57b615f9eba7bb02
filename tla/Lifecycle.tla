----------------------------- MODULE Lifecycle -----------------------------
(***************************************************************************)
(* main: the application is built in stages, each of which may fail with a *)
(* code or an exception, runs, and is taken apart by ~BaseApplication and  *)
(* by the destructor of its member oculus.  Parts are what one of these    *)
(* makes; the code of a stage uses others, and a use of a part that is not *)
(* there is recorded in faults.                                            *)
(*                                                                         *)
(* The scripts run inside the constructor of ScriptManager and during run; *)
(* of the game objects only what they hold on to is kept.                  *)
(***************************************************************************)
EXTENDS Integers, Sequences, SequencesExt, FiniteSetsExt

CONSTANTS
    Pads, JoySlots, FullScale, Sticks, MouseOffsets, NULL, Stray,   \* of Joysticks
    Contract        \* what the machine and the user keep to (see below)

\* The managers and what Ogre and Lua make; "lua" is ScriptManager's mLuaState.
Parts == {"SDL", "Root", "LogManager", "Log", "Window", "SceneManager", "OverlaySystem",
          "Physics", "Sound", "Input", "Script", "lua"}

\* The pointers of Oculus, in the order in which setupOculus and setupOgre set them.
Handles == <<"m_deviceManager", "m_stereoConfig", "m_hmd", "m_sensor", "m_sensorFusion">>
Display == <<"m_cameraNode", "m_cameras", "m_viewports", "m_compositors">>

VARIABLES
    attached, opened, mJoy, stick, minus, plus, mouse,      \* of Joysticks
    pc,             \* where main stands
    stage,          \* of initialize, or of the destruction
    outcome,        \* of initialize and run, as main sees it
    failedAt,       \* the stage that did not end well
    made,           \* the parts that exist
    grips,          \* the parts that game objects hold on to
    system,         \* LibOVR's System is initialised
    handles, live,  \* Oculus's pointers to LibOVR that are not NULL; those still valid
    display,        \* Oculus's pointers to Ogre that are not NULL
    faults          \* what was used when it was not there

Joy == INSTANCE Joysticks

ASSUME LifecycleAssumption ==
    /\ Joy!JoyAssumption
    /\ Contract \subseteq {"soundDevice", "deviceManager", "padsFirst", "fewPads", "onePad"}

joyVars == <<attached, opened, mJoy, stick, minus, plus, mouse>>
mainVars == <<outcome, failedAt>>
ovrVars == <<system, handles, live, display>>
vars == <<joyVars, pc, stage, mainVars, made, grips, ovrVars, faults>>

Init ==
    /\ Joy!JoyInit
    /\ "fewPads" \in Contract => ~Joy!OverrunsArray
    /\ pc = "initialize" /\ stage = 1
    /\ outcome = "none" /\ failedAt = "none"
    /\ made = {} /\ grips = {}
    /\ system = FALSE /\ handles = {} /\ live = {} /\ display = {}
    /\ faults = {}

-----------------------------------------------------------------------------
(***************************************************************************)
(* Using what is not there: the program crashes, or goes on by luck where  *)
(* the code reads a freed block.                                           *)
(***************************************************************************)
Crash(missing) ==
    /\ faults' = faults \cup missing
    /\ pc' = "crashed"
    /\ UNCHANGED <<joyVars, stage, mainVars, made, grips, ovrVars>>

Lacking(needs) == needs \ made

(***************************************************************************)
(* What the machine and the user keep to:                                  *)
(*   "soundDevice"     irrKlang finds one                                  *)
(*   "deviceManager"   LibOVR makes one                                    *)
(*   "padsFirst"       the first pad is plugged in before the start        *)
(*   "fewPads"         there are never more pads than mJoy has elements    *)
(*   "onePad"          at most one is plugged in when the program ends     *)
(***************************************************************************)
MayEnd == "onePad" \in Contract => Joy!SDL_NumJoysticks < 2

\* An exception leaves initialize or run; a code leaves initialize.
EndsWith(how, at) ==
    /\ how = "throws" => MayEnd
    /\ outcome' = how
    /\ failedAt' = at
    /\ pc' = IF how = "throws" THEN "catch" ELSE "destroy"

-----------------------------------------------------------------------------
(***************************************************************************)
(* initialize.  What a stage needs, and how it may end: made so far, and   *)
(* whether it goes on, returns a code or throws.                           *)
(***************************************************************************)
Stages ==
    <<"SDL", "Root", "Log", "Window", "SceneManager", "Resources", "Viewports", "GUI",
      "Physics", "Sound", "Input", "Script", "Oculus", "Display", "Objects">>

Needs(s) ==
    CASE s \in {"SDL", "Root", "Viewports", "Physics"} -> {}
      [] s = "Log"                                     -> {"LogManager"}
      [] s = "Window"                                  -> {"Root", "SDL"}
      [] s \in {"SceneManager", "Resources"}           -> {"Root"}
      [] s = "GUI"                                     -> {"Root", "SceneManager"}
      [] s = "Sound"                                   -> {"Root", "Log"}
      [] s = "Input"                                   -> {"SDL", "Log"}
      [] s = "Script"                                  -> {"Root", "Log"}
      [] s = "Oculus"                                  -> {"LogManager"}
      [] s = "Display"                                 -> {"Root", "SceneManager", "Window"}
      [] s = "Objects"                                 -> {"SceneManager", "Window", "Log", "Physics", "Sound"}

Ending(how, parts) == [how |-> how, parts |-> parts]

Endings(s) ==
    CASE s = "SDL"  -> {Ending("continues", {"SDL"}), Ending("code", {})}
      [] s = "Root" -> {Ending("continues", {"Root", "LogManager"}),
                        Ending("code", {"Root", "LogManager"}),     \* the dialog was cancelled
                        Ending("throws", {"LogManager"})}           \* left by Ogre's constructor
      [] s = "Log"  -> {Ending("continues", {"Log"})}
      [] s = "Window" -> {Ending("continues", {"Window"}), Ending("code", {}),
                          Ending("code", {"Window"}), Ending("throws", {})}
      [] s = "SceneManager" -> {Ending("continues", {"SceneManager"}), Ending("throws", {})}
      [] s = "Resources" -> {Ending("continues", {}), Ending("throws", {})}
      [] s = "GUI" -> {Ending("continues", {"OverlaySystem"}), Ending("throws", {"OverlaySystem"})}
      [] s = "Viewports" -> {Ending("continues", {})}
      [] s = "Physics" -> {Ending("continues", {"Physics"})}
      [] OTHER -> {}

At(s) == pc = "initialize" /\ Stages[stage] = s
GoOn == pc' = "initialize" /\ stage' = stage + 1 /\ UNCHANGED mainVars

initializeStage ==
    /\ pc = "initialize"
    /\ LET s == Stages[stage]
       IN \E e \in Endings(s) :
            IF Lacking(Needs(s)) # {} THEN Crash(Lacking(Needs(s)))
            ELSE /\ made' = made \cup e.parts
                 /\ IF e.how = "continues" THEN GoOn ELSE EndsWith(e.how, s) /\ UNCHANGED stage
                 /\ UNCHANGED <<joyVars, grips, ovrVars, faults>>

\* SoundManager sets the Doppler effect before it looks whether there is an engine.
initializeSoundManager ==
    /\ At("Sound")
    /\ \E engine \in BOOLEAN :
         /\ "soundDevice" \in Contract => engine
         /\ IF ~engine THEN Crash({"mSoundEngine"})
            ELSE IF Lacking(Needs("Sound")) # {} THEN Crash(Lacking(Needs("Sound")))
            ELSE /\ made' = made \cup {"Sound"}
                 /\ GoOn
                 /\ UNCHANGED <<joyVars, grips, ovrVars, faults>>

initializeInputManager ==
    /\ At("Input")
    /\ IF Lacking(Needs("Input")) # {} THEN Crash(Lacking(Needs("Input")))
       ELSE IF Joy!OverrunsArray THEN Crash({"mJoy"})
       ELSE /\ Joy!openJoysticks
            /\ made' = made \cup {"Input"}
            /\ GoOn
            /\ UNCHANGED <<grips, ovrVars, faults>>

\* The constructor of ScriptManager begins: its singleton is there, and the
\* scripts run before it returns.
initializeScriptManager ==
    /\ At("Script")
    /\ IF Lacking(Needs("Script")) # {} THEN Crash(Lacking(Needs("Script")))
       ELSE /\ made' = made \cup {"Script", "lua"}
            /\ pc' = "scripts"
            /\ UNCHANGED <<joyVars, stage, mainVars, grips, ovrVars, faults>>

scriptsDone ==
    /\ pc = "scripts"
    /\ GoOn
    /\ UNCHANGED <<joyVars, made, grips, ovrVars, faults>>

-----------------------------------------------------------------------------
(***************************************************************************)
(* What scripts do to the parts, from the constructor and from run.        *)
(***************************************************************************)
Scripting == pc \in {"scripts", "run", "update"}

HeldBy(kind) ==
    CASE kind = "object" -> {"SceneManager"}
      [] kind = "sounding" -> {"SceneManager", "Sound"}
      [] kind = "body" -> {"SceneManager", "Physics"}

\* new, and components created on the object; events need the script manager.
newGameObject(kind) ==
    /\ Scripting
    /\ LET needs == {"Script", "Log"} \cup HeldBy(kind)
       IN IF Lacking(needs) # {} THEN Crash(Lacking(needs))
          ELSE /\ grips' = grips \cup HeldBy(kind)
               /\ UNCHANGED <<joyVars, pc, stage, mainVars, made, ovrVars, faults>>

\* destroyObjectWithTag: the objects that stay hold some of it.
destroyObjects ==
    /\ Scripting
    /\ \E kept \in SUBSET grips :
         /\ kept # {} => "SceneManager" \in kept
         /\ grips' = kept
    /\ UNCHANGED <<joyVars, pc, stage, mainVars, made, ovrVars, faults>>

\* input_register, input_getAxes
useInput ==
    /\ Scripting
    /\ IF Lacking({"Input"}) # {} THEN Crash(Lacking({"Input"}))
       ELSE IF Joy!UsesStray THEN Crash({"mJoy"})
       ELSE UNCHANGED vars

\* A name that Ogre knows already: the exception passes through Lua.  Out of the
\* constructor it takes the singleton along, and mLuaState is left.
scriptThrows ==
    /\ Scripting
    /\ EndsWith("throws", IF pc = "scripts" THEN "Script" ELSE "run")
    /\ made' = IF pc = "scripts" THEN made \ {"Script"} ELSE made
    /\ UNCHANGED <<joyVars, stage, grips, ovrVars, faults>>

-----------------------------------------------------------------------------
(***************************************************************************)
(* initializeScene: setupOculus, whose answer nobody looks at, setupOgre,  *)
(* and the objects of the scene.                                           *)
(***************************************************************************)
UpTo(seq, k) == ToSet(SubSeq(seq, 1, k))

setupOculus ==
    /\ At("Oculus")
    /\ IF Lacking(Needs("Oculus")) # {} THEN Crash(Lacking(Needs("Oculus")))
       ELSE /\ \E k \in {0, 2, 3, 5} :      \* no manager, no display, no sensor, ready
                 /\ "deviceManager" \in Contract => k > 0
                 /\ handles' = UpTo(Handles, k) /\ live' = UpTo(Handles, k)
            /\ system' = TRUE
            /\ GoOn
            /\ UNCHANGED <<joyVars, made, grips, display, faults>>

\* A name that is taken and a parameter that is missing are exceptions; the material
\* and the compositors, used unchecked, are taken to be there (they are media files).
\* LensCenter is taken from m_stereoConfig, whether it is there or not.
setupOgre ==
    /\ At("Display")
    /\ IF Lacking(Needs("Display")) # {} THEN Crash(Lacking(Needs("Display")))
       ELSE \E k \in {0, 2, 4} :
              IF k = 4 /\ "m_stereoConfig" \notin handles THEN Crash({"m_stereoConfig"})
              ELSE /\ display' = UpTo(Display, k)
                   /\ IF k = 4 THEN GoOn ELSE EndsWith("throws", "Display") /\ UNCHANGED stage
                   /\ UNCHANGED <<joyVars, made, grips, system, handles, live, faults>>

\* Box with mesh and body, the camera, the listener; their names may be taken.
createScene ==
    /\ At("Objects")
    /\ IF Lacking(Needs("Objects")) # {} THEN Crash(Lacking(Needs("Objects")))
       ELSE /\ \/ /\ grips' = grips \cup {"SceneManager", "Physics"}
                  /\ pc' = "run"
                  /\ UNCHANGED mainVars
               \/ /\ \E held \in {{}, {"SceneManager"}, {"SceneManager", "Physics"}} :
                        grips' = grips \cup held
                  /\ EndsWith("throws", "Objects")
            /\ UNCHANGED <<joyVars, stage, made, ovrVars, faults>>

-----------------------------------------------------------------------------
(***************************************************************************)
(* run: each frame polls SDL, and update asks for all four axes.           *)
(***************************************************************************)
FrameNeeds == {"SDL", "Root", "Window", "OverlaySystem", "Physics", "Sound", "Input"}

MayPump ==
    /\ "fewPads" \in Contract => Len(attached') <= JoySlots
    /\ "padsFirst" \in Contract /\ Len(attached') > 0 => \A i \in Joy!Slots : mJoy[i] # Stray

pollInput ==
    /\ pc = "run"
    /\ IF Lacking(FrameNeeds) # {} THEN Crash(Lacking(FrameNeeds))
       ELSE /\ Joy!pump \/ UNCHANGED joyVars
            /\ MayPump
            /\ pc' = "update"
            /\ UNCHANGED <<stage, mainVars, made, grips, ovrVars, faults>>

updateFrame ==
    /\ pc = "update"
    /\ IF Joy!UsesStray THEN Crash({"mJoy"})
       ELSE /\ \/ pc' = "run" /\ UNCHANGED mainVars
               \/ MayEnd /\ EndsWith("quit", "run")
            /\ UNCHANGED <<joyVars, stage, made, grips, ovrVars, faults>>

\* main's handlers show the exception and log it.
catchException ==
    /\ pc = "catch"
    /\ IF Lacking({"LogManager"}) # {} THEN Crash({"LogManager"})
       ELSE /\ pc' = "destroy"
            /\ UNCHANGED <<joyVars, stage, mainVars, made, grips, ovrVars, faults>>

-----------------------------------------------------------------------------
(***************************************************************************)
(* ~BaseApplication, and then its member ~Oculus.                          *)
(***************************************************************************)
startDestroying ==
    /\ pc = "destroy"
    /\ pc' = "deleting" /\ stage' = 1
    /\ UNCHANGED <<joyVars, mainVars, made, grips, ovrVars, faults>>

DeletionsLate ==        \* variant: the objects go with the manager they are named after
    <<"Sound", "Input", "Script", "Physics", "objects", "OverlaySystem", "Root", "oculus", "SDL">>
Deletions ==
    <<"objects", "Sound", "Input", "Script", "Physics", "OverlaySystem", "Root", "oculus", "SDL">>

Deleting(d) == pc = "deleting" /\ stage <= Len(Deletions) /\ Deletions[stage] = d
NextDeletion == pc' = "deleting" /\ stage' = stage + 1

\* Nodes, sounds and bodies are given back to where they came from.
deleteObjects ==
    /\ Deleting("objects")
    /\ IF Lacking(grips) # {} THEN Crash(Lacking(grips))
       ELSE /\ grips' = {}
            /\ NextDeletion
            /\ UNCHANGED <<joyVars, mainVars, made, ovrVars, faults>>

\* What goes with a part: Ogre's root takes all of Ogre along.
GoesWith(p) ==
    CASE p = "Root" -> {"Root", "LogManager", "Log", "Window", "SceneManager"}
      [] p = "Script" -> {"Script", "lua"}
      [] OTHER -> {p}

DeletionNeeds(p) == IF p = "OverlaySystem" THEN {"Root"} ELSE {}

deletePart ==
    /\ pc = "deleting" /\ stage <= Len(Deletions)
    /\ LET p == Deletions[stage]
       IN /\ p \in {"Sound", "Script", "Physics", "OverlaySystem", "Root"}
          /\ IF p \notin made THEN UNCHANGED made /\ NextDeletion /\ UNCHANGED faults
             ELSE /\ made' = made \ GoesWith(p)
                  /\ NextDeletion
                  /\ faults' = faults \cup Lacking(DeletionNeeds(p))
    /\ UNCHANGED <<joyVars, mainVars, grips, ovrVars>>

deleteInput ==
    /\ Deleting("Input")
    /\ IF "Input" \notin made
       THEN NextDeletion /\ UNCHANGED <<joyVars, mainVars, made, grips, ovrVars, faults>>
       ELSE IF Lacking({"SDL"}) # {} THEN Crash(Lacking({"SDL"}))
       ELSE IF Joy!ClosesBad THEN Crash({"mJoy"})
       ELSE /\ Joy!closeJoysticks
            /\ made' = made \ {"Input"}
            /\ NextDeletion
            /\ UNCHANGED <<mainVars, grips, ovrVars, faults>>

ReleasedNoHmd == live \ (handles \ {"m_hmd"})       \* variant
\* m_sensor keeps its value, so it is released each time.
Released == live \ handles
HandlesAfter == handles \cap {"m_sensor"}

shutDownOculus ==
    /\ live' = Released
    /\ handles' = HandlesAfter
    /\ system' = FALSE

firstShutDownOculus ==
    /\ Deleting("oculus")
    /\ shutDownOculus
    /\ NextDeletion
    /\ UNCHANGED <<joyVars, mainVars, made, grips, display, faults>>

quitSDL ==
    /\ Deleting("SDL")
    /\ Joy!quitJoysticks
    /\ made' = made \ {"SDL"}
    /\ NextDeletion
    /\ UNCHANGED <<mainVars, grips, ovrVars, faults>>

\* shutDownOgre, then shutDownOculus once more.
DisplayFaults == IF display # {} /\ Lacking({"Root", "Window", "SceneManager"}) # {} THEN {"display"} ELSE {}
SensorFaults == handles \ live

destroyOculus ==
    /\ pc = "deleting" /\ stage > Len(Deletions)
    /\ faults' = faults \cup DisplayFaults \cup SensorFaults
    /\ display' = {}
    /\ shutDownOculus
    /\ \/ pc' = "returned"
       \/ DisplayFaults \cup SensorFaults # {} /\ pc' = "crashed"
    /\ UNCHANGED <<joyVars, stage, mainVars, made, grips>>

ended ==
    /\ pc \in {"returned", "crashed"}
    /\ UNCHANGED vars

-----------------------------------------------------------------------------
Next ==
    \/ initializeStage \/ initializeSoundManager \/ initializeInputManager
    \/ initializeScriptManager \/ scriptsDone
    \/ \E kind \in {"object", "sounding", "body"} : newGameObject(kind)
    \/ destroyObjects \/ useInput \/ scriptThrows
    \/ setupOculus \/ setupOgre \/ createScene
    \/ pollInput \/ updateFrame \/ catchException
    \/ startDestroying \/ deleteObjects \/ deletePart \/ deleteInput
    \/ firstShutDownOculus \/ quitSDL \/ destroyOculus \/ ended

Spec == Init /\ [][Next]_vars

-----------------------------------------------------------------------------
(***************************************************************************)
(* Properties.                                                             *)
(***************************************************************************)
TypeOK ==
    /\ Joy!JoyTypeOK
    /\ pc \in {"initialize", "scripts", "run", "update", "catch", "destroy", "deleting",
               "returned", "crashed"}
    /\ stage \in 1 .. Len(Stages)
    /\ outcome \in {"none", "code", "throws", "quit"}
    /\ failedAt \in ToSet(Stages) \cup {"none", "run"}
    /\ made \subseteq Parts
    /\ grips \subseteq {"SceneManager", "Sound", "Physics"}
    /\ system \in BOOLEAN
    /\ handles \subseteq ToSet(Handles) /\ live \subseteq ToSet(Handles)
    /\ display \subseteq ToSet(Display)

\* Whatever stage fails and however, and in whatever order scripts make objects,
\* every part is used only between its making and its end, but for two uses in
\* ~Oculus, the last thing that happens: the display, which went with Ogre's root,
\* and the sensor, which ~BaseApplication released.
OnlyOculusOutlives ==
    /\ faults \subseteq {"display", "m_sensor"}
    /\ faults # {} => pc \in {"returned", "crashed"} /\ stage > Len(Deletions)

\* Once main returns, every part, pad, handle and grip was given back, but for the
\* Lua state of a ScriptManager whose constructor threw, and the log manager of a
\* root whose constructor threw.
LeftBehind ==
    CASE failedAt = "Script" -> {"lua"}
      [] failedAt = "Root" /\ outcome = "throws" -> {"LogManager"}
      [] OTHER -> {}
AllReturned ==
    pc = "returned" =>
        /\ made = LeftBehind
        /\ grips = {} /\ opened = {}
        /\ live = {} /\ ~system /\ display = {}

\* The axes mean what the user does with sticks, keys and mouse (see Joysticks).
AxesTrue == Joy!AxesTrue
AxesFollowSticks == [][Joy!AxesFollowSticks]_vars

\* The comment on deleting the root: "Destroy the ogre root (which will destroy all
\* ogre objects)".  What it destroys is not used afterwards.
OgreEndsWithRoot == "display" \notin faults
=============================================================================
