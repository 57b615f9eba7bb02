----------------------------- MODULE FrameLoop -----------------------------
(***************************************************************************)
(* BaseApplication::run and the scripts it calls: the init function of the *)
(* scripts, initializeScene, and then frames, each of which handles one    *)
(* input event, updates the sound listener, tells the objects of a contact *)
(* about each other, updates every game object and renders.  A native loop *)
(* that calls a script handler waits for it, and the handler may create    *)
(* and destroy game objects, register listeners, and create animations and *)
(* physics components, while the loop holds its iterator or index.         *)
(*                                                                         *)
(* The objects are those of ObjectStore.  Names are numbers in the order   *)
(* of the std::map.  The variables after history only record what          *)
(* happened.                                                               *)
(***************************************************************************)
EXTENDS Naturals, Sequences, SequencesExt, FiniteSetsExt

CONSTANTS
    Names, Tags, Objects, Comps, NULL, Freed, MaxEntries,   \* of ObjectStore
    Box, Listener, mainCam, Ninja,      \* names the application uses
    BoxTag, CamTag,                     \* tags the scene uses (3 and 2)
    End,            \* mObjects.end()
    Events,         \* the kinds of input events that occur
    MaxOps          \* bound: calls scripts make to the engine

ASSUME FrameAssumption ==
    /\ Names \subseteq Nat
    /\ {Box, Listener, mainCam, Ninja} \subseteq Names
    /\ {BoxTag, CamTag} \subseteq Tags
    /\ Events \subseteq {"action pressed", "action released", "jump pressed", "jump released",
                         "key pressed", "quit"}
    /\ End \notin Names
    /\ MaxOps \in Nat

VARIABLES
    mObjects, object, component, msInstances, nodes, entities, cameras, animations, status,
    pc,             \* where the native code stands
    step,           \* calls of initializeScene that returned
    calls,          \* the objects whose handlers run, innermost last (NULL: init)
    mHasScript,     \* objects whose mHasScript is set
    mInputListeners,
    index,          \* the i of a loop over mInputListeners or contacts
    keydown,        \* sendKeyMessage follows sendActionMessage
    jump,           \* mActiveActions[ACTION_JUMP]
    mListener,      \* the sound manager's listener
    contacts,       \* the objects of the manifold updateWorld is at, in the order it tells them
    cursor, held,   \* the update pass's iterator: a name or End, and the object it points at
    invalid,        \* that element was erased
    done,           \* run's done
    ops,            \* calls scripts made so far, up to MaxOps
    \* history
    told,           \* messages sent to each address in the current loop over listeners
    updates,        \* updates each object had in the current pass
    steady,         \* objects that exist since the pass began
    late,           \* objects created during the pass, behind the iterator
    slips           \* what scripts destroyed while the engine held on to it (see HeldFor)

storeVars == <<mObjects, object, component, msInstances, nodes, entities, cameras, animations, status>>
sceneVars == <<step, mListener, contacts>>
inputVars == <<mInputListeners, index, keydown, jump, told>>
passVars == <<cursor, held, invalid, updates, steady, late>>
vars == <<storeVars, pc, sceneVars, calls, mHasScript, inputVars, passVars, done, ops, slips>>

Store == INSTANCE ObjectStore

ASSUME FrameStoreAssumption == Store!StoreAssumption

Init ==
    /\ Store!Init
    /\ pc = "init" /\ calls = <<NULL>>
    /\ step = 0 /\ mListener = NULL /\ contacts = <<>>
    /\ mHasScript = {}
    /\ mInputListeners = <<>> /\ index = 1 /\ keydown = FALSE /\ jump = FALSE
    /\ told = [g \in Objects |-> 0]
    /\ cursor = End /\ held = NULL /\ invalid = FALSE
    /\ updates = [g \in Objects |-> 0] /\ steady = {} /\ late = {}
    /\ done = FALSE /\ ops = 0 /\ slips = {}

-----------------------------------------------------------------------------
\* Where the native code used what is not there, and may do anything.
Undefined == {"badListener", "badSound", "badContact", "badIterator", "noNinja"}
Running == status = "running" /\ pc \notin Undefined \cup {"done"}
Native(at) == Running /\ calls = <<>> /\ pc = at

\* injectScriptEvent: an object without a script ignores it.
inject(g) == calls' = IF g \in mHasScript THEN <<g>> ELSE <<>>

(***************************************************************************)
(* initializeScene, one call per step.  The objects it creates have no     *)
(* script.                                                                 *)
(***************************************************************************)
initReturned ==
    /\ Native("init")
    /\ pc' = "scene"
    /\ UNCHANGED <<storeVars, sceneVars, calls, mHasScript, inputVars, passVars, done, ops, slips>>

\* A new object may get the address of a deleted one that something still points
\* at; among the other free addresses the choice makes no difference: any one.
AnyOf(free) == IF free = {} THEN {} ELSE {CHOOSE a \in free : TRUE}
Remembered == ToSet(mInputListeners) \cup ToSet(calls) \cup ToSet(contacts) \cup {mListener, held}
NewObject == ((Remembered \cap Objects) \ Store!Live) \cup AnyOf(Objects \ (Store!Live \cup Remembered))
NewComp == AnyOf(Comps \ Store!LiveComps)

createFor(n, tag) == \E g \in NewObject : Store!createGameObject(n, tag, g)

SceneCall(k) ==
    \/ k = 0 /\ createFor(Box, BoxTag)
    \/ k = 1 /\ \E c \in NewComp : Store!createMeshComponent(mObjects[Box], c)
    \/ k = 2 /\ Store!loadMesh(mObjects[Box])
    \/ k = 3 /\ \E c \in NewComp : Store!createPhysicsComponent(mObjects[Box], c)
    \/ k = 4 /\ createFor(mainCam, CamTag)
    \/ k = 5 /\ \E c \in NewComp : Store!createCameraComponent(mObjects[mainCam], c)
    \/ k = 6 /\ createFor(Listener, CamTag)
    \/ k = 7 /\ UNCHANGED storeVars

initializeScene ==
    /\ Native("scene")
    /\ SceneCall(step)
    /\ step' = step + 1
    /\ mListener' = IF step = 7 THEN mObjects[Listener] ELSE mListener
    /\ pc' = IF step = 7 THEN "input" ELSE pc
    /\ UNCHANGED <<contacts, calls, mHasScript, inputVars, passVars, done, ops, slips>>

-----------------------------------------------------------------------------
(***************************************************************************)
(* Input: at most one event per frame.  A mapped change is sent to every   *)
(* listener as onAction, a key press also as onKeydown.                    *)
(***************************************************************************)
\* History counts to 2, which is once too often.
Counted(n) == IF n < 2 THEN n + 1 ELSE n

StartMessage(at) ==
    /\ pc' = at
    /\ index' = 1
    /\ told' = [g \in Objects |-> 0]

noEvent ==
    /\ Native("input")
    /\ pc' = "sound"
    /\ UNCHANGED <<storeVars, sceneVars, calls, mHasScript, inputVars, passVars, done, ops, slips>>

quitEvent ==
    /\ Native("input") /\ "quit" \in Events
    /\ done' = TRUE
    /\ pc' = "sound"
    /\ UNCHANGED <<storeVars, sceneVars, calls, mHasScript, inputVars, passVars, ops, slips>>

inputEvent ==
    /\ Native("input")
    /\ \E e \in Events \ {"quit"} :
         /\ jump' = (e = "jump pressed" \/ (jump /\ e # "jump released"))
         /\ keydown' = (e \in {"action pressed", "jump pressed", "key pressed"})
         /\ StartMessage(IF e = "key pressed" THEN "onKeydown" ELSE "onAction")
    /\ UNCHANGED <<storeVars, sceneVars, calls, mHasScript, mInputListeners, passVars, done, ops, slips>>

\* mInputListeners[i]->injectScriptEvent(...), whatever became of the object.
sendToListener ==
    /\ Native("onAction") \/ Native("onKeydown")
    /\ index <= Len(mInputListeners)
    /\ LET g == mInputListeners[index]
       IN IF g \in Store!Live
          THEN /\ inject(g)
               /\ told' = [told EXCEPT ![g] = Counted(@)]
               /\ pc' = pc
          ELSE pc' = "badListener" /\ UNCHANGED <<calls, told>>
    /\ index' = index + 1
    /\ UNCHANGED <<storeVars, sceneVars, mHasScript, mInputListeners, keydown, jump, passVars, done, ops, slips>>

\* BaseApplication::onAction follows the last listener's onAction: it only
\* touches the overlay and the viewports.
messageSent ==
    /\ Native("onAction") \/ Native("onKeydown")
    /\ index > Len(mInputListeners)
    /\ StartMessage(IF pc = "onAction" /\ keydown THEN "onKeydown" ELSE "sound")
    /\ UNCHANGED <<storeVars, sceneVars, calls, mHasScript, mInputListeners, keydown, jump, passVars, done, ops, slips>>

-----------------------------------------------------------------------------
(***************************************************************************)
(* SoundManager::update reads the listener's position.  Then updateWorld   *)
(* goes through Bullet's manifolds: at most one here, since Physics models *)
(* the loop.                                                               *)
(***************************************************************************)
soundUpdate ==
    /\ Native("sound")
    /\ pc' = IF mListener \in Store!Live \cup {NULL} THEN "world" ELSE "badSound"
    /\ UNCHANGED <<storeVars, sceneVars, calls, mHasScript, inputVars, passVars, done, ops, slips>>

\* Any two objects with a physics component may have loaded bodies that touch.
WithBody == {g \in Store!Live : object[g].mComponents["PHYSICS"] # NULL}
Touching == {p \in WithBody \X WithBody : p[1] # p[2]}

updateWorld ==
    /\ Native("world")
    /\ contacts' \in {<<>>} \cup Touching
    /\ index' = 1
    /\ pc' = "collide"
    /\ UNCHANGED <<storeVars, step, mListener, calls, mHasScript, mInputListeners, keydown, jump, told, passVars, done, ops, slips>>

\* a->injectScriptEvent("onCollide", ...), then b's, whatever a's handler did.
tellContact ==
    /\ Native("collide")
    /\ index <= Len(contacts)
    /\ IF contacts[index] \in Store!Live
       THEN inject(contacts[index]) /\ pc' = pc
       ELSE pc' = "badContact" /\ UNCHANGED calls
    /\ index' = index + 1
    /\ UNCHANGED <<storeVars, sceneVars, mHasScript, mInputListeners, keydown, jump, told, passVars, done, ops, slips>>

-----------------------------------------------------------------------------
(***************************************************************************)
(* The quit key; then BaseApplication::update passes over mObjects.        *)
(***************************************************************************)
Present == {n \in Names : mObjects[n] # NULL}
FirstOf(S) == IF S = {} THEN End ELSE Min(S)
Begin == FirstOf(Present)
Restart(n) == Begin                             \* variant: begins anew after every update
AfterNext(n) == FirstOf({m \in Present : m > n + 1})     \* variant: may skip one
After(n) == FirstOf({m \in Present : m > n})

beginPass ==
    /\ Native("collide")
    /\ index > Len(contacts)
    /\ contacts' = <<>> /\ index' = 1
    /\ \E quitKey \in BOOLEAN : done' = (done \/ quitKey)
    /\ pc' = "pass"
    /\ cursor' = Begin
    /\ updates' = [g \in Objects |-> 0]
    /\ steady' = Store!Live
    /\ late' = {}
    /\ UNCHANGED <<storeVars, step, mListener, calls, mHasScript, mInputListeners, keydown, jump, told, held, invalid, ops, slips>>

HeldNext(n) == IF After(n) = End THEN NULL ELSE mObjects[After(n)]  \* variant: prefetched
HeldAt(n) == mObjects[n]

\* it->second->update(dT): its handler, if it has one, runs with the iterator held.
updateObject ==
    /\ Native("pass")
    /\ cursor # End
    /\ held' = HeldAt(cursor)
    /\ invalid' = FALSE
    /\ updates' = [updates EXCEPT ![mObjects[cursor]] = Counted(@)]
    /\ inject(mObjects[cursor])
    /\ pc' = "advance"
    /\ UNCHANGED <<storeVars, sceneVars, mHasScript, inputVars, cursor, steady, late, done, ops, slips>>

\* ++it: undefined if the element it points at was erased.
advance ==
    /\ Native("advance")
    /\ IF invalid THEN pc' = "badIterator" /\ UNCHANGED cursor
                  ELSE pc' = "pass" /\ cursor' = After(cursor)
    /\ UNCHANGED <<storeVars, sceneVars, calls, mHasScript, inputVars, held, invalid, updates, steady, late, done, ops, slips>>

passDone ==
    /\ Native("pass")
    /\ cursor = End
    /\ pc' = "actions"
    /\ UNCHANGED <<storeVars, sceneVars, calls, mHasScript, inputVars, passVars, done, ops, slips>>

\* While ACTION_JUMP is active: findGameObject("Ninja")->getMeshComponent()->queueAnimation(...)
NinjaJumps ==
    /\ mObjects[Ninja] # NULL
    /\ object[mObjects[Ninja]].mComponents["MESH"] # NULL
    /\ component[object[mObjects[Ninja]].mComponents["MESH"]].mEntity

actOnActions ==
    /\ Native("actions")
    /\ pc' = IF jump /\ ~NinjaJumps THEN "noNinja" ELSE "render"
    /\ UNCHANGED <<storeVars, sceneVars, calls, mHasScript, inputVars, passVars, done, ops, slips>>

render ==
    /\ Native("render")
    /\ Store!renderOneFrame
    /\ pc' = IF status' # "running" THEN pc ELSE IF done THEN "done" ELSE "input"
    /\ UNCHANGED <<sceneVars, calls, mHasScript, inputVars, passVars, done, ops, slips>>

-----------------------------------------------------------------------------
(***************************************************************************)
(* Scripts: what a running handler may call.                               *)
(***************************************************************************)
Scripting == Running /\ calls # <<>>
MakesCall == Scripting /\ ops < MaxOps /\ ops' = ops + 1

\* _l_newGameObject: creates, sets mHasScript, and runs onCreate at once.
newGameObject(n, tag, hasScript, g) ==
    /\ MakesCall
    /\ g \in NewObject
    /\ Store!createGameObject(n, tag, g)
    /\ IF status' # "running" THEN UNCHANGED <<calls, mHasScript, updates, late>>
       ELSE /\ mHasScript' = IF hasScript THEN mHasScript \cup {g} ELSE mHasScript \ {g}
            /\ calls' = IF hasScript THEN Append(calls, g) ELSE calls
            /\ updates' = [updates EXCEPT ![g] = 0]
            /\ late' = IF pc = "advance" /\ n < cursor THEN late \cup {g} ELSE late
    /\ UNCHANGED <<pc, sceneVars, inputVars, cursor, held, invalid, steady, done, slips>>

\* What the engine holds on to, and nothing that is destroyed is taken out of.
Uses == {"listener", "sound", "contact", "iterator", "animated"}
HeldFor ==
    [listener |-> ToSet(mInputListeners),
     sound    |-> {mListener},
     contact  |-> ToSet(contacts),
     iterator |-> IF pc = "advance" THEN {mObjects[cursor]} ELSE {},
     animated |-> {g \in Store!Live : object[g].mAnimation}]

ScriptsKept(gone) == mHasScript     \* variant: the flag outlives the object
ScriptsAfter(gone) == mHasScript \ gone

destroyObjectWithTag(tag) ==
    /\ MakesCall
    /\ LET gone == Store!findObjectsByTag(tag)
       IN /\ Store!removeGameObjectByTag(tag)
          /\ mHasScript' = ScriptsAfter(gone)
          /\ invalid' = (invalid \/ held \in gone)
          /\ steady' = steady \ gone
          /\ late' = late \ gone
          /\ slips' = slips \cup {use \in Uses : HeldFor[use] \cap gone # {}}
    /\ UNCHANGED <<pc, sceneVars, calls, inputVars, cursor, held, updates, done>>

AddAnyListener(g) == Append(mInputListeners, g)     \* variant: without looking for it
addListener(g) == IF g \in ToSet(mInputListeners) THEN mInputListeners ELSE Append(mInputListeners, g)

input_register(g) ==
    /\ MakesCall
    /\ g \in Store!Live
    /\ mInputListeners' = addListener(g)
    /\ UNCHANGED <<storeVars, pc, sceneVars, calls, mHasScript, index, keydown, jump, told, passVars, done, slips>>

execCreateAnimation(g) ==
    /\ MakesCall
    /\ Store!createAnimation(g)
    /\ UNCHANGED <<pc, sceneVars, calls, mHasScript, inputVars, passVars, done, slips>>

execCreatePhysics(g) ==
    /\ MakesCall
    /\ \E c \in NewComp : Store!createPhysicsComponent(g, c)
    /\ UNCHANGED <<pc, sceneVars, calls, mHasScript, inputVars, passVars, done, slips>>

execCreateMesh(g) ==
    /\ MakesCall
    /\ \E c \in NewComp : Store!createMeshComponent(g, c)
    /\ UNCHANGED <<pc, sceneVars, calls, mHasScript, inputVars, passVars, done, slips>>

execLoadMesh(g) ==
    /\ MakesCall
    /\ Store!loadMesh(g)
    /\ UNCHANGED <<pc, sceneVars, calls, mHasScript, inputVars, passVars, done, slips>>

handlerReturns ==
    /\ Scripting
    /\ calls' = Front(calls)
    /\ UNCHANGED <<storeVars, pc, sceneVars, mHasScript, inputVars, passVars, done, ops, slips>>

-----------------------------------------------------------------------------
NativeStep ==
    \/ initReturned \/ initializeScene
    \/ noEvent \/ quitEvent \/ inputEvent \/ sendToListener \/ messageSent
    \/ soundUpdate \/ updateWorld \/ tellContact
    \/ beginPass \/ updateObject \/ advance \/ passDone \/ actOnActions \/ render

ScriptCall ==
    \E g \in Objects :
        \/ \E n \in Names, tag \in Tags, hasScript \in BOOLEAN : newGameObject(n, tag, hasScript, g)
        \/ input_register(g)
        \/ execCreateAnimation(g) \/ execCreatePhysics(g) \/ execCreateMesh(g) \/ execLoadMesh(g)

Next ==
    \/ NativeStep
    \/ ScriptCall
    \/ \E tag \in Tags : destroyObjectWithTag(tag)
    \/ handlerReturns

Spec == Init /\ [][Next]_vars

\* One thread runs the native code; every handler returns.
FairSpec == Spec /\ WF_vars(NativeStep) /\ WF_vars(handlerReturns)

-----------------------------------------------------------------------------
(***************************************************************************)
(* Properties                                                              *)
(***************************************************************************)
\* Type invariant, with where the native code can be when scripts run: every
\* handler is called by init, by a loop over listeners, by updateWorld or by the
\* update pass.
TypeOK ==
    /\ Store!TypeOK
    /\ pc \in {"init", "scene", "input", "onAction", "onKeydown", "sound", "world", "collide",
               "pass", "advance", "actions", "render", "done",
               "badListener", "badSound", "badContact", "badIterator", "noNinja"}
    /\ step \in 0 .. 8
    /\ calls \in Seq(Objects \cup {NULL})
    /\ calls # <<>> => pc \in {"init", "onAction", "onKeydown", "collide", "advance"}
    /\ mHasScript \subseteq Store!Live
    /\ mInputListeners \in Seq(Objects)
    /\ contacts = <<>> \/ (pc \in {"collide", "badContact"} /\ contacts \in Objects \X Objects)
    /\ index \in 1 .. Len(IF contacts # <<>> THEN contacts ELSE mInputListeners) + 1
    /\ {keydown, jump, invalid, done} \subseteq BOOLEAN
    /\ mListener \in Objects \cup {NULL}
    /\ held \in Objects \cup {NULL}
    /\ cursor \in Names \cup {End}
    /\ ops \in 0 .. MaxOps
    /\ told \in [Objects -> 0 .. 2] /\ updates \in [Objects -> 0 .. 2]
    /\ steady \subseteq Store!Live /\ late \subseteq Store!Live
    /\ slips \subseteq Uses

\* Whatever the engine uses that is not there, a script destroyed while the engine
\* held on to it: the object a message is sent to, the sound listener, the other
\* object of a contact, the object whose update is under way, the node that an
\* animation moves.  Nothing else goes wrong, in whatever order scripts create,
\* destroy and register, and with addresses reused.  (Of "noNinja" it says
\* nothing: the jump action, Space by default, calls the Ninja that the scene
\* does not make any more, BaseApplication.cpp:404 and :787.)
UndefinedHasCause ==
    /\ pc = "badListener" => "listener" \in slips
    /\ pc = "badSound" => "sound" \in slips
    /\ pc = "badContact" => "contact" \in slips
    /\ pc = "badIterator" => "iterator" \in slips
    /\ status = "undefined" => "animated" \in slips

\* When a loop over the listeners ends, the message was sent once through every
\* pointer on the list, the ones registered by a handler during the loop included
\* (sendActionMessage, sendKeyMessage, addListener's search).  Destroyed objects
\* stay on the list: what stands at their address by then gets their message.
ListenersToldOnce ==
    pc \in {"onAction", "onKeydown"} /\ calls = <<>> /\ index > Len(mInputListeners)
        => \A g \in ToSet(mInputListeners) : told[g] = 1

\* When the pass ends, the only objects without an update are those created
\* during it under a name the iterator had passed.
OnlyLateMissUpdate ==
    pc = "actions" => {g \in Store!Live : updates[g] = 0} = late

\* The update pass keeps what the headers promise of a frame.
Contract == INSTANCE FrameContract WITH
    members  <- Store!Live,
    updating <- pc \in {"pass", "advance", "badIterator"},
    owed     <- {g \in steady : updates[g] = 0}
UpdatesOncePerFrame == Contract!Spec

\* Every frame that handles input gets to render, whatever finitely many calls
\* its handlers make, unless an exception ends the program.
FrameEnds == pc = "input" /\ Running ~> pc \in Undefined \cup {"render"} \/ status # "running"

=============================================================================
