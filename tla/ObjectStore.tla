---------------------------- MODULE ObjectStore ----------------------------
(***************************************************************************)
(* The game objects of the application: BaseApplication::mObjects, the     *)
(* GameObject and Component allocations behind it, the static factories'   *)
(* msInstances, and the Ogre scene resources named after a game object     *)
(* (scene node <name>, entity <name>_mesh, camera <name>_camera, animation *)
(* <name>an1).                                                             *)
(*                                                                         *)
(* Objects and Comps are addresses: a freed address may be allocated       *)
(* again.  All of it runs on one thread and no operation calls back into a *)
(* script, so each operation is one step.                                  *)
(***************************************************************************)
EXTENDS Integers, FiniteSets

CONSTANTS
    Names, Tags,    \* names and tags of game objects
    Objects, Comps, \* addresses of game objects and of components
    NULL, Freed,    \* the null pointer; the content of a freed address
    MaxEntries      \* bound: entries of one address in a factory's vector

\* Component::ComponentType, up to MAX_COMP: PARTICLES has no slot.
Slots == {"MESH", "SOUND", "CAMERA", "PHYSICS"}

Exceptions == {"node name taken", "object name taken", "entity name taken",
               "camera name taken", "animation name taken", "keyframe without animation",
               "destroy without animation"}

ASSUME StoreAssumption ==
    /\ NULL \notin Objects \cup Comps
    /\ MaxEntries \in Nat \ {0}
    /\ Freed \notin [mName : Names, mTag : Tags, mAnimation : BOOLEAN,
                     mComponents : [Slots -> Comps \cup {NULL}]]
    /\ Freed \notin [type : Slots, mOwner : Objects, mEnable : BOOLEAN, mEntity : BOOLEAN]

VARIABLES
    mObjects,    \* BaseApplication's map from names to objects
    object,      \* the GameObject at each address
    component,   \* the Component at each address
    msInstances, \* how often each factory's vector holds each address
    nodes,       \* the object whose scene node has the name
    entities,    \* names n such that entity "<n>_mesh" exists
    cameras,     \* names n such that camera "<n>_camera" exists
    animations,  \* animation "<n>an1": none, or whether its track's node still exists
    status       \* "running", "closed", the exception thrown, or "undefined"

vars == <<mObjects, object, component, msInstances, nodes, entities, cameras, animations, status>>
scene == <<nodes, entities, cameras, animations>>

Live == {g \in Objects : object[g] # Freed}
LiveComps == {c \in Comps : component[c] # Freed}

Init ==
    /\ mObjects = [n \in Names |-> NULL]
    /\ object = [g \in Objects |-> Freed]
    /\ component = [c \in Comps |-> Freed]
    /\ msInstances = [t \in Slots |-> [c \in Comps |-> 0]]
    /\ nodes = [n \in Names |-> NULL]
    /\ entities = {}
    /\ cameras = {}
    /\ animations = [n \in Names |-> "none"]
    /\ status = "running"

-----------------------------------------------------------------------------
(***************************************************************************)
(* Creating: the constructor throws when Ogre already has a node of that   *)
(* name; addGameObject throws when the map has, with the object allocated. *)
(***************************************************************************)
NewGameObject(n, tag) ==
    [mName |-> n, mTag |-> tag, mAnimation |-> FALSE,
     mComponents |-> [t \in Slots |-> NULL]]

createGameObject(n, tag, g) ==
    /\ status = "running"
    /\ object[g] = Freed
    /\ IF nodes[n] # NULL
       THEN /\ status' = "node name taken"
            /\ UNCHANGED <<mObjects, object, nodes>>
       ELSE /\ object' = [object EXCEPT ![g] = NewGameObject(n, tag)]
            /\ nodes' = [nodes EXCEPT ![n] = g]
            /\ IF mObjects[n] = NULL
               THEN mObjects' = [mObjects EXCEPT ![n] = g] /\ status' = status
               ELSE status' = "object name taken" /\ UNCHANGED mObjects
    /\ UNCHANGED <<component, msInstances, entities, cameras, animations>>

-----------------------------------------------------------------------------
(***************************************************************************)
(* Destroying.  ~GameObject frees the scene node, takes the component of   *)
(* every slot out of a factory's vector and deletes it; ~MeshComponent     *)
(* destroys its entity.  The animation stays, with a track to the node.    *)
(* ~CameraComponent asks Ogre for a camera named <name>, not               *)
(* <name>_camera: none exists, the call has no effect.                     *)
(***************************************************************************)
DeallocatesInMesh(slot) == IF slot = "CAMERA" THEN "MESH" ELSE slot     \* variant

\* The factory whose deallocate ~GameObject calls for a slot.
DeallocatesIn(slot) == IF slot = "PHYSICS" THEN "CAMERA" ELSE slot

InSlots(gone, slots) == {object[g].mComponents[t] : g \in gone, t \in slots} \ {NULL}

DeletedButPhysics(gone) == InSlots(gone, Slots \ {"PHYSICS"})   \* variant

\* delete mComponents[i], for every slot.
Deleted(gone) == InSlots(gone, Slots)

Deallocated(gone, t) == InSlots(gone, {slot \in Slots : DeallocatesIn(slot) = t})

EntriesUnchecked(gone, t, c) ==     \* variant: erases without having found
    IF c \in Deallocated(gone, t) THEN msInstances[t][c] - 1 ELSE msInstances[t][c]

\* Factory::deallocate erases one entry, if there is one.
EntriesAfter(gone, t, c) ==
    IF c \in Deallocated(gone, t) /\ msInstances[t][c] > 0
    THEN msInstances[t][c] - 1 ELSE msInstances[t][c]

Free(gone) ==
    /\ object' = [g \in Objects |-> IF g \in gone THEN Freed ELSE object[g]]
    /\ component' = [c \in Comps |-> IF c \in Deleted(gone) THEN Freed ELSE component[c]]
    /\ msInstances' = [t \in Slots |-> [c \in Comps |-> EntriesAfter(gone, t, c)]]

EntitiesOf(gone) ==
    {object[component[c].mOwner].mName :
        c \in {d \in Deleted(gone) : component[d].type = "MESH" /\ component[d].mEntity}}

Release(gone) ==
    /\ nodes' = [n \in Names |-> IF nodes[n] \in gone THEN NULL ELSE nodes[n]]
    /\ entities' = entities \ EntitiesOf(gone)
    /\ animations' = [n \in Names |->
            IF nodes[n] \in gone /\ animations[n] = "live" THEN "dangling" ELSE animations[n]]
    /\ UNCHANGED cameras

EraseNone(gone) == UNCHANGED mObjects       \* variant: the map keeps the pointers
Erase(gone) == mObjects' = [n \in Names |-> IF mObjects[n] \in gone THEN NULL ELSE mObjects[n]]

removeGameObject(n) ==
    /\ status = "running"
    /\ mObjects[n] # NULL
    /\ Free({mObjects[n]}) /\ Release({mObjects[n]})
    /\ Erase({mObjects[n]})
    /\ UNCHANGED status

findObjectsByTag(tag) == {mObjects[n] : n \in {m \in Names :
                            mObjects[m] # NULL /\ object[mObjects[m]].mTag = tag}}

removeGameObjectByTag(tag) ==
    /\ status = "running"
    /\ Free(findObjectsByTag(tag)) /\ Release(findObjectsByTag(tag))
    /\ Erase(findObjectsByTag(tag))
    /\ UNCHANGED status

\* ~BaseApplication: every object, then the managers and all of Ogre.
close ==
    /\ status = "running"
    /\ Free({mObjects[n] : n \in Names} \ {NULL})
    /\ mObjects' = [n \in Names |-> NULL]
    /\ nodes' = [n \in Names |-> NULL]
    /\ entities' = {}
    /\ cameras' = {}
    /\ animations' = [n \in Names |-> "none"]
    /\ status' = "closed"

-----------------------------------------------------------------------------
(***************************************************************************)
(* Components.  Factory::allocate constructs and lists the component; the  *)
(* create methods put it in its slot, whatever the slot held.              *)
(***************************************************************************)
SlotOfPasted(t) == IF t = "SOUND" THEN "MESH" ELSE t    \* variant
SlotOf(t) == t

allocate(g, t, c) ==
    /\ component[c] = Freed
    /\ msInstances[t][c] < MaxEntries
    /\ component' = [component EXCEPT ![c] =
            [type |-> t, mOwner |-> g, mEnable |-> TRUE, mEntity |-> FALSE]]
    /\ msInstances' = [msInstances EXCEPT ![t][c] = @ + 1]
    /\ object' = [object EXCEPT ![g].mComponents[SlotOf(t)] = c]

createMeshComponent(g, c) ==
    /\ status = "running" /\ g \in Live
    /\ allocate(g, "MESH", c)
    /\ UNCHANGED <<mObjects, scene, status>>

createSoundComponent(g, c) ==
    /\ status = "running" /\ g \in Live
    /\ allocate(g, "SOUND", c)
    /\ UNCHANGED <<mObjects, scene, status>>

createPhysicsComponent(g, c) ==
    /\ status = "running" /\ g \in Live
    /\ allocate(g, "PHYSICS", c)
    /\ UNCHANGED <<mObjects, scene, status>>

\* The constructor creates the Ogre camera first: if that throws, nothing was done.
createCameraComponent(g, c) ==
    /\ status = "running" /\ g \in Live
    /\ IF object[g].mName \in cameras
       THEN /\ status' = "camera name taken"
            /\ UNCHANGED <<object, component, msInstances, cameras>>
       ELSE /\ allocate(g, "CAMERA", c)
            /\ cameras' = cameras \cup {object[g].mName}
            /\ status' = status
    /\ UNCHANGED <<mObjects, nodes, entities, animations>>

\* MeshComponent::loadMesh, on the component getMeshComponent returns.
loadMesh(g) ==
    /\ status = "running" /\ g \in Live
    /\ object[g].mComponents["MESH"] # NULL
    /\ IF object[g].mName \in entities
       THEN status' = "entity name taken" /\ UNCHANGED <<component, entities>>
       ELSE /\ component' = [component EXCEPT ![object[g].mComponents["MESH"]].mEntity = TRUE]
            /\ entities' = entities \cup {object[g].mName}
            /\ status' = status
    /\ UNCHANGED <<mObjects, object, msInstances, nodes, cameras, animations>>

\* MeshComponent::setEnable uses its entity without looking whether it has one.
enableComponent(g, t, b) ==
    /\ status = "running" /\ g \in Live
    /\ LET c == object[g].mComponents[t]
       IN IF c = NULL THEN UNCHANGED <<component, status>>
          ELSE IF t = "MESH" /\ ~component[c].mEntity
               THEN status' = "undefined" /\ UNCHANGED component
               ELSE /\ component' = [component EXCEPT ![c].mEnable = b]
                    /\ status' = status
    /\ UNCHANGED <<mObjects, object, msInstances, scene>>

-----------------------------------------------------------------------------
(***************************************************************************)
(* The scripted animation of an object.                                    *)
(***************************************************************************)
createAnimation(g) ==
    /\ status = "running" /\ g \in Live
    /\ LET n == object[g].mName
       IN IF animations[n] # "none"
          THEN status' = "animation name taken" /\ UNCHANGED <<object, animations>>
          ELSE /\ animations' = [animations EXCEPT ![n] = "live"]
               /\ object' = [object EXCEPT ![g].mAnimation = TRUE]
               /\ status' = status
    /\ UNCHANGED <<mObjects, component, msInstances, nodes, entities, cameras>>

addAnimationKeyframe(g) ==
    /\ status = "running" /\ g \in Live
    /\ status' = IF animations[object[g].mName] = "none" THEN "keyframe without animation" ELSE status
    /\ UNCHANGED <<mObjects, object, component, msInstances, scene>>

destroyAnimation(g) ==
    /\ status = "running" /\ g \in Live
    /\ LET n == object[g].mName
       IN IF animations[n] = "none"
          THEN status' = "destroy without animation" /\ UNCHANGED <<object, animations>>
          ELSE /\ animations' = [animations EXCEPT ![n] = "none"]
               /\ object' = [object EXCEPT ![g].mAnimation = FALSE]
               /\ status' = status
    /\ UNCHANGED <<mObjects, component, msInstances, nodes, entities, cameras>>

\* Ogre applies every enabled animation to the nodes of its tracks.
renderOneFrame ==
    /\ status = "running"
    /\ status' = IF \E n \in Names : animations[n] = "dangling" THEN "undefined" ELSE status
    /\ UNCHANGED <<mObjects, object, component, msInstances, scene>>

-----------------------------------------------------------------------------
Create == \E n \in Names, tag \in Tags, g \in Objects : createGameObject(n, tag, g)
Remove == (\E n \in Names : removeGameObject(n)) \/ (\E tag \in Tags : removeGameObjectByTag(tag))
CreateComponent ==
    \E g \in Objects, c \in Comps :
        \/ createMeshComponent(g, c) \/ createSoundComponent(g, c)
        \/ createPhysicsComponent(g, c) \/ createCameraComponent(g, c)
UseObject ==
    \E g \in Objects :
        \/ \E t \in Slots, b \in BOOLEAN : enableComponent(g, t, b)
        \/ loadMesh(g)
        \/ createAnimation(g) \/ addAnimationKeyframe(g) \/ destroyAnimation(g)

Next == Create \/ Remove \/ CreateComponent \/ UseObject \/ renderOneFrame \/ close

Spec == Init /\ [][Next]_vars

-----------------------------------------------------------------------------
(***************************************************************************)
(* Properties                                                              *)
(***************************************************************************)
GameObject == [mName : Names, mTag : Tags, mAnimation : BOOLEAN,
               mComponents : [Slots -> Comps \cup {NULL}]]
Component == [type : Slots, mOwner : Objects, mEnable : BOOLEAN, mEntity : BOOLEAN]

\* Type invariant.  The counts of a factory's entries stay natural: deallocate
\* is asked for components the vector does not hold, and erases nothing then.
TypeOK ==
    /\ mObjects \in [Names -> Objects \cup {NULL}]
    /\ object \in [Objects -> GameObject \cup {Freed}]
    /\ component \in [Comps -> Component \cup {Freed}]
    /\ msInstances \in [Slots -> [Comps -> Nat]]
    /\ nodes \in [Names -> Objects \cup {NULL}]
    /\ entities \subseteq Names
    /\ cameras \subseteq Names
    /\ animations \in [Names -> {"none", "live", "dangling"}]
    /\ status \in Exceptions \cup {"running", "closed", "undefined"}

\* The map and the heap agree: a name maps to a live object of that name, and
\* every live object is the one its name maps to (createGameObject, the two
\* removes, ~BaseApplication).  No object leaks and none is left dangling.
MapMatchesHeap ==
    /\ \A n \in Names : mObjects[n] # NULL => mObjects[n] \in Live /\ object[mObjects[n]].mName = n
    /\ \A g \in Live : mObjects[object[g].mName] = g

\* A scene node exists for exactly the names in the map, so the constructor's
\* createChildSceneNode is the only place a duplicate name is refused.
NodesMatchMap == nodes = mObjects


\* addGameObject, which would leak the new object, never refuses one.
AddNeverRefuses == status # "object name taken"

\* Every slot of a live object holds NULL or a live component of the slot's
\* type that the object owns (the four create methods, ~GameObject): the
\* static_casts of the getters are right, and no component has two owners.
SlotsOwnComponents ==
    \A g \in Live, t \in Slots :
        LET c == object[g].mComponents[t]
        IN c # NULL => /\ c \in LiveComps
                       /\ component[c].type = t
                       /\ component[c].mOwner = g

\* The mesh, sound and camera factories list every live component of their
\* type once and no other, over frees and reuse of addresses, although
\* ~GameObject asks the camera factory for physics components too.
FactoriesListLive ==
    \A t \in Slots \ {"PHYSICS"}, c \in Comps :
        msInstances[t][c] = IF c \in LiveComps /\ component[c].type = t THEN 1 ELSE 0

\* An object whose mAnimation is set has an animation with a track to its own
\* node: update's getAnimationState never fails (createAnimation,
\* destroyAnimation, destruction and reuse of the name).
AnimationFlagHolds ==
    \A g \in Live : object[g].mAnimation => animations[object[g].mName] = "live"

\* A component leaves its slot only when its object dies, and then it is
\* deleted, or when a new component of its type takes the slot.
ComponentsDieWithOwner ==
    [][\A g \in Live, t \in Slots :
         LET c == object[g].mComponents[t]
         IN c # NULL =>
               IF object'[g] = Freed THEN component'[c] = Freed
               ELSE \/ object'[g].mComponents[t] = c
                    \/ object'[g].mComponents[t] \in LiveComps' \ LiveComps]_vars

-----------------------------------------------------------------------------
(***************************************************************************)
(* What the objects promise by name and tag (see Registry).  An object has *)
(* a name if the map says so or if it says so itself; an animation moves   *)
(* its object if the object knows, and its track's node is there.          *)
(***************************************************************************)
EntryOf(n) == {g \in Objects : mObjects[n] = g \/ (g \in Live /\ object[g].mName = n)}
TagOf(g) == IF g \in Live THEN object[g].mTag ELSE NULL
SlotsOf(g) == IF g \in Live THEN object[g].mComponents ELSE [t \in Slots |-> NULL]
OwnerOf(c) == IF c \in LiveComps THEN <<component[c].type, component[c].mOwner>> ELSE NULL
Flagged(n) == \E g \in Live : object[g].mName = n /\ object[g].mAnimation
Moves == [none |-> "none", live |-> "moving", dangling |-> "left behind"]
AnimationOf(n) ==
    IF animations[n] = "live" <=> Flagged(n) THEN Moves[animations[n]] ELSE "broken"

Reg == INSTANCE Registry WITH
    entry <- [n \in Names |-> EntryOf(n)],
    tag <- [g \in Objects |-> TagOf(g)],
    slot <- [g \in Objects |-> SlotsOf(g)],
    owner <- [c \in Comps |-> OwnerOf(c)],
    animation <- [n \in Names |-> AnimationOf(n)],
    phase <- IF status = "running" THEN "open" ELSE status

\* By name and tag, the map, heap, factories and Ogre's tables together are the
\* registry of Registry: one object a name, nothing lost but what a second create
\* pushes out of a slot, nothing removed that was not asked for, and calls that
\* throw have no effect on any of it.
ImplementsRegistry == Reg!Spec
=============================================================================
