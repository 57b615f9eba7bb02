-------------------------- MODULE FrameLoopProofs --------------------------
(***************************************************************************)
(* Theorems about FrameLoop.  Its steps are steps of ObjectStore, so the   *)
(* invariants proved there hold of its objects; with them, in this order:  *)
(* the type invariant, the loop over the listeners, the update pass, the   *)
(* contract of a frame, and the causes of whatever undefined is done.      *)
(***************************************************************************)
EXTENDS FrameLoop, WellFoundedInduction, SequenceTheorems, TLAPS

Proved == INSTANCE ObjectStoreProofs

-----------------------------------------------------------------------------
(***************************************************************************)
(* The objects: every step of the frame loop is one of ObjectStore or      *)
(* leaves the objects alone, so what is proved of ObjectStore holds here.  *)
(***************************************************************************)
LEMMA StoreAssumed == Proved!StoreAssumption
BY FrameStoreAssumption DEF Store!StoreAssumption, Proved!StoreAssumption, Store!Slots, Proved!Slots

LEMMA FreeAddresses ==
    /\ NewObject \subseteq Objects \ Store!Live
    /\ NewComp \subseteq Comps
BY DEF NewObject, NewComp, AnyOf

StoreNext == Store!Create \/ Store!Remove \/ Store!CreateComponent \/ Store!UseObject \/ Store!renderOneFrame

LEMMA SceneUsesStore ==
    ASSUME Native("scene"), SceneCall(step)
    PROVE  StoreNext \/ UNCHANGED storeVars
<1>0. {Box, mainCam, Listener} \subseteq Names /\ {BoxTag, CamTag} \subseteq Tags
  BY FrameAssumption
<1>1. ASSUME NEW n \in Names, NEW tag \in Tags, createFor(n, tag) PROVE Store!Create
  BY <1>1, FreeAddresses DEF createFor, Store!Create
<1>2. ASSUME NEW g, NEW c \in NewComp,
             \/ Store!createMeshComponent(g, c) \/ Store!createPhysicsComponent(g, c)
             \/ Store!createCameraComponent(g, c)
      PROVE  Store!CreateComponent
  <2>1. g \in Objects /\ c \in Comps
    BY <1>2, FreeAddresses DEF Store!createMeshComponent, Store!createPhysicsComponent,
                               Store!createCameraComponent, Store!Live
  <2> QED BY <1>2, <2>1 DEF Store!CreateComponent
<1>3. ASSUME NEW g, Store!loadMesh(g) PROVE Store!UseObject
  <2>1. g \in Store!Live
    BY <1>3, Zenon DEF Store!loadMesh
  <2>2. g \in Objects
    BY <2>1 DEF Store!Live
  <2> QED BY <1>3, <2>2 DEF Store!UseObject
<1> QED BY <1>0, <1>1, <1>2, <1>3 DEF SceneCall, StoreNext

LEMMA NextUsesStore ==
    ASSUME [Next]_vars
    PROVE  StoreNext \/ UNCHANGED storeVars
<1>1. CASE initializeScene
  BY <1>1, SceneUsesStore DEF initializeScene
<1>2. CASE render
  BY <1>2 DEF render, StoreNext
<1>3. CASE \E n \in Names, tag \in Tags, hasScript \in BOOLEAN, g \in Objects : newGameObject(n, tag, hasScript, g)
  BY <1>3 DEF newGameObject, StoreNext, Store!Create
<1>4. CASE \E g \in Objects : execCreateAnimation(g)
  BY <1>4 DEF execCreateAnimation, StoreNext, Store!UseObject
<1>5. CASE \E g \in Objects : execCreatePhysics(g)
  BY <1>5, FreeAddresses DEF execCreatePhysics, StoreNext, Store!CreateComponent
<1>9. CASE \E g \in Objects : execCreateMesh(g) \/ execLoadMesh(g)
  BY <1>9, FreeAddresses DEF execCreateMesh, execLoadMesh, StoreNext, Store!CreateComponent, Store!UseObject
<1>6. CASE \E tag \in Tags : destroyObjectWithTag(tag)
  BY <1>6 DEF destroyObjectWithTag, StoreNext, Store!Remove
<1>7. CASE \/ initReturned \/ noEvent \/ quitEvent \/ inputEvent \/ sendToListener \/ messageSent
           \/ soundUpdate \/ updateWorld \/ tellContact \/ beginPass \/ updateObject \/ advance
           \/ passDone \/ actOnActions \/ handlerReturns \/ \E g \in Objects : input_register(g)
  BY <1>7 DEF initReturned, noEvent, quitEvent, inputEvent, sendToListener, messageSent,
              soundUpdate, updateWorld, tellContact, beginPass, updateObject, advance,
              passDone, actOnActions, handlerReturns, input_register
<1>8. CASE UNCHANGED vars
  BY <1>8 DEF vars
<1> QED BY <1>1, <1>2, <1>3, <1>4, <1>5, <1>6, <1>7, <1>8, <1>9 DEF Next, NativeStep, ScriptCall

\* The frame loop implements ObjectStore: handlers and the scene use the objects
\* in no other way than ObjectStore's operations.
THEOREM FrameUsesStore == Spec => Store!Spec
<1>1. Init => Store!Init
  BY DEF Init
<1>2. [Next]_vars => [Store!Next]_(Store!vars)
  BY NextUsesStore DEF StoreNext, Store!Next, storeVars, Store!vars
<1> QED BY <1>1, <1>2, PTL DEF Spec, Store!Spec

\* The instances of ObjectStore in FrameLoop and in the proofs about it are one.
LEMMA SameStore == (Store!Init <=> Proved!Init) /\ (Store!Next <=> Proved!Next)
BY DEF Store!Init, Proved!Init, Store!Next, Proved!Next, Store!Create, Proved!Create, Store!Remove, Proved!Remove,
       Store!CreateComponent, Proved!CreateComponent, Store!UseObject, Proved!UseObject,
       Store!renderOneFrame, Proved!renderOneFrame, Store!close, Proved!close,
       Store!createGameObject, Proved!createGameObject, Store!NewGameObject,
       Proved!NewGameObject, Store!removeGameObject, Proved!removeGameObject,
       Store!removeGameObjectByTag, Proved!removeGameObjectByTag, Store!findObjectsByTag,
       Proved!findObjectsByTag, Store!Free, Proved!Free, Store!Release, Proved!Release,
       Store!Erase, Proved!Erase, Store!Deleted, Proved!Deleted, Store!InSlots, Proved!InSlots,
       Store!Deallocated, Proved!Deallocated, Store!DeallocatesIn, Proved!DeallocatesIn,
       Store!EntriesAfter, Proved!EntriesAfter, Store!EntitiesOf, Proved!EntitiesOf,
       Store!createMeshComponent, Proved!createMeshComponent, Store!createSoundComponent,
       Proved!createSoundComponent, Store!createPhysicsComponent, Proved!createPhysicsComponent,
       Store!createCameraComponent, Proved!createCameraComponent, Store!allocate,
       Proved!allocate, Store!SlotOf, Proved!SlotOf, Store!loadMesh, Proved!loadMesh,
       Store!enableComponent, Proved!enableComponent, Store!createAnimation,
       Proved!createAnimation, Store!addAnimationKeyframe, Proved!addAnimationKeyframe,
       Store!destroyAnimation, Proved!destroyAnimation, Store!Live, Proved!Live, Store!LiveComps,
       Proved!LiveComps, Store!Slots, Proved!Slots, Store!vars, Proved!vars, Store!scene,
       Proved!scene

-----------------------------------------------------------------------------
(***************************************************************************)
(* What the loop needs to know of the objects.                             *)
(***************************************************************************)
NodesAreNamed == nodes = mObjects /\ status # "object name taken"
MapHasLive ==
    /\ \A n \in Names : mObjects[n] # NULL => mObjects[n] \in Store!Live /\ object[mObjects[n]].mName = n
    /\ \A g \in Store!Live : object[g].mName \in Names /\ mObjects[object[g].mName] = g
AnimationKnown ==
    \A n \in Names : animations[n] = "live" =>
        \E g \in Store!Live : object[g].mName = n /\ object[g].mAnimation

SInv == Store!TypeOK /\ NodesAreNamed /\ MapHasLive /\ AnimationKnown

LEMMA StoreFacts == Proved!RInv => SInv
<1> SUFFICES ASSUME Proved!RInv PROVE SInv
  OBVIOUS
<1>1. /\ Proved!TypeOK /\ Proved!MapMatchesHeap /\ Proved!NodesMatchMap
      /\ Proved!AddNeverRefuses /\ Proved!LiveFlagged
  BY DEF Proved!RInv, Proved!IInv
<1>2. Store!TypeOK
  BY <1>1 DEF Proved!TypeOK, Store!TypeOK, Proved!GameObject, Store!GameObject,
     Proved!Component, Store!Component, Proved!Slots, Store!Slots, Proved!Exceptions, Store!Exceptions
<1>3. NodesAreNamed
  BY <1>1 DEF Proved!NodesMatchMap, Proved!AddNeverRefuses, NodesAreNamed
<1>4. \A g \in Store!Live : object[g].mName \in Names
  BY <1>2 DEF Store!TypeOK, Store!Live, Store!GameObject
<1>5. MapHasLive
  BY <1>1, <1>4 DEF Proved!MapMatchesHeap, MapHasLive, Proved!Live, Store!Live
<1>6. AnimationKnown
  BY <1>1 DEF Proved!LiveFlagged, Proved!Flagged, AnimationKnown, Proved!Live, Store!Live
<1> QED BY <1>2, <1>3, <1>5, <1>6 DEF SInv

LEMMA StoreInvariantHolds == Spec => []SInv
<1>1. Store!Spec => Proved!Spec
  <2>1. Store!Init => Proved!Init
    BY SameStore
  <2>2. [Store!Next]_(Store!vars) => [Proved!Next]_(Proved!vars)
    BY SameStore DEF Store!vars, Proved!vars
  <2> QED BY <2>1, <2>2, PTL DEF Store!Spec, Proved!Spec
<1>2. Proved!Spec => []Proved!RInv
  BY StoreAssumed, Proved!RegistryInvariant
<1> QED BY <1>1, <1>2, FrameUsesStore, StoreFacts, PTL

-----------------------------------------------------------------------------
(***************************************************************************)
(* What the operations on objects do, as far as the loop can tell.         *)
(***************************************************************************)
SameObjects ==
    /\ Store!Live' = Store!Live
    /\ mObjects' = mObjects
    /\ \A g \in Store!Live : object'[g].mName = object[g].mName

Created(n, tag, g) ==
    /\ g \notin Store!Live /\ Store!Live' = Store!Live \cup {g}
    /\ mObjects[n] = NULL /\ mObjects' = [mObjects EXCEPT ![n] = g]
    /\ object'[g].mName = n
    /\ \A h \in Store!Live : object'[h].mName = object[h].mName

Destroyed(gone) ==
    /\ gone \subseteq Store!Live /\ Store!Live' = Store!Live \ gone
    /\ mObjects' = [n \in Names |-> IF mObjects[n] \in gone THEN NULL ELSE mObjects[n]]
    /\ \A h \in Store!Live' : object'[h] = object[h]

LEMMA ObjectRecords ==
    ASSUME SInv
    PROVE  /\ object \in [Objects -> Store!GameObject \cup {Freed}]
           /\ mObjects \in [Names -> Objects \cup {NULL}]
           /\ NULL \notin Objects /\ Freed \notin Store!GameObject
           /\ Store!Live \subseteq Objects
           /\ \A g \in Store!Live : object[g] \in Store!GameObject
BY FrameStoreAssumption DEF SInv, Store!TypeOK, Store!Live, Store!StoreAssumption, Store!GameObject

LEMMA CreateEffect ==
    ASSUME SInv, NEW n \in Names, NEW tag \in Tags, NEW g \in Objects, Store!createGameObject(n, tag, g)
    PROVE  \/ SameObjects /\ status' = "node name taken"
           \/ Created(n, tag, g) /\ status' = "running"
<1> USE ObjectRecords
<1>1. CASE nodes[n] # NULL
  BY <1>1 DEF Store!createGameObject, SameObjects, Store!Live
<1>2. CASE nodes[n] = NULL
  <2>1. mObjects[n] = NULL
    BY <1>2 DEF SInv, NodesAreNamed
  <2>2. Store!NewGameObject(n, tag) \in Store!GameObject /\ Store!NewGameObject(n, tag).mName = n
    BY DEF Store!NewGameObject, Store!GameObject
  <2>3. /\ object' = [object EXCEPT ![g] = Store!NewGameObject(n, tag)] /\ object[g] = Freed
        /\ mObjects' = [mObjects EXCEPT ![n] = g] /\ status' = "running"
    BY <1>2, <2>1 DEF Store!createGameObject
  <2>4. Store!Live' = Store!Live \cup {g} /\ g \notin Store!Live
    BY <2>2, <2>3 DEF Store!Live
  <2>5. object'[g].mName = n /\ \A h \in Store!Live : object'[h].mName = object[h].mName
    BY <2>2, <2>3, <2>4
  <2> QED BY <2>1, <2>3, <2>4, <2>5 DEF Created
<1> QED BY <1>1, <1>2

LEMMA AllocateEffect ==
    ASSUME SInv, NEW g \in Store!Live, NEW t \in Store!Slots, NEW c \in Comps,
           Store!allocate(g, t, c), mObjects' = mObjects
    PROVE  SameObjects
<1> USE ObjectRecords
<1>1. object' = [object EXCEPT ![g].mComponents[t] = c]
  BY DEF Store!allocate, Store!SlotOf
<1>2. \A h \in Store!Live : object'[h].mName = object[h].mName
  BY <1>1 DEF Store!GameObject
<1>3. \A h \in Objects : object'[h] = Freed <=> object[h] = Freed
  <2> TAKE h \in Objects
  <2>1. h # g => object'[h] = object[h]
    BY <1>1
  <2>2. object'[g] \in Store!GameObject
    BY <1>1 DEF Store!GameObject
  <2>3. object[g] # Freed
    BY DEF Store!Live
  <2> QED BY <2>1, <2>2, <2>3
<1> QED BY <1>2, <1>3 DEF SameObjects, Store!Live

LEMMA AnimationEffect ==
    ASSUME SInv, NEW g, Store!createAnimation(g)
    PROVE  SameObjects
<1> USE ObjectRecords
<1>1. CASE animations[object[g].mName] # "none"
  BY <1>1 DEF Store!createAnimation, SameObjects, Store!Live
<1>2. CASE animations[object[g].mName] = "none"
  <2>1. object' = [object EXCEPT ![g].mAnimation = TRUE] /\ g \in Store!Live /\ mObjects' = mObjects
    BY <1>2 DEF Store!createAnimation
  <2>2. object'[g] \in Store!GameObject /\ object'[g].mName = object[g].mName
    BY <2>1 DEF Store!GameObject
  <2>3. Store!Live' = Store!Live
    BY <2>1, <2>2 DEF Store!Live
  <2> QED BY <2>1, <2>2, <2>3 DEF SameObjects
<1> QED BY <1>1, <1>2

LEMMA DestroyEffect ==
    ASSUME SInv, NEW tag \in Tags, Store!removeGameObjectByTag(tag)
    PROVE  Destroyed(Store!findObjectsByTag(tag))
<1> USE ObjectRecords
<1> DEFINE gone == Store!findObjectsByTag(tag)
<1>1. gone \subseteq Store!Live
  BY DEF Store!findObjectsByTag, SInv, MapHasLive
<1>2. /\ object' = [g \in Objects |-> IF g \in gone THEN Freed ELSE object[g]]
      /\ mObjects' = [n \in Names |-> IF mObjects[n] \in gone THEN NULL ELSE mObjects[n]]
  BY DEF Store!removeGameObjectByTag, Store!Free, Store!Erase
<1> HIDE DEF gone
<1>3. Store!Live' = Store!Live \ gone /\ \A h \in Store!Live' : object'[h] = object[h]
  BY <1>1, <1>2 DEF Store!Live
<1> QED BY <1>1, <1>2, <1>3 DEF Destroyed, gone

\* The scene deletes nothing and animates nothing.
LEMMA SceneEffect ==
    ASSUME SInv, Native("scene"), SceneCall(step)
    PROVE  /\ Store!Live \subseteq Store!Live'
           /\ animations' = animations
           /\ status' # "undefined"
<1> USE ObjectRecords
<1>a. status = "running"
  BY DEF Native, Running
<1>0. {Box, mainCam, Listener} \subseteq Names /\ {BoxTag, CamTag} \subseteq Tags
  BY FrameAssumption
<1>1. ASSUME NEW n \in Names, NEW tag \in Tags, createFor(n, tag)
      PROVE  Store!Live \subseteq Store!Live' /\ animations' = animations /\ status' # "undefined"
  <2>1. PICK g \in Objects : Store!createGameObject(n, tag, g)
    BY <1>1, FreeAddresses DEF createFor
  <2>2. animations' = animations
    BY <2>1 DEF Store!createGameObject
  <2>3. SameObjects \/ Created(n, tag, g)
    BY <2>1, CreateEffect
  <2>4. status' # "undefined"
    BY <2>1, CreateEffect
  <2> QED BY <2>2, <2>3, <2>4 DEF SameObjects, Created
<1>2. ASSUME NEW g, NEW c \in NewComp,
             Store!createMeshComponent(g, c) \/ Store!createPhysicsComponent(g, c)
      PROVE  Store!Live \subseteq Store!Live' /\ animations' = animations /\ status' # "undefined"
  <2>1. PICK t \in {"MESH", "PHYSICS"} : Store!allocate(g, t, c) /\ g \in Store!Live
    BY <1>2 DEF Store!createMeshComponent, Store!createPhysicsComponent
  <2>2. mObjects' = mObjects /\ animations' = animations /\ status' = "running"
    BY <1>2 DEF Store!createMeshComponent, Store!createPhysicsComponent, Store!scene
  <2> QED BY <2>1, <2>2, AllocateEffect, FreeAddresses DEF Store!Slots, SameObjects
<1>3. ASSUME NEW g, NEW c \in NewComp, Store!createCameraComponent(g, c)
      PROVE  Store!Live \subseteq Store!Live' /\ animations' = animations /\ status' # "undefined"
  <2>1. CASE object[g].mName \in cameras
    BY <1>3, <2>1 DEF Store!createCameraComponent, Store!Live
  <2>2. CASE object[g].mName \notin cameras
    BY <1>3, <2>2, AllocateEffect, FreeAddresses DEF Store!createCameraComponent, Store!Slots, SameObjects
  <2> QED BY <2>1, <2>2
<1>4. ASSUME NEW g, Store!loadMesh(g)
      PROVE  Store!Live \subseteq Store!Live' /\ animations' = animations /\ status' # "undefined"
  <2>1. UNCHANGED <<object, animations>> /\ status' \in {"entity name taken", status}
    BY <1>4, Zenon DEF Store!loadMesh
  <2> QED BY <1>a, <2>1 DEF Store!Live
<1>5. UNCHANGED storeVars => Store!Live \subseteq Store!Live' /\ animations' = animations /\ status' # "undefined"
  BY <1>a DEF storeVars, Store!Live
<1> QED BY <1>0, <1>1, <1>2, <1>3, <1>4, <1>5 DEF SceneCall

-----------------------------------------------------------------------------
(***************************************************************************)
(* The order of the names.                                                 *)
(***************************************************************************)
Less == {p \in Nat \X Nat : p[1] < p[2]}

LEMMA LeastNat ==
    ASSUME NEW S \in SUBSET Nat, S # {}
    PROVE  Min(S) \in S /\ \A n \in S : Min(S) <= n
<1>1. IsWellFoundedOn(Less, Nat)
  BY NatLessThanWellFounded DEF OpToRel, Less
<1>2. PICK m \in S : \A n \in S : ~(<<n, m>> \in Less)
  BY <1>1, WFMin
<1>3. \A n \in S : m <= n
  <2> SUFFICES ASSUME NEW n \in S, n < m PROVE FALSE
    OBVIOUS
  <2>1. <<n, m>> \in Less
    BY DEF Less
  <2> QED BY <2>1, <1>2
<1> QED BY <1>3 DEF Min

-----------------------------------------------------------------------------
(***************************************************************************)
(* The steps of the loop by what they do to the objects.                   *)
(***************************************************************************)
\* What scripts do to one object.
Equips(g) == execCreateAnimation(g) \/ execCreatePhysics(g) \/ execCreateMesh(g) \/ execLoadMesh(g)

LEMMA EquipsKeeps ==
    ASSUME NEW g, Equips(g)
    PROVE  UNCHANGED <<pc, sceneVars, calls, mHasScript, inputVars, passVars, done, slips>> /\ MakesCall
BY DEF Equips, execCreateAnimation, execCreatePhysics, execCreateMesh, execLoadMesh

\* Steps that neither create nor destroy an object.
Quiet ==
    \/ NativeStep /\ ~initializeScene
    \/ \E g \in Objects : input_register(g) \/ Equips(g)
    \/ handlerReturns
    \/ UNCHANGED vars

LEMMA QuietEffect ==
    ASSUME SInv, Quiet
    PROVE  SameObjects
<1>1. ASSUME UNCHANGED <<mObjects, object>> PROVE SameObjects
  BY <1>1 DEF SameObjects, Store!Live
<1>2. CASE \E g \in Objects : execCreatePhysics(g)
  <2>1. PICK g \in Objects, c \in NewComp : Store!createPhysicsComponent(g, c)
    BY <1>2 DEF execCreatePhysics
  <2>2. g \in Store!Live /\ Store!allocate(g, "PHYSICS", c) /\ mObjects' = mObjects
    BY <2>1 DEF Store!createPhysicsComponent
  <2> QED BY <2>2, AllocateEffect, FreeAddresses DEF Store!Slots
<1>3. CASE \E g \in Objects : execCreateAnimation(g)
  BY <1>3, AnimationEffect DEF execCreateAnimation
<1>7. CASE \E g \in Objects : execCreateMesh(g)
  <2>1. PICK g \in Objects, c \in NewComp : Store!createMeshComponent(g, c)
    BY <1>7 DEF execCreateMesh
  <2>2. g \in Store!Live /\ Store!allocate(g, "MESH", c) /\ mObjects' = mObjects
    BY <2>1 DEF Store!createMeshComponent
  <2> QED BY <2>2, AllocateEffect, FreeAddresses DEF Store!Slots
<1>8. CASE \E g \in Objects : execLoadMesh(g)
  <2>1. UNCHANGED <<mObjects, object>>
    BY <1>8, Zenon DEF execLoadMesh, Store!loadMesh
  <2> QED BY <1>1, <2>1
<1>4. CASE render
  BY <1>1, <1>4 DEF render, Store!renderOneFrame
<1>5. CASE \/ initReturned \/ noEvent \/ quitEvent \/ inputEvent \/ sendToListener \/ messageSent
           \/ soundUpdate \/ updateWorld \/ tellContact \/ beginPass \/ updateObject \/ advance
           \/ passDone \/ actOnActions \/ handlerReturns \/ \E g \in Objects : input_register(g)
  BY <1>1, <1>5 DEF initReturned, noEvent, quitEvent, inputEvent, sendToListener, messageSent,
              soundUpdate, updateWorld, tellContact, beginPass, updateObject, advance,
              passDone, actOnActions, handlerReturns, input_register, storeVars
<1>6. CASE UNCHANGED vars
  BY <1>1, <1>6 DEF vars, storeVars
<1> QED BY <1>2, <1>3, <1>4, <1>5, <1>6, <1>7, <1>8 DEF Quiet, NativeStep, Equips

\* The three kinds of steps that are not quiet.
LEMMA NextCases ==
    ASSUME [Next]_vars
    PROVE  \/ Quiet
           \/ initializeScene
           \/ \E g \in Objects, n \in Names, tag \in Tags, hasScript \in BOOLEAN :
                newGameObject(n, tag, hasScript, g)
           \/ \E tag \in Tags : destroyObjectWithTag(tag)
BY DEF Next, NativeStep, ScriptCall, Quiet, Equips

\* What newGameObject does: refuse the name, or create and begin onCreate.
Refused == SameObjects /\ status' = "node name taken" /\ UNCHANGED <<calls, mHasScript, updates, late>>

Fresh(g, n, tag, hasScript) ==
    /\ Created(n, tag, g) /\ status' = "running"
    /\ mHasScript' = IF hasScript THEN mHasScript \cup {g} ELSE mHasScript \ {g}
    /\ calls' = IF hasScript THEN Append(calls, g) ELSE calls
    /\ updates' = [updates EXCEPT ![g] = 0]
    /\ late' = IF pc = "advance" /\ n < cursor THEN late \cup {g} ELSE late

LEMMA NewObjectEffect ==
    ASSUME SInv, NEW g \in Objects, NEW n \in Names, NEW tag \in Tags, NEW hasScript \in BOOLEAN,
           newGameObject(n, tag, hasScript, g)
    PROVE  Refused \/ Fresh(g, n, tag, hasScript)
<1>1. CASE SameObjects /\ status' = "node name taken"
  BY <1>1 DEF newGameObject, Refused
<1>2. CASE Created(n, tag, g) /\ status' = "running"
  BY <1>2 DEF newGameObject, Fresh
<1> QED BY <1>1, <1>2, CreateEffect DEF newGameObject

-----------------------------------------------------------------------------
(***************************************************************************)
(* The type invariant.                                                     *)
(***************************************************************************)
LEMMA LeastPresent ==
    ASSUME NEW n \in Nat
    PROVE  /\ Begin = End => Present = {}
           /\ Begin # End => Begin \in Present /\ \A m \in Present : Begin <= m
           /\ After(n) = End => \A m \in Present : m <= n
           /\ After(n) # End => /\ After(n) \in Present /\ After(n) > n
                                /\ \A m \in Present : m > n => After(n) <= m
<1>1. Present \in SUBSET Names /\ Present \in SUBSET Nat /\ End \notin Names
  BY FrameAssumption DEF Present
<1>2. ASSUME NEW S \in SUBSET Present
      PROVE  /\ FirstOf(S) = End => S = {}
             /\ FirstOf(S) # End => FirstOf(S) \in S /\ \A m \in S : FirstOf(S) <= m
  BY <1>1, <1>2, LeastNat DEF FirstOf
<1>3. DEFINE S == {m \in Present : m > n}
<1>4. S \in SUBSET Present
  OBVIOUS
<1>5. After(n) = FirstOf(S)
  BY DEF After
<1>6. /\ Begin = End => Present = {}
      /\ Begin # End => Begin \in Present /\ \A m \in Present : Begin <= m
  BY <1>2 DEF Begin
<1>7. /\ FirstOf(S) = End => S = {}
      /\ FirstOf(S) # End => FirstOf(S) \in S /\ \A m \in S : FirstOf(S) <= m
  BY <1>2, <1>4
<1>8. \A m \in Present : m \in Nat
  BY <1>1
<1> QED BY <1>5, <1>6, <1>7, <1>8

LEMMA CallsKeepType ==
    ASSUME TypeOK
    PROVE  /\ \A g \in Objects : <<g>> \in Seq(Objects \cup {NULL})
           /\ \A g \in Objects : Append(calls, g) \in Seq(Objects \cup {NULL})
           /\ calls # <<>> => Front(calls) \in Seq(Objects \cup {NULL})
<1>1. calls \in Seq(Objects \cup {NULL})
  BY DEF TypeOK
<1>2. ASSUME calls # <<>> PROVE Front(calls) \in Seq(Objects \cup {NULL})
  <2>1. Len(calls) \in Nat /\ \A i \in 1 .. Len(calls) - 1 : calls[i] \in Objects \cup {NULL}
    BY <1>1, LenProperties, ElementOfSeq
  <2> QED BY <2>1, SubSeqProperties DEF Front
<1> QED BY <1>1, <1>2

LEMMA ListenersKeepType ==
    ASSUME TypeOK
    PROVE  /\ Len(mInputListeners) \in Nat
           /\ \A i \in 1 .. Len(mInputListeners) : mInputListeners[i] \in Objects
           /\ \A g \in Objects : /\ addListener(g) \in Seq(Objects)
                                 /\ Len(addListener(g)) >= Len(mInputListeners)
<1>1. mInputListeners \in Seq(Objects)
  BY DEF TypeOK
<1>2. \A g \in Objects : Append(mInputListeners, g) \in Seq(Objects)
                         /\ Len(Append(mInputListeners, g)) = Len(mInputListeners) + 1
  BY <1>1, AppendProperties
<1>3. Len(mInputListeners) \in Nat
  BY <1>1, LenProperties
<1> QED BY <1>1, <1>2, <1>3, ElementOfSeq DEF addListener

\* Between an update and ++it the iterator is at an element, erased or not.
AtName == pc = "advance" => cursor \in Names

LEMMA CountedIsCount == \A n \in 0 .. 2 : Counted(n) \in 0 .. 2 /\ Counted(n) # 0
BY DEF Counted

LEMMA InitHasType == SInv /\ Init => TypeOK
<1> SUFFICES ASSUME SInv, Init PROVE TypeOK
  OBVIOUS
<1>1. NULL \in Objects \cup {NULL} /\ <<NULL>> \in Seq(Objects \cup {NULL}) /\ <<>> \in Seq(Objects)
  OBVIOUS
<1>2. index \in 1 .. Len(IF contacts # <<>> THEN contacts ELSE mInputListeners) + 1
  BY DEF Init
<1>3. ops \in 0 .. MaxOps
  <2>1. ops = 0
    BY DEF Init
  <2>2. MaxOps \in Nat
    BY FrameAssumption
  <2> QED BY <2>1, <2>2
<1>4. calls \in Seq(Objects \cup {NULL}) /\ pc = "init" /\ mInputListeners \in Seq(Objects)
  BY <1>1 DEF Init
<1>5. {keydown, jump, invalid, done} \subseteq BOOLEAN
  BY DEF Init
<1>6. told \in [Objects -> 0 .. 2] /\ updates \in [Objects -> 0 .. 2]
  BY DEF Init
<1> QED BY <1>2, <1>3, <1>4, <1>5, <1>6 DEF Init, TypeOK, SInv

LEMMA QuietKeepsType ==
    ASSUME SInv, SInv', TypeOK, AtName, Quiet
    PROVE  TypeOK'
<1> USE ObjectRecords
<1>0. /\ Store!TypeOK' /\ Store!Live' = Store!Live /\ Store!Live \subseteq Objects
      /\ MaxOps \in Nat /\ End \notin Names /\ Names \subseteq Nat
  BY QuietEffect, FrameAssumption DEF SInv, SameObjects
<1>1. CASE initReturned \/ noEvent \/ quitEvent \/ soundUpdate \/ passDone \/ actOnActions
  BY <1>0, <1>1 DEF initReturned, noEvent, quitEvent, soundUpdate, passDone, actOnActions,
     TypeOK, sceneVars, inputVars, passVars, Native
<1>2. CASE render
  BY <1>0, <1>2 DEF render, TypeOK, sceneVars, inputVars, passVars, Native
<1>3. CASE inputEvent
  <2>1. told' = [g \in Objects |-> 0] /\ index' = 1 /\ Len(mInputListeners) \in Nat
    BY <1>3, ListenersKeepType DEF inputEvent, StartMessage
  <2>2. jump' \in BOOLEAN /\ keydown' \in BOOLEAN
    <3> DEFINE presses == {"action pressed", "jump pressed", "key pressed"}
    <3>1. PICK e \in Events :
             /\ jump' = (e = "jump pressed" \/ (jump /\ e # "jump released"))
             /\ keydown' = (e \in presses)
      BY <1>3, Zenon DEF inputEvent
    <3> HIDE DEF presses
    <3>2. jump' \in BOOLEAN
      BY <3>1, Zenon
    <3>3. keydown' \in BOOLEAN
      <4>1. (e \in presses) \in BOOLEAN
        OBVIOUS
      <4> QED BY <3>1, <4>1, Zenon
    <3> QED BY <3>2, <3>3
  <2>3. pc' \in {"onAction", "onKeydown"}
    BY <1>3 DEF inputEvent, StartMessage
  <2>4. calls = <<>> /\ calls' = calls /\ contacts = <<>>
    BY <1>3 DEF inputEvent, TypeOK, Native
  <2>5. UNCHANGED <<step, mListener, contacts, calls, mHasScript, mInputListeners, passVars, done, ops, slips>>
    BY <1>3 DEF inputEvent, sceneVars
  <2>6. told' \in [Objects -> 0 .. 2] /\ index' \in 1 .. Len(mInputListeners') + 1
    BY <2>1, <2>5
  <2> QED BY <1>0, <2>2, <2>3, <2>4, <2>5, <2>6 DEF TypeOK, passVars
<1>4. CASE sendToListener
  <2>1. /\ index' \in 1 .. Len(mInputListeners) + 1
        /\ mInputListeners[index] \in Objects
    BY <1>4, ListenersKeepType DEF sendToListener, TypeOK, Native
  <2>2. told' \in [Objects -> 0 .. 2] /\ calls' \in Seq(Objects \cup {NULL})
    <3>1. told' \in {told, [told EXCEPT ![mInputListeners[index]] = Counted(@)]}
      BY <1>4 DEF sendToListener
    <3>2. calls' \in {calls, <<>>, <<mInputListeners[index]>>}
      BY <1>4 DEF sendToListener, inject
    <3>3. told' \in [Objects -> 0 .. 2]
      <4>1. told \in [Objects -> 0 .. 2]
        BY DEF TypeOK
      <4> QED BY <2>1, <3>1, <4>1, CountedIsCount
    <3>4. <<>> \in Seq(Objects \cup {NULL}) /\ calls \in Seq(Objects \cup {NULL})
      BY DEF TypeOK
    <3> QED BY <2>1, <3>2, <3>3, <3>4, CallsKeepType
  <2>3. contacts = <<>> /\ contacts' = <<>> /\ pc' \in {"onAction", "onKeydown", "badListener"}
        /\ (calls' # <<>> => pc' \in {"onAction", "onKeydown"})
    BY <1>4 DEF sendToListener, TypeOK, Native, sceneVars
  <2> QED BY <1>0, <1>4, <2>1, <2>2, <2>3 DEF sendToListener, TypeOK, sceneVars, passVars
<1>5. CASE messageSent
  <2>1. told' = [g \in Objects |-> 0] /\ index' = 1 /\ Len(mInputListeners) \in Nat
    BY <1>5, ListenersKeepType DEF messageSent, StartMessage
  <2>2. pc' \in {"sound", "onKeydown"} /\ calls = <<>> /\ calls' = calls /\ contacts = <<>>
    BY <1>5 DEF messageSent, StartMessage, TypeOK, Native
  <2> QED BY <1>0, <1>5, <2>1, <2>2 DEF messageSent, TypeOK, sceneVars, passVars
<1>6. CASE updateWorld
  <2>1. contacts' = <<>> \/ contacts' \in Objects \X Objects
    BY <1>0, <1>6 DEF updateWorld, Touching, WithBody
  <2>2. index' \in 1 .. Len(IF contacts' # <<>> THEN contacts' ELSE mInputListeners) + 1
    <3>1. contacts' # <<>> => Len(contacts') = 2
      BY <2>1
    <3>2. Len(mInputListeners) \in Nat
      BY ListenersKeepType
    <3> QED BY <1>6, <3>1, <3>2 DEF updateWorld
  <2> QED BY <1>0, <1>6, <2>1, <2>2 DEF updateWorld, TypeOK, passVars, Native
<1>7. CASE tellContact
  <2>1. contacts \in Objects \X Objects /\ index \in {1, 2} /\ contacts # <<>> /\ Len(contacts) = 2
    <3>1. contacts # <<>>
      BY <1>7 DEF tellContact, TypeOK
    <3> QED BY <1>7, <3>1 DEF tellContact, TypeOK
  <2>2. index' \in 1 .. Len(contacts) + 1 /\ contacts[index] \in Objects
    BY <1>7, <2>1 DEF tellContact
  <2>3. calls' \in Seq(Objects \cup {NULL}) /\ pc' \in {"collide", "badContact"} /\ contacts' = contacts
        /\ (calls' # <<>> => pc' = "collide")
    BY <1>7, <2>2, CallsKeepType DEF tellContact, inject, TypeOK, Native, sceneVars
  <2> QED BY <1>0, <1>7, <2>1, <2>2, <2>3 DEF tellContact, TypeOK, sceneVars, passVars
<1>8. CASE beginPass
  <2>1. Begin \in Names \cup {End} /\ Len(mInputListeners) \in Nat
    BY LeastPresent, ListenersKeepType DEF Present
  <2>2. updates' \in [Objects -> 0 .. 2] /\ steady' \subseteq Store!Live' /\ late' \subseteq Store!Live'
    BY <1>0, <1>8 DEF beginPass
  <2> QED BY <1>0, <1>8, <2>1, <2>2 DEF beginPass, TypeOK, Native
<1>9. CASE updateObject
  <2>1. cursor \in Names /\ held' = mObjects[cursor] /\ mObjects[cursor] \in Objects \cup {NULL}
    BY <1>9 DEF updateObject, HeldAt, TypeOK
  <2>2. updates' \in [Objects -> 0 .. 2]
    BY <1>9, <2>1, CountedIsCount DEF updateObject, TypeOK
  <2>3. calls' \in Seq(Objects \cup {NULL})
    <3>1. calls' = <<>> \/ (calls' = <<mObjects[cursor]>> /\ mObjects[cursor] \in Store!Live)
      BY <1>9 DEF updateObject, inject, TypeOK
    <3>2. <<>> \in Seq(Objects \cup {NULL})
      OBVIOUS
    <3>3. mObjects[cursor] \in Store!Live => mObjects[cursor] \in Objects
      BY <1>0
    <3> QED BY <3>1, <3>2, <3>3, CallsKeepType
  <2> QED BY <1>0, <1>9, <2>1, <2>2, <2>3 DEF updateObject, TypeOK, sceneVars, inputVars, Native
<1>10. CASE advance
  <2>1. ASSUME cursor \in Names PROVE After(cursor) \in Names \cup {End}
    BY <1>0, <2>1, LeastPresent DEF Present
  <2>2. cursor' \in Names \cup {End}
    <3>1. cursor \in Names
      BY <1>10 DEF advance, Native, AtName
    <3> QED BY <1>10, <2>1, <3>1 DEF advance
  <2> QED BY <1>0, <1>10, <2>2 DEF advance, TypeOK, sceneVars, inputVars, Native
<1>11. CASE \E g \in Objects : input_register(g)
  <2>1. PICK g \in Objects : input_register(g)
    BY <1>11
  <2>2. mInputListeners' \in Seq(Objects) /\ Len(mInputListeners') >= Len(mInputListeners)
        /\ Len(mInputListeners) \in Nat /\ Len(mInputListeners') \in Nat
    <3>1. mInputListeners' \in Seq(Objects)
      BY <2>1, ListenersKeepType DEF input_register
    <3> QED BY <2>1, <3>1, ListenersKeepType, LenProperties DEF input_register
  <2>3. index' \in 1 .. Len(IF contacts' # <<>> THEN contacts' ELSE mInputListeners') + 1
    BY <2>1, <2>2 DEF input_register, TypeOK, sceneVars
  <2> QED BY <1>0, <2>1, <2>2, <2>3 DEF input_register, MakesCall, TypeOK, sceneVars, passVars
<1>12. CASE \E g \in Objects : Equips(g)
  BY <1>0, <1>12, EquipsKeeps DEF MakesCall, TypeOK, sceneVars, inputVars, passVars
<1>13. CASE handlerReturns
  BY <1>0, <1>13, CallsKeepType DEF handlerReturns, Scripting, TypeOK, sceneVars, inputVars, passVars
<1>14. CASE UNCHANGED vars
  BY <1>0, <1>14 DEF vars, TypeOK, sceneVars, inputVars, passVars
<1> QED BY <1>1, <1>2, <1>3, <1>4, <1>5, <1>6, <1>7, <1>8, <1>9, <1>10, <1>11, <1>12, <1>13, <1>14
        DEF Quiet, NativeStep

LEMMA SceneKeepsType ==
    ASSUME SInv, SInv', TypeOK, initializeScene
    PROVE  TypeOK'
<1> USE ObjectRecords
<1>1. /\ Store!TypeOK' /\ Store!Live \subseteq Store!Live'
      /\ MaxOps \in Nat /\ mObjects[Listener] \in Objects \cup {NULL}
  BY SceneEffect, FrameAssumption DEF SInv, initializeScene
<1>2. step' \in 0 .. 8 /\ mListener' \in Objects \cup {NULL} /\ pc' \in {"scene", "input"}
  <2>1. step \in 0 .. 7
    BY DEF initializeScene, SceneCall
  <2> QED BY <1>1, <2>1 DEF initializeScene, TypeOK, Native
<1>3. calls = <<>> /\ calls' = <<>> /\ contacts = <<>> /\ contacts' = <<>>
  BY DEF initializeScene, Native, TypeOK
<1> QED BY <1>1, <1>2, <1>3 DEF initializeScene, TypeOK, inputVars, passVars

LEMMA NewObjectKeepsType ==
    ASSUME SInv, SInv', TypeOK, NEW g \in Objects, NEW n \in Names, NEW tag \in Tags,
           NEW hasScript \in BOOLEAN, newGameObject(n, tag, hasScript, g)
    PROVE  TypeOK'
<1> USE ObjectRecords
<1>0. Store!TypeOK' /\ MaxOps \in Nat
  BY FrameAssumption DEF SInv
<1>1. /\ calls # <<>> /\ ops' \in 0 .. MaxOps
      /\ UNCHANGED <<pc, step, mListener, contacts, mInputListeners, index, keydown, jump,
                     told, cursor, held, invalid, steady, done, slips>>
  BY <1>0 DEF newGameObject, MakesCall, Scripting, TypeOK, sceneVars, inputVars
<1>2. CASE Refused
  <2>1. Store!Live' = Store!Live
    BY <1>2 DEF Refused, SameObjects
  <2>2. mHasScript' \subseteq Store!Live' /\ late' \subseteq Store!Live' /\ steady' \subseteq Store!Live'
    BY <1>1, <1>2, <2>1 DEF Refused, TypeOK
  <2>3. UNCHANGED <<calls, updates>>
    BY <1>2 DEF Refused
  <2> QED BY <1>0, <1>1, <2>2, <2>3 DEF TypeOK
<1>3. CASE Fresh(g, n, tag, hasScript)
  <2>1. Store!Live' = Store!Live \cup {g}
    BY <1>3 DEF Fresh, Created
  <2>2. mHasScript' \subseteq Store!Live' /\ late' \subseteq Store!Live' /\ steady' \subseteq Store!Live'
    BY <1>1, <1>3, <2>1 DEF Fresh, TypeOK
  <2>3. calls' \in Seq(Objects \cup {NULL})
    BY <1>3, CallsKeepType DEF Fresh, TypeOK
  <2>4. updates' \in [Objects -> 0 .. 2]
    BY <1>3 DEF Fresh, TypeOK
  <2> QED BY <1>0, <1>1, <2>2, <2>3, <2>4 DEF TypeOK
<1> QED BY <1>2, <1>3, NewObjectEffect

LEMMA UsesHeld ==
    /\ HeldFor["listener"] = ToSet(mInputListeners)
    /\ HeldFor["sound"] = {mListener}
    /\ HeldFor["contact"] = ToSet(contacts)
    /\ HeldFor["iterator"] = IF pc = "advance" THEN {mObjects[cursor]} ELSE {}
    /\ HeldFor["animated"] = {g \in Store!Live : object[g].mAnimation}
BY DEF HeldFor

LEMMA DestroyStep ==
    ASSUME SInv, NEW tag \in Tags, destroyObjectWithTag(tag)
    PROVE  \E gone \in SUBSET Store!Live :
             /\ gone = Store!findObjectsByTag(tag)
             /\ Destroyed(gone)
             /\ mHasScript' = mHasScript \ gone
             /\ invalid' = (invalid \/ held \in gone)
             /\ steady' = steady \ gone /\ late' = late \ gone
             /\ slips' = slips \cup {use \in Uses : HeldFor[use] \cap gone # {}}
             /\ calls # <<>> /\ ops < MaxOps /\ ops' = ops + 1
             /\ status = "running" /\ status' = "running"
             /\ UNCHANGED <<pc, sceneVars, calls, inputVars, cursor, held, updates, done>>
<1>1. Store!removeGameObjectByTag(tag)
  BY DEF destroyObjectWithTag
<1>2. Destroyed(Store!findObjectsByTag(tag)) /\ status' = "running" /\ status = "running"
  BY <1>1, DestroyEffect DEF Store!removeGameObjectByTag
<1> QED BY <1>2 DEF destroyObjectWithTag, MakesCall, Scripting, ScriptsAfter, Destroyed

LEMMA DestroyKeepsType ==
    ASSUME SInv, SInv', TypeOK, NEW tag \in Tags, destroyObjectWithTag(tag)
    PROVE  TypeOK'
<1> USE ObjectRecords
<1>1. PICK gone \in SUBSET Store!Live :
             /\ Destroyed(gone)
             /\ mHasScript' = mHasScript \ gone
             /\ invalid' = (invalid \/ held \in gone)
             /\ steady' = steady \ gone /\ late' = late \ gone
             /\ slips' = slips \cup {use \in Uses : HeldFor[use] \cap gone # {}}
             /\ calls # <<>> /\ ops < MaxOps /\ ops' = ops + 1
             /\ UNCHANGED <<pc, sceneVars, calls, inputVars, cursor, held, updates, done>>
  BY DestroyStep
<1>2. Store!TypeOK' /\ MaxOps \in Nat
  BY FrameAssumption DEF SInv
<1>3. Store!Live' = Store!Live \ gone
  BY <1>1 DEF Destroyed
<1>4. invalid' \in BOOLEAN
  BY <1>1, Zenon
<1>5. ops' \in 0 .. MaxOps
  BY <1>1, <1>2 DEF TypeOK
<1>6. mHasScript' \subseteq Store!Live' /\ late' \subseteq Store!Live' /\ steady' \subseteq Store!Live'
  BY <1>1, <1>3 DEF TypeOK
<1>7. UNCHANGED <<pc, sceneVars, calls, inputVars, cursor, held, updates, done>>
  BY <1>1
<1>8. slips' \subseteq Uses
  BY <1>1 DEF TypeOK
<1> QED BY <1>2, <1>4, <1>5, <1>6, <1>7, <1>8 DEF TypeOK, sceneVars, inputVars

LEMMA NextKeepsType ==
    ASSUME SInv, SInv', TypeOK, AtName, [Next]_vars
    PROVE  TypeOK'
BY NextCases, QuietKeepsType, SceneKeepsType, NewObjectKeepsType, DestroyKeepsType

LEMMA NextKeepsAtName ==
    ASSUME TypeOK, AtName, [Next]_vars
    PROVE  AtName'
<1>1. CASE updateObject
  BY <1>1 DEF updateObject, AtName, TypeOK
<1>2. CASE \/ advance \/ beginPass \/ passDone \/ initializeScene \/ inputEvent \/ sendToListener \/ messageSent
           \/ initReturned \/ noEvent \/ quitEvent \/ soundUpdate \/ updateWorld \/ tellContact
           \/ actOnActions \/ render
  BY <1>2 DEF advance, beginPass, passDone, initializeScene, inputEvent, sendToListener, messageSent,
     initReturned, noEvent, quitEvent, soundUpdate, updateWorld, tellContact, actOnActions, render,
     StartMessage, Native, AtName
<1>3. CASE (\E tag \in Tags : destroyObjectWithTag(tag)) \/ ScriptCall \/ handlerReturns
  BY <1>3, EquipsKeeps DEF destroyObjectWithTag, ScriptCall, newGameObject, input_register, Equips,
     handlerReturns, AtName, passVars
<1>4. CASE UNCHANGED vars
  BY <1>4 DEF vars, passVars, AtName
<1> QED BY <1>1, <1>2, <1>3, <1>4 DEF Next, NativeStep

Base == SInv /\ TypeOK /\ AtName

LEMMA BaseInvariant == Spec => []Base
<1>1. SInv /\ Init => TypeOK /\ AtName
  BY InitHasType DEF Init, AtName
<1>2. SInv /\ SInv' /\ TypeOK /\ AtName /\ [Next]_vars => TypeOK' /\ AtName'
  BY NextKeepsType, NextKeepsAtName
<1> QED BY <1>1, <1>2, StoreInvariantHolds, PTL DEF Spec, Base

\* The type invariant of the frame loop, that of the objects included: in every
\* state a handler can be called in, whatever it calls.
THEOREM FrameTypeOK == Spec => []TypeOK
BY BaseInvariant, PTL DEF Base

-----------------------------------------------------------------------------
(***************************************************************************)
(* The listeners.                                                          *)
(***************************************************************************)
\* No pointer is on the list twice.
ListenersHold == \A i, j \in 1 .. Len(mInputListeners) : mInputListeners[i] = mInputListeners[j] => i = j

\* In a loop over them, the message went through those before the index.
ToldSoFar ==
    pc \in {"onAction", "onKeydown"} =>
        /\ \A k \in 1 .. Len(mInputListeners) : told[mInputListeners[k]] = IF k < index THEN 1 ELSE 0
        /\ \A g \in Objects : g \notin ToSet(mInputListeners) => told[g] = 0

LInv == ListenersHold /\ ToldSoFar

LEMMA ListenerSet ==
    ASSUME TypeOK
    PROVE  /\ Len(mInputListeners) \in Nat /\ DOMAIN mInputListeners = 1 .. Len(mInputListeners)
           /\ ToSet(mInputListeners) = {mInputListeners[k] : k \in 1 .. Len(mInputListeners)}
           /\ \A k \in 1 .. Len(mInputListeners) : mInputListeners[k] \in Objects
<1>1. mInputListeners \in Seq(Objects)
  BY DEF TypeOK
<1> QED BY <1>1, LenProperties, ElementOfSeq DEF ToSet

LEMMA SendingKeepsListeners ==
    ASSUME Base, LInv, sendToListener
    PROVE  LInv'
<1>1. TypeOK /\ SInv /\ SameObjects
  BY QuietEffect DEF Base, Quiet, NativeStep, sendToListener, storeVars, initializeScene, Native
<1>2. PICK g : g = mInputListeners[index]
  OBVIOUS
<1>3. /\ pc \in {"onAction", "onKeydown"} /\ index \in 1 .. Len(mInputListeners)
      /\ index' = index + 1 /\ UNCHANGED mInputListeners
  BY <1>1 DEF sendToListener, Native, TypeOK
<1>4. g \in Objects
  BY <1>1, <1>2, <1>3, ListenerSet
<1>0. CASE g \notin Store!Live
  <2>1. pc' = "badListener"
    BY <1>0, <1>2 DEF sendToListener
  <2> QED BY <1>3, <2>1 DEF LInv, ListenersHold, ToldSoFar
<1>11. ASSUME g \in Store!Live
       PROVE  told' = [told EXCEPT ![g] = Counted(told[g])] /\ pc' = pc
  BY <1>2, <1>11 DEF sendToListener
<1>6. told[g] = 0 /\ Counted(0) = 1
  BY <1>2, <1>3 DEF LInv, ToldSoFar, Counted
<1> SUFFICES ASSUME g \in Store!Live PROVE LInv'
  BY <1>0
<1>7. told'[g] = 1 /\ \A h \in Objects : h # g => told'[h] = told[h]
  BY <1>1, <1>4, <1>6, <1>11 DEF TypeOK
<1>8. ListenersHold'
  BY <1>3 DEF LInv, ListenersHold
<1>9. \A k \in 1 .. Len(mInputListeners) : told'[mInputListeners[k]] = IF k < index + 1 THEN 1 ELSE 0
  <2> TAKE k \in 1 .. Len(mInputListeners)
  <2>1. CASE k = index
    BY <1>2, <1>3, <1>7, <2>1
  <2>2. CASE k # index
    <3>1. mInputListeners[k] # g /\ mInputListeners[k] \in Objects
      BY <1>1, <1>2, <1>3, <2>2, ListenerSet DEF LInv, ListenersHold
    <3>2. told'[mInputListeners[k]] = IF k < index THEN 1 ELSE 0
      BY <1>3, <1>7, <3>1 DEF LInv, ToldSoFar
    <3> QED BY <1>3, <2>2, <3>2
  <2> QED BY <2>1, <2>2
<1>10. \A h \in Objects : h \notin ToSet(mInputListeners) => told'[h] = 0
  <2>1. g \in ToSet(mInputListeners)
    BY <1>1, <1>2, <1>3, ListenerSet
  <2> QED BY <1>3, <1>7, <2>1 DEF LInv, ToldSoFar
<1> QED BY <1>3, <1>8, <1>9, <1>10 DEF LInv, ToldSoFar

LEMMA RegisteringKeepsListeners ==
    ASSUME Base, LInv, NEW g \in Objects, input_register(g)
    PROVE  LInv'
<1>1. TypeOK /\ SameObjects
  BY QuietEffect DEF Base, Quiet
<1>2. g \in Store!Live /\ UNCHANGED <<pc, index, told>> /\ mInputListeners' = addListener(g)
  BY DEF input_register
<1>3. CASE g \in ToSet(mInputListeners)
  BY <1>1, <1>2, <1>3 DEF addListener, LInv, ListenersHold, ToldSoFar, SameObjects
<1>4. CASE g \notin ToSet(mInputListeners)
  <2> DEFINE n == Len(mInputListeners)
  <2>1. mInputListeners' = Append(mInputListeners, g) /\ mInputListeners \in Seq(Objects)
    BY <1>1, <1>2, <1>4 DEF addListener, TypeOK
  <2>2. /\ n \in Nat /\ Len(mInputListeners') = n + 1 /\ mInputListeners'[n + 1] = g
        /\ \A k \in 1 .. n : mInputListeners'[k] = mInputListeners[k]
    BY <2>1, LenProperties, AppendProperties
  <2>3. ToSet(mInputListeners)' = ToSet(mInputListeners) \cup {g}
    <3>1. mInputListeners' \in Seq(Objects)
      BY <2>1, AppendProperties
    <3>2. ToSet(mInputListeners)' = {mInputListeners'[k] : k \in 1 .. n + 1}
      BY <2>2, <3>1, LenProperties DEF ToSet
    <3> QED BY <1>1, <2>2, <3>2, ListenerSet
  <2>4. \A k \in 1 .. n : mInputListeners[k] # g
    BY <1>1, <1>4, ListenerSet
  <2> HIDE DEF n
  <2>5. ListenersHold'
    <3>1. \A k \in 1 .. n + 1 : k = n + 1 \/ k \in 1 .. n
      BY <2>2
    <3> QED BY <1>1, <1>2, <2>2, <2>4, <3>1 DEF LInv, ListenersHold, SameObjects, n
  <2>6. ToldSoFar'
    <3> SUFFICES ASSUME pc \in {"onAction", "onKeydown"}
                 PROVE  /\ \A k \in 1 .. n + 1 : told[mInputListeners'[k]] = IF k < index THEN 1 ELSE 0
                        /\ \A h \in Objects : h \notin ToSet(mInputListeners) \cup {g} => told[h] = 0
      BY <1>2, <2>2, <2>3 DEF ToldSoFar
    <3>1. index \in 1 .. n + 1
      BY <1>1 DEF TypeOK, n
    <3>2. \A k \in 1 .. n : told[mInputListeners'[k]] = IF k < index THEN 1 ELSE 0
      BY <2>2 DEF LInv, ToldSoFar, n
    <3>3. told[g] = 0 /\ ~(n + 1 < index)
      BY <1>4, <2>2, <3>1 DEF LInv, ToldSoFar
    <3>4. \A k \in 1 .. n + 1 : k = n + 1 \/ k \in 1 .. n
      BY <2>2
    <3> QED BY <2>2, <3>2, <3>3, <3>4 DEF LInv, ToldSoFar
  <2> QED BY <2>5, <2>6 DEF LInv
<1> QED BY <1>3, <1>4

LEMMA NextKeepsListeners ==
    ASSUME Base, LInv, [Next]_vars
    PROVE  LInv'
<1>1. TypeOK /\ SInv
  BY DEF Base
<1>2. UNCHANGED mInputListeners => ListenersHold'
  BY DEF LInv, ListenersHold
<1>3. CASE initializeScene
  <2>1. UNCHANGED mInputListeners
    BY <1>3 DEF initializeScene, inputVars
  <2>2. pc' \notin {"onAction", "onKeydown"}
    BY <1>3 DEF initializeScene, Native
  <2> QED BY <1>2, <2>1, <2>2 DEF LInv, ToldSoFar
<1>4. CASE inputEvent \/ messageSent
  <2>1. UNCHANGED mInputListeners
    BY <1>4 DEF inputEvent, messageSent
  <2>2. index' = 1 /\ told' = [g \in Objects |-> 0]
    BY <1>4 DEF inputEvent, messageSent, StartMessage
  <2> QED BY <1>1, <1>2, <2>1, <2>2, ListenerSet DEF LInv, ToldSoFar
<1>5. CASE sendToListener
  BY <1>5, SendingKeepsListeners
<1>6. CASE \E g \in Objects : input_register(g)
  BY <1>6, RegisteringKeepsListeners
<1>7. CASE UNCHANGED <<mInputListeners, index, told, pc>>
  BY <1>2, <1>7 DEF LInv, ToldSoFar
<1>8. CASE UNCHANGED mInputListeners /\ pc' \notin {"onAction", "onKeydown"}
  BY <1>2, <1>8 DEF LInv, ToldSoFar
<1>9. CASE \/ \E g \in Objects : Equips(g)
           \/ handlerReturns \/ UNCHANGED vars
           \/ \E g \in Objects, n \in Names, tag \in Tags, hasScript \in BOOLEAN :
                newGameObject(n, tag, hasScript, g)
           \/ \E tag \in Tags : destroyObjectWithTag(tag)
  BY <1>7, <1>9, EquipsKeeps DEF handlerReturns, newGameObject, destroyObjectWithTag, inputVars, vars
<1>10. CASE \/ initReturned \/ noEvent \/ quitEvent \/ soundUpdate \/ updateWorld \/ tellContact
            \/ beginPass \/ updateObject \/ advance \/ passDone \/ actOnActions \/ render
  <2>1. UNCHANGED mInputListeners /\ pc' \notin {"onAction", "onKeydown"}
    BY <1>10 DEF initReturned, noEvent, quitEvent, soundUpdate, updateWorld, tellContact, beginPass,
       updateObject, advance, passDone, actOnActions, render, inputVars, Native
  <2> QED BY <1>8, <2>1
<1> QED BY <1>3, <1>4, <1>5, <1>6, <1>9, <1>10 DEF Next, NativeStep, ScriptCall, Equips

LEMMA ListenersInvariant == Spec => []LInv
<1>1. Init => LInv
  BY DEF Init, LInv, ListenersHold, ToldSoFar
<1>2. Base /\ LInv /\ [Next]_vars => LInv'
  BY NextKeepsListeners
<1> QED BY <1>1, <1>2, BaseInvariant, PTL DEF Spec

\* Every message is sent once through every pointer on the list, those that
\* handlers add during the loop included, whatever they create and destroy.
THEOREM FrameListenersToldOnce == Spec => []ListenersToldOnce
<1>1. Base /\ LInv => ListenersToldOnce
  <2> SUFFICES ASSUME Base, LInv, pc \in {"onAction", "onKeydown"}, index > Len(mInputListeners),
                      NEW g \in ToSet(mInputListeners)
               PROVE  told[g] = 1
    BY DEF ListenersToldOnce
  <2>1. TypeOK
    BY DEF Base
  <2>2. PICK k \in 1 .. Len(mInputListeners) : g = mInputListeners[k]
    BY <2>1, ListenerSet
  <2>3. k < index
    BY <2>1, <2>2, ListenerSet DEF TypeOK
  <2> QED BY <2>2, <2>3 DEF LInv, ToldSoFar
<1> QED BY <1>1, BaseInvariant, ListenersInvariant, PTL

-----------------------------------------------------------------------------
(***************************************************************************)
(* The update pass.                                                        *)
(***************************************************************************)
\* The iterator is at an element, unless a handler erased it.
IteratorHolds ==
    /\ pc = "pass" /\ cursor # End => mObjects[cursor] # NULL
    /\ pc = "advance" /\ ~invalid => mObjects[cursor] = held /\ held \in Store!Live

\* The iterator has yet to come to this object.
Waits(g) ==
    \/ pc = "pass" /\ cursor # End /\ object[g].mName >= cursor
    \/ pc = "advance" /\ object[g].mName > cursor

\* In the pass, an object has no update if the iterator has yet to come to it, or
\* if it was created behind the iterator.
UpdatedSoFar ==
    pc = "pass" \/ (pc = "advance" /\ ~invalid) =>
        /\ \A g \in Store!Live : updates[g] = 0 <=> g \in late \/ Waits(g)
        /\ cursor # End => \A g \in late : object[g].mName < cursor

LateIsNew == steady \cap late = {}

\* No pass has updated anything before the first frame.
NoneYet == pc \in {"init", "scene"} => updates = [g \in Objects |-> 0]

PInv == IteratorHolds /\ UpdatedSoFar /\ OnlyLateMissUpdate /\ LateIsNew /\ NoneYet

LEMMA NamesAreNumbers ==
    ASSUME Base
    PROVE  /\ Names \subseteq Nat /\ End \notin Names /\ cursor \in Names \cup {End}
           /\ late \subseteq Store!Live /\ steady \subseteq Store!Live /\ Store!Live \subseteq Objects
           /\ \A g \in Store!Live : object[g].mName \in Nat /\ object[g].mName \in Present
           /\ \A n \in Names : mObjects[n] # NULL => mObjects[n] \in Store!Live /\ object[mObjects[n]].mName = n
           /\ \A g \in Store!Live : mObjects[object[g].mName] = g
<1>1. SInv /\ TypeOK
  BY DEF Base
<1>2. NULL \notin Objects /\ Store!Live \subseteq Objects
  BY <1>1, ObjectRecords
<1> QED BY <1>1, <1>2, FrameAssumption DEF SInv, MapHasLive, TypeOK, Present

\* A step that neither moves the iterator nor touches the objects or their updates.
LEMMA StillPass ==
    ASSUME Base, PInv, SameObjects, UNCHANGED <<pc, passVars>>
    PROVE  PInv'
<1>1. \A g \in Store!Live : object'[g].mName = object[g].mName
  BY DEF SameObjects
<1>2. \A g \in Store!Live : Waits(g)' <=> Waits(g)
  BY <1>1 DEF Waits, passVars
<1>3. UNCHANGED <<mObjects, cursor, held, invalid, updates, steady, late>> /\ Store!Live' = Store!Live
  BY DEF passVars, SameObjects
<1>4. late \subseteq Store!Live
  BY NamesAreNumbers
<1>5. UpdatedSoFar'
  BY <1>1, <1>2, <1>3, <1>4 DEF PInv, UpdatedSoFar
<1> QED BY <1>3, <1>5 DEF PInv, IteratorHolds, OnlyLateMissUpdate, LateIsNew, NoneYet

LEMMA BeginPassInv ==
    ASSUME Base, Base', PInv, beginPass
    PROVE  PInv'
<1>1. SInv /\ SameObjects
  BY QuietEffect DEF Base, Quiet, NativeStep, beginPass, storeVars, initializeScene, Native
<1>2. /\ pc' = "pass" /\ cursor' = Begin /\ updates' = [g \in Objects |-> 0]
      /\ steady' = Store!Live /\ late' = {}
  BY DEF beginPass
<1>3. Begin # End => mObjects'[Begin] # NULL
  BY <1>1, LeastPresent DEF Present, SameObjects
<1>4. ASSUME NEW g \in Store!Live'
      PROVE  updates'[g] = 0 /\ Waits(g)'
  <2>1. g \in Store!Live /\ g \in Objects /\ object'[g].mName = object[g].mName /\ object[g].mName \in Present
    BY <1>1, NamesAreNumbers DEF SameObjects
  <2>2. Begin # End /\ Begin \in Present /\ Begin <= object[g].mName
    BY <2>1, LeastPresent
  <2>3. Begin \in Nat /\ object[g].mName \in Nat
    BY <2>1, <2>2, FrameAssumption DEF Present
  <2> QED BY <1>2, <2>1, <2>2, <2>3 DEF Waits
<1> QED BY <1>2, <1>3, <1>4 DEF PInv, IteratorHolds, UpdatedSoFar, OnlyLateMissUpdate, LateIsNew, NoneYet

LEMMA UpdateObjectInv ==
    ASSUME Base, Base', PInv, updateObject
    PROVE  /\ PInv'
           /\ mObjects[cursor] \in Store!Live /\ updates[mObjects[cursor]] = 0
<1>1. SInv /\ SameObjects /\ TypeOK
  BY QuietEffect DEF Base, Quiet, NativeStep, updateObject, storeVars, initializeScene, Native
<1> DEFINE h == mObjects[cursor]
<1>2. /\ pc = "pass" /\ cursor # End /\ pc' = "advance" /\ held' = h /\ ~invalid'
      /\ updates' = [updates EXCEPT ![h] = Counted(updates[h])]
      /\ UNCHANGED <<cursor, steady, late>>
  BY DEF updateObject, Native, HeldAt
<1>3. /\ cursor \in Names /\ cursor \in Nat /\ h \in Store!Live /\ h \in Objects
      /\ object[h].mName = cursor
  BY <1>2, NamesAreNumbers DEF PInv, IteratorHolds
<1>4. updates[h] = 0 /\ h \notin late
  BY <1>2, <1>3, NamesAreNumbers DEF PInv, UpdatedSoFar, Waits
<1>5. updates'[h] # 0 /\ \A g \in Objects : g # h => updates'[g] = updates[g]
  BY <1>1, <1>2, <1>3, <1>4, CountedIsCount DEF TypeOK
<1> HIDE DEF h
<1>6. ASSUME NEW g \in Store!Live'
      PROVE  updates'[g] = 0 <=> g \in late' \/ Waits(g)'
  <2>1. g \in Store!Live /\ g \in Objects /\ object'[g].mName = object[g].mName
    BY <1>1, <1>6, NamesAreNumbers DEF SameObjects
  <2>2. Waits(g)' <=> object[g].mName > cursor
    BY <1>2, <2>1 DEF Waits
  <2>3. CASE g = h
    BY <1>2, <1>3, <1>4, <1>5, <2>2, <2>3
  <2>4. CASE g # h
    <3>1. object[g].mName # cursor /\ object[g].mName \in Nat
      BY <2>1, <2>4, NamesAreNumbers DEF h
    <3>2. Waits(g) <=> object[g].mName >= cursor
      BY <1>2 DEF Waits
    <3>3. updates'[g] = 0 <=> g \in late \/ Waits(g)
      BY <1>2, <1>5, <2>1, <2>4 DEF PInv, UpdatedSoFar
    <3> QED BY <1>2, <1>3, <2>2, <3>1, <3>2, <3>3
  <2> QED BY <2>3, <2>4
<1>7. \A g \in late' : object'[g].mName < cursor'
  BY <1>1, <1>2, NamesAreNumbers DEF PInv, UpdatedSoFar, SameObjects
<1>8. mObjects'[cursor'] = held' /\ held' \in Store!Live'
  BY <1>1, <1>2, <1>3 DEF SameObjects, h
<1>9. PInv'
  BY <1>2, <1>6, <1>7, <1>8 DEF PInv, IteratorHolds, UpdatedSoFar, OnlyLateMissUpdate, LateIsNew, NoneYet
<1> QED BY <1>3, <1>4, <1>9 DEF h

LEMMA AdvanceInv ==
    ASSUME Base, Base', PInv, advance
    PROVE  PInv'
<1>1. SInv /\ SameObjects
  BY QuietEffect DEF Base, Quiet, NativeStep, advance, storeVars, initializeScene, Native
<1>2. pc = "advance" /\ UNCHANGED <<held, invalid, updates, steady, late>>
  BY DEF advance, Native
<1>3. CASE invalid
  BY <1>2, <1>3 DEF advance, PInv, IteratorHolds, UpdatedSoFar, OnlyLateMissUpdate, LateIsNew, NoneYet
<1>4. CASE ~invalid
  <2>1. cursor \in Names /\ cursor \in Nat /\ cursor # End
    BY <1>2, NamesAreNumbers DEF Base, AtName
  <2>2. cursor' = After(cursor) /\ pc' = "pass"
    BY <1>4 DEF advance
  <2>3. /\ After(cursor) = End => \A m \in Present : m <= cursor
        /\ After(cursor) # End => /\ After(cursor) \in Present /\ After(cursor) > cursor
                                  /\ \A m \in Present : m > cursor => After(cursor) <= m
    BY <2>1, LeastPresent
  <2>4. ASSUME cursor' # End PROVE mObjects'[cursor'] # NULL /\ cursor' \in Nat
    BY <1>1, <2>2, <2>3, <2>4, NamesAreNumbers DEF Present, SameObjects
  <2>5. ASSUME NEW g \in Store!Live'
        PROVE  updates'[g] = 0 <=> g \in late' \/ Waits(g)'
    <3>1. g \in Store!Live /\ object'[g].mName = object[g].mName
      BY <1>1, <2>5 DEF SameObjects
    <3>2. object[g].mName \in Present /\ object[g].mName \in Nat
      BY <3>1, NamesAreNumbers
    <3>3. Waits(g)' <=> cursor' # End /\ object[g].mName >= cursor'
      BY <2>2, <3>1 DEF Waits
    <3>4. (cursor' # End /\ object[g].mName >= cursor') <=> object[g].mName > cursor
      BY <2>1, <2>2, <2>3, <2>4, <3>2
    <3>5. updates[g] = 0 <=> g \in late \/ object[g].mName > cursor
      BY <1>2, <1>4, <3>1 DEF PInv, UpdatedSoFar, Waits
    <3> QED BY <1>2, <3>3, <3>4, <3>5
  <2>6. ASSUME cursor' # End, NEW g \in late'
        PROVE  object'[g].mName < cursor'
    <3>1. g \in late /\ object'[g].mName = object[g].mName /\ object[g].mName \in Nat
      BY <1>1, <1>2, <2>6, NamesAreNumbers DEF SameObjects
    <3>2. object[g].mName < cursor
      BY <1>2, <1>4, <2>1, <3>1 DEF PInv, UpdatedSoFar
    <3> QED BY <2>1, <2>2, <2>3, <2>4, <2>6, <3>1, <3>2
  <2> QED BY <1>2, <2>2, <2>4, <2>5, <2>6
          DEF PInv, IteratorHolds, UpdatedSoFar, OnlyLateMissUpdate, LateIsNew, NoneYet
<1> QED BY <1>3, <1>4

LEMMA PassDoneInv ==
    ASSUME Base, PInv, passDone
    PROVE  PInv' /\ {g \in Store!Live : updates[g] = 0} = late
<1>1. SInv /\ SameObjects
  BY QuietEffect DEF Base, Quiet, NativeStep, passDone, storeVars, initializeScene, Native
<1>2. pc = "pass" /\ cursor = End /\ pc' = "actions" /\ UNCHANGED <<updates, steady, late>>
  BY DEF passDone, Native, passVars
<1>3. \A g \in Store!Live : updates[g] = 0 <=> g \in late
  BY <1>2 DEF PInv, UpdatedSoFar, Waits
<1>4. {g \in Store!Live : updates[g] = 0} = late
  BY <1>3, NamesAreNumbers
<1>5. OnlyLateMissUpdate'
  BY <1>1, <1>2, <1>4 DEF OnlyLateMissUpdate, SameObjects
<1> QED BY <1>2, <1>4, <1>5 DEF PInv, IteratorHolds, UpdatedSoFar, LateIsNew, NoneYet

LEMMA NewObjectKeepsPass ==
    ASSUME Base, PInv, NEW g \in Objects, NEW n \in Names, NEW tag \in Tags,
           NEW hasScript \in BOOLEAN, newGameObject(n, tag, hasScript, g)
    PROVE  PInv'
<1>1. SInv /\ TypeOK
  BY DEF Base
<1>2. UNCHANGED <<pc, cursor, held, invalid, steady>> /\ pc \notin {"pass", "actions"}
  BY <1>1 DEF newGameObject, MakesCall, Scripting, TypeOK
<1>3. CASE Refused
  BY <1>2, <1>3, StillPass DEF Refused, passVars
<1>4. CASE Fresh(g, n, tag, hasScript)
  <2>1. /\ g \notin Store!Live /\ Store!Live' = Store!Live \cup {g}
        /\ mObjects[n] = NULL /\ mObjects' = [mObjects EXCEPT ![n] = g]
        /\ object'[g].mName = n /\ \A h \in Store!Live : object'[h].mName = object[h].mName
        /\ updates' = [updates EXCEPT ![g] = 0]
        /\ late' = IF pc = "advance" /\ n < cursor THEN late \cup {g} ELSE late
    BY <1>4 DEF Fresh, Created
  <2>2. updates'[g] = 0 /\ \A h \in Objects : h # g => updates'[h] = updates[h]
    BY <1>1, <2>1 DEF TypeOK
  <2>3. LateIsNew'
    BY <1>2, <2>1, NamesAreNumbers DEF PInv, LateIsNew
  <2>4. NoneYet'
    BY <1>2, <2>1 DEF PInv, NoneYet
  <2>5. CASE pc = "advance" /\ ~invalid
    <3>1. held \in Store!Live /\ held = mObjects[cursor] /\ cursor \in Names /\ cursor \in Nat /\ cursor # End
      BY <2>5, NamesAreNumbers DEF PInv, IteratorHolds, Base, AtName
    <3>2. n # cursor /\ n \in Nat
      <4>1. NULL \notin Store!Live
        BY <1>1, ObjectRecords
      <4> QED BY <2>1, <3>1, <4>1, FrameAssumption
    <3>3. IteratorHolds'
      <4>1. mObjects'[cursor] = mObjects[cursor]
        BY <2>1, <3>1, <3>2, <1>1, ObjectRecords
      <4> QED BY <1>2, <2>1, <2>5, <3>1, <4>1 DEF IteratorHolds
    <3>4. ASSUME NEW h \in Store!Live'
          PROVE  updates'[h] = 0 <=> h \in late' \/ Waits(h)'
      <4>1. Waits(h)' <=> object'[h].mName > cursor
        BY <1>2, <2>5 DEF Waits
      <4>2. CASE h = g
        BY <2>1, <2>2, <2>5, <3>1, <3>2, <4>1, <4>2
      <4>3. CASE h # g
        <5>1. h \in Store!Live /\ h \in Objects /\ object'[h].mName = object[h].mName
          BY <2>1, <4>3, NamesAreNumbers
        <5>2. updates[h] = 0 <=> h \in late \/ object[h].mName > cursor
          BY <2>5, <5>1 DEF PInv, UpdatedSoFar, Waits
        <5> QED BY <2>1, <2>2, <4>1, <4>3, <5>1, <5>2
      <4> QED BY <4>2, <4>3
    <3>5. \A h \in late' : object'[h].mName < cursor
      <4>1. \A h \in late : object[h].mName < cursor /\ h \in Store!Live
        BY <2>5, <3>1, NamesAreNumbers DEF PInv, UpdatedSoFar
      <4> QED BY <2>1, <4>1
    <3> QED BY <1>2, <2>3, <2>4, <2>5, <3>3, <3>4, <3>5 DEF PInv, UpdatedSoFar, OnlyLateMissUpdate
  <2>6. CASE ~(pc = "advance" /\ ~invalid)
    BY <1>2, <2>3, <2>4, <2>6 DEF PInv, IteratorHolds, UpdatedSoFar, OnlyLateMissUpdate
  <2> QED BY <2>5, <2>6
<1> QED BY <1>3, <1>4, <1>1, NewObjectEffect

LEMMA DestroyKeepsPass ==
    ASSUME Base, PInv, NEW tag \in Tags, destroyObjectWithTag(tag)
    PROVE  PInv'
<1>1. SInv /\ TypeOK
  BY DEF Base
<1>2. PICK gone \in SUBSET Store!Live :
         /\ Destroyed(gone)
         /\ invalid' = (invalid \/ held \in gone)
         /\ steady' = steady \ gone /\ late' = late \ gone /\ calls # <<>>
         /\ UNCHANGED <<pc, cursor, held, updates>>
  BY <1>1, DestroyStep
<1>3. /\ Store!Live' = Store!Live \ gone /\ \A h \in Store!Live' : object'[h] = object[h]
      /\ mObjects' = [n \in Names |-> IF mObjects[n] \in gone THEN NULL ELSE mObjects[n]]
  BY <1>2 DEF Destroyed
<1>4. pc \notin {"pass", "actions"}
  BY <1>1, <1>2 DEF TypeOK
<1>5. LateIsNew' /\ NoneYet'
  BY <1>2 DEF PInv, LateIsNew, NoneYet
<1>6. CASE pc = "advance" /\ ~invalid'
  <2>1. ~invalid /\ held \notin gone
    BY <1>2, <1>6
  <2>2. held \in Store!Live /\ held = mObjects[cursor] /\ cursor \in Names
    BY <1>6, <2>1 DEF PInv, IteratorHolds, Base, AtName
  <2>3. IteratorHolds'
    BY <1>2, <1>3, <1>6, <2>1, <2>2 DEF IteratorHolds
  <2>4. ASSUME NEW h \in Store!Live'
        PROVE  updates'[h] = 0 <=> h \in late' \/ Waits(h)'
    <3>1. h \in Store!Live /\ h \notin gone /\ object'[h] = object[h]
      BY <1>3
    <3>2. Waits(h)' <=> Waits(h)
      BY <1>2, <3>1 DEF Waits
    <3> QED BY <1>2, <1>6, <2>1, <3>1, <3>2 DEF PInv, UpdatedSoFar
  <2>5. \A h \in late' : cursor # End => object'[h].mName < cursor
    <3>1. late \subseteq Store!Live
      BY NamesAreNumbers
    <3> QED BY <1>2, <1>3, <1>6, <2>1, <3>1 DEF PInv, UpdatedSoFar
  <2> QED BY <1>2, <1>4, <1>5, <2>3, <2>4, <2>5 DEF PInv, UpdatedSoFar, OnlyLateMissUpdate
<1>7. CASE ~(pc = "advance" /\ ~invalid')
  BY <1>2, <1>4, <1>5, <1>7 DEF PInv, IteratorHolds, UpdatedSoFar, OnlyLateMissUpdate
<1> QED BY <1>6, <1>7

LEMMA NextKeepsPass ==
    ASSUME Base, Base', PInv, [Next]_vars
    PROVE  PInv'
<1>1. SInv /\ TypeOK
  BY DEF Base
<1>2. CASE initializeScene
  BY <1>2 DEF initializeScene, Native, passVars, PInv, IteratorHolds, UpdatedSoFar,
              OnlyLateMissUpdate, LateIsNew, NoneYet
<1>3. CASE beginPass
  BY <1>3, BeginPassInv
<1>4. CASE updateObject
  BY <1>4, UpdateObjectInv
<1>5. CASE advance
  BY <1>5, AdvanceInv
<1>6. CASE passDone
  BY <1>6, PassDoneInv
<1>7. CASE \/ initReturned \/ noEvent \/ quitEvent \/ inputEvent \/ sendToListener \/ messageSent
           \/ soundUpdate \/ updateWorld \/ tellContact \/ actOnActions \/ render
  <2>1. pc' \notin {"init", "pass", "advance", "actions"} /\ UNCHANGED passVars /\ (pc' = "scene" => pc = "init")
    BY <1>7 DEF initReturned, noEvent, quitEvent, inputEvent, sendToListener, messageSent,
       soundUpdate, updateWorld, tellContact, actOnActions, render, StartMessage, Native
  <2> QED BY <2>1 DEF passVars, PInv, IteratorHolds, UpdatedSoFar, OnlyLateMissUpdate, LateIsNew, NoneYet
<1>8. CASE \/ \E g \in Objects : input_register(g) \/ Equips(g)
           \/ handlerReturns \/ UNCHANGED vars
  <2>1. UNCHANGED <<pc, passVars>>
    BY <1>8, EquipsKeeps DEF input_register, handlerReturns, vars
  <2>2. SameObjects
    BY <1>1, <1>8, QuietEffect DEF Quiet
  <2> QED BY <2>1, <2>2, StillPass
<1>9. CASE \E g \in Objects, n \in Names, tag \in Tags, hasScript \in BOOLEAN :
               newGameObject(n, tag, hasScript, g)
  BY <1>9, NewObjectKeepsPass
<1>10. CASE \E tag \in Tags : destroyObjectWithTag(tag)
  BY <1>10, DestroyKeepsPass
<1> QED BY <1>2, <1>3, <1>4, <1>5, <1>6, <1>7, <1>8, <1>9, <1>10 DEF Next, NativeStep, ScriptCall, Equips

LEMMA PassInvariant == Spec => []PInv
<1>1. Init => PInv
  BY DEF Init, PInv, IteratorHolds, UpdatedSoFar, OnlyLateMissUpdate, LateIsNew, NoneYet
<1>2. Base /\ Base' /\ PInv /\ [Next]_vars => PInv'
  BY NextKeepsPass
<1> QED BY <1>1, <1>2, BaseInvariant, PTL DEF Spec

\* At the end of a pass the objects without an update are exactly those created
\* behind the iterator, whatever the handlers created and destroyed.
THEOREM FrameOnlyLateMissUpdate == Spec => []OnlyLateMissUpdate
BY PassInvariant, PTL DEF PInv

-----------------------------------------------------------------------------
(***************************************************************************)
(* The pass implements FrameContract.                                      *)
(***************************************************************************)
LEMMA SceneJoins ==
    ASSUME SInv, Native("scene"), SceneCall(step)
    PROVE  Store!Live' = Store!Live \/ \E g \in Objects : g \notin Store!Live /\ Store!Live' = Store!Live \cup {g}
<1> USE ObjectRecords
<1>0. {Box, mainCam, Listener} \subseteq Names /\ {BoxTag, CamTag} \subseteq Tags
  BY FrameAssumption
<1>1. ASSUME NEW n \in Names, NEW tag \in Tags, createFor(n, tag)
      PROVE  Store!Live' = Store!Live \/ \E g \in Objects : g \notin Store!Live /\ Store!Live' = Store!Live \cup {g}
  <2>1. PICK g \in Objects : Store!createGameObject(n, tag, g)
    BY <1>1, FreeAddresses DEF createFor
  <2>2. SameObjects \/ Created(n, tag, g)
    BY <2>1, CreateEffect
  <2> QED BY <2>2 DEF SameObjects, Created
<1>2. ASSUME NEW g, NEW c \in NewComp,
             Store!createMeshComponent(g, c) \/ Store!createPhysicsComponent(g, c)
      PROVE  Store!Live' = Store!Live
  <2>1. PICK t \in {"MESH", "PHYSICS"} : Store!allocate(g, t, c) /\ g \in Store!Live
    BY <1>2 DEF Store!createMeshComponent, Store!createPhysicsComponent
  <2>2. mObjects' = mObjects
    BY <1>2 DEF Store!createMeshComponent, Store!createPhysicsComponent
  <2> QED BY <2>1, <2>2, AllocateEffect, FreeAddresses DEF Store!Slots, SameObjects
<1>3. ASSUME NEW g, NEW c \in NewComp, Store!createCameraComponent(g, c)
      PROVE  Store!Live' = Store!Live
  <2>1. CASE object[g].mName \in cameras
    BY <1>3, <2>1 DEF Store!createCameraComponent, Store!Live
  <2>2. CASE object[g].mName \notin cameras
    BY <1>3, <2>2, AllocateEffect, FreeAddresses DEF Store!createCameraComponent, Store!Slots, SameObjects
  <2> QED BY <2>1, <2>2
<1>4. ASSUME NEW g, Store!loadMesh(g)
      PROVE  Store!Live' = Store!Live
  <2>1. UNCHANGED object
    BY <1>4, Zenon DEF Store!loadMesh
  <2> QED BY <2>1 DEF Store!Live
<1>5. UNCHANGED storeVars => Store!Live' = Store!Live
  BY DEF storeVars, Store!Live
<1> QED BY <1>0, <1>1, <1>2, <1>3, <1>4, <1>5 DEF SceneCall

\* The names FrameContract gives to the state of the pass.
Updating == pc \in {"pass", "advance", "badIterator"}
Owed == {g \in steady : updates[g] = 0}
Same == Store!Live' = Store!Live /\ UNCHANGED <<Updating, Owed, updates>>

LEMMA ContractSteps ==
    /\ Same => UNCHANGED Contract!contractVars
    /\ \A g \in Objects :
         /\ /\ Updating /\ g \in Store!Live /\ updates[g] = 0
            /\ updates' = [updates EXCEPT ![g] = 1] /\ Owed' = Owed \ {g}
            /\ Store!Live' = Store!Live /\ UNCHANGED Updating
            => Contract!Next
         /\ /\ g \notin Store!Live /\ Store!Live' = Store!Live \cup {g}
            /\ updates' = [updates EXCEPT ![g] = 0] /\ UNCHANGED <<Updating, Owed>>
            => Contract!Next
    /\ \A gone \in SUBSET Store!Live :
         /\ Store!Live' = Store!Live \ gone /\ Owed' = Owed \ gone
         /\ UNCHANGED <<Updating, updates>>
         => Contract!Next
BY DEF Same, Updating, Owed, Contract!contractVars, Contract!Next, Contract!Update, Contract!Join, Contract!Leave

LEMMA QuietKeepsContract ==
    ASSUME Base, Base', PInv, Quiet
    PROVE  [Contract!Next]_(Contract!contractVars)
<1>1. SameObjects /\ TypeOK
  BY QuietEffect DEF Base
<1>2. CASE beginPass
  <2>1. ~Updating /\ Updating' /\ updates' = [g \in Objects |-> 0] /\ steady' = Store!Live
    BY <1>2 DEF beginPass, Native, Updating
  <2>2. Owed' = Store!Live
    BY <1>1, <2>1, NamesAreNumbers DEF Owed
  <2> QED BY <1>1, <2>1, <2>2 DEF SameObjects, Contract!Next, Contract!BeginFrame, Owed, Updating
<1>3. CASE updateObject
  <2>1. mObjects[cursor] \in Store!Live /\ updates[mObjects[cursor]] = 0 /\ mObjects[cursor] \in Objects
    BY <1>3, UpdateObjectInv, NamesAreNumbers
  <2>2. updates' = [updates EXCEPT ![mObjects[cursor]] = 1] /\ Updating /\ Updating' /\ steady' = steady
    BY <1>3, <2>1 DEF updateObject, Native, Updating, Counted
  <2>3. Owed' = Owed \ {mObjects[cursor]}
    BY <1>1, <2>1, <2>2, NamesAreNumbers DEF Owed, TypeOK
  <2> QED BY <1>1, <2>1, <2>2, <2>3, ContractSteps DEF SameObjects
<1>4. CASE passDone
  <2>1. Updating /\ ~Updating' /\ UNCHANGED <<updates, steady>>
    BY <1>4 DEF passDone, Native, passVars, Updating
  <2>2. Owed = {}
    BY <1>4, PassDoneInv, NamesAreNumbers DEF PInv, LateIsNew, Owed
  <2> QED BY <1>1, <2>1, <2>2 DEF SameObjects, Contract!Next, Contract!EndFrame, Owed, Updating
<1>5. CASE advance
  <2>1. UNCHANGED <<Updating, updates, steady>>
    BY <1>5 DEF advance, Native, Updating
  <2> QED BY <1>1, <2>1, ContractSteps DEF SameObjects, Same, Owed
<1>6. CASE \/ initReturned \/ noEvent \/ quitEvent \/ inputEvent \/ sendToListener \/ messageSent
           \/ soundUpdate \/ updateWorld \/ tellContact \/ actOnActions \/ render
  <2>1. UNCHANGED <<updates, steady>> /\ ~Updating /\ ~Updating'
    BY <1>6 DEF initReturned, noEvent, quitEvent, inputEvent, sendToListener, messageSent, soundUpdate,
       updateWorld, tellContact, actOnActions, render, passVars, StartMessage, Native, Updating
  <2> QED BY <1>1, <2>1, ContractSteps DEF SameObjects, Same, Owed, Updating
<1>7. CASE \/ \E g \in Objects : input_register(g) \/ Equips(g)
           \/ handlerReturns \/ UNCHANGED vars
  <2>1. UNCHANGED <<pc, updates, steady>>
    BY <1>7, EquipsKeeps DEF input_register, handlerReturns, vars, passVars
  <2> QED BY <1>1, <2>1, ContractSteps DEF SameObjects, Same, Owed, Updating
<1> QED BY <1>2, <1>3, <1>4, <1>5, <1>6, <1>7 DEF Quiet, NativeStep

LEMMA SceneKeepsContract ==
    ASSUME Base, PInv, initializeScene
    PROVE  [Contract!Next]_(Contract!contractVars)
<1>1. UNCHANGED <<updates, steady>> /\ ~Updating /\ ~Updating' /\ updates = [g \in Objects |-> 0]
  BY DEF initializeScene, passVars, Native, Updating, PInv, NoneYet
<1>2. Store!Live' = Store!Live \/ \E g \in Objects : g \notin Store!Live /\ Store!Live' = Store!Live \cup {g}
  BY SceneJoins DEF Base, initializeScene
<1>3. \A g \in Objects : updates' = [updates EXCEPT ![g] = 0]
  BY <1>1
<1>4. Owed' = Owed /\ Updating' = Updating
  BY <1>1 DEF Owed, Updating
<1> QED BY <1>1, <1>2, <1>3, <1>4, ContractSteps DEF Same

LEMMA NewObjectKeepsContract ==
    ASSUME Base, NEW g \in Objects, NEW n \in Names, NEW tag \in Tags,
           NEW hasScript \in BOOLEAN, newGameObject(n, tag, hasScript, g)
    PROVE  [Contract!Next]_(Contract!contractVars)
<1>1. UNCHANGED <<pc, steady>> /\ SInv /\ TypeOK
  BY DEF newGameObject, Base
<1>2. CASE Refused
  BY <1>1, <1>2, ContractSteps DEF Refused, SameObjects, Same, Owed, Updating
<1>3. CASE Fresh(g, n, tag, hasScript)
  <2>1. g \notin Store!Live /\ Store!Live' = Store!Live \cup {g} /\ updates' = [updates EXCEPT ![g] = 0]
    BY <1>3 DEF Fresh, Created
  <2>2. Owed' = Owed
    BY <1>1, <2>1, NamesAreNumbers DEF Owed, TypeOK
  <2> QED BY <1>1, <2>1, <2>2, ContractSteps DEF Updating
<1> QED BY <1>1, <1>2, <1>3, NewObjectEffect

LEMMA DestroyKeepsContract ==
    ASSUME Base, NEW tag \in Tags, destroyObjectWithTag(tag)
    PROVE  [Contract!Next]_(Contract!contractVars)
<1>1. PICK gone \in SUBSET Store!Live :
         Destroyed(gone) /\ steady' = steady \ gone /\ UNCHANGED <<pc, updates>>
  BY DestroyStep DEF Base
<1>2. Owed' = Owed \ gone
  BY <1>1 DEF Owed
<1> QED BY <1>1, <1>2, ContractSteps DEF Destroyed, Updating

\* The pass is a frame of FrameContract: whatever handlers create and destroy, no
\* object is updated twice, and none that stays is left out of a pass that ends.
THEOREM FrameUpdatesOncePerFrame == Spec => UpdatesOncePerFrame
<1>1. Init => Contract!Init
  BY DEF Init, Contract!Init, Store!Init, Store!Live
<1>2. Base /\ Base' /\ PInv /\ [Next]_vars => [Contract!Next]_(Contract!contractVars)
  BY NextCases, QuietKeepsContract, SceneKeepsContract, NewObjectKeepsContract, DestroyKeepsContract
<1> QED BY <1>1, <1>2, BaseInvariant, PassInvariant, PTL
        DEF Spec, UpdatesOncePerFrame, Contract!Spec

-----------------------------------------------------------------------------
(***************************************************************************)
(* What the native code uses.                                              *)
(***************************************************************************)
\* As long as scripts destroyed nothing of a kind that the engine held on to,
\* everything of the kind is there.
AllThere ==
    /\ "listener" \notin slips => ToSet(mInputListeners) \subseteq Store!Live
    /\ "sound" \notin slips => mListener \in Store!Live \cup {NULL}
    /\ "contact" \notin slips => contacts = <<>> \/ contacts \in Store!Live \X Store!Live
    /\ "iterator" \notin slips => (pc = "advance" => ~invalid)
    /\ "animated" \notin slips => \A n \in Names : animations[n] # "dangling"

CInv == UndefinedHasCause /\ AllThere

\* A step that moves no pointer and destroys nothing.
LEMMA StillThere ==
    ASSUME CInv, Store!Live \subseteq Store!Live', animations' = animations,
           UNCHANGED <<mInputListeners, mListener, contacts, slips>>,
           pc' = "advance" => ~invalid' \/ (pc = "advance" /\ invalid' = invalid)
    PROVE  AllThere'
BY DEF CInv, AllThere

LEMMA ListenerAdded ==
    ASSUME TypeOK, NEW g \in Objects, mInputListeners' = addListener(g)
    PROVE  ToSet(mInputListeners)' \subseteq ToSet(mInputListeners) \cup {g}
<1>1. CASE g \in ToSet(mInputListeners)
  BY <1>1 DEF addListener
<1>2. CASE g \notin ToSet(mInputListeners)
  <2> DEFINE n == Len(mInputListeners)
  <2>1. mInputListeners' = Append(mInputListeners, g) /\ mInputListeners \in Seq(Objects)
    BY <1>2 DEF addListener, TypeOK
  <2>2. /\ n \in Nat /\ DOMAIN mInputListeners' = 1 .. n + 1 /\ mInputListeners'[n + 1] = g
        /\ \A k \in 1 .. n : mInputListeners'[k] = mInputListeners[k]
    BY <2>1, LenProperties, AppendProperties
  <2>3. \A k \in 1 .. n + 1 : k = n + 1 \/ k \in 1 .. n
    BY <2>2
  <2>4. \A k \in 1 .. n + 1 : mInputListeners'[k] \in ToSet(mInputListeners) \cup {g}
    BY <2>2, <2>3, ListenerSet
  <2> QED BY <2>2, <2>4 DEF ToSet
<1> QED BY <1>1, <1>2

\* Whoever gets an animation or a component, no track loses its node by it.
LEMMA EquipsTracks ==
    ASSUME SInv, NEW g \in Objects, Equips(g)
    PROVE  /\ status' # "undefined"
           /\ \A n \in Names : animations'[n] = "dangling" => animations[n] = "dangling"
<1>1. CASE execCreateAnimation(g)
  <2>1. /\ status' # "undefined"
        /\ animations' \in {animations, [animations EXCEPT ![object[g].mName] = "live"]}
    BY <1>1 DEF execCreateAnimation, Store!createAnimation
  <2> QED BY <2>1 DEF SInv, Store!TypeOK
<1>2. CASE execCreatePhysics(g) \/ execCreateMesh(g)
  BY <1>2 DEF execCreatePhysics, execCreateMesh, Store!createPhysicsComponent, Store!createMeshComponent, Store!scene
<1>3. CASE execLoadMesh(g)
  <2>1. animations' = animations /\ status = "running" /\ status' \in {"entity name taken", status}
    BY <1>3, Zenon DEF execLoadMesh, Store!loadMesh
  <2> QED BY <2>1
<1> QED BY <1>1, <1>2, <1>3 DEF Equips

LEMMA QuietKeepsCauses ==
    ASSUME Base, CInv, Quiet
    PROVE  CInv'
<1>1. SInv /\ TypeOK /\ SameObjects /\ Store!Live' = Store!Live
  BY QuietEffect DEF Base, SameObjects
<1>2. CASE \/ initReturned \/ noEvent \/ quitEvent \/ inputEvent \/ messageSent \/ updateObject \/ passDone
           \/ actOnActions \/ handlerReturns \/ UNCHANGED vars
  <2>1. UNCHANGED <<animations, mInputListeners, mListener, contacts, slips, status>>
    BY <1>2 DEF initReturned, noEvent, quitEvent, inputEvent, messageSent, updateObject, passDone,
       actOnActions, handlerReturns, vars, storeVars, sceneVars, inputVars
  <2>2. pc' = pc \/ pc' \notin Undefined \ {"noNinja"}
    BY <1>2 DEF initReturned, noEvent, quitEvent, inputEvent, messageSent, updateObject, passDone,
       actOnActions, handlerReturns, vars, StartMessage, Undefined
  <2>3. pc' = "advance" => ~invalid' \/ (pc = "advance" /\ invalid' = invalid)
    BY <1>2 DEF initReturned, noEvent, quitEvent, inputEvent, messageSent, updateObject, passDone,
       actOnActions, handlerReturns, vars, passVars, StartMessage, Native
  <2>4. UndefinedHasCause'
    BY <2>1, <2>2 DEF CInv, UndefinedHasCause, Undefined
  <2> QED BY <1>1, <2>1, <2>3, <2>4, StillThere DEF CInv
<1>3. CASE sendToListener
  <2>1. UNCHANGED <<animations, mInputListeners, mListener, contacts, slips, status>>
        /\ (pc' = pc \/ pc' = "badListener") /\ pc \in {"onAction", "onKeydown"}
    BY <1>3 DEF sendToListener, storeVars, sceneVars, Native
  <2>2. mInputListeners[index] \in ToSet(mInputListeners)
    BY <1>1, <1>3, ListenerSet DEF sendToListener, TypeOK, Native
  <2>3. "listener" \notin slips => pc' = pc
    BY <1>3, <2>2 DEF sendToListener, CInv, AllThere
  <2> QED BY <1>1, <2>1, <2>3, StillThere DEF CInv, UndefinedHasCause
<1>4. CASE soundUpdate
  <2>1. UNCHANGED <<animations, mInputListeners, mListener, contacts, slips, status>>
        /\ pc' \in {"world", "badSound"}
    BY <1>4 DEF soundUpdate, storeVars, sceneVars, inputVars
  <2>2. "sound" \notin slips => pc' = "world"
    BY <1>4 DEF soundUpdate, CInv, AllThere
  <2> QED BY <1>1, <2>1, <2>2, StillThere DEF CInv, UndefinedHasCause
<1>5. CASE updateWorld
  <2>1. UNCHANGED <<animations, mInputListeners, mListener, slips, status>> /\ pc' = "collide"
    BY <1>5 DEF updateWorld, storeVars
  <2>2. contacts' = <<>> \/ contacts' \in Store!Live \X Store!Live
    BY <1>5 DEF updateWorld, Touching, WithBody
  <2> QED BY <1>1, <2>1, <2>2 DEF CInv, UndefinedHasCause, AllThere
<1>6. CASE tellContact
  <2>1. UNCHANGED <<animations, mInputListeners, mListener, contacts, slips, status>>
        /\ pc' \in {"collide", "badContact"}
    BY <1>6 DEF tellContact, storeVars, sceneVars, Native
  <2>2. contacts # <<>> /\ index \in {1, 2}
    <3>1. contacts # <<>>
      BY <1>1, <1>6 DEF tellContact, TypeOK
    <3> QED BY <1>1, <1>6, <3>1 DEF tellContact, TypeOK
  <2>3. "contact" \notin slips => contacts[index] \in Store!Live
    BY <2>2 DEF CInv, AllThere
  <2>4. "contact" \notin slips => pc' = "collide"
    BY <1>6, <2>3 DEF tellContact, Native
  <2> QED BY <1>1, <2>1, <2>4, StillThere DEF CInv, UndefinedHasCause
<1>7. CASE beginPass
  <2>1. UNCHANGED <<animations, mInputListeners, mListener, slips, status>> /\ pc' = "pass" /\ contacts' = <<>>
    BY <1>7 DEF beginPass, storeVars
  <2> QED BY <1>1, <2>1 DEF CInv, UndefinedHasCause, AllThere
<1>8. CASE advance
  <2>1. UNCHANGED <<animations, mInputListeners, mListener, contacts, slips, status>>
        /\ pc = "advance" /\ pc' \in {"pass", "badIterator"} /\ (~invalid => pc' = "pass")
    BY <1>8 DEF advance, storeVars, sceneVars, inputVars, Native
  <2>2. "iterator" \notin slips => ~invalid
    BY <2>1 DEF CInv, AllThere
  <2> QED BY <1>1, <2>1, <2>2, StillThere DEF CInv, UndefinedHasCause
<1>9. CASE render
  <2>1. UNCHANGED <<animations, mInputListeners, mListener, contacts, slips>>
        /\ pc' \in {"render", "done", "input"}
    BY <1>9 DEF render, Store!renderOneFrame, Store!scene, sceneVars, inputVars, Native
  <2>2. status' = "undefined" => \E n \in Names : animations[n] = "dangling"
    BY <1>9 DEF render, Store!renderOneFrame
  <2>3. status' = "undefined" => "animated" \in slips
    BY <2>2 DEF CInv, AllThere
  <2> QED BY <1>1, <2>1, <2>3, StillThere DEF CInv, UndefinedHasCause
<1>10. CASE \E g \in Objects : input_register(g)
  <2>1. PICK g \in Objects : input_register(g)
    BY <1>10
  <2>2. UNCHANGED <<animations, mListener, contacts, slips, status, pc, invalid>>
        /\ g \in Store!Live /\ mInputListeners' = addListener(g)
    BY <2>1 DEF input_register, storeVars, sceneVars, passVars
  <2>3. ToSet(mInputListeners)' \subseteq ToSet(mInputListeners) \cup {g}
    BY <1>1, <2>2, ListenerAdded
  <2> QED BY <1>1, <2>2, <2>3 DEF CInv, UndefinedHasCause, AllThere
<1>11. CASE \E g \in Objects : Equips(g)
  <2>1. PICK g \in Objects : Equips(g)
    BY <1>11
  <2>2. UNCHANGED <<mInputListeners, mListener, contacts, slips, pc, invalid>>
    BY <2>1, EquipsKeeps DEF sceneVars, inputVars, passVars
  <2>3. /\ status' # "undefined"
        /\ \A n \in Names : animations'[n] = "dangling" => animations[n] = "dangling"
    BY <1>1, <2>1, EquipsTracks DEF Equips
  <2> QED BY <1>1, <2>2, <2>3 DEF CInv, UndefinedHasCause, AllThere
<1> QED BY <1>2, <1>3, <1>4, <1>5, <1>6, <1>7, <1>8, <1>9, <1>10, <1>11 DEF Quiet, NativeStep

LEMMA SceneKeepsCauses ==
    ASSUME Base, CInv, initializeScene
    PROVE  CInv'
<1>1. Store!Live \subseteq Store!Live' /\ animations' = animations /\ status' # "undefined"
  BY SceneEffect DEF Base, initializeScene
<1>2. UNCHANGED <<contacts, mInputListeners, slips>> /\ pc' \in {"scene", "input"}
  BY DEF initializeScene, inputVars, Native
<1>3. mListener' = mListener \/ mListener' \in Store!Live' \cup {NULL}
  <2>1. mObjects[Listener] \in Store!Live \cup {NULL}
    BY FrameAssumption DEF Base, SInv, MapHasLive
  <2> QED BY <1>1, <2>1 DEF initializeScene
<1> QED BY <1>1, <1>2, <1>3 DEF CInv, UndefinedHasCause, AllThere

LEMMA NewObjectKeepsCauses ==
    ASSUME Base, CInv, NEW g \in Objects, NEW n \in Names, NEW tag \in Tags,
           NEW hasScript \in BOOLEAN, newGameObject(n, tag, hasScript, g)
    PROVE  CInv'
<1>1. SInv /\ Store!createGameObject(n, tag, g)
      /\ UNCHANGED <<pc, mListener, contacts, mInputListeners, invalid, slips>>
  BY DEF Base, newGameObject, sceneVars, inputVars
<1>2. Store!Live \subseteq Store!Live' /\ status' # "undefined"
  BY <1>1, CreateEffect DEF SameObjects, Created
<1>3. animations' = animations
  BY <1>1 DEF Store!createGameObject
<1> QED BY <1>1, <1>2, <1>3, StillThere DEF CInv, UndefinedHasCause

LEMMA DestroyKeepsCauses ==
    ASSUME Base, PInv, CInv, NEW tag \in Tags, destroyObjectWithTag(tag)
    PROVE  CInv'
<1>1. SInv
  BY DEF Base
<1>2. PICK gone \in SUBSET Store!Live :
         /\ gone = Store!findObjectsByTag(tag)
         /\ Destroyed(gone) /\ status' = "running"
         /\ invalid' = (invalid \/ held \in gone)
         /\ slips' = slips \cup {use \in Uses : HeldFor[use] \cap gone # {}}
         /\ UNCHANGED <<pc, sceneVars, inputVars>>
  BY <1>1, DestroyStep
<1>3. Store!Live' = Store!Live \ gone /\ UNCHANGED <<pc, mListener, contacts, mInputListeners>>
  BY <1>2 DEF Destroyed, sceneVars, inputVars
<1>4. \A use \in Uses : use \notin slips' => use \notin slips /\ HeldFor[use] \cap gone = {}
  BY <1>2
<1>5. UndefinedHasCause'
  BY <1>2, <1>3 DEF CInv, UndefinedHasCause
<1>6. "listener" \notin slips' => ToSet(mInputListeners) \subseteq Store!Live'
  BY <1>3, <1>4, UsesHeld DEF CInv, AllThere, Uses
<1>7. "sound" \notin slips' => mListener \in Store!Live' \cup {NULL}
  BY <1>3, <1>4, UsesHeld DEF CInv, AllThere, Uses
<1>8. ASSUME "contact" \notin slips', contacts # <<>>
      PROVE  contacts \in Store!Live' \X Store!Live'
  <2>1. contacts \in Store!Live \X Store!Live /\ ToSet(contacts) \cap gone = {}
    BY <1>4, <1>8, UsesHeld DEF CInv, AllThere, Uses
  <2>2. DOMAIN contacts = {1, 2} /\ contacts = <<contacts[1], contacts[2]>>
    BY <2>1
  <2>3. contacts[1] \in ToSet(contacts) /\ contacts[2] \in ToSet(contacts)
    BY <2>2 DEF ToSet
  <2> QED BY <1>3, <2>1, <2>2, <2>3
<1>9. ASSUME "iterator" \notin slips', pc = "advance"
      PROVE  ~invalid'
  <2>1. ~invalid /\ HeldFor["iterator"] \cap gone = {}
    BY <1>4, <1>9 DEF CInv, AllThere, Uses
  <2>2. mObjects[cursor] \notin gone /\ mObjects[cursor] = held
    BY <1>9, <2>1, UsesHeld DEF PInv, IteratorHolds
  <2> QED BY <1>2, <2>1, <2>2
<1>10. ASSUME "animated" \notin slips', NEW n \in Names
       PROVE  animations'[n] # "dangling"
  <2>1. animations' = [m \in Names |->
            IF nodes[m] \in gone /\ animations[m] = "live" THEN "dangling" ELSE animations[m]]
    BY <1>2 DEF destroyObjectWithTag, Store!removeGameObjectByTag, Store!Release
  <2>2. animations[n] # "dangling" /\ \A g \in gone : ~object[g].mAnimation
    BY <1>4, <1>10, UsesHeld DEF CInv, AllThere, Uses
  <2>3. ASSUME nodes[n] \in gone, animations[n] = "live" PROVE FALSE
    <3>1. PICK g \in Store!Live : object[g].mName = n /\ object[g].mAnimation
      BY <1>1, <2>3 DEF SInv, AnimationKnown
    <3>2. nodes[n] = g
      BY <1>1, <3>1 DEF SInv, NodesAreNamed, MapHasLive
    <3> QED BY <2>2, <2>3, <3>1, <3>2
  <2> QED BY <2>1, <2>2, <2>3
<1> QED BY <1>3, <1>5, <1>6, <1>7, <1>8, <1>9, <1>10 DEF CInv, AllThere

\* Whatever the engine uses that is not there, a script destroyed while the engine
\* held on to it, the missing Ninja apart: for every number of objects, names and
\* calls, with no assumption on what scripts do.
THEOREM FrameUndefinedHasCause == Spec => []UndefinedHasCause
<1>1. Init => CInv
  <2>1. Init => /\ contacts = <<>> /\ mListener = NULL /\ pc = "init" /\ mInputListeners = <<>>
    BY DEF Init
  <2>2. Init => status = "running" /\ animations = [n \in Names |-> "none"]
    BY DEF Init, Store!Init
  <2>3. ToSet(<<>>) = {}
    BY DEF ToSet
  <2> QED BY <2>1, <2>2, <2>3 DEF CInv, UndefinedHasCause, AllThere
<1>2. Base /\ PInv /\ CInv /\ [Next]_vars => CInv'
  BY NextCases, QuietKeepsCauses, SceneKeepsCauses, NewObjectKeepsCauses, DestroyKeepsCauses
<1>3. CInv => UndefinedHasCause
  BY DEF CInv
<1> QED BY <1>1, <1>2, <1>3, BaseInvariant, PassInvariant, PTL DEF Spec
=============================================================================
